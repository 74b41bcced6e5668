------------------------------ MODULE Induction ------------------------------
(***************************************************************************)
(* Induction without predicates: the library's theorems on well-founded    *)
(* relations quantify over sets, and a set of numbers can stand for what   *)
(* is to be proved of each number.  From it, that a function defined by    *)
(* recursion along a sequence exists and is the only one.                  *)
(***************************************************************************)
EXTENDS Integers, SequencesExt, WellFoundedInduction, TLAPS

\* A set of numbers has a least element.
LEMMA LeastNumber ==
  ASSUME NEW T, T \subseteq Nat, T # {}
  PROVE  \E x \in T : \A y \in T : x <= y
<1> DEFINE R == {p \in Nat \X Nat : p[1] < p[2]}
<1>1. IsWellFoundedOn(R, Nat)
  <2>1. R = OpToRel(<, Nat)
    BY DEF OpToRel
  <2> QED BY <2>1, NatLessThanWellFounded
<1>2. PICK x \in T : \A y \in T : ~(<<y, x>> \in R)
  <2> HIDE DEF R
  <2> QED BY <1>1, WFMin
<1>3. ASSUME NEW y \in T PROVE x <= y
  <2>1. x \in Nat /\ y \in Nat
    OBVIOUS
  <2>2. <<y, x>> \in Nat \X Nat /\ <<y, x>>[1] = y /\ <<y, x>>[2] = x
    BY <2>1
  <2>3. ~(y < x)
    BY <1>2, <2>2
  <2> QED BY <2>1, <2>3
<1> QED BY <1>3

\* What holds of 0, and of n + 1 when it holds of n, holds of every number.
LEMMA NumberInduction ==
  ASSUME NEW T, T \subseteq Nat, 0 \in T, \A n \in T : n + 1 \in T
  PROVE  T = Nat
<1> SUFFICES ASSUME Nat \ T # {} PROVE FALSE
  OBVIOUS
<1>1. PICK x \in Nat \ T : \A y \in Nat \ T : x <= y
  <2>1. Nat \ T \subseteq Nat
    OBVIOUS
  <2> QED BY <2>1, LeastNumber
<1>2. x # 0 /\ x - 1 \in Nat
  OBVIOUS
<1>3. x - 1 \in T
  BY <1>1, <1>2
<1> QED BY <1>1, <1>2, <1>3

\* t starts with first, and step[i] leads from its value at i - 1 to that at i.
Along(t, n, first, step) == t[0] = first /\ \A i \in 1 .. n : t[i] = step[i][t[i - 1]]

\* A function on 0 .. n from its first value and the step to the next.
LEMMA RecursionAlong ==
  ASSUME NEW n \in Nat, NEW S, NEW first \in S, NEW step \in [1 .. n -> [S -> S]]
  PROVE  \E t \in [0 .. n -> S] : Along(t, n, first, step)
<1> DEFINE Good(k, t) == Along(t, k, first, step)
           Exists(k) == \E t \in [0 .. k -> S] : Good(k, t)
           T == {k \in Nat : k <= n => Exists(k)}
<1> USE DEF Along
<1>1. 0 \in T
  <2>1. [i \in 0 .. 0 |-> first] \in [0 .. 0 -> S] /\ Good(0, [i \in 0 .. 0 |-> first])
    OBVIOUS
  <2> QED BY <2>1
<1>2. ASSUME NEW k \in T PROVE k + 1 \in T
  <2>0. k \in Nat /\ k + 1 \in Nat /\ (k + 1 <= n => Exists(k))
    <3> HIDE DEF Exists
    <3> QED OBVIOUS
  <2> SUFFICES ASSUME k + 1 <= n PROVE Exists(k + 1)
    <3> HIDE DEF Exists
    <3> QED BY <2>0
  <2>1. PICK t \in [0 .. k -> S] : Good(k, t)
    BY <2>0
  <2> DEFINE u == [i \in 0 .. k + 1 |-> IF i <= k THEN t[i] ELSE step[k + 1][t[k]]]
  <2>2. k \in Nat /\ k \in 0 .. k /\ k + 1 \in 1 .. n /\ step[k + 1][t[k]] \in S
    BY <2>0
  <2>3. u \in [0 .. k + 1 -> S]
    BY <2>2
  <2>4. u[0] = first
    BY <2>1, <2>2
  <2>5. ASSUME NEW i \in 1 .. k + 1 PROVE u[i] = step[i][u[i - 1]]
    <3>1. CASE i <= k
      <4>1. i \in 1 .. k /\ i \in 0 .. k + 1 /\ i - 1 \in 0 .. k + 1 /\ i - 1 <= k
        BY <2>2, <3>1
      <4>2. u[i] = t[i] /\ u[i - 1] = t[i - 1] /\ t[i] = step[i][t[i - 1]]
        BY <2>1, <3>1, <4>1
      <4> QED BY <4>2
    <3>2. CASE ~(i <= k)
      <4>1. i = k + 1 /\ i - 1 = k /\ k \in 0 .. k + 1 /\ k + 1 \in 0 .. k + 1 /\ ~(k + 1 <= k)
        BY <2>2, <3>2
      <4>2. u[k + 1] = step[k + 1][t[k]] /\ u[k] = t[k]
        BY <2>2, <4>1
      <4> QED BY <4>1, <4>2
    <3> QED BY <3>1, <3>2
  <2> QED BY <2>3, <2>4, <2>5
<1>3. T = Nat
  <2>1. T \subseteq Nat
    OBVIOUS
  <2> HIDE DEF T
  <2> QED BY <1>1, <1>2, <2>1, NumberInduction
<1> QED BY <1>3

\* f is base from n on, and before n what step makes of its value further on.
Ahead(f, n, base, next, step) ==
  \A q \in Nat : f[q] = IF q < n THEN step[q][f[next[q]]] ELSE base
Forward(next, n) == \A q \in Nat : q < n => q < next[q]

\* A loop that moves forward and ends at n has a result, from wherever it starts.
LEMMA RecursionAhead ==
  ASSUME NEW n \in Nat, NEW S, NEW base \in S, NEW step \in [Nat -> [S -> S]],
         NEW next \in [Nat -> Nat], Forward(next, n)
  PROVE  \E f \in [Nat -> S] : Ahead(f, n, base, next, step)
<1> DEFINE Good(k, f) == \A q \in Nat : q + k >= n =>
                           f[q] = IF q < n THEN step[q][f[next[q]]] ELSE base
           Exists(k) == \E f \in [Nat -> S] : Good(k, f)
           T == {k \in Nat : k <= n => Exists(k)}
<1>1. 0 \in T
  <2> DEFINE f == [q \in Nat |-> base]
  <2>1. f \in [Nat -> S] /\ Good(0, f)
    OBVIOUS
  <2> QED BY <2>1
<1>2. ASSUME NEW k \in T PROVE k + 1 \in T
  <2>0. k \in Nat /\ k + 1 \in Nat /\ (k + 1 <= n => Exists(k))
    <3> HIDE DEF Exists
    <3> QED OBVIOUS
  <2> SUFFICES ASSUME k + 1 <= n PROVE Exists(k + 1)
    <3> HIDE DEF Exists
    <3> QED BY <2>0
  <2>1. PICK f \in [Nat -> S] : Good(k, f)
    BY <2>0
  <2>2. PICK z \in Nat : z + (k + 1) = n
    <3>1. n - (k + 1) \in Nat /\ (n - (k + 1)) + (k + 1) = n
      BY <2>0
    <3> QED BY <3>1
  <2> DEFINE g == [q \in Nat |-> IF q = z THEN step[z][f[next[z]]] ELSE f[q]]
  <2>3. step[z][f[next[z]]] \in S
    OBVIOUS
  <2>4. g \in [Nat -> S]
    BY <2>3
  <2>5. ASSUME NEW q \in Nat, q + (k + 1) >= n
        PROVE  g[q] = IF q < n THEN step[q][g[next[q]]] ELSE base
    <3>1. CASE q = z
      <4>1. z < n /\ next[z] \in Nat /\ next[z] # z
        BY <2>0, <2>2 DEF Forward
      <4>2. g[z] = step[z][f[next[z]]] /\ g[next[z]] = f[next[z]]
        BY <4>1
      <4> QED BY <3>1, <4>1, <4>2
    <3>2. CASE q # z
      <4>1. q > z /\ q + k >= n
        BY <2>0, <2>2, <2>5, <3>2
      <4>2. f[q] = IF q < n THEN step[q][f[next[q]]] ELSE base
        BY <2>1, <4>1
      <4>3. q < n => next[q] \in Nat /\ next[q] # z
        BY <2>2, <4>1 DEF Forward
      <4>4. g[q] = f[q] /\ (q < n => g[next[q]] = f[next[q]])
        BY <3>2, <4>3
      <4> QED BY <4>2, <4>4
    <3> QED BY <3>1, <3>2
  <2> QED BY <2>4, <2>5
<1>3. T = Nat
  <2>1. T \subseteq Nat
    OBVIOUS
  <2> HIDE DEF T
  <2> QED BY <1>1, <1>2, <2>1, NumberInduction
<1>4. PICK f \in [Nat -> S] : Good(n, f)
  <2>1. n \in T /\ n <= n
    <3> HIDE DEF T
    <3> QED BY <1>3
  <2> HIDE DEF Good
  <2> QED BY <2>1
<1>5. Ahead(f, n, base, next, step)
  BY <1>4 DEF Ahead
<1> QED BY <1>4, <1>5

\* What holds of n, and of i - 1 when it holds of i, holds from n down to 0.
LEMMA Backwards ==
  ASSUME NEW n \in Nat, NEW T, n \in T, \A i \in 1 .. n : i \in T => i - 1 \in T
  PROVE  \A i \in 0 .. n : i \in T
<1> DEFINE U == {k \in Nat : k <= n => n - k \in T}
<1>1. 0 \in U
  OBVIOUS
<1>2. ASSUME NEW k \in U PROVE k + 1 \in U
  <2> SUFFICES ASSUME k + 1 <= n PROVE n - (k + 1) \in T
    OBVIOUS
  <2>1. n - k \in 1 .. n /\ n - k \in T /\ n - (k + 1) = (n - k) - 1
    OBVIOUS
  <2> QED BY <2>1
<1>3. U = Nat
  <2>1. U \subseteq Nat
    OBVIOUS
  <2> HIDE DEF U
  <2> QED BY <1>1, <1>2, <2>1, NumberInduction
<1>4. ASSUME NEW i \in 0 .. n PROVE i \in T
  <2>1. n - i \in Nat /\ n - i <= n /\ n - (n - i) = i
    OBVIOUS
  <2>2. n - i \in U
    BY <1>3, <2>1
  <2> QED BY <2>1, <2>2
<1> QED BY <1>4

\* Where t and u agree before a step they agree behind it.
SameSteps(t, u, n) ==
  t[0] = u[0] /\ \A i \in 1 .. n : t[i - 1] = u[i - 1] => t[i] = u[i]

\* Two functions with the same first value and the same steps are the same.
LEMMA RecursionUnique ==
  ASSUME NEW n \in Nat, NEW t, NEW u, SameSteps(t, u, n)
  PROVE  \A k \in 0 .. n : t[k] = u[k]
<1> USE DEF SameSteps
<1> DEFINE T == {k \in Nat : k <= n => t[k] = u[k]}
<1>1. 0 \in T
  OBVIOUS
<1>2. ASSUME NEW k \in T PROVE k + 1 \in T
  <2> SUFFICES ASSUME k + 1 <= n PROVE t[k + 1] = u[k + 1]
    OBVIOUS
  <2>1. k + 1 \in 1 .. n /\ (k + 1) - 1 = k /\ t[k] = u[k]
    OBVIOUS
  <2> QED BY <2>1
<1>3. T = Nat
  <2>1. T \subseteq Nat
    OBVIOUS
  <2> HIDE DEF T
  <2> QED BY <1>1, <1>2, <2>1, NumberInduction
<1> QED BY <1>3

-----------------------------------------------------------------------------
(* Sequences put one behind the other.                                      *)

\* s stands in b behind its first p items.
Lies(b, p, s) == \A j \in 1 .. Len(s) : b[p + j] = s[j]

\* r is the sequences of q in their order, and the i-th ends at c[i].
Joins(q, c, r) ==
  /\ c \in [0 .. Len(q) -> Nat] /\ c[0] = 0 /\ c[Len(q)] = Len(r)
  /\ \A i \in 1 .. Len(q) :
       c[i] = c[i - 1] + Len(q[i]) /\ c[i] <= Len(r) /\ Lies(r, c[i - 1], q[i])

\* u[i] is the first i sequences of q.
Grows(u, q) == u[0] = <<>> /\ \A i \in 1 .. Len(q) : u[i] = u[i - 1] \o q[i]

LEMMA LiesParts ==
  ASSUME NEW S, NEW x \in Seq(S), NEW y \in Seq(S), NEW b, NEW p \in Nat, Lies(b, p, x \o y)
  PROVE  Lies(b, p, x) /\ Lies(b, p + Len(x), y) /\ Len(x \o y) = Len(x) + Len(y)
<1>1. /\ Len(x \o y) = Len(x) + Len(y) /\ Len(x) \in Nat /\ Len(y) \in Nat
      /\ \A i \in 1 .. Len(x) : (x \o y)[i] = x[i]
      /\ \A i \in 1 .. Len(y) : (x \o y)[Len(x) + i] = y[i]
  OBVIOUS
<1>2. ASSUME NEW j \in 1 .. Len(x) PROVE b[p + j] = x[j]
  <2>1. j \in 1 .. Len(x \o y)
    BY <1>1
  <2> QED BY <1>1, <2>1 DEF Lies
<1>3. ASSUME NEW j \in 1 .. Len(y) PROVE b[(p + Len(x)) + j] = y[j]
  <2>1. Len(x) + j \in 1 .. Len(x \o y) /\ (p + Len(x)) + j = p + (Len(x) + j)
    BY <1>1
  <2> QED BY <1>1, <2>1 DEF Lies
<1> QED BY <1>1, <1>2, <1>3 DEF Lies

LEMMA LiesLonger ==
  ASSUME NEW S, NEW r \in Seq(S), NEW s \in Seq(S), NEW p \in Nat, NEW x \in Seq(S)
  PROVE  /\ p + Len(s) <= Len(r) /\ Lies(r, p, s) => Lies(r \o x, p, s)
         /\ Lies(r \o x, Len(r), x)
         /\ r \o x \in Seq(S) /\ Len(r \o x) = Len(r) + Len(x)
<1>1. /\ r \o x \in Seq(S) /\ Len(r \o x) = Len(r) + Len(x)
      /\ Len(r) \in Nat /\ Len(x) \in Nat /\ Len(s) \in Nat
      /\ \A i \in 1 .. Len(r) : (r \o x)[i] = r[i]
      /\ \A i \in 1 .. Len(x) : (r \o x)[Len(r) + i] = x[i]
  OBVIOUS
<1>2. ASSUME p + Len(s) <= Len(r), NEW j \in 1 .. Len(s) PROVE p + j \in 1 .. Len(r)
  BY <1>1, <1>2
<1> QED BY <1>1, <1>2 DEF Lies

\* What lies in r lies, further on, where r lies.
LEMMA LiesWithin ==
  ASSUME NEW S, NEW r \in Seq(S), NEW s \in Seq(S), NEW b, NEW p \in Nat, NEW k \in Nat,
         Lies(b, p, r), Lies(r, k, s), k + Len(s) <= Len(r)
  PROVE  Lies(b, p + k, s)
<1>1. ASSUME NEW j \in 1 .. Len(s) PROVE b[(p + k) + j] = s[j]
  <2>1. k + j \in 1 .. Len(r) /\ (p + k) + j = p + (k + j)
    OBVIOUS
  <2>2. b[p + (k + j)] = r[k + j] /\ r[k + j] = s[j]
    BY <2>1 DEF Lies
  <2> QED BY <2>1, <2>2
<1> QED BY <1>1 DEF Lies

\* s stands in b as far as b goes.
LiesTo(b, p, s) == \A j \in 1 .. Len(s) : p + j <= Len(b) => b[p + j] = s[j]

LEMMA LiesInPart ==
  ASSUME NEW S, NEW r \in Seq(S), NEW s \in Seq(S), NEW b \in Seq(S), NEW p \in Nat, NEW k \in Nat,
         LiesTo(b, p, r), Lies(r, k, s), k + Len(s) <= Len(r), p + k + Len(s) <= Len(b)
  PROVE  Lies(b, p + k, s)
<1>1. ASSUME NEW j \in 1 .. Len(s) PROVE b[(p + k) + j] = s[j]
  <2>1. k + j \in 1 .. Len(r) /\ (p + k) + j = p + (k + j) /\ p + (k + j) <= Len(b)
    OBVIOUS
  <2>2. b[p + (k + j)] = r[k + j] /\ r[k + j] = s[j]
    BY <2>1 DEF Lies, LiesTo
  <2> QED BY <2>1, <2>2
<1> QED BY <1>1 DEF Lies

LEMMA LiesToWithin ==
  ASSUME NEW S, NEW r \in Seq(S), NEW s \in Seq(S), NEW b, NEW p \in Nat, NEW k \in Nat,
         LiesTo(b, p, r), Lies(r, k, s), k + Len(s) <= Len(r)
  PROVE  LiesTo(b, p + k, s)
<1>1. ASSUME NEW j \in 1 .. Len(s), (p + k) + j <= Len(b) PROVE b[(p + k) + j] = s[j]
  <2>1. k + j \in 1 .. Len(r) /\ (p + k) + j = p + (k + j)
    OBVIOUS
  <2>2. b[p + (k + j)] = r[k + j] /\ r[k + j] = s[j]
    BY <1>1, <2>1 DEF Lies, LiesTo
  <2> QED BY <2>1, <2>2
<1> QED BY <1>1 DEF LiesTo

\* Three sequences behind one another.
Three(S, r, x, y, z) ==
  /\ r \in Seq(S) /\ Len(r) = Len(x) + Len(y) + Len(z)
  /\ Lies(r, 0, x) /\ Lies(r, Len(x), y) /\ Lies(r, Len(x) + Len(y), z)

LEMMA LiesThree ==
  ASSUME NEW S, NEW x \in Seq(S), NEW y \in Seq(S), NEW z \in Seq(S)
  PROVE  Three(S, x \o y \o z, x, y, z)
<1> DEFINE a == x \o y
           r == a \o z
<1>0. \A u, w \in Seq(S) : u \o w \in Seq(S) /\ Len(u \o w) = Len(u) + Len(w) /\ Len(u) \in Nat
  OBVIOUS
<1>1. a \in Seq(S) /\ Len(a) = Len(x) + Len(y) /\ Len(x) \in Nat /\ Len(y) \in Nat
  BY <1>0
<1>2. r \in Seq(S) /\ Len(r) = Len(a) + Len(z) /\ Lies(r, 0, r) /\ 0 \in Nat
  <2> HIDE DEF a
  <2>1. r \in Seq(S) /\ Len(r) = Len(a) + Len(z)
    BY <1>0, <1>1
  <2> HIDE DEF r
  <2>2. Lies(r, 0, r)
    BY DEF Lies
  <2> QED BY <2>1, <2>2
<1>3. Lies(r, 0, a) /\ Lies(r, 0 + Len(a), z)
  <2>1. Lies(r, 0, a \o z)
    BY <1>2
  <2> HIDE DEF a, r
  <2> QED BY <1>1, <1>2, <2>1, LiesParts
<1>4. Lies(r, 0, x) /\ Lies(r, 0 + Len(x), y)
  <2>1. Lies(r, 0, x \o y)
    BY <1>3
  <2> HIDE DEF a, r
  <2> QED BY <1>2, <2>1, LiesParts
<1>5. 0 + Len(a) = Len(x) + Len(y) /\ 0 + Len(x) = Len(x)
  <2> HIDE DEF a
  <2> QED BY <1>1
<1>6. Three(S, r, x, y, z)
  <2> HIDE DEF a, r
  <2> QED BY <1>1, <1>2, <1>3, <1>4, <1>5 DEF Three
<1> QED BY <1>6

LEMMA Joined ==
  ASSUME NEW S, NEW q \in Seq(Seq(S)), NEW u, Grows(u, q)
  PROVE  /\ u[Len(q)] \in Seq(S)
         /\ \E c : Joins(q, c, u[Len(q)])
<1> DEFINE n == Len(q)
           Placed(k) == \A i \in 1 .. k : /\ Len(u[i]) = Len(u[i - 1]) + Len(q[i])
                                          /\ Len(u[i]) <= Len(u[k])
                                          /\ Len(u[i]) \in Nat /\ Len(u[i - 1]) \in Nat
                                          /\ Lies(u[k], Len(u[i - 1]), q[i])
           T == {k \in Nat : k <= n => u[k] \in Seq(S) /\ Placed(k)}
<1>0. n \in Nat /\ \A i \in 1 .. n : q[i] \in Seq(S)
  OBVIOUS
<1>1. 0 \in T
  <2>1. u[0] \in Seq(S) /\ Placed(0)
    BY DEF Grows
  <2> HIDE DEF Placed
  <2> QED BY <2>1
<1>2. ASSUME NEW k \in T PROVE k + 1 \in T
  <2>0. k \in Nat /\ k + 1 \in Nat /\ (k + 1 <= n => u[k] \in Seq(S) /\ Placed(k))
    <3> HIDE DEF Placed, n
    <3> QED BY <1>0
  <2> SUFFICES ASSUME k + 1 <= n PROVE u[k + 1] \in Seq(S) /\ Placed(k + 1)
    <3> HIDE DEF Placed, n
    <3> QED BY <2>0
  <2> DEFINE r == u[k]
             x == q[k + 1]
  <2>1. r \in Seq(S) /\ Placed(k) /\ x \in Seq(S) /\ u[k + 1] = r \o x
    <3>1. k + 1 \in 1 .. n /\ (k + 1) - 1 = k
      BY <1>0, <2>0
    <3> QED BY <1>0, <2>0, <3>1 DEF Grows
  <2>2. /\ u[k + 1] \in Seq(S) /\ Len(u[k + 1]) = Len(u[k]) + Len(x)
        /\ Lies(u[k + 1], Len(u[k]), x)
        /\ Len(u[k]) \in Nat /\ Len(x) \in Nat /\ Len(u[k + 1]) \in Nat
        /\ Len(u[k]) <= Len(u[k + 1]) /\ Len(u[k + 1]) <= Len(u[k + 1])
    <3>1. /\ u[k + 1] \in Seq(S) /\ Len(u[k + 1]) = Len(u[k]) + Len(x)
          /\ Lies(u[k + 1], Len(u[k]), x)
      BY <2>1, LiesLonger
    <3>2. Len(u[k]) \in Nat /\ Len(x) \in Nat
      BY <2>1
    <3> HIDE DEF r, x, Placed, T
    <3> QED BY <3>1, <3>2
  <2>3. ASSUME NEW i \in 1 .. k + 1
        PROVE  /\ Len(u[i]) = Len(u[i - 1]) + Len(q[i])
               /\ Len(u[i]) <= Len(u[k + 1])
               /\ Len(u[i]) \in Nat /\ Len(u[i - 1]) \in Nat
               /\ Lies(u[k + 1], Len(u[i - 1]), q[i])
    <3>1. CASE i = k + 1
      <4>1. i - 1 = k
        BY <2>0, <3>1
      <4> HIDE DEF Placed
      <4> QED BY <2>2, <3>1, <4>1
    <3>2. CASE i # k + 1
      <4>1. i \in 1 .. k /\ q[i] \in Seq(S)
        BY <1>0, <2>0, <3>2
      <4>2. /\ Len(u[i]) = Len(u[i - 1]) + Len(q[i]) /\ Len(u[i]) <= Len(r)
            /\ Len(u[i]) \in Nat /\ Len(u[i - 1]) \in Nat
            /\ Lies(r, Len(u[i - 1]), q[i])
        BY <2>1, <4>1
      <4> DEFINE p == Len(u[i - 1])
                 s == q[i]
      <4>3. p \in Nat /\ s \in Seq(S) /\ p + Len(s) <= Len(r) /\ Lies(r, p, s)
        BY <4>1, <4>2
      <4>4. Lies(r \o x, p, s)
        <5> HIDE DEF p, s, r, x
        <5> QED BY <2>1, <4>3, LiesLonger
      <4>5. Lies(u[k + 1], Len(u[i - 1]), q[i])
        BY <2>1, <4>4
      <4>6. Len(u[i]) <= Len(u[k + 1])
        <5>1. Len(u[i]) <= Len(u[k])
          BY <4>2
        <5>2. \A a, b, d \in Nat : a <= b /\ b <= d => a <= d
          OBVIOUS
        <5>3. Len(u[i]) \in Nat /\ Len(u[k]) \in Nat /\ Len(u[k + 1]) \in Nat
          BY <2>2, <4>2
        <5>4. Len(u[k]) <= Len(u[k + 1])
          BY <2>2
        <5> HIDE DEF r, x, p, s, Placed, T, n
        <5> QED BY ONLY <5>1, <5>2, <5>3, <5>4
      <4> QED BY <4>2, <4>5, <4>6
    <3> QED BY <3>1, <3>2
  <2> QED BY <2>2, <2>3
<1>3. T = Nat
  <2>1. T \subseteq Nat
    OBVIOUS
  <2> HIDE DEF T
  <2> QED BY <1>1, <1>2, <2>1, NumberInduction
<1>4. u[n] \in Seq(S) /\ Placed(n)
  <2> HIDE DEF Placed, n
  <2> QED BY <1>0, <1>3
<1> DEFINE c == [i \in 0 .. n |-> Len(u[i])]
<1>5. Joins(q, c, u[n])
  <2>1. c[0] = 0 /\ c[n] = Len(u[n])
    BY <1>0 DEF Grows
  <2>2. ASSUME NEW i \in 0 .. n PROVE Len(u[i]) \in Nat
    <3>1. CASE i = 0
      BY <3>1 DEF Grows
    <3>2. CASE i # 0
      BY <1>0, <1>4, <3>2
    <3> QED BY <3>1, <3>2
  <2>3. c \in [0 .. n -> Nat]
    BY <2>2
  <2>4. ASSUME NEW i \in 1 .. n PROVE c[i] = Len(u[i]) /\ c[i - 1] = Len(u[i - 1])
    BY <1>0
  <2> HIDE DEF c
  <2> QED BY <1>4, <2>1, <2>3, <2>4 DEF Joins
<1> QED BY <1>4, <1>5

\* The prefixes of q, put together, for any q.
LEMMA Growth ==
  ASSUME NEW S, NEW q \in Seq(Seq(S))
  PROVE  \E u \in [0 .. Len(q) -> Seq(S)] : Grows(u, q)
<1> DEFINE n == Len(q)
           step == [i \in 1 .. n |-> [x \in Seq(S) |-> x \o q[i]]]
<1>1. n \in Nat /\ <<>> \in Seq(S)
  OBVIOUS
<1>2. \A i \in 1 .. n : q[i] \in Seq(S)
  OBVIOUS
<1>3. step \in [1 .. n -> [Seq(S) -> Seq(S)]]
  <2>1. ASSUME NEW x \in Seq(S), NEW y \in Seq(S) PROVE x \o y \in Seq(S)
    OBVIOUS
  <2> HIDE DEF n
  <2> QED BY <1>2, <2>1
<1>4. PICK u \in [0 .. n -> Seq(S)] : Along(u, n, <<>>, step)
  <2> DEFINE Z == Seq(S)
  <2> HIDE DEF step, n, Z
  <2>1. n \in Nat /\ <<>> \in Z /\ step \in [1 .. n -> [Z -> Z]]
    BY <1>1, <1>3 DEF Z
  <2>2. \E u \in [0 .. n -> Z] : Along(u, n, <<>>, step)
    BY <2>1, RecursionAlong
  <2> QED BY <2>2 DEF Z
<1>5. ASSUME NEW i \in 1 .. n PROVE u[i] = u[i - 1] \o q[i]
  <2>1. i - 1 \in 0 .. n /\ u[i] = step[i][u[i - 1]]
    <3> HIDE DEF n, step
    <3> QED BY <1>1, <1>4 DEF Along
  <2>2. u[i - 1] \in Seq(S)
    <3> HIDE DEF n, step
    <3> QED BY <1>4, <2>1
  <2> HIDE DEF n
  <2> QED BY <2>1, <2>2
<1>6. Grows(u, q)
  <2> HIDE DEF step
  <2> QED BY <1>4, <1>5 DEF Along, Grows
<1>7. u \in [0 .. Len(q) -> Seq(S)]
  BY <1>4
<1> HIDE DEF n, step
<1> QED BY <1>6, <1>7

\* FlattenSeq puts the parts behind each other.
LEMMA Flattened ==
  ASSUME NEW S, NEW q \in Seq(Seq(S))
  PROVE  FlattenSeq(q) \in Seq(S) /\ \E c : Joins(q, c, FlattenSeq(q))
<1> DEFINE n == Len(q)
           Is(g) == g = [i \in 1 .. n |-> IF i = 1 THEN q[i] ELSE g[i - 1] \o q[i]]
           f == CHOOSE g : Is(g)
<1>0. n \in Nat /\ \A i \in 1 .. n : q[i] \in Seq(S)
  OBVIOUS
<1>1. PICK u \in [0 .. n -> Seq(S)] : Grows(u, q)
  BY Growth
<1>j. u[n] \in Seq(S) /\ \E c : Joins(q, c, u[n])
  BY <1>1, Joined
<1>2. CASE n = 0
  <2>1. FlattenSeq(q) = q /\ q = <<>>
    BY <1>2 DEF FlattenSeq
  <2>2. u[n] = <<>>
    BY <1>1, <1>2 DEF Grows
  <2> QED BY <1>j, <2>1, <2>2
<1>3. CASE n # 0
  <2>1. FlattenSeq(q) = f[n]
    BY <1>3 DEF FlattenSeq
  <2>2. \A i \in 1 .. n : u[i] = IF i = 1 THEN q[i] ELSE u[i - 1] \o q[i]
    <3> SUFFICES ASSUME NEW i \in 1 .. n PROVE u[i] = IF i = 1 THEN q[i] ELSE u[i - 1] \o q[i]
      OBVIOUS
    <3>1. u[i] = u[i - 1] \o q[i] /\ q[i] \in Seq(S)
      BY <1>0, <1>1 DEF Grows
    <3>2. i = 1 => u[i] = <<>> \o q[i]
      <4>1. u[0] = <<>>
        BY <1>1 DEF Grows
      <4>2. i = 1 => i - 1 = 0
        OBVIOUS
      <4> HIDE DEF n
      <4> QED BY <3>1, <4>1, <4>2
    <3>3. <<>> \o q[i] = q[i]
      BY <3>1
    <3> QED BY <3>1, <3>2, <3>3
  <2>3. Is([i \in 1 .. n |-> u[i]])
    <3> DEFINE g == [i \in 1 .. n |-> u[i]]
    <3>1. ASSUME NEW i \in 1 .. n PROVE g[i] = IF i = 1 THEN q[i] ELSE g[i - 1] \o q[i]
      <4>1. i # 1 => i - 1 \in 1 .. n
        BY <1>0
      <4> QED BY <2>2, <4>1
    <3> QED BY <3>1
  <2>4. Is(f)
    <3> HIDE DEF Is
    <3> QED BY <2>3
  <2> DEFINE t == [i \in 0 .. n |-> IF i = 0 THEN <<>> ELSE f[i]]
  <2>5. Grows(t, q)
    <3>1. t[0] = <<>>
      BY <1>0
    <3>2. ASSUME NEW i \in 1 .. n PROVE t[i] = t[i - 1] \o q[i]
      <4>1. f[i] = IF i = 1 THEN q[i] ELSE f[i - 1] \o q[i]
        BY <2>4
      <4>2. t[i] = f[i] /\ t[i - 1] = IF i = 1 THEN <<>> ELSE f[i - 1]
        BY <1>0
      <4>3. <<>> \o q[i] = q[i]
        BY <1>0
      <4> QED BY <4>1, <4>2, <4>3
    <3> QED BY <3>1, <3>2 DEF Grows
  <2>6. t[n] = f[n]
    BY <1>0, <1>3
  <2> HIDE DEF t, f, n
  <2>7. t[n] = u[n]
    <3>1. Grows(u, q) /\ Grows(t, q)
      BY <1>1, <2>5
    <3>2. SameSteps(t, u, n) /\ n \in Nat
      BY <1>0, <3>1 DEF SameSteps, Grows, n
    <3>3. \A k \in 0 .. n : t[k] = u[k]
      BY ONLY <3>2, RecursionUnique
    <3> QED BY <3>2, <3>3
  <2> QED BY <1>j, <2>1, <2>6, <2>7
<1> QED BY <1>2, <1>3

=============================================================================
