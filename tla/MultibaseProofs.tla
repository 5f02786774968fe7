-------------------------- MODULE MultibaseProofs --------------------------
(***************************************************************************)
(* Proofs about Multibase for byte sequences of any length and content:    *)
(* what either encoding writes, it reads back.                             *)
(*                                                                         *)
(* Number and Numeral are recursive.  That a set holds every number        *)
(* follows from the least one it would miss, that a recursive function is  *)
(* what its equations say from the functions that satisfy them up to a     *)
(* size, and the arithmetic from induction on lengths and numbers.         *)
(***************************************************************************)
EXTENDS Multibase, SequenceTheorems, WellFoundedInduction, TLAPS

-----------------------------------------------------------------------------
(* Induction and recursion *)

\* A set of natural numbers that is not empty has a least element.
LEMMA Least ==
  ASSUME NEW T, T \subseteq Nat, T # {}
  PROVE  \E n \in T : \A m \in T : n <= m
<1>. DEFINE R == OpToRel(<,Nat)
<1>1. IsWellFoundedOn(R, Nat)
  BY NatLessThanWellFounded
<1>2. \A m, n \in Nat : <<m, n>> \in R <=> m < n
  BY DEF OpToRel
<1>. HIDE DEF R
<1>3. PICK n \in T : \A m \in T : <<m, n>> \notin R
  BY <1>1, WFMin
<1>4. \A m \in T : ~(m < n)
  BY <1>2, <1>3
<1>5. QED
  BY <1>4

\* Induction, and with all smaller numbers as hypothesis, for the set of the numbers
\* a property holds of.
LEMMA Induction ==
  ASSUME NEW S, 0 \in S, \A n \in Nat : n \in S => n + 1 \in S
  PROVE  Nat \subseteq S
<1>. SUFFICES ASSUME ~(Nat \subseteq S) PROVE FALSE
  OBVIOUS
<1>1. PICK n \in Nat \ S : \A m \in Nat \ S : n <= m
  BY Least
<1>2. n # 0 /\ n - 1 \in Nat
  BY <1>1
<1>3. n - 1 \in S
  BY <1>1, <1>2
<1>4. QED
  BY <1>1, <1>2, <1>3

LEMMA StrongInduction ==
  ASSUME NEW S, \A n \in Nat : (\A m \in Nat : m < n => m \in S) => n \in S
  PROVE  Nat \subseteq S
<1>. SUFFICES ASSUME ~(Nat \subseteq S) PROVE FALSE
  OBVIOUS
<1>1. PICK n \in Nat \ S : \A m \in Nat \ S : n <= m
  BY Least
<1>2. \A m \in Nat : m < n => m \in S
  BY <1>1
<1>3. QED
  BY <1>1, <1>2

\* A recursion on D that gets smaller from x to prev[x]; what it asks of a function,
\* for every argument or for those up to a size.
Descends(D, size, prev) ==
  /\ size \in [D -> Nat]
  /\ prev \in [D -> D]
  /\ \A x \in D : size[x] > 0 => size[prev[x]] < size[x]

Solves(f, D, size, prev, step, start) ==
  \A x \in D : f[x] = IF size[x] = 0 THEN start ELSE step[x][f[prev[x]]]

Follows(f, D, size, prev, step, start, n) ==
  \A x \in D : size[x] <= n =>
    f[x] = IF size[x] = 0 THEN start ELSE step[x][f[prev[x]]]

\* For every size some function solves the recursion up to that size,
LEMMA Approximation ==
  ASSUME NEW D, NEW size, NEW prev, Descends(D, size, prev),
         NEW R, NEW step \in [D -> [R -> R]], NEW start \in R,
         NEW n \in Nat
  PROVE  \E f \in [D -> R] : Follows(f, D, size, prev, step, start, n)
<1>d. /\ size \in [D -> Nat] /\ prev \in [D -> D]
      /\ \A y \in D : size[y] > 0 => size[prev[y]] < size[y]
  BY DEF Descends
<1>. USE <1>d
<1>. DEFINE Has(m) == \E f \in [D -> R] : Follows(f, D, size, prev, step, start, m)
            S == {m \in Nat : Has(m)}
<1>1. 0 \in S
  <2>1. [x \in D |-> start] \in [D -> R]
    OBVIOUS
  <2>2. Follows([x \in D |-> start], D, size, prev, step, start, 0)
    BY DEF Follows
  <2>3. Has(0)
    BY <2>1, <2>2
  <2>4. QED
    BY <2>3
<1>2. ASSUME NEW m \in Nat, m \in S PROVE m + 1 \in S
  <2>1. PICK f \in [D -> R] : Follows(f, D, size, prev, step, start, m)
    BY <1>2
  <2>. DEFINE g == [x \in D |-> IF size[x] <= m THEN f[x] ELSE step[x][f[prev[x]]]]
  <2>2. \A x \in D : step[x][f[prev[x]]] \in R
    OBVIOUS
  <2>3. g \in [D -> R]
    BY <2>2
  <2>d. \A y \in D : g[y] = IF size[y] <= m THEN f[y] ELSE step[y][f[prev[y]]]
    OBVIOUS
  <2>4. ASSUME NEW x \in D, size[x] <= m + 1
        PROVE  g[x] = IF size[x] = 0 THEN start ELSE step[x][g[prev[x]]]
    <3>1. size[x] > 0 => g[prev[x]] = f[prev[x]]
      <4>1. size[x] > 0 => prev[x] \in D /\ size[prev[x]] <= m
        BY <2>4
      <4>2. QED
        BY <2>d, <4>1
    <3>2. size[x] \in Nat
      OBVIOUS
    <3>3. size[x] <= m => f[x] = IF size[x] = 0 THEN start ELSE step[x][f[prev[x]]]
      BY <2>1 DEF Follows
    <3>4. ~(size[x] <= m) => size[x] > 0
      BY <3>2
    <3>. HIDE DEF g
    <3>5. QED
      BY <2>d, <3>1, <3>2, <3>3, <3>4
  <2>5. Follows(g, D, size, prev, step, start, m + 1)
    BY <2>4 DEF Follows
  <2>6. Has(m + 1)
    BY <2>3, <2>5
  <2>. QED
    BY <2>6
<1>. HIDE DEF S
<1>3. Nat \subseteq S
  BY <1>1, <1>2, Induction
<1>. QED
  BY <1>3 DEF S

\* any two that do agree where both do,
LEMMA Agreement ==
  ASSUME NEW D, NEW size, NEW prev, Descends(D, size, prev),
         NEW R, NEW step \in [D -> [R -> R]], NEW start \in R,
         NEW f, NEW g, NEW m \in Nat, NEW n \in Nat,
         Follows(f, D, size, prev, step, start, m), Follows(g, D, size, prev, step, start, n),
         NEW x \in D, size[x] <= m, size[x] <= n
  PROVE  f[x] = g[x]
<1>d. /\ size \in [D -> Nat] /\ prev \in [D -> D]
      /\ \A y \in D : size[y] > 0 => size[prev[y]] < size[y]
  BY DEF Descends
<1>. USE <1>d
<1>. DEFINE S == {k \in Nat : \A y \in D : size[y] <= k /\ size[y] <= m /\ size[y] <= n => f[y] = g[y]}
<1>1. 0 \in S
  BY DEF Follows
<1>2. ASSUME NEW k \in Nat, k \in S PROVE k + 1 \in S
  <2>1. ASSUME NEW y \in D, size[y] <= k + 1, size[y] <= m, size[y] <= n
        PROVE  f[y] = g[y]
    <3>1. size[y] > 0 => f[prev[y]] = g[prev[y]]
      <4>1. size[y] > 0 => /\ size[prev[y]] \in Nat /\ prev[y] \in D
                           /\ size[prev[y]] <= k /\ size[prev[y]] <= m /\ size[prev[y]] <= n
        BY <2>1
      <4>2. QED
        BY <1>2, <4>1
    <3>2. QED
      BY <2>1, <3>1 DEF Follows
  <2>2. QED
    BY <2>1
<1>. HIDE DEF S
<1>3. Nat \subseteq S
  BY <1>1, <1>2, Induction
<1>4. size[x] \in S
  BY <1>3
<1>5. QED
  BY <1>4 DEF S

\* and so one function solves it everywhere.
LEMMA Recursion ==
  ASSUME NEW D, NEW size, NEW prev, Descends(D, size, prev),
         NEW R, NEW step \in [D -> [R -> R]], NEW start \in R
  PROVE  \E f \in [D -> R] : Solves(f, D, size, prev, step, start)
<1>d. /\ size \in [D -> Nat] /\ prev \in [D -> D]
      /\ \A y \in D : size[y] > 0 => size[prev[y]] < size[y]
  BY DEF Descends
<1>. USE <1>d
<1>. DEFINE Fits(f, n) == Follows(f, D, size, prev, step, start, n)
            approx == [n \in Nat |-> CHOOSE f \in [D -> R] : Fits(f, n)]
            f == [x \in D |-> approx[size[x]][x]]
<1>1. \A n \in Nat : \E h \in [D -> R] : Fits(h, n)
  BY Approximation
<1>. HIDE DEF Fits
<1>2. \A n \in Nat : approx[n] \in [D -> R] /\ Fits(approx[n], n)
  BY <1>1
<1>3. f \in [D -> R]
  BY <1>2
<1>4. ASSUME NEW x \in D
      PROVE  f[x] = IF size[x] = 0 THEN start ELSE step[x][f[prev[x]]]
  <2>1. size[x] \in Nat /\ Fits(approx[size[x]], size[x])
    BY <1>2
  <2>. DEFINE p == prev[x]
              m == size[x]
              n == size[p]
              g == approx[m]
              h == approx[n]
  <2>2. f[x] = g[x] /\ f[p] = h[p]
    OBVIOUS
  <2>. HIDE DEF approx, f
  <2>3. m \in Nat /\ m <= m /\ g[x] = IF m = 0 THEN start ELSE step[x][g[p]]
    BY <2>1 DEF Fits, Follows
  <2>4. m > 0 => g[p] = h[p]
    <3>1. SUFFICES ASSUME m > 0 PROVE g[p] = h[p]
      OBVIOUS
    <3>2. p \in D /\ n \in Nat /\ n <= m /\ n <= n
      BY <3>1
    <3>3. Fits(h, n) /\ Fits(g, m)
      BY <1>2, <2>1, <3>2
    <3>. HIDE DEF g, h, n, p, m
    <3>4. size[p] <= m /\ size[p] <= n /\ m \in Nat
      BY <2>1, <3>2 DEF n, m
    <3>5. QED
      BY <3>2, <3>3, <3>4, Agreement DEF Fits
  <2>. HIDE DEF m, p, g, h
  <2>5. QED
    BY <2>2, <2>3, <2>4 DEF m, p
<1>. HIDE DEF f
<1>5. QED
  BY <1>3, <1>4 DEF Solves

-----------------------------------------------------------------------------
(* The number of a digit sequence *)

\* A sequence that is not empty is its front and its last element.
LEMMA FrontProperties ==
  ASSUME NEW S, NEW t \in Seq(S), t # <<>>
  PROVE  /\ Len(t) \in Nat \ {0} /\ t[Len(t)] \in S
         /\ SubSeq(t, 1, Len(t) - 1) \in Seq(S)
         /\ Len(SubSeq(t, 1, Len(t) - 1)) = Len(t) - 1
         /\ t = Append(SubSeq(t, 1, Len(t) - 1), t[Len(t)])
<1>1. Len(t) \in Nat \ {0}
  BY EmptySeq
<1>2. t[Len(t)] \in S
  BY <1>1
<1>. DEFINE n == Len(t) - 1
            front == SubSeq(t, 1, n)
<1>3. n \in Int /\ n >= 0 /\ \A i \in 1..n : t[i] \in S
  BY <1>1
<1>4. front \in Seq(S) /\ Len(front) = IF 1 <= n THEN n - 1 + 1 ELSE 0
  <2>. HIDE DEF n
  <2>1. QED
    BY <1>3, SubSeqProperties
<1>5. Len(front) = n
  <2>. HIDE DEF front
  <2>1. QED
    BY <1>1, <1>4
<1>6. \A i \in 1..n : front[i] = t[i]
  BY <1>1
<1>7. t = Append(front, t[Len(t)])
  <2>1. /\ Append(front, t[Len(t)]) \in Seq(S) /\ Len(Append(front, t[Len(t)])) = n + 1
        /\ \A i \in 1..n : Append(front, t[Len(t)])[i] = front[i]
        /\ Append(front, t[Len(t)])[n + 1] = t[Len(t)]
    <3>. HIDE DEF front, n
    <3>1. QED
      BY <1>2, <1>4, <1>5, AppendProperties
  <2>2. \A i \in 1..Len(t) : Append(front, t[Len(t)])[i] = t[i]
    BY <1>1, <1>6, <2>1
  <2>. HIDE DEF front
  <2>3. Len(Append(front, t[Len(t)])) = Len(t)
    BY <1>1, <2>1
  <2>4. QED
    BY <2>1, <2>2, <2>3, SeqEqual
<1>8. QED
  BY <1>1, <1>2, <1>4, <1>5, <1>7

\* The front and the last element of what something was appended to.
LEMMA AppendFront ==
  ASSUME NEW S, NEW s \in Seq(S), NEW d \in S
  PROVE  /\ Append(s, d) \in Seq(S) /\ Append(s, d) # <<>>
         /\ SubSeq(Append(s, d), 1, Len(Append(s, d)) - 1) = s
         /\ Append(s, d)[Len(Append(s, d))] = d
<1>1. /\ Append(s, d) \in Seq(S) /\ Append(s, d) # <<>>
      /\ Len(Append(s, d)) = Len(s) + 1 /\ Append(s, d)[Len(s) + 1] = d
  BY AppendProperties
<1>. DEFINE t == Append(s, d)
            front == SubSeq(t, 1, Len(t) - 1)
<1>. HIDE DEF t
<1>2. front \in Seq(S) /\ t = Append(front, t[Len(t)])
  BY <1>1, FrontProperties DEF t
<1>3. t[Len(t)] = d /\ t = Append(s, d)
  BY <1>1 DEF t
<1>. HIDE DEF front
<1>4. front = s
  BY <1>2, <1>3, AppendInjective
<1>5. QED
  BY <1>1, <1>3, <1>4 DEF front, t

\* The equations of Number, and its type.
LEMMA NumberEquations ==
  ASSUME NEW base \in Nat
  PROVE  /\ Number(<<>>, base) = 0
         /\ \A s \in Seq(Nat) : Number(s, base) \in Nat
         /\ \A s \in Seq(Nat), d \in Nat :
              Number(Append(s, d), base) = Number(s, base) * base + d
<1>. DEFINE D == Seq(Nat)
            size == [t \in D |-> Len(t)]
            prev == [t \in D |-> IF t = <<>> THEN <<>> ELSE SubSeq(t, 1, Len(t) - 1)]
            digit == [t \in D |-> IF t = <<>> THEN 0 ELSE t[Len(t)]]
            step == [t \in D |-> [v \in Nat |-> v * base + digit[t]]]
            Body(f) == [t \in D |-> IF t = <<>> THEN 0
                                   ELSE f[SubSeq(t, 1, Len(t) - 1)] * base + t[Len(t)]]
            value == CHOOSE f : f = Body(f)
<1>1. size \in [D -> Nat]
  OBVIOUS
<1>2. ASSUME NEW t \in D, t # <<>>
      PROVE  /\ SubSeq(t, 1, Len(t) - 1) \in D /\ Len(SubSeq(t, 1, Len(t) - 1)) = Len(t) - 1
             /\ t[Len(t)] \in Nat /\ Len(t) > 0
  BY <1>2, FrontProperties
<1>3. prev \in [D -> D]
  BY <1>2, EmptySeq
<1>4. digit \in [D -> Nat]
  BY <1>2
<1>5. \A v, d \in Nat : v * base + d \in Nat
  OBVIOUS
<1>6. step \in [D -> [Nat -> Nat]]
  <2>. HIDE DEF digit
  <2>1. \A t \in D : [v \in Nat |-> v * base + digit[t]] \in [Nat -> Nat]
    BY <1>4, <1>5
  <2>. QED
    BY <2>1
<1>7. \A t \in D : size[t] = 0 <=> t = <<>>
  BY EmptySeq
<1>8. \A t \in D : size[t] > 0 => size[prev[t]] < size[t]
  BY <1>2, <1>3, <1>7
<1>9. PICK f \in [D -> Nat] :
          \A t \in D : f[t] = IF size[t] = 0 THEN 0 ELSE step[t][f[prev[t]]]
  <2>. HIDE DEF D, size, prev, step
  <2>. DEFINE start == 0
              R == Nat
  <2>1. start \in R /\ step \in [D -> [R -> R]]
    BY <1>6
  <2>2. Descends(D, size, prev)
    BY <1>1, <1>3, <1>8 DEF Descends
  <2>3. \E f \in [D -> R] : Solves(f, D, size, prev, step, start)
    <3>. HIDE DEF start, R
    <3>1. QED
      BY <2>1, <2>2, Recursion
  <2>4. QED
    BY <2>3 DEF Solves
<1>10. ASSUME NEW t \in D, t # <<>>
       PROVE  step[t][f[prev[t]]] = f[SubSeq(t, 1, Len(t) - 1)] * base + t[Len(t)]
  <2>1. f[prev[t]] \in Nat /\ prev[t] = SubSeq(t, 1, Len(t) - 1) /\ digit[t] = t[Len(t)]
    BY <1>3, <1>10
  <2>. HIDE DEF digit, prev
  <2>2. QED
    BY <2>1
<1>11. f = Body(f)
  <2>1. \A t \in D : f[t] = Body(f)[t]
    BY <1>7, <1>9, <1>10
  <2>2. f = [t \in D |-> f[t]]
    OBVIOUS
  <2>3. QED
    BY <2>1, <2>2
<1>12. value = Body(value)
  <2>. HIDE DEF Body
  <2>1. QED
    BY <1>11
<1>13. \A s : Number(s, base) = value[s]
  BY DEF Number
<1>. HIDE DEF value
<1>14. value[<<>>] = 0
  BY <1>12, EmptySeq
<1>15. ASSUME NEW s \in D, NEW d \in Nat
       PROVE  value[Append(s, d)] = value[s] * base + d
  <2>. DEFINE t == Append(s, d)
  <2>1. t \in D /\ t # <<>> /\ SubSeq(t, 1, Len(t) - 1) = s /\ t[Len(t)] = d
    BY AppendFront
  <2>. HIDE DEF t
  <2>2. value[t] = value[SubSeq(t, 1, Len(t) - 1)] * base + t[Len(t)]
    BY <1>12, <2>1
  <2>3. QED
    BY <2>1, <2>2 DEF t
<1>16. ASSUME NEW s \in D PROVE value[s] \in Nat
  <2>. DEFINE S == {n \in Nat : \A t \in D : Len(t) = n => value[t] \in Nat}
  <2>1. 0 \in S
    BY <1>14, EmptySeq
  <2>2. ASSUME NEW n \in Nat, n \in S PROVE n + 1 \in S
    <3>1. ASSUME NEW t \in D, Len(t) = n + 1 PROVE value[t] \in Nat
      <4>1. t # <<>>
        BY <3>1, EmptySeq
      <4>2. value[t] = value[SubSeq(t, 1, Len(t) - 1)] * base + t[Len(t)]
        BY <1>12, <4>1
      <4>3. SubSeq(t, 1, Len(t) - 1) \in D /\ Len(SubSeq(t, 1, Len(t) - 1)) = n
        BY <1>2, <3>1, <4>1
      <4>5. value[SubSeq(t, 1, Len(t) - 1)] \in Nat
        BY <2>2, <4>3
      <4>4. QED
        BY <1>2, <1>5, <4>1, <4>2, <4>5
    <3>2. QED
      BY <3>1
  <2>. HIDE DEF S
  <2>3. Nat \subseteq S
    BY <2>1, <2>2, Induction
  <2>4. QED
    BY <2>3 DEF S
<1>17. QED
  BY <1>13, <1>14, <1>15, <1>16

-----------------------------------------------------------------------------
(* The numeral of a number *)

\* The two radices, and division by them.
Radices == {58, 256}

\* divmod, and what undoes it.
LEMMA Division ==
  ASSUME NEW base \in Radices
  PROVE  /\ base \in Nat /\ 0 \in 0..(base - 1)
         /\ \A n \in Nat : /\ n \div base \in Nat /\ n % base \in 0..(base - 1)
                           /\ n # 0 => n \div base < n
                           /\ n = (n \div base) * base + (n % base)
         /\ \A n \in Nat, d \in 0..(base - 1) :
              /\ (n * base + d) \div base = n /\ (n * base + d) % base = d
              /\ n * base + d \in Nat
              /\ n > 0 \/ d > 0 => n * base + d > 0
<1>1. CASE base = 58
  BY <1>1
<1>2. CASE base = 256
  BY <1>2
<1>3. QED
  BY <1>1, <1>2 DEF Radices

\* The equations of Numeral, and its type.
LEMMA NumeralEquations ==
  ASSUME NEW base \in Radices
  PROVE  /\ Numeral(0, base) = <<>>
         /\ \A n \in Nat : Numeral(n, base) \in Seq(0..(base - 1))
         /\ \A n \in Nat : n > 0 =>
              Numeral(n, base) = Append(Numeral(n \div base, base), n % base)
<1>. DEFINE R == Seq(0..(base - 1))
            size == [n \in Nat |-> n]
            prev == [n \in Nat |-> n \div base]
            step == [n \in Nat |-> [s \in R |-> Append(s, n % base)]]
            Body(f) == [m \in Nat |-> IF m = 0 THEN <<>>
                                     ELSE Append(f[m \div base], m % base)]
            digits == CHOOSE f : f = Body(f)
<1>0. \A n \in Nat : n \div base \in Nat /\ n % base \in 0..(base - 1) /\ (n # 0 => n \div base < n)
  BY Division, Zenon
<1>a. \A s \in R, d \in 0..(base - 1) : Append(s, d) \in R
  BY AppendProperties
<1>1. Descends(Nat, size, prev)
  BY <1>0 DEF Descends
<1>2. step \in [Nat -> [R -> R]]
  BY <1>0, <1>a
<1>3. <<>> \in R
  OBVIOUS
<1>4. PICK f \in [Nat -> R] : Solves(f, Nat, size, prev, step, <<>>)
  <2>. HIDE DEF R, size, prev, step
  <2>1. QED
    BY <1>1, <1>2, <1>3, Recursion
<1>5. \A m \in Nat : f[m \div base] \in R
  BY <1>0
<1>6. f = Body(f)
  <2>1. \A m \in Nat : f[m] = IF m = 0 THEN <<>> ELSE Append(f[m \div base], m % base)
    <3>. HIDE DEF R
    <3>1. QED
      BY <1>4, <1>5 DEF Solves
  <2>2. f = [m \in Nat |-> f[m]]
    OBVIOUS
  <2>3. QED
    BY <2>1, <2>2
<1>7. digits = Body(digits)
  <2>. HIDE DEF Body
  <2>1. QED
    BY <1>6
<1>8. \A n : Numeral(n, base) = digits[n]
  BY DEF Numeral
<1>9. \A n \in Nat : digits[n] = IF n = 0 THEN <<>> ELSE Append(digits[n \div base], n % base)
  <2>. HIDE DEF digits
  <2>1. \A n \in Nat : Body(digits)[n] = IF n = 0 THEN <<>> ELSE Append(digits[n \div base], n % base)
    BY Zenon
  <2>. HIDE DEF Body
  <2>2. QED
    BY <1>7, <2>1
<1>. HIDE DEF digits
<1>10. \A n \in Nat : n > 0 => n # 0
  OBVIOUS
<1>11. \A n \in Nat : digits[n] \in R
  <2>. DEFINE S == {n \in Nat : digits[n] \in R}
  <2>1. ASSUME NEW n \in Nat, \A m \in Nat : m < n => m \in S PROVE n \in S
    <3>1. CASE n = 0
      BY <1>3, <1>9, <3>1
    <3>2. CASE n # 0
      <4>1. n \div base \in Nat /\ n \div base < n /\ n % base \in 0..(base - 1)
        BY <1>0, <3>2, Zenon
      <4>2. digits[n \div base] \in R
        BY <2>1, <4>1
      <4>3. digits[n] = Append(digits[n \div base], n % base)
        BY <1>9, <3>2
      <4>4. QED
        BY <1>a, <4>1, <4>2, <4>3
    <3>3. QED
      BY <3>1, <3>2
  <2>. HIDE DEF S
  <2>2. Nat \subseteq S
    BY <2>1, StrongInduction
  <2>3. QED
    BY <2>2 DEF S
<1>. HIDE DEF R
<1>12. \A n \in Nat : Numeral(n, base) \in R
  BY <1>8, <1>11
<1>13. Numeral(0, base) = <<>>
  BY <1>8, <1>9
<1>14. ASSUME NEW n \in Nat, n > 0
       PROVE  Numeral(n, base) = Append(Numeral(n \div base, base), n % base)
  <2>1. digits[n] = Append(digits[n \div base], n % base)
    BY <1>9, <1>10, <1>14, Zenon
  <2>2. QED
    BY <1>8, <2>1
<1>15. QED
  BY <1>12, <1>13, <1>14 DEF R

\* A number has its numeral's value, and a numeral begins with no zero.
LEMMA NumeralValue ==
  ASSUME NEW base \in Radices
  PROVE  /\ \A n \in Nat : Number(Numeral(n, base), base) = n
         /\ \A n \in Nat : n # 0 => Numeral(n, base) # <<>> /\ Numeral(n, base)[1] # 0
<1>. DEFINE num(s) == Number(s, base)
            rep(n) == Numeral(n, base)
            R == Seq(0..(base - 1))
            Fine(n) == num(rep(n)) = n /\ (n # 0 => rep(n) # <<>> /\ rep(n)[1] # 0)
            S == {n \in Nat : Fine(n)}
<1>1. base \in Nat /\ R \subseteq Seq(Nat)
  BY DEF Radices
<1>2. ASSUME NEW n \in Nat, \A m \in Nat : m < n => m \in S PROVE n \in S
  <2>1. CASE n = 0
    BY <1>1, <2>1, NumberEquations, NumeralEquations
  <2>2. CASE n # 0
    <3>. DEFINE q == n \div base
                d == n % base
    <3>1. /\ q \in Nat /\ q < n /\ d \in 0..(base - 1) /\ n = q * base + d
      BY <2>2, Division, Zenon
    <3>2. rep(n) = Append(rep(q), d) /\ rep(q) \in R
      <4>1. n > 0
        BY <2>2
      <4>. HIDE DEF R
      <4>2. QED
        BY <3>1, <4>1, NumeralEquations, Zenon DEF R
    <3>3. num(rep(q)) = q /\ (q # 0 => rep(q) # <<>> /\ rep(q)[1] # 0)
      BY <1>2, <3>1
    <3>. HIDE DEF q
    <3>4. d \in Nat /\ rep(q) \in Seq(Nat)
      BY <1>1, <3>1, <3>2
    <3>. HIDE DEF d, num, rep
    <3>5. num(rep(n)) = num(rep(q)) * base + d
      BY <1>1, <3>2, <3>4, NumberEquations DEF num
    <3>6. num(rep(n)) = n
      BY <3>1, <3>3, <3>5
    <3>7. rep(n) # <<>>
      BY <3>2, <3>4, AppendProperties
    <3>8. rep(n)[1] # 0
      <4>1. CASE q = 0
        <5>1. rep(q) = <<>>
          BY <4>1, NumeralEquations DEF rep
        <5>2. d # 0
          BY <1>1, <2>2, <3>1, <4>1
        <5>3. QED
          BY <3>2, <5>1, <5>2
      <4>2. CASE q # 0
        <5>1. rep(q) # <<>> /\ rep(q)[1] # 0
          BY <3>3, <4>2
        <5>2. Append(rep(q), d)[1] = rep(q)[1]
          BY <3>4, <5>1
        <5>3. QED
          BY <3>2, <5>1, <5>2
      <4>3. QED
        BY <4>1, <4>2
    <3>9. QED
      BY <3>6, <3>7, <3>8
  <2>3. QED
    BY <2>1, <2>2
<1>. HIDE DEF S
<1>3. Nat \subseteq S
  BY <1>2, StrongInduction
<1>4. QED
  BY <1>3 DEF S

\* Digits without leading zeros are the numeral of their number.
LEMMA NumeralUnique ==
  ASSUME NEW base \in Radices, NEW t \in Seq(0..(base - 1)), t # <<>> => t[1] # 0
  PROVE  Numeral(Number(t, base), base) = t
<1>. DEFINE num(s) == Number(s, base)
            rep(n) == Numeral(n, base)
            R == Seq(0..(base - 1))
            Led(s) == s # <<>> => s[1] # 0
            Fine(s) == rep(num(s)) = s /\ (s # <<>> => num(s) # 0)
            S == {n \in Nat : \A s \in R : Len(s) = n /\ Led(s) => Fine(s)}
<1>1. base \in Nat /\ R \subseteq Seq(Nat)
  BY DEF Radices
<1>2. Fine(<<>>)
  BY <1>1, NumberEquations, NumeralEquations
<1>3. 0 \in S
  BY <1>2, EmptySeq
<1>4. ASSUME NEW n \in Nat, n \in S PROVE n + 1 \in S
  <2>1. ASSUME NEW s \in R, Len(s) = n + 1, Led(s) PROVE Fine(s)
    <3>. DEFINE f == SubSeq(s, 1, Len(s) - 1)
                d == s[Len(s)]
    <3>1. s # <<>>
      BY <2>1, EmptySeq
    <3>2. f \in R /\ Len(f) = n /\ d \in 0..(base - 1) /\ s = Append(f, d)
      <4>1. /\ f \in R /\ Len(f) = Len(s) - 1 /\ d \in 0..(base - 1) /\ s = Append(f, d)
        BY <2>1, <3>1, FrontProperties, Zenon
      <4>2. QED
        BY <2>1, <4>1
    <3>. HIDE DEF f, d
    <3>3. f \in Seq(Nat) /\ d \in Nat
      BY <1>1, <3>2
    <3>4. f # <<>> => f[1] = s[1]
      BY <3>2, <3>3
    <3>5. Fine(f)
      BY <1>4, <2>1, <3>1, <3>2, <3>4
    <3>6. num(f) \in Nat /\ num(s) = num(f) * base + d
      BY <1>1, <3>2, <3>3, NumberEquations
    <3>7. f = <<>> => d # 0 /\ num(f) = 0
      <4>1. f = <<>> => s[1] = d
        BY <3>2
      <4>2. num(<<>>) = 0
        BY <1>1, NumberEquations
      <4>3. QED
        BY <2>1, <3>1, <4>1, <4>2
    <3>. HIDE DEF num, rep
    <3>8. num(f) # 0 \/ d # 0
      BY <3>5, <3>7
    <3>9. /\ num(s) \in Nat /\ num(s) # 0
          /\ num(s) \div base = num(f) /\ num(s) % base = d
      <4>. DEFINE m == num(f)
      <4>1. m > 0 \/ d > 0
        BY <3>3, <3>6, <3>8
      <4>2. m * base + d \in Nat /\ m * base + d > 0
            /\ (m * base + d) \div base = m /\ (m * base + d) % base = d
        <5>. HIDE DEF m
        <5>1. m \in Nat
          BY <3>6 DEF m
        <5>2. QED
          BY <3>2, <4>1, <5>1, Division, Zenon
      <4>3. QED
        BY <3>6, <4>2
    <3>10. rep(num(s)) = Append(rep(num(f)), d)
      <4>1. num(s) > 0
        BY <3>9
      <4>2. rep(num(s)) = Append(rep(num(s) \div base), num(s) % base)
        BY <3>9, <4>1, NumeralEquations, Zenon DEF rep
      <4>3. QED
        BY <3>9, <4>2
    <3>11. QED
      BY <3>2, <3>5, <3>9, <3>10
  <2>2. QED
    BY <2>1
<1>. HIDE DEF S
<1>5. Nat \subseteq S
  BY <1>3, <1>4, Induction
<1>6. Len(t) \in S
  BY <1>5
<1>7. QED
  BY <1>6 DEF S

-----------------------------------------------------------------------------
(* Leading zeros, and base58btc *)

\* Zeros in front of a sequence: its type, its elements, and what is appended to it.
LEMMA PaddedType ==
  ASSUME NEW S, 0 \in S, NEW k \in Nat, NEW t \in Seq(S)
  PROVE  Zeros(k) \in Seq(S) /\ Zeros(k) \o t \in Seq(S)
BY DEF Zeros

LEMMA Padding ==
  ASSUME NEW k \in Nat, NEW t \in Seq(Nat)
  PROVE  /\ Len(Zeros(k) \o t) = k + Len(t)
         /\ \A i \in 1..k : (Zeros(k) \o t)[i] = 0
         /\ \A i \in 1..Len(t) : (Zeros(k) \o t)[k + i] = t[i]
<1>. DEFINE z == Zeros(k)
            r == z \o t
            N == Nat
<1>1. z \in Seq(N) /\ Len(z) = k /\ \A i \in 1..k : z[i] = 0
  BY DEF Zeros
<1>2. Len(t) \in Nat /\ t \in Seq(N)
  OBVIOUS
<1>. HIDE DEF z, N
<1>3. /\ Len(r) = Len(z) + Len(t)
      /\ \A i \in 1..(Len(z) + Len(t)) : r[i] = IF i <= Len(z) THEN z[i] ELSE t[i - Len(z)]
  BY <1>1, <1>2, ConcatProperties
<1>. HIDE DEF r
<1>4. \A i \in 1..k : r[i] = 0
  BY <1>1, <1>2, <1>3
<1>5. ASSUME NEW i \in 1..Len(t) PROVE r[k + i] = t[i]
  <2>1. k + i \in 1..(Len(z) + Len(t)) /\ ~(k + i <= Len(z)) /\ k + i - Len(z) = i
    BY <1>1, <1>2
  <2>2. r[k + i] = t[k + i - Len(z)]
    BY <1>3, <2>1
  <2>3. QED
    BY <2>1, <2>2
<1>6. QED
  BY <1>1, <1>3, <1>4, <1>5 DEF r, z

LEMMA ConcatAppend ==
  ASSUME NEW S, NEW s \in Seq(S), NEW t \in Seq(S), NEW d \in S
  PROVE  s \o Append(t, d) = Append(s \o t, d)
OBVIOUS

LEMMA PaddedAppend ==
  ASSUME NEW k \in Nat, NEW s \in Seq(Nat), NEW d \in Nat
  PROVE  Zeros(k) \o Append(s, d) = Append(Zeros(k) \o s, d)
<1>. DEFINE N == Nat
            z == Zeros(k)
<1>1. z \in Seq(N) /\ s \in Seq(N) /\ d \in N
  BY DEF Zeros
<1>. HIDE DEF N, z
<1>2. z \o Append(s, d) = Append(z \o s, d)
  BY <1>1, ConcatAppend
<1>3. QED
  BY <1>2 DEF z

LEMMA MoreZeros ==
  ASSUME NEW m \in Nat
  PROVE  Zeros(m + 1) = Append(Zeros(m), 0)
<1>. DEFINE a == Zeros(m + 1)
            z == Zeros(m)
            b == Append(z, 0)
<1>1. a \in Seq(Nat) /\ Len(a) = m + 1 /\ \A i \in 1..(m + 1) : a[i] = 0
  BY DEF Zeros
<1>2. z \in Seq(Nat) /\ Len(z) = m /\ \A i \in 1..m : z[i] = 0
  BY DEF Zeros
<1>. HIDE DEF a, z
<1>3. b \in Seq(Nat) /\ Len(b) = m + 1 /\ (\A i \in 1..m : b[i] = z[i]) /\ b[m + 1] = 0
  BY <1>2, AppendProperties
<1>. HIDE DEF b
<1>4. \A i \in 1..(m + 1) : b[i] = 0
  BY <1>2, <1>3
<1>5. a = b
  BY <1>1, <1>3, <1>4, SeqEqual
<1>6. QED
  BY <1>5 DEF a, b, z

\* Zeros in front do not change the number.
LEMMA ZerosForget ==
  ASSUME NEW base \in Nat, NEW k \in Nat, NEW t \in Seq(Nat)
  PROVE  Number(Zeros(k) \o t, base) = Number(t, base)
<1>. DEFINE num(s) == Number(s, base)
<1>z. \A m \in Nat : Zeros(m) \in Seq(Nat)
  BY DEF Zeros
<1>e. /\ num(<<>>) = 0
      /\ \A s \in Seq(Nat) : num(s) \in Nat
      /\ \A s \in Seq(Nat), d \in Nat : num(Append(s, d)) = num(s) * base + d
  BY NumberEquations
<1>. HIDE DEF num
<1>1. \A m \in Nat : num(Zeros(m)) = 0
  <2>. DEFINE S == {m \in Nat : num(Zeros(m)) = 0}
  <2>1. 0 \in S
    <3>1. Zeros(0) = <<>>
      BY DEF Zeros
    <3>2. QED
      BY <1>e, <3>1
  <2>2. ASSUME NEW m \in Nat, m \in S PROVE m + 1 \in S
    <3>1. Zeros(m + 1) = Append(Zeros(m), 0) /\ Zeros(m) \in Seq(Nat) /\ 0 \in Nat
      BY <1>z, MoreZeros
    <3>2. num(Append(Zeros(m), 0)) = num(Zeros(m)) * base + 0
      BY <1>e, <3>1, Zenon
    <3>3. num(Zeros(m)) = 0
      BY <2>2
    <3>4. m + 1 \in Nat /\ 0 * base + 0 = 0
      OBVIOUS
    <3>5. QED
      BY <3>1, <3>2, <3>3, <3>4
  <2>. HIDE DEF S
  <2>3. Nat \subseteq S
    BY <2>1, <2>2, Induction
  <2>4. QED
    BY <2>3 DEF S
<1>. DEFINE S == {n \in Nat : \A s \in Seq(Nat) : Len(s) = n => num(Zeros(k) \o s) = num(s)}
<1>2. 0 \in S
  <2>1. ASSUME NEW s \in Seq(Nat), Len(s) = 0 PROVE num(Zeros(k) \o s) = num(s)
    <3>1. s = <<>>
      BY <2>1, EmptySeq
    <3>2. Zeros(k) \o s = Zeros(k)
      BY <1>z, <3>1, ConcatEmptySeq
    <3>3. QED
      BY <1>1, <1>e, <3>1, <3>2
  <2>2. QED
    BY <2>1
<1>3. ASSUME NEW n \in Nat, n \in S PROVE n + 1 \in S
  <2>1. ASSUME NEW s \in Seq(Nat), Len(s) = n + 1 PROVE num(Zeros(k) \o s) = num(s)
    <3>. DEFINE f == SubSeq(s, 1, Len(s) - 1)
                d == s[Len(s)]
    <3>1. s # <<>>
      BY <2>1, EmptySeq
    <3>2. f \in Seq(Nat) /\ Len(f) = Len(s) - 1 /\ d \in Nat /\ s = Append(f, d)
      BY <3>1, FrontProperties, Zenon
    <3>3. Len(f) = n
      BY <2>1, <3>2
    <3>. HIDE DEF f, d
    <3>4. Zeros(k) \o s = Append(Zeros(k) \o f, d) /\ Zeros(k) \o f \in Seq(Nat)
      BY <3>2, PaddedType, PaddedAppend
    <3>5. num(Zeros(k) \o f) = num(f)
      BY <1>3, <3>2, <3>3
    <3>6. num(Append(Zeros(k) \o f, d)) = num(Zeros(k) \o f) * base + d
      BY <1>e, <3>2, <3>4, Zenon
    <3>7. num(Append(f, d)) = num(f) * base + d
      BY <1>e, <3>2, Zenon
    <3>8. QED
      BY <3>2, <3>4, <3>5, <3>6, <3>7
  <2>2. QED
    BY <2>1
<1>. HIDE DEF S
<1>4. Nat \subseteq S
  BY <1>2, <1>3, Induction
<1>5. Len(t) \in S
  BY <1>4
<1>6. QED
  BY <1>5 DEF S, num

\* What LeadingZeros chooses is there, and is what it says.
LEMMA LeadingZerosCount ==
  ASSUME NEW s \in Seq(Nat)
  PROVE  /\ LeadingZeros(s) \in 0..Len(s)
         /\ \A i \in 1..LeadingZeros(s) : s[i] = 0
         /\ LeadingZeros(s) < Len(s) => s[LeadingZeros(s) + 1] # 0
<1>. DEFINE T == {n \in 0..Len(s) : n < Len(s) => s[n + 1] # 0}
<1>1. Len(s) \in T /\ T \subseteq Nat
  OBVIOUS
<1>2. PICK n \in T : \A m \in T : n <= m
  <2>. HIDE DEF T
  <2>1. QED
    BY <1>1, Least
<1>3. \A i \in 1..n : s[i] = 0
  <2>1. ASSUME NEW i \in 1..n, s[i] # 0 PROVE FALSE
    <3>1. i \in 1..Len(s) /\ n \in Nat /\ i <= n
      BY <1>2, <2>1
    <3>2. i - 1 \in 0..Len(s) /\ i - 1 + 1 = i
      BY <3>1
    <3>3. i - 1 \in T
      BY <2>1, <3>2
    <3>4. n <= i - 1
      BY <1>2, <3>3
    <3>5. QED
      BY <3>1, <3>4
  <2>2. QED
    BY <2>1
<1>4. QED
  BY <1>2, <1>3 DEF LeadingZeros

\* It counts the zeros put in front of what does not begin with one.
LEMMA LeadingZerosOf ==
  ASSUME NEW k \in Nat, NEW t \in Seq(Nat), t # <<>> => t[1] # 0
  PROVE  LeadingZeros(Zeros(k) \o t) = k
<1>. DEFINE s == Zeros(k) \o t
<1>1. s \in Seq(Nat) /\ Len(s) = k + Len(t) /\ (\A i \in 1..k : s[i] = 0)
      /\ \A i \in 1..Len(t) : s[k + i] = t[i]
  BY Padding, PaddedType
<1>. HIDE DEF s
<1>2. k < Len(s) => s[k + 1] # 0
  <2>1. ASSUME k < Len(s) PROVE 1 \in 1..Len(t) /\ t[1] # 0
    BY <1>1, <2>1, EmptySeq
  <2>2. QED
    BY <1>1, <2>1
<1>. DEFINE m == LeadingZeros(s)
<1>3. m \in 0..Len(s) /\ (\A i \in 1..m : s[i] = 0) /\ (m < Len(s) => s[m + 1] # 0)
  BY <1>1, LeadingZerosCount
<1>. HIDE DEF m
<1>4. ~(m < k)
  BY <1>1, <1>3
<1>5. ~(k < m)
  BY <1>1, <1>2, <1>3
<1>6. m = k
  BY <1>3, <1>4, <1>5
<1>7. QED
  BY <1>6 DEF m, s

\* base58btc in either direction undoes the other.
LEMMA RebasedBack ==
  ASSUME NEW from \in Radices, NEW to \in Radices, NEW s \in Seq(0..(from - 1))
  PROVE  /\ Rebased(s, from, to) \in Seq(0..(to - 1))
         /\ Rebased(Rebased(s, from, to), to, from) = s
<1>. DEFINE k == LeadingZeros(s)
            t == SubSeq(s, k + 1, Len(s))
            n == Number(s, from)
            u == Numeral(n, to)
            r == Zeros(k) \o u
<1>1. /\ from \in Nat /\ to \in Nat /\ Seq(0..(from - 1)) \subseteq Seq(Nat)
      /\ Seq(0..(to - 1)) \subseteq Seq(Nat) /\ 0 \in 0..(to - 1)
  BY DEF Radices
<1>2. k \in 0..Len(s) /\ (\A i \in 1..k : s[i] = 0) /\ (k < Len(s) => s[k + 1] # 0)
  BY <1>1, LeadingZerosCount
<1>. HIDE DEF k
<1>3. t \in Seq(0..(from - 1)) /\ Len(t) = Len(s) - k /\ \A i \in 1..Len(t) : t[i] = s[k + i]
  <2>1. k \in Nat /\ Len(s) \in Nat /\ k + 1 \in Int /\ k <= Len(s)
    BY <1>2
  <2>2. \A i \in (k + 1)..Len(s) : s[i] \in 0..(from - 1)
    <3>. DEFINE D == 0..(from - 1)
    <3>1. \A i \in 1..Len(s) : s[i] \in D
      <4>. HIDE DEF D
      <4>1. s \in Seq(D)
        BY DEF D
      <4>2. QED
        BY <4>1, ElementOfSeq
    <3>2. \A i \in (k + 1)..Len(s) : i \in 1..Len(s)
      BY <2>1
    <3>3. QED
      BY <3>1, <3>2, Zenon
  <2>3. /\ t \in Seq(0..(from - 1))
        /\ Len(t) = IF k + 1 <= Len(s) THEN Len(s) - (k + 1) + 1 ELSE 0
        /\ \A i \in 1..(Len(s) - (k + 1) + 1) : t[i] = s[k + 1 + i - 1]
    BY <2>1, <2>2, SubSeqProperties
  <2>. HIDE DEF t
  <2>4. Len(t) = Len(s) - k /\ Len(s) - (k + 1) + 1 = Len(s) - k
    BY <2>1, <2>3
  <2>5. \A i \in 1..Len(t) : k + 1 + i - 1 = k + i
    BY <2>1
  <2>6. \A i \in 1..Len(t) : t[i] = s[k + i]
    BY <2>3, <2>4, <2>5
  <2>7. QED
    BY <2>3, <2>4, <2>6
<1>4. t # <<>> => t[1] # 0
  BY <1>2, <1>3, EmptySeq
<1>. HIDE DEF t
<1>5. s = Zeros(k) \o t
  <2>. DEFINE p == Zeros(k) \o t
  <2>1. k \in Nat /\ t \in Seq(Nat) /\ s \in Seq(Nat) /\ 0 \in Nat
    BY <1>1, <1>2, <1>3
  <2>2. /\ p \in Seq(Nat) /\ Len(p) = k + Len(t) /\ (\A i \in 1..k : p[i] = 0)
        /\ \A i \in 1..Len(t) : p[k + i] = t[i]
    BY <2>1, Padding, PaddedType
  <2>. HIDE DEF p
  <2>3. Len(p) = Len(s)
    BY <1>2, <1>3, <2>2
  <2>4. ASSUME NEW i \in 1..Len(s) PROVE p[i] = s[i]
    <3>1. CASE i <= k
      BY <1>2, <2>2, <3>1
    <3>2. CASE i > k
      <4>. DEFINE j == i - k
      <4>1. j \in 1..Len(t) /\ k + j = i
        BY <1>2, <1>3, <3>2
      <4>. HIDE DEF j
      <4>2. p[k + j] = t[j] /\ t[j] = s[k + j]
        BY <1>3, <2>2, <4>1
      <4>3. QED
        BY <4>1, <4>2
    <3>3. QED
      BY <1>2, <3>1, <3>2
  <2>5. p = s
    BY <2>1, <2>2, <2>3, <2>4, SeqEqual
  <2>6. QED
    BY <2>5 DEF p
<1>6. n \in Nat
  BY <1>1, NumberEquations
<1>7. n = Number(t, from)
  BY <1>1, <1>2, <1>3, <1>5, ZerosForget
<1>. HIDE DEF n
<1>8. u \in Seq(0..(to - 1))
  BY <1>6, NumeralEquations
<1>9. Number(u, to) = n /\ (u # <<>> => u[1] # 0)
  <2>1. n = 0 => u = <<>>
    BY NumeralEquations
  <2>2. QED
    BY <1>6, <2>1, NumeralValue
<1>. HIDE DEF u
<1>10. r \in Seq(0..(to - 1))
  <2>1. k \in Nat
    BY <1>2
  <2>2. QED
    BY <1>1, <1>8, <2>1, PaddedType, Zenon
<1>11. LeadingZeros(r) = k
  BY <1>1, <1>2, <1>8, <1>9, LeadingZerosOf
<1>12. Number(r, to) = n
  BY <1>1, <1>2, <1>8, <1>9, ZerosForget
<1>13. Numeral(n, from) = t
  BY <1>3, <1>4, <1>7, NumeralUnique
<1>14. Rebased(s, from, to) = r
  BY DEF Rebased, Unpadded, u, n, k
<1>. HIDE DEF r
<1>15. Rebased(r, to, from) = Zeros(k) \o t
  BY <1>11, <1>12, <1>13 DEF Rebased, Unpadded
<1>16. QED
  BY <1>5, <1>10, <1>14, <1>15

\* So base58btc is decoded to the bytes it encodes, and encoded to the characters it
\* decodes.
LEMMA Base58Back ==
  ASSUME NEW bytes \in Seq(Byte)
  PROVE  B58Encode(bytes) \in Seq(0..57) /\ B58Decode(B58Encode(bytes)) = bytes
<1>1. 256 \in Radices /\ 58 \in Radices /\ 256 - 1 = 255 /\ 58 - 1 = 57
  BY DEF Radices
<1>2. bytes \in Seq(0..(256 - 1))
  BY <1>1 DEF Byte
<1>3. /\ Rebased(bytes, 256, 58) \in Seq(0..(58 - 1))
      /\ Rebased(Rebased(bytes, 256, 58), 58, 256) = bytes
  <2>. DEFINE from == 256
              to == 58
  <2>1. from \in Radices /\ to \in Radices /\ bytes \in Seq(0..(from - 1))
    BY <1>1, <1>2
  <2>. HIDE DEF from, to
  <2>2. /\ Rebased(bytes, from, to) \in Seq(0..(to - 1))
        /\ Rebased(Rebased(bytes, from, to), to, from) = bytes
    BY <2>1, RebasedBack
  <2>3. QED
    BY <2>2 DEF from, to
<1>4. QED
  BY <1>1, <1>3 DEF B58Encode, B58Decode

LEMMA Base58Forth ==
  ASSUME NEW chars \in Seq(0..57)
  PROVE  B58Encode(B58Decode(chars)) = chars
<1>1. 256 \in Radices /\ 58 \in Radices /\ 58 - 1 = 57
  BY DEF Radices
<1>2. chars \in Seq(0..(58 - 1))
  BY <1>1
<1>3. Rebased(Rebased(chars, 58, 256), 256, 58) = chars
  <2>. DEFINE from == 58
              to == 256
  <2>1. from \in Radices /\ to \in Radices /\ chars \in Seq(0..(from - 1))
    BY <1>1, <1>2
  <2>. HIDE DEF from, to
  <2>2. Rebased(Rebased(chars, from, to), to, from) = chars
    BY <2>1, RebasedBack
  <2>3. QED
    BY <2>2 DEF from, to
<1>4. QED
  BY <1>3 DEF B58Encode, B58Decode

-----------------------------------------------------------------------------
(* base64url *)

Sextet == 0..63

\* A unit is one of the sequence, or zero.
LEMMA UnitType ==
  ASSUME NEW S, 0 \in S, NEW s \in Seq(S), NEW n \in Nat \ {0}
  PROVE  Unit(s, n) \in S
BY DEF Unit

\* The three bytes of a group.
LEMMA Octets ==
  ASSUME NEW bytes \in Seq(Byte), NEW k \in Nat
  PROVE  /\ Unit(bytes, 3 * k + 1) \in 0..255
         /\ Unit(bytes, 3 * k + 2) \in 0..255
         /\ Unit(bytes, 3 * k + 3) \in 0..255
<1>1. 3 * k + 1 \in Nat \ {0} /\ 3 * k + 2 \in Nat \ {0} /\ 3 * k + 3 \in Nat \ {0}
  OBVIOUS
<1>2. 0 \in Byte
  BY DEF Byte
<1>3. \A m \in Nat \ {0} : Unit(bytes, m) \in Byte
  BY <1>2, UnitType
<1>4. QED
  BY <1>1, <1>3 DEF Byte

\* The characters of the group that follows the first k groups, as far as there are any.
LEMMA EncodedGroup ==
  ASSUME NEW bytes \in Seq(Byte), NEW k \in Nat, NEW j \in 1..4,
         4 * k + j <= (4 * Len(bytes) + 2) \div 3
  PROVE  B64Encode(bytes)[4 * k + j] =
           CASE j = 1 -> Unit(bytes, 3 * k + 1) \div 4
             [] j = 2 -> (Unit(bytes, 3 * k + 1) % 4) * 16 + Unit(bytes, 3 * k + 2) \div 16
             [] j = 3 -> (Unit(bytes, 3 * k + 2) % 16) * 4 + Unit(bytes, 3 * k + 3) \div 64
             [] j = 4 -> Unit(bytes, 3 * k + 3) % 64
<1>. DEFINE i == 4 * k + j
<1>1. i \in 1..((4 * Len(bytes) + 2) \div 3) /\ (i - 1) \div 4 = k
  OBVIOUS
<1>2. i % 4 = IF j = 4 THEN 0 ELSE j
  OBVIOUS
<1>3. B64Encode(bytes)[i] =
        CASE i % 4 = 1 -> Unit(bytes, 3 * k + 1) \div 4
          [] i % 4 = 2 -> (Unit(bytes, 3 * k + 1) % 4) * 16 + Unit(bytes, 3 * k + 2) \div 16
          [] i % 4 = 3 -> (Unit(bytes, 3 * k + 2) % 16) * 4 + Unit(bytes, 3 * k + 3) \div 64
          [] i % 4 = 0 -> Unit(bytes, 3 * k + 3) % 64
  BY <1>1 DEF B64Encode
<1>. HIDE DEF i
<1>4. j = 1 \/ j = 2 \/ j = 3 \/ j = 4
  OBVIOUS
<1>5. QED
  BY <1>2, <1>3, <1>4 DEF i

\* base64url writes six bits in each character, and no more characters than it needs.
LEMMA Encoded64 ==
  ASSUME NEW bytes \in Seq(Byte)
  PROVE  /\ B64Encode(bytes) \in Seq(Sextet)
         /\ Len(B64Encode(bytes)) = (4 * Len(bytes) + 2) \div 3
<1>. DEFINE n == (4 * Len(bytes) + 2) \div 3
<1>1. n \in Nat
  OBVIOUS
<1>2. \A i \in 1..n : B64Encode(bytes)[i] \in Sextet
  <2> SUFFICES ASSUME NEW i \in 1..n PROVE B64Encode(bytes)[i] \in Sextet
    OBVIOUS
  <2>1. PICK k \in Nat, j \in 1..4 : i = 4 * k + j
    <3>1. (i - 1) \div 4 \in Nat /\ ((i - 1) % 4) + 1 \in 1..4
          /\ i = 4 * ((i - 1) \div 4) + (((i - 1) % 4) + 1)
      OBVIOUS
    <3>2. QED
      BY <3>1
  <2>. DEFINE x == Unit(bytes, 3 * k + 1)
              y == Unit(bytes, 3 * k + 2)
              z == Unit(bytes, 3 * k + 3)
  <2>2. x \in 0..255 /\ y \in 0..255 /\ z \in 0..255
    BY Octets
  <2>4. B64Encode(bytes)[i] =
           CASE j = 1 -> x \div 4
             [] j = 2 -> (x % 4) * 16 + y \div 16
             [] j = 3 -> (y % 16) * 4 + z \div 64
             [] j = 4 -> z % 64
    BY <2>1, EncodedGroup
  <2>. HIDE DEF x, y, z
  <2>5. j = 1 \/ j = 2 \/ j = 3 \/ j = 4
    OBVIOUS
  <2>6. /\ x \div 4 \in 0..63
        /\ (x % 4) * 16 + y \div 16 \in 0..63
        /\ (y % 16) * 4 + z \div 64 \in 0..63
        /\ z % 64 \in 0..63
    BY <2>2
  <2>7. QED
    BY <2>4, <2>5, <2>6 DEF Sextet
<1>3. B64Encode(bytes) = [i \in 1..n |-> B64Encode(bytes)[i]]
  BY DEF B64Encode
<1>4. B64Encode(bytes) \in [1..n -> Sextet]
  BY <1>2, <1>3
<1>5. QED
  BY <1>1, <1>4

\* base64url is decodable, and decoded to what it encodes.
LEMMA RoundTrip64 ==
  ASSUME NEW bytes \in Seq(Byte)
  PROVE  /\ B64Decodes(B64Encode(bytes))
         /\ B64Decode(B64Encode(bytes)) = bytes
<1>. DEFINE chars == B64Encode(bytes)
            n == Len(bytes)
<1>1. Len(chars) = (4 * n + 2) \div 3 /\ n \in Nat
  BY Encoded64
<1>2. Len(chars) % 4 # 1
  BY <1>1
<1>3. (3 * Len(chars)) \div 4 = n
  BY <1>1
<1>4. ASSUME NEW i \in 1..n PROVE B64Decode(chars)[i] = bytes[i]
  <2>1. PICK k \in Nat, j \in 1..3 : i = 3 * k + j
    <3>1. (i - 1) \div 3 \in Nat /\ ((i - 1) % 3) + 1 \in 1..3
          /\ i = 3 * ((i - 1) \div 3) + (((i - 1) % 3) + 1)
      BY <1>1
    <3>2. QED
      BY <3>1
  <2>2. /\ (i - 1) \div 3 = k
        /\ i % 3 = IF j = 3 THEN 0 ELSE j
    BY <2>1
  <2>3. B64Decode(chars)[i] =
          CASE j = 1 -> Unit(chars, 4 * k + 1) * 4 + Unit(chars, 4 * k + 2) \div 16
            [] j = 2 -> (Unit(chars, 4 * k + 2) % 16) * 16 + Unit(chars, 4 * k + 3) \div 4
            [] j = 3 -> (Unit(chars, 4 * k + 3) % 4) * 64 + Unit(chars, 4 * k + 4)
    <3>1. B64Decode(chars)[i] =
          CASE i % 3 = 1 -> Unit(chars, 4 * k + 1) * 4 + Unit(chars, 4 * k + 2) \div 16
            [] i % 3 = 2 -> (Unit(chars, 4 * k + 2) % 16) * 16 + Unit(chars, 4 * k + 3) \div 4
            [] i % 3 = 0 -> (Unit(chars, 4 * k + 3) % 4) * 64 + Unit(chars, 4 * k + 4)
      BY <1>3, <2>2 DEF B64Decode
    <3>2. QED
      BY <3>1, <2>2
  <2>. DEFINE x == Unit(bytes, 3 * k + 1)
              y == Unit(bytes, 3 * k + 2)
              z == Unit(bytes, 3 * k + 3)
  <2>4. x \in 0..255 /\ y \in 0..255 /\ z \in 0..255
    BY Octets
  <2>6. bytes[i] = CASE j = 1 -> x [] j = 2 -> y [] j = 3 -> z
    BY <2>1, <1>1 DEF Unit
  <2>7. ASSUME NEW m \in 1..4, 4 * k + m <= Len(chars)
        PROVE  Unit(chars, 4 * k + m) = CASE m = 1 -> x \div 4
                                          [] m = 2 -> (x % 4) * 16 + y \div 16
                                          [] m = 3 -> (y % 16) * 4 + z \div 64
                                          [] m = 4 -> z % 64
    <3>1. chars[4 * k + m] = CASE m = 1 -> x \div 4
                               [] m = 2 -> (x % 4) * 16 + y \div 16
                               [] m = 3 -> (y % 16) * 4 + z \div 64
                               [] m = 4 -> z % 64
      BY <1>1, <2>7, EncodedGroup
    <3>2. QED
      BY <3>1, <2>7 DEF Unit
  <2>. HIDE DEF x, y, z, chars
  <2>8. 4 * k + j + 1 <= Len(chars)
    BY <1>1, <2>1 DEF chars
  <2>e. /\ (x \div 4) * 4 + ((x % 4) * 16 + y \div 16) \div 16 = x
        /\ (((x % 4) * 16 + y \div 16) % 16) * 16 + ((y % 16) * 4 + z \div 64) \div 4 = y
        /\ (((y % 16) * 4 + z \div 64) % 4) * 64 + (z % 64) = z
    BY <2>4
  <2>9. CASE j = 1
    <3>1. Unit(chars, 4 * k + 1) = x \div 4 /\ Unit(chars, 4 * k + 2) = (x % 4) * 16 + y \div 16
      BY <2>7, <2>8, <2>9, <1>1
    <3>2. QED
      BY <2>3, <2>6, <2>e, <2>9, <3>1
  <2>10. CASE j = 2
    <3>1. Unit(chars, 4 * k + 2) = (x % 4) * 16 + y \div 16
          /\ Unit(chars, 4 * k + 3) = (y % 16) * 4 + z \div 64
      BY <2>7, <2>8, <2>10, <1>1
    <3>2. QED
      BY <2>3, <2>6, <2>e, <2>10, <3>1
  <2>11. CASE j = 3
    <3>1. Unit(chars, 4 * k + 3) = (y % 16) * 4 + z \div 64 /\ Unit(chars, 4 * k + 4) = z % 64
      BY <2>7, <2>8, <2>11, <1>1
    <3>2. QED
      BY <2>3, <2>6, <2>e, <2>11, <3>1
  <2>12. QED
    BY <2>9, <2>10, <2>11
<1>5. B64Decode(chars) = [i \in 1..n |-> B64Decode(chars)[i]]
  BY <1>3 DEF B64Decode
<1>6. bytes = [i \in 1..n |-> bytes[i]]
  OBVIOUS
<1>. HIDE DEF chars, n
<1>7. [i \in 1..n |-> B64Decode(chars)[i]] = [i \in 1..n |-> bytes[i]]
  BY <1>4
<1>8. QED
  BY <1>2, <1>5, <1>6, <1>7 DEF B64Decodes, chars

-----------------------------------------------------------------------------
(* Theorems *)

\* Whatever the registry signs, in whatever form it writes the signature, the value is
\* one that decode_multibase and the JWT's reader decode to the same bytes: also a
\* signature that begins with zeros, or ends inside a group of base64url
\* (b58btc_encode, _b64url, decode_multibase).
THEOREM EncodingsRoundTrip ==
  \A form \in Forms, bytes \in Seq(Byte) :
    Encode(form, bytes) \in Value /\ Decode(Encode(form, bytes)) = bytes
<1>. SUFFICES ASSUME NEW form \in Forms, NEW bytes \in Seq(Byte)
              PROVE  Encode(form, bytes) \in Value /\ Decode(Encode(form, bytes)) = bytes
  OBVIOUS
<1>1. CASE form = "proof"
  <2>1. /\ B58Encode(bytes) \in Seq(0..57)
        /\ B58Decode(B58Encode(bytes)) = bytes
    BY Base58Back
  <2>3. Encode(form, bytes) = [prefix |-> "z", chars |-> B58Encode(bytes)]
    BY <1>1 DEF Encode
  <2>. DEFINE chars == B58Encode(bytes)
  <2>4. chars \in Seq(0..57) /\ B58Decode(chars) = bytes
    BY <2>1
  <2>. HIDE DEF chars
  <2>5. chars \in Seq(0..63)
    BY <2>4
  <2>6. [prefix |-> "z", chars |-> chars] \in Value
    BY <2>5 DEF Value
  <2>7. Decode([prefix |-> "z", chars |-> chars]) = bytes
    BY <2>4 DEF Decode
  <2>8. QED
    BY <2>3, <2>6, <2>7 DEF chars
<1>2. CASE form # "proof"
  <2>. DEFINE chars == B64Encode(bytes)
  <2>1. chars \in Seq(0..63) /\ B64Decodes(chars) /\ B64Decode(chars) = bytes
    BY Encoded64, RoundTrip64 DEF Sextet
  <2>. HIDE DEF chars
  <2>2. PICK prefix \in {"u", ""} : Encode(form, bytes) = [prefix |-> prefix, chars |-> chars]
    BY <1>2 DEF Encode, Forms, chars
  <2>3. [prefix |-> prefix, chars |-> chars] \in Value
    BY <2>1 DEF Value
  <2>4. Decode([prefix |-> prefix, chars |-> chars]) = bytes
    BY <2>1 DEF Decode
  <2>5. QED
    BY <2>2, <2>3, <2>4
<1>3. QED
  BY <1>1, <1>2

\* A signature has one spelling in base58btc: two texts that decode to the same bytes
\* are the same, also where they begin with ones (b58btc_decode).
THEOREM OneSpelling ==
  \A chars, other \in Seq(0..57) : B58Decode(chars) = B58Decode(other) => chars = other
<1>. SUFFICES ASSUME NEW chars \in Seq(0..57), NEW other \in Seq(0..57),
                     B58Decode(chars) = B58Decode(other)
              PROVE  chars = other
  OBVIOUS
<1>1. B58Encode(B58Decode(chars)) = chars /\ B58Encode(B58Decode(other)) = other
  BY Base58Forth
<1>2. QED
  BY <1>1
=============================================================================
