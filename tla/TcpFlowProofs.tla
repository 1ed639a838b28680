---------------------------- MODULE TcpFlowProofs ----------------------------
(***************************************************************************)
(* Theorems about TcpFlow, for every modulus, stream, flow setting and     *)
(* number of packets that TcpFlowAssumption allows.                        *)
(*                                                                         *)
(* The argument is about a line: once a flow has an origin, its number     *)
(* `next` and its position nextPos differ by the number of position 0,     *)
(* which is ISN or ISN - M, and so do the number and the position of every *)
(* segment it holds.  A step moves the flow along the line (Moves, Holds): *)
(* it feeds the positions from some a on, and jumps over those before a.   *)
(***************************************************************************)
EXTENDS TcpFlow, FiniteSetTheorems, WellFoundedInduction, TLAPS

-----------------------------------------------------------------------------
(***************************************************************************)
(* Numbers.                                                                *)
(***************************************************************************)
(* A set of naturals that is not empty has a least element: the only        *)
(* induction below.                                                         *)
LEMMA LeastNumber ==
  ASSUME NEW T, T \subseteq Nat, T # {}
  PROVE  \E n \in T : \A m \in T : n <= m
<1> DEFINE R == OpToRel(<, Nat)
<1>1. IsWellFoundedOn(R, Nat)
  BY NatLessThanWellFounded
<1>2. \A x, y \in Nat : <<y, x>> \in R <=> y < x
  BY DEF OpToRel
<1> HIDE DEF R
<1>3. PICK n \in T : \A m \in T : ~ (<<m, n>> \in R)
  BY <1>1, WFMin
<1>4. \A m \in T : n \in Nat /\ m \in Nat /\ ~(m < n)
  BY <1>2, <1>3
<1> QED BY <1>4

(* A set of integers that is bounded below has its Min.                     *)
LEMMA MinOf ==
  ASSUME NEW b \in Int, NEW T, T # {}, \A t \in T : t \in Int /\ b <= t
  PROVE  Min(T) \in T /\ \A t \in T : Min(T) <= t
<1> DEFINE U == {t - b : t \in T}
<1>1. U \subseteq Nat /\ U # {}
  OBVIOUS
<1>2. \A t \in T : t - b \in U
  OBVIOUS
<1>3. \A u \in U : \E t \in T : u = t - b
  OBVIOUS
<1> HIDE DEF U
<1>4. PICK n \in U : \A m \in U : n <= m
  BY <1>1, LeastNumber
<1>5. PICK x \in T : n = x - b
  BY <1>3
<1>6. \A t \in T : x <= t
  <2> SUFFICES ASSUME NEW t \in T PROVE x <= t
    OBVIOUS
  <2>1. n <= t - b
    BY <1>2, <1>4
  <2> QED BY <2>1, <1>5
<1> QED BY <1>6 DEF Min

(* A set of integers that is bounded above has a greatest element.          *)
LEMMA GreatestOf ==
  ASSUME NEW b \in Int, NEW T, T # {}, \A t \in T : t \in Int /\ t <= b
  PROVE  \E x \in T : \A t \in T : t <= x
<1> DEFINE U == {b - t : t \in T}
<1>1. U \subseteq Nat /\ U # {}
  OBVIOUS
<1>2. \A t \in T : b - t \in U
  OBVIOUS
<1>3. \A u \in U : \E t \in T : u = b - t
  OBVIOUS
<1> HIDE DEF U
<1>4. PICK n \in U : \A m \in U : n <= m
  BY <1>1, LeastNumber
<1>5. PICK x \in T : n = b - x
  BY <1>3
<1>6. \A t \in T : t <= x
  <2> SUFFICES ASSUME NEW t \in T PROVE t <= x
    OBVIOUS
  <2>1. n <= b - t
    BY <1>2, <1>4
  <2> QED BY <2>1, <1>5
<1> QED BY <1>6

(* Numbers below twice the modulus.                                         *)
LEMMA SmallMod ==
  ASSUME NEW m \in Nat \ {0}, NEW a \in 0..2*m-1
  PROVE  a % m = IF a < m THEN a ELSE a - m
OBVIOUS

(* Half of the modulus.                                                     *)
LEMMA Half ==
  ASSUME FlowConstants
  PROVE  \E h \in Nat : M = 2 * h /\ M \div 2 = h
BY DEF FlowConstants

(* Unwrap finds the number it is given, at whatever distance below half the *)
(* modulus and on whichever side of the wrap.                               *)
LEMMA UnwrapNear ==
  ASSUME FlowConstants, NEW x \in 0..2*M-1, NEW y \in 0..2*M-1, NEW d \in Int,
         2 * d < M, -M < 2 * d,
         x = y + d \/ x = y + d + M \/ x = y + d - M
  PROVE  Unwrap(x, y) = y + d
<1>0. M \in Nat \ {0}
  BY DEF FlowConstants
<1>1. x % M = IF x < M THEN x ELSE x - M
  BY <1>0, SmallMod
<1>2. y % M = IF y < M THEN y ELSE y - M
  BY <1>0, SmallMod
<1>3. PICK h \in Nat : M = 2 * h /\ M \div 2 = h
  BY Half
<1> DEFINE c == y - (y % M) + (x % M)
<1>4. c \in Int
  BY <1>0, <1>1, <1>2
<1>5. c = y + d \/ c = y + d + M \/ c = y + d - M
  BY <1>0, <1>1, <1>2
<1>6. Unwrap(x, y) = IF c - y > h THEN c - M ELSE IF y - c > h THEN c + M ELSE c
  BY <1>3 DEF Unwrap
<1> HIDE DEF c
<1> QED BY <1>0, <1>3, <1>4, <1>5, <1>6

(* What a position is on the wire.                                          *)
LEMMA WireIs ==
  ASSUME FlowConstants, NEW p \in 0..StreamLen
  PROVE  /\ Wire(p) \in 0..M-1
         /\ Wire(p) = ISN + p \/ Wire(p) = ISN + p - M
<1> DEFINE a == ISN + p
<1>1. M \in Nat \ {0} /\ ISN \in 0..M-1 /\ StreamLen \in Nat /\ StreamLen < M
  BY DEF FlowConstants
<1>2. a \in 0..2*M-1
  BY <1>1
<1>3. Wire(p) = a % M
  BY DEF Wire
<1> HIDE DEF a
<1>4. Wire(p) = IF a < M THEN a ELSE a - M
  BY <1>1, <1>2, <1>3, SmallMod
<1>5. Wire(p) \in 0..M-1 /\ (Wire(p) = a \/ Wire(p) = a - M)
  BY <1>1, <1>2, <1>4
<1>6. a = ISN + p
  BY DEF a
<1> QED BY <1>1, <1>2, <1>5, <1>6

(* Positions have different numbers.                                        *)
LEMMA WireInjective ==
  ASSUME FlowConstants, NEW p \in 0..StreamLen, NEW q \in 0..StreamLen, Wire(p) = Wire(q)
  PROVE  p = q
<1>1. /\ M \in Nat \ {0} /\ ISN \in Int /\ StreamLen \in Nat /\ StreamLen < M
  BY DEF FlowConstants
<1>2. /\ Wire(p) = ISN + p \/ Wire(p) = ISN + p - M
      /\ Wire(q) = ISN + q \/ Wire(q) = ISN + q - M
  BY WireIs
<1> QED BY <1>1, <1>2

(* Relative to a number of the line that the flow follows, a wire number    *)
(* and a number of the line itself are unwrapped onto that line.            *)
LEMMA UnwrapLine ==
  ASSUME FlowConstants, NEW n \in Nat, NEW q \in 0..StreamLen, NEW p \in 0..StreamLen,
         n - q \in {ISN, ISN - M}
  PROVE  /\ Unwrap(Wire(p), n) = n + (p - q)
         /\ n + (p - q) >= 0 => Unwrap(n + (p - q), n) = n + (p - q)
<1>1. /\ M \in Nat \ {0} /\ ISN \in 0..M-1 /\ StreamLen \in Nat /\ 2 * StreamLen < M
  BY DEF FlowConstants
<1>2. n \in 0..2*M-1
  BY <1>1
<1> DEFINE d == p - q
<1>3. d \in Int /\ 2 * d < M /\ -M < 2 * d
  BY <1>1
<1>4. Unwrap(Wire(p), n) = n + d
  <2>1. Wire(p) \in 0..2*M-1
    BY <1>1, WireIs
  <2>2. Wire(p) = n + d \/ Wire(p) = n + d + M \/ Wire(p) = n + d - M
    BY <1>1, WireIs
  <2> HIDE DEF d
  <2> QED BY <1>2, <1>3, <2>1, <2>2, UnwrapNear
<1>5. ASSUME n + d >= 0 PROVE Unwrap(n + d, n) = n + d
  <2>1. n + d \in 0..2*M-1
    BY <1>1, <1>5
  <2> HIDE DEF d
  <2> QED BY <1>2, <1>3, <2>1, UnwrapNear
<1> QED BY <1>4, <1>5

-----------------------------------------------------------------------------
(***************************************************************************)
(* What a flush delivers.                                                  *)
(***************************************************************************)
(* The segments of S lie on one line, with position 0 at off, and end       *)
(* within the stream.                                                       *)
OnLine(S, off) ==
    \A s \in S : s \in Segment /\ s.pos + s.len <= StreamLen /\ s.seq - s.pos = off

(* On the line, a segment holds the numbers seq..End-1, which are those of  *)
(* its bytes.                                                               *)
LEMMA LineSegment ==
  ASSUME FlowConstants, NEW off \in Int, NEW S, OnLine(S, off), NEW s \in S
  PROVE  /\ s.seq \in Int /\ s.len \in Nat \ {0} /\ s.pos \in Nat /\ s.ts \in Nat
         /\ End(s) \in Int /\ s.seq < End(s)
         /\ s.pos = s.seq - off /\ off <= s.seq /\ End(s) <= off + StreamLen
         /\ \A p \in Int : p \in Bytes(s) <=> (s.seq <= p + off /\ p + off < End(s))
<1>1. s \in Segment /\ s.pos + s.len <= StreamLen /\ s.seq - s.pos = off /\ StreamLen \in Nat
  BY DEF OnLine, FlowConstants
<1>2. s.seq \in Int /\ s.len \in 1..StreamLen /\ s.pos \in 0..StreamLen /\ s.ts \in Nat
  BY <1>1 DEF Segment
<1>3. \A p \in Int : p \in Bytes(s) <=> (s.pos <= p /\ p <= s.pos + s.len - 1)
  BY <1>2 DEF Bytes
<1> QED BY <1>1, <1>2, <1>3 DEF End

Reaches(S, n) == {m \in {n} \cup {End(s) : s \in S} :
                    m >= n /\ \A s \in S : s.seq <= m => End(s) <= m}

(* A flush stops where a held segment ends; no held segment crosses or      *)
(* touches the point, and every number before it is held by one.            *)
LEMMA FlushStops ==
  ASSUME FlowConstants, NEW off \in Int, NEW n \in Int, NEW S, OnLine(S, off),
         NEW t \in S, t.seq = n, \A s \in S : s.seq >= n
  PROVE  /\ FlushPoint(S, n) \in Int /\ FlushPoint(S, n) > n
         /\ FlushPoint(S, n) <= off + StreamLen
         /\ \A s \in S : s.seq <= FlushPoint(S, n) => End(s) <= FlushPoint(S, n)
         /\ \A a \in n..FlushPoint(S, n) - 1 : \E s \in S : s.seq <= a /\ a < End(s)
<1> DEFINE T == Reaches(S, n)
           E == {End(s) : s \in S}
<1>0. \A s \in S : /\ s.seq \in Int /\ End(s) \in Int /\ s.seq < End(s)
                   /\ End(s) <= off + StreamLen /\ n <= s.seq
  BY LineSegment
<1>00. StreamLen \in Nat
  BY DEF FlowConstants
<1>1. T # {}
  <2>1. E # {} /\ (\A e \in E : e \in Int /\ e <= off + StreamLen)
    BY <1>0
  <2>2. PICK x \in E : \A e \in E : e <= x
    <3> HIDE DEF E
    <3> QED BY <1>00, <2>1, GreatestOf
  <2>3. x \in T
    BY <1>0, <2>1, <2>2 DEF Reaches
  <2> QED BY <2>3
<1>2. \A m \in T : m \in Int /\ n <= m
  BY <1>0 DEF Reaches
<1>3. FlushPoint(S, n) = Min(T)
  BY DEF FlushPoint, Reaches
<1> DEFINE r == FlushPoint(S, n)
<1>4. r \in T /\ \A m \in T : r <= m
  <2> HIDE DEF T
  <2> QED BY <1>1, <1>2, <1>3, MinOf
<1> HIDE DEF r
<1>5. r \in Int /\ r >= n /\ \A s \in S : s.seq <= r => End(s) <= r
  BY <1>2, <1>4 DEF Reaches
<1>6. r > n
  BY <1>0, <1>5
<1>7. r <= off + StreamLen
  <2>1. r \in E \cup {n}
    BY <1>4 DEF Reaches
  <2> QED BY <1>0, <1>6, <2>1
<1>8. ASSUME NEW a \in n..r-1, ~ \E s \in S : s.seq <= a /\ a < End(s) PROVE FALSE
  <2> DEFINE F == {n} \cup {e \in E : e <= a}
  <2>1. a \in Int /\ n <= a /\ a < r
    BY <1>5
  <2>2. F # {} /\ \A f \in F : f \in Int /\ f <= a
    BY <1>0, <2>1
  <2>3. PICK x \in F : \A f \in F : f <= x
    <3> HIDE DEF F
    <3> QED BY <2>1, <2>2, GreatestOf
  <2>4. x \in {n} \cup E /\ x \in Int /\ x >= n /\ x <= a
    BY <2>1, <2>2, <2>3
  <2>5. ASSUME NEW s \in S, s.seq <= x PROVE End(s) <= x
    <3>1. s.seq <= a
      BY <1>0, <2>1, <2>4, <2>5
    <3>2. End(s) <= a
      BY <1>0, <1>8, <2>1, <3>1
    <3>3. End(s) \in F
      BY <3>2
    <3> QED BY <2>3, <3>3
  <2>6. x \in T
    BY <2>4, <2>5 DEF Reaches
  <2> QED BY <1>4, <1>5, <2>1, <2>4, <2>6
<1> QED BY <1>5, <1>6, <1>7, <1>8 DEF r

(* The byte that is held at a number is that of the position there.         *)
LEMMA ByteAtIs ==
  ASSUME FlowConstants, NEW off \in Int, NEW S, OnLine(S, off), NEW a \in Int,
         \E s \in S : s.seq <= a /\ a < End(s)
  PROVE  /\ ByteAt(S, a) = a - off
         /\ \E s \in S : a - off \in Bytes(s)
<1> DEFINE s == CHOOSE s \in S : s.seq <= a /\ a < End(s)
<1>1. s \in S /\ s.seq <= a /\ a < End(s)
  OBVIOUS
<1>2. ByteAt(S, a) = s.pos + (a - s.seq)
  BY DEF ByteAt
<1> HIDE DEF s
<1>3. /\ s.seq \in Int /\ s.pos = s.seq - off
      /\ \A p \in Int : p \in Bytes(s) <=> (s.seq <= p + off /\ p + off < End(s))
  BY <1>1, LineSegment
<1>4. s.pos + (a - s.seq) = a - off /\ a - off \in Int /\ (a - off) + off = a
  BY <1>3
<1>5. a - off \in Bytes(s)
  BY <1>1, <1>3, <1>4
<1> QED BY <1>1, <1>2, <1>4, <1>5

-----------------------------------------------------------------------------
(***************************************************************************)
(* Sorting.                                                                *)
(***************************************************************************)
InTurn(q, n) == \A i, j \in 1..n : i < j => q[i].seq < q[j].seq
CanSort(U) == \E q \in [1..Cardinality(U) -> U] : InTurn(q, Cardinality(U))

(* A finite set of segments with distinct numbers can be sorted.            *)
LEMMA SortExists ==
  ASSUME NEW b \in Int, NEW S, IsFiniteSet(S),
         \A s \in S : s.seq \in Int /\ s.seq <= b,
         \A s, t \in S : s.seq = t.seq => s = t
  PROVE  CanSort(S)
<1> DEFINE T == {n \in Nat : \E U \in SUBSET S : Cardinality(U) = n /\ ~CanSort(U)}
<1>1. T = {}
  <2> SUFFICES ASSUME T # {} PROVE FALSE
    OBVIOUS
  <2>1. PICK n \in T : \A m \in T : n <= m
    <3>1. T \subseteq Nat
      OBVIOUS
    <3> HIDE DEF T
    <3> QED BY <3>1, LeastNumber
  <2>2. PICK U \in SUBSET S : Cardinality(U) = n /\ ~CanSort(U)
    BY <2>1
  <2>3. IsFiniteSet(U)
    BY FS_Subset
  <2>4. U # {}
    <3> SUFFICES ASSUME U = {} PROVE FALSE
      OBVIOUS
    <3>1. Cardinality(U) = 0
      BY FS_EmptySet
    <3>2. [i \in 1..0 |-> i] \in [1..0 -> U] /\ InTurn([i \in 1..0 |-> i], 0)
      BY DEF InTurn
    <3> QED BY <2>2, <3>1, <3>2 DEF CanSort
  <2>5. PICK x \in U : \A s \in U : s.seq <= x.seq
    <3> DEFINE E == {s.seq : s \in U}
    <3>1. E # {} /\ \A e \in E : e \in Int /\ e <= b
      BY <2>4
    <3>2. PICK e \in E : \A f \in E : f <= e
      <4> HIDE DEF E
      <4> QED BY <3>1, GreatestOf
    <3>3. PICK x \in U : e = x.seq
      BY <3>2
    <3> QED BY <3>2, <3>3
  <2> DEFINE V == U \ {x}
             k == Cardinality(V)
  <2>6. n \in Nat /\ k \in Nat /\ k = n - 1 /\ V \in SUBSET S
    <3>1. IsFiniteSet(V) /\ k = Cardinality(U) - 1
      BY <2>3, <2>5, FS_RemoveElement
    <3>2. k \in Nat
      BY <3>1, FS_CardinalityType
    <3> HIDE DEF k
    <3> QED BY <2>1, <2>2, <3>1, <3>2
  <2>7. CanSort(V)
    BY <2>1, <2>6
  <2>8. PICK q \in [1..k -> V] : InTurn(q, k)
    BY <2>7 DEF CanSort
  <2> HIDE DEF k
  <2> DEFINE r == [i \in 1..n |-> IF i = n THEN x ELSE q[i]]
  <2>9. \A i \in 1..n : i # n => i \in 1..k
    BY <2>6
  <2>10. r \in [1..n -> U]
    BY <2>5, <2>8, <2>9
  <2>11. \A i \in 1..n : i # n => r[i] = q[i] /\ q[i] \in V
    BY <2>8, <2>9
  <2>12. n \in 1..n => r[n] = x
    OBVIOUS
  <2> HIDE DEF r
  <2>13. InTurn(r, n)
    <3> SUFFICES ASSUME NEW i \in 1..n, NEW j \in 1..n, i < j PROVE r[i].seq < r[j].seq
      BY DEF InTurn
    <3>1. i # n /\ i \in 1..k
      BY <2>6, <2>9
    <3>2. CASE j = n
      <4>1. r[i] \in V /\ r[j] = x
        BY <2>11, <2>12, <3>1, <3>2
      <4>2. r[i].seq <= x.seq /\ r[i] # x /\ r[i] \in S /\ x \in S
        BY <2>5, <4>1
      <4>3. r[i].seq # x.seq /\ r[i].seq \in Int /\ x.seq \in Int
        BY <4>2
      <4> QED BY <4>1, <4>2, <4>3
    <3>3. CASE j # n
      <4>1. j \in 1..k
        BY <2>9, <3>3
      <4> QED BY <2>8, <2>11, <3>1, <3>3, <4>1 DEF InTurn
    <3> QED BY <3>2, <3>3
  <2> QED BY <2>2, <2>10, <2>13 DEF CanSort
<1>2. IsFiniteSet(S) /\ Cardinality(S) \in Nat
  BY FS_CardinalityType
<1> QED BY <1>1, <1>2

(* Sorted gives a sequence of exactly these segments, in order.             *)
LEMMA SortedIs ==
  ASSUME NEW b \in Int, NEW S, IsFiniteSet(S),
         \A s \in S : s.seq \in Int /\ s.seq <= b,
         \A s, t \in S : s.seq = t.seq => s = t
  PROVE  /\ Sorted(S) \in Seq(S) /\ ToSet(Sorted(S)) = S
         /\ \A i, j \in DOMAIN Sorted(S) : i < j => Sorted(S)[i].seq < Sorted(S)[j].seq
<1> DEFINE n == Cardinality(S)
           q == Sorted(S)
<1>1. CanSort(S)
  BY SortExists
<1>2. q \in [1..n -> S] /\ InTurn(q, n)
  BY <1>1 DEF CanSort, Sorted, InTurn
<1>3. n \in Nat
  BY FS_CardinalityType
<1> HIDE DEF q
<1>4. q \in Seq(S) /\ DOMAIN q = 1..n
  BY <1>2, <1>3
<1>5. q \in Injection(1..n, S)
  <2>1. \A i, j \in 1..n : q[i] = q[j] => i = j
    <3> SUFFICES ASSUME NEW i \in 1..n, NEW j \in 1..n, q[i] = q[j], i # j PROVE FALSE
      OBVIOUS
    <3>0. i \in Int /\ j \in Int /\ (i < j \/ j < i)
      BY <1>3
    <3>1. q[i] \in S /\ q[i].seq \in Int
      BY <1>2
    <3>2. q[i].seq < q[j].seq \/ q[j].seq < q[i].seq
      BY <1>2, <3>0 DEF InTurn
    <3> QED BY <3>1, <3>2
  <2> QED BY <1>2, <2>1 DEF Injection, IsInjective
<1>6. q \in Surjection(1..n, S)
  <2>1. Cardinality(1..n) = n
    BY <1>3, FS_Interval
  <2> QED BY <1>5, <2>1, FS_Injection
<1>7. ToSet(q) = S
  BY <1>4, <1>6 DEF ToSet, Surjection
<1> QED BY <1>2, <1>4, <1>7 DEF q, InTurn

-----------------------------------------------------------------------------
(***************************************************************************)
(* Sizes.                                                                  *)
(***************************************************************************)
SumLen(S) == MapThenSumSet(LAMBDA s : s.len, S)
Some(s) == CHOOSE x \in s : TRUE
Small(S, n) == {u \in SUBSET S : Cardinality(u) <= n}
AddsOn(D, g) == g = [s \in D |-> IF s = {} THEN 0 ELSE Some(s).len + g[s \ {Some(s)}]]

(* A set that is not empty without one of its elements is smaller.          *)
LEMMA Smaller ==
  ASSUME NEW S, IsFiniteSet(S), NEW s \in SUBSET S, NEW x \in s
  PROVE  /\ IsFiniteSet(s) /\ Cardinality(s) \in Nat \ {0}
         /\ s \ {x} \in SUBSET S /\ Cardinality(s \ {x}) = Cardinality(s) - 1
         /\ Cardinality(s \ {x}) \in Nat
<1>1. IsFiniteSet(s)
  BY FS_Subset
<1>2. IsFiniteSet(s \ {x}) /\ Cardinality(s \ {x}) = Cardinality(s) - 1
  BY <1>1, FS_RemoveElement
<1>3. Cardinality(s) \in Nat /\ Cardinality(s \ {x}) \in Nat
  BY <1>1, <1>2, FS_CardinalityType
<1>4. s \ {x} \in SUBSET S
  OBVIOUS
<1> QED BY <1>1, <1>2, <1>3, <1>4

(* Among subsets of a finite set there is one that has, with one element    *)
(* less, no other.                                                          *)
LEMMA LeastSubset ==
  ASSUME NEW S, IsFiniteSet(S), NEW B, B \subseteq SUBSET S, B # {}
  PROVE  \E s \in B : \A x \in s : s \ {x} \notin B
<1> DEFINE T == {Cardinality(s) : s \in B}
<1>1. \A s \in SUBSET S : Cardinality(s) \in Nat
  BY FS_Subset, FS_CardinalityType
<1>2. T \subseteq Nat /\ T # {}
  BY <1>1
<1>3. PICK n \in T : \A m \in T : n <= m
  <2> HIDE DEF T
  <2> QED BY <1>2, LeastNumber
<1>4. PICK s \in B : n = Cardinality(s)
  BY <1>3
<1>5. \A x \in s : s \ {x} \notin B
  <2> SUFFICES ASSUME NEW x \in s, s \ {x} \in B PROVE FALSE
    OBVIOUS
  <2>1. Cardinality(s \ {x}) = Cardinality(s) - 1 /\ Cardinality(s) \in Nat
    BY <1>4, Smaller
  <2>2. Cardinality(s \ {x}) \in T
    OBVIOUS
  <2>3. n <= Cardinality(s \ {x})
    BY <1>3, <2>2
  <2> QED BY <1>4, <2>1, <2>3
<1> QED BY <1>5

(* The partial sums exist.                                                  *)
LEMMA AddsExist ==
  ASSUME NEW S, IsFiniteSet(S)
  PROVE  \E g : AddsOn(SUBSET S, g)
<1> DEFINE T == {n \in Nat : ~ \E g : AddsOn(Small(S, n), g)}
<1>0. \A s \in SUBSET S : Cardinality(s) \in Nat
  BY FS_Subset, FS_CardinalityType
<1>1. T = {}
  <2> SUFFICES ASSUME T # {} PROVE FALSE
    OBVIOUS
  <2>1. PICK n \in T : \A m \in T : n <= m
    <3>1. T \subseteq Nat
      OBVIOUS
    <3> HIDE DEF T
    <3> QED BY <3>1, LeastNumber
  <2>2. n \in Nat /\ ~ \E g : AddsOn(Small(S, n), g)
    BY <2>1
  <2>3. ASSUME NEW s \in Small(S, n), s # {}
        PROVE  /\ Some(s) \in s /\ s \ {Some(s)} \in Small(S, n - 1) /\ n - 1 \in Nat
    <3>1. Some(s) \in s /\ s \in SUBSET S /\ Cardinality(s) <= n
      BY <2>3 DEF Some, Small
    <3>2. /\ Cardinality(s) \in Nat \ {0} /\ s \ {Some(s)} \in SUBSET S
          /\ Cardinality(s \ {Some(s)}) = Cardinality(s) - 1
      BY <3>1, Smaller
    <3> QED BY <2>2, <3>1, <3>2 DEF Small
  <2>4. CASE n = 0
    <3>1. \A s \in Small(S, n) : s = {}
      BY <2>2, <2>3, <2>4
    <3>2. AddsOn(Small(S, n), [s \in Small(S, n) |-> 0])
      BY <3>1 DEF AddsOn
    <3> QED BY <2>2, <3>2
  <2>5. CASE n # 0
    <3>1. n - 1 \in Nat /\ n - 1 \notin T
      BY <2>1, <2>2, <2>5
    <3>2. PICK g : AddsOn(Small(S, n - 1), g)
      BY <3>1
    <3> DEFINE h == [s \in Small(S, n) |->
                        IF s = {} THEN 0 ELSE Some(s).len + g[s \ {Some(s)}]]
    <3>3. Small(S, n - 1) \subseteq Small(S, n)
      BY <1>0, <2>2 DEF Small
    <3>4. \A s \in Small(S, n - 1) : h[s] = g[s]
      <4>1. \A s \in Small(S, n - 1) :
                g[s] = IF s = {} THEN 0 ELSE Some(s).len + g[s \ {Some(s)}]
        BY <3>2 DEF AddsOn
      <4> QED BY <3>3, <4>1
    <3>5. \A s \in Small(S, n) : s # {} => h[s \ {Some(s)}] = g[s \ {Some(s)}]
      <4> HIDE DEF h
      <4> QED BY <2>3, <3>4
    <3>6. AddsOn(Small(S, n), h)
      <4>1. \A s \in Small(S, n) :
                (IF s = {} THEN 0 ELSE Some(s).len + g[s \ {Some(s)}])
                = (IF s = {} THEN 0 ELSE Some(s).len + h[s \ {Some(s)}])
        <5> HIDE DEF h
        <5> QED BY <3>5
      <4> DEFINE k == [s \in Small(S, n) |-> IF s = {} THEN 0 ELSE Some(s).len + h[s \ {Some(s)}]]
      <4>2. h = k
        BY <4>1
      <4> QED BY <4>2 DEF AddsOn
    <3> QED BY <2>2, <3>6
  <2> QED BY <2>4, <2>5
<1>2. Cardinality(S) \in Nat /\ Small(S, Cardinality(S)) = SUBSET S
  <2>1. \A s \in SUBSET S : Cardinality(s) <= Cardinality(S)
    BY FS_Subset
  <2> QED BY <1>0, <2>1 DEF Small
<1>3. \A n \in Nat : \E g : AddsOn(Small(S, n), g)
  BY <1>1
<1> HIDE DEF T
<1> QED BY <1>2, <1>3

(* ... and the last one is the size.                                        *)
LEMMA SumLenIs ==
  ASSUME NEW S, IsFiniteSet(S)
  PROVE  \E g : AddsOn(SUBSET S, g) /\ SumLen(S) = g[S]
<1> DEFINE f == CHOOSE g : AddsOn(SUBSET S, g)
<1>1. AddsOn(SUBSET S, f)
  BY AddsExist, Zenon
<1>2. SumLen(S) = f[S]
  BY DEF SumLen, MapThenSumSet, MapThenFoldSet, AddsOn, Some
<1> QED BY <1>1, <1>2

Additive(S, g) ==
    \A s \in SUBSET S : g[s] \in Nat /\ \A x \in s : g[s] = x.len + g[s \ {x}]

(* The order of the addition does not matter.                               *)
LEMMA AnyOrder ==
  ASSUME NEW S, IsFiniteSet(S), \A s \in S : s.len \in Nat, NEW g, AddsOn(SUBSET S, g)
  PROVE  Additive(S, g) /\ g[{}] = 0
<1> DEFINE Good(s) == g[s] \in Nat /\ \A x \in s : g[s] = x.len + g[s \ {x}]
           B == {s \in SUBSET S : ~Good(s)}
<1>1. \A s \in SUBSET S : g[s] = IF s = {} THEN 0 ELSE Some(s).len + g[s \ {Some(s)}]
  BY DEF AddsOn
<1>8. g[{}] = 0
  BY <1>1
<1>2. SUFFICES ASSUME B # {} PROVE FALSE
  BY <1>8 DEF Additive
<1>3. PICK s \in B : \A x \in s : s \ {x} \notin B
  <2>1. B \subseteq SUBSET S
    OBVIOUS
  <2> HIDE DEF B
  <2> QED BY <1>2, <2>1, LeastSubset
<1>4. s \in SUBSET S /\ ~Good(s) /\ \A x \in s : Good(s \ {x})
  BY <1>3
<1> HIDE DEF B
<1>7. \A u \in SUBSET S : g[u] \in Nat
  <2> DEFINE C == {u \in SUBSET S : g[u] \notin Nat}
  <2>1. SUFFICES ASSUME C # {} PROVE FALSE
    OBVIOUS
  <2>2. PICK u \in C : \A x \in u : u \ {x} \notin C
    <3>1. C \subseteq SUBSET S
      OBVIOUS
    <3> HIDE DEF C
    <3> QED BY <2>1, <3>1, LeastSubset
  <2>3. u # {} => Some(u) \in u
    BY DEF Some
  <2>4. u # {} => g[u \ {Some(u)}] \in Nat /\ Some(u).len \in Nat
    BY <2>2, <2>3
  <2>5. u \in SUBSET S /\ g[u] \notin Nat
    BY <2>2
  <2>6. CASE u = {}
    BY <1>8, <2>5, <2>6
  <2>7. CASE u # {}
    <3>1. g[u] = Some(u).len + g[u \ {Some(u)}]
      BY <1>1, <2>5, <2>7
    <3> QED BY <2>4, <2>5, <2>7, <3>1
  <2> QED BY <2>6, <2>7
<1>5. CASE s = {}
  <2>1. Good(s)
    BY <1>5, <1>8
  <2> QED BY <1>4, <2>1
<1>6. CASE s # {}
  <2> DEFINE y == Some(s)
  <2>1. y \in s /\ g[s] = y.len + g[s \ {y}]
    BY <1>1, <1>4, <1>6 DEF Some
  <2> HIDE DEF y
  <2>2. /\ y.len \in Nat /\ g[s \ {y}] \in Nat
        /\ \A x \in s \ {y} : g[s \ {y}] = x.len + g[(s \ {y}) \ {x}]
    BY <1>4, <2>1
  <2>3. g[s] \in Nat
    BY <2>1, <2>2
  <2>4. ASSUME NEW x \in s PROVE g[s] = x.len + g[s \ {x}]
    <3>1. CASE x = y
      BY <2>1, <3>1
    <3>2. CASE x # y
      <4>1. g[s \ {x}] \in Nat /\ g[s \ {x}] = y.len + g[(s \ {x}) \ {y}]
        BY <1>4, <2>1, <3>2
      <4>2. (s \ {x}) \ {y} = (s \ {y}) \ {x}
        OBVIOUS
      <4> DEFINE z == g[(s \ {y}) \ {x}]
      <4>3. g[s \ {y}] = x.len + z /\ g[s \ {x}] = y.len + z
        BY <2>2, <3>2, <4>1, <4>2
      <4>4. z \in Nat
        BY <1>4, <1>7
      <4> HIDE DEF z
      <4>5. x.len \in Nat
        BY <1>4
      <4> QED BY <2>1, <2>2, <4>3, <4>4, <4>5
    <3> QED BY <3>1, <3>2
  <2> QED BY <1>4, <2>3, <2>4
<1> QED BY <1>5, <1>6

(* The size of a part is not greater than the size of the whole.            *)
LEMMA SumLenMonotone ==
  ASSUME NEW S, IsFiniteSet(S), \A s \in S : s.len \in Nat, NEW T \in SUBSET S
  PROVE  SumLen(T) \in Nat /\ SumLen(S) \in Nat /\ SumLen(T) <= SumLen(S)
<1>0. IsFiniteSet(T)
  BY FS_Subset
<1>1. PICK g : AddsOn(SUBSET S, g) /\ SumLen(S) = g[S]
  BY SumLenIs
<1>2. PICK h : AddsOn(SUBSET T, h) /\ SumLen(T) = h[T]
  BY <1>0, SumLenIs
<1>3. Additive(S, g)
  BY <1>1, AnyOrder
<1>4. \A s \in SUBSET T : h[s] = g[s]
  <2> DEFINE B == {s \in SUBSET T : h[s] # g[s]}
  <2>1. SUFFICES ASSUME B # {} PROVE FALSE
    OBVIOUS
  <2>2. PICK s \in B : \A x \in s : s \ {x} \notin B
    <3>1. B \subseteq SUBSET T
      OBVIOUS
    <3> HIDE DEF B
    <3> QED BY <1>0, <2>1, <3>1, LeastSubset
  <2>3. /\ h[s] = IF s = {} THEN 0 ELSE Some(s).len + h[s \ {Some(s)}]
        /\ g[s] = IF s = {} THEN 0 ELSE Some(s).len + g[s \ {Some(s)}]
    BY <1>1, <1>2, <2>2 DEF AddsOn
  <2>4. s # {} => h[s \ {Some(s)}] = g[s \ {Some(s)}]
    <3>1. s # {} => Some(s) \in s
      BY DEF Some
    <3> QED BY <2>2, <3>1
  <2> QED BY <2>2, <2>3, <2>4
<1>5. g[T] <= g[S]
  <2> DEFINE B == {s \in SUBSET S : T \subseteq s /\ ~(g[T] <= g[s])}
  <2>1. SUFFICES ASSUME B # {} PROVE FALSE
    BY <1>3
  <2>2. PICK s \in B : \A x \in s : s \ {x} \notin B
    <3>1. B \subseteq SUBSET S
      OBVIOUS
    <3> HIDE DEF B
    <3> QED BY <2>1, <3>1, LeastSubset
  <2>3. g[T] \in Nat /\ g[s] \in Nat
    BY <1>3, <2>2 DEF Additive
  <2>4. PICK x \in s : x \notin T
    BY <2>2, <2>3
  <2>5. g[s] = x.len + g[s \ {x}] /\ g[s \ {x}] \in Nat /\ x.len \in Nat
    BY <1>3, <2>2, <2>4 DEF Additive
  <2>6. g[T] <= g[s \ {x}]
    BY <2>2, <2>4
  <2> QED BY <2>2, <2>3, <2>5, <2>6
<1> QED BY <1>1, <1>2, <1>3, <1>4, <1>5 DEF Additive

(* Nothing weighs nothing.                                                  *)
LEMMA SumLenEmpty == SumLen({}) = 0
<1>1. IsFiniteSet({})
  BY FS_EmptySet
<1>2. PICK g : AddsOn(SUBSET {}, g) /\ SumLen({}) = g[{}]
  BY <1>1, SumLenIs
<1> QED BY <1>2 DEF AddsOn

(* A buffer within its limits stays so when it shrinks, and an empty one    *)
(* is within them.                                                          *)
LEMMA CapacityShrinks ==
  ASSUME NEW S, IsFiniteSet(S), \A s \in S : s.len \in Nat, NEW T \in SUBSET S,
         settings \in Settings, ~CapacityExceeded(S)
  PROVE  ~CapacityExceeded(T)
<1>1. Cardinality(T) <= Cardinality(S) /\ Cardinality(T) \in Nat /\ Cardinality(S) \in Nat
  BY FS_Subset, FS_CardinalityType
<1>2. SumLen(T) \in Nat /\ SumLen(S) \in Nat /\ SumLen(T) <= SumLen(S)
  BY SumLenMonotone
<1>3. settings.segments \in Nat /\ (settings.bytes # None => settings.bytes \in Nat)
  BY DEF Settings
<1>4. /\ ~(Cardinality(S) > settings.segments)
      /\ settings.bytes # None => ~(SumLen(S) > settings.bytes)
  BY DEF CapacityExceeded, SumLen
<1>5. /\ ~(Cardinality(T) > settings.segments)
      /\ settings.bytes # None => ~(SumLen(T) > settings.bytes)
  BY <1>1, <1>2, <1>3, <1>4
<1> QED BY <1>5 DEF CapacityExceeded, SumLen

(* An empty buffer is within its limits.                                    *)
LEMMA EmptyWithin ==
  ASSUME settings \in Settings
  PROVE  ~CapacityExceeded({})
<1>1. Cardinality({}) = 0
  BY FS_EmptySet
<1>2. settings.segments \in Nat /\ (settings.bytes # None => settings.bytes \in Nat)
  BY DEF Settings
<1>3. /\ ~(Cardinality({}) > settings.segments)
      /\ settings.bytes # None => ~(SumLen({}) > settings.bytes)
  BY <1>1, <1>2, SumLenEmpty
<1> QED BY <1>3 DEF CapacityExceeded, SumLen

-----------------------------------------------------------------------------
(***************************************************************************)
(* What a commit adds, what a buffer keeps and what the scanner is given.  *)
(***************************************************************************)
(* Segments kept before the origin is known, with their wire numbers.       *)
Kept(S) ==
    /\ IsFiniteSet(S)
    /\ \A s \in S : s \in Segment /\ s.pos + s.len <= StreamLen /\ s.seq = Wire(s.pos)
    /\ \A s, t \in S : s.seq = t.seq => s = t

(* The segments q of a commit: those of S, in the order of a line.          *)
Lined(q, S, off) ==
    /\ q \in Seq(Segment) /\ q # <<>>
    /\ \A i \in DOMAIN q :
          /\ q[i].seq >= 0 /\ q[i].seq - q[i].pos = off /\ q[i].pos + q[i].len <= StreamLen
          /\ \E s \in S : q[i].ts = s.ts /\ q[i].pos = s.pos /\ q[i].len = s.len
    /\ \A s \in S : \E i \in DOMAIN q : q[i].pos = s.pos /\ q[i].len = s.len
    /\ \A i, j \in DOMAIN q : i < j => q[i].seq < q[j].seq

(* _ordered_unanchored puts what is kept on one line, whatever wraps.       *)
LEMMA OrderedLines ==
  ASSUME FlowConstants, NEW S, S # {}, Kept(S), NEW r \in 0..StreamLen, NEW ref, ref = Wire(r)
  PROVE  \E off \in {ISN, ISN - M} : Lined(Ordered(S, ref), S, off)
<1>0. /\ M \in Nat \ {0} /\ ISN \in 0..M-1 /\ StreamLen \in Nat /\ 2 * StreamLen < M
  BY DEF FlowConstants
<1>1. /\ ref \in Nat /\ ref - r \in {ISN, ISN - M}
  BY <1>0, WireIs
<1>2. \A s \in S : /\ s.pos \in 0..StreamLen /\ s.seq \in Int
                   /\ s.len \in 1..StreamLen /\ s.ts \in Nat
                   /\ s = [seq |-> s.seq, len |-> s.len, pos |-> s.pos, ts |-> s.ts]
  BY DEF Kept, Segment
<1>3. \A s \in S : Unwrap(s.seq, ref) = s.pos + (ref - r)
  <2> TAKE s \in S
  <2>1. s.seq = Wire(s.pos)
    BY DEF Kept
  <2>2. Unwrap(Wire(s.pos), ref) = ref + (s.pos - r)
    BY <1>1, <1>2, UnwrapLine
  <2> QED BY <1>1, <1>2, <2>1, <2>2
<1> DEFINE absolute == {[s EXCEPT !.seq = Unwrap(@, ref)] : s \in S}
           shift == IF \E s \in absolute : s.seq < 0 THEN M ELSE 0
           off == (ref - r) + shift
           At(s) == [s EXCEPT !.seq = s.pos + off]
           A == {At(s) : s \in S}
           moved == {[s EXCEPT !.seq = @ + shift] : s \in absolute}
<1>4. \A s \in S : [s EXCEPT !.seq = Unwrap(@, ref)].seq = s.pos + (ref - r)
  BY <1>2, <1>3
<1>5. \A s \in S : /\ s.pos + (ref - r) \in Int
                   /\ s.pos + (ref - r) < 0 => \E t \in absolute : t.seq < 0
  <2> TAKE s \in S
  <2>1. s.pos + (ref - r) \in Int
    BY <1>1, <1>2
  <2> DEFINE t == [s EXCEPT !.seq = Unwrap(@, ref)]
  <2>2. t \in absolute /\ t.seq = s.pos + (ref - r)
    BY <1>4
  <2> HIDE DEF t, absolute
  <2> QED BY <2>1, <2>2
<1>6. off \in {ISN, ISN - M} /\ \A s \in S : s.pos + off >= 0
  <2>1. CASE ref - r = ISN
    <3>1. \A t \in absolute : ~(t.seq < 0)
      BY <1>0, <1>2, <1>4, <2>1
    <3>2. shift = 0
      BY <3>1
    <3> HIDE DEF shift
    <3> QED BY <1>0, <1>2, <2>1, <3>2
  <2>2. CASE ref - r = ISN - M /\ \E t \in absolute : t.seq < 0
    <3>1. shift = M
      BY <2>2
    <3> HIDE DEF shift
    <3> QED BY <1>0, <1>2, <2>2, <3>1
  <2>3. CASE ref - r = ISN - M /\ ~ \E t \in absolute : t.seq < 0
    <3>1. shift = 0
      BY <2>3
    <3>2. \A s \in S : ~(s.pos + (ref - r) < 0)
      BY <1>5, <2>3
    <3> HIDE DEF shift, absolute
    <3> QED BY <1>0, <1>1, <1>2, <2>3, <3>1, <3>2
  <2> QED BY <1>1, <2>1, <2>2, <2>3
<1>7. shift \in Int
  BY <1>0
<1> HIDE DEF shift
<1>8. \A s \in S : [[s EXCEPT !.seq = Unwrap(@, ref)] EXCEPT !.seq = @ + shift] = At(s)
  <2> TAKE s \in S
  <2> DEFINE u == Unwrap(s.seq, ref)
             t == [s EXCEPT !.seq = u]
  <2>1. t = [seq |-> u, len |-> s.len, pos |-> s.pos, ts |-> s.ts]
    BY <1>2
  <2>2. [t EXCEPT !.seq = @ + shift]
        = [seq |-> u + shift, len |-> s.len, pos |-> s.pos, ts |-> s.ts]
    <3> HIDE DEF t, u
    <3> QED BY <2>1
  <2>3. At(s) = [seq |-> s.pos + off, len |-> s.len, pos |-> s.pos, ts |-> s.ts]
    BY <1>2
  <2>4. u + shift = s.pos + off
    BY <1>1, <1>2, <1>3, <1>7
  <2>5. [t EXCEPT !.seq = @ + shift] = At(s)
    BY <2>2, <2>3, <2>4
  <2> QED BY <2>5
<1>9. moved = A
  <2>1. moved = {[[s EXCEPT !.seq = Unwrap(@, ref)] EXCEPT !.seq = @ + shift] : s \in S}
    OBVIOUS
  <2> QED BY <1>8, <2>1
<1>10. Ordered(S, ref) = Sorted(A)
  <2>1. Ordered(S, ref) = Sorted(moved)
    BY DEF Ordered, shift
  <2> QED BY <1>9, <2>1
<1>11. off \in Int
  BY <1>1, <1>7
<1> HIDE DEF off, moved, absolute
<1>12. \A s \in S : /\ At(s) \in Segment /\ At(s).seq = s.pos + off /\ At(s).pos = s.pos
                    /\ At(s).len = s.len /\ At(s).ts = s.ts
  BY <1>2, <1>11 DEF Segment
<1>13. IsFiniteSet(A)
  <2>1. IsFiniteSet(S)
    BY DEF Kept
  <2> DEFINE f == [s \in S |-> At(s)]
  <2>2. f \in Surjection(S, A)
    BY DEF Surjection
  <2> HIDE DEF f, A
  <2> QED BY <2>1, <2>2, FS_Surjection
<1>14. \A a, b \in A : a.seq = b.seq => a = b
  <2> SUFFICES ASSUME NEW s \in S, NEW t \in S, At(s).seq = At(t).seq PROVE At(s) = At(t)
    OBVIOUS
  <2>1. s.pos = t.pos
    BY <1>2, <1>11, <1>12
  <2>2. s.seq = t.seq
    BY <2>1 DEF Kept
  <2> QED BY <2>2 DEF Kept
<1>15. \A a \in A : a \in Segment /\ a.seq \in Int /\ a.seq <= off + StreamLen
  BY <1>0, <1>2, <1>11, <1>12
<1>16. \A s \in S : At(s) \in A
  OBVIOUS
<1>17. \A a \in A : \E s \in S : a = At(s)
  OBVIOUS
<1> DEFINE q == Sorted(A)
<1> HIDE DEF At, A
<1>18. /\ q \in Seq(A) /\ ToSet(q) = A
       /\ \A i, j \in DOMAIN q : i < j => q[i].seq < q[j].seq
  <2>1. off + StreamLen \in Int
    BY <1>0, <1>11
  <2> QED BY <1>13, <1>14, <1>15, <2>1, SortedIs
<1> HIDE DEF q
<1>19. \A i \in DOMAIN q : q[i] \in A
  BY <1>18 DEF ToSet
<1>20. \A a \in A : \E i \in DOMAIN q : q[i] = a
  BY <1>18 DEF ToSet
<1>21. \A i \in DOMAIN q :
          /\ q[i].seq >= 0 /\ q[i].seq - q[i].pos = off /\ q[i].pos + q[i].len <= StreamLen
          /\ \E s \in S : q[i].ts = s.ts /\ q[i].pos = s.pos /\ q[i].len = s.len
  <2> TAKE i \in DOMAIN q
  <2>1. PICK s \in S : q[i] = At(s)
    BY <1>17, <1>19
  <2>2. s.pos + s.len <= StreamLen
    BY DEF Kept
  <2> QED BY <1>2, <1>6, <1>11, <1>12, <2>1, <2>2
<1>22. \A s \in S : \E i \in DOMAIN q : q[i].pos = s.pos /\ q[i].len = s.len
  BY <1>12, <1>16, <1>20
<1>23. q # <<>>
  BY <1>22
<1>24. q \in Seq(Segment)
  BY <1>15, <1>18
<1>25. Lined(q, S, off)
  BY <1>18, <1>21, <1>22, <1>23, <1>24 DEF Lined
<1> QED BY <1>6, <1>10, <1>25 DEF q

(* A buffer loses no byte to the segment that is put into it.               *)
LEMMA PutKeeps ==
  ASSUME NEW S, NEW s, S \cup {s} \subseteq Segment,
         \A p \in S : p.seq = s.seq => p.pos = s.pos
  PROVE  /\ Put(S, s) \subseteq S \cup {s} /\ Put(S, s) # {}
         /\ BytesOf(S) \cup Bytes(s) \subseteq BytesOf(Put(S, s))
         /\ IsFiniteSet(S) => IsFiniteSet(Put(S, s))
         /\ (\A p, t \in S : p.seq = t.seq => p = t) =>
                \A p, t \in Put(S, s) : p.seq = t.seq => p = t
         /\ \A p \in S : p \in Put(S, s) \/ (s \in Put(S, s) /\ p.seq = s.seq)
<1>0. \A p \in S \cup {s} : p.len \in Nat /\ p.pos \in Nat
  BY DEF Segment
<1>1. CASE \E p \in S : p.seq = s.seq /\ p.len >= s.len
  <2>1. Put(S, s) = S
    BY <1>1 DEF Put
  <2>2. PICK p \in S : p.seq = s.seq /\ p.len >= s.len
    BY <1>1
  <2>3. Bytes(s) \subseteq Bytes(p)
    BY <1>0, <2>2 DEF Bytes
  <2>4. Bytes(s) \subseteq BytesOf(S)
    BY <2>3 DEF BytesOf
  <2> QED BY <2>1, <2>2, <2>4
<1>2. CASE ~ \E p \in S : p.seq = s.seq /\ p.len >= s.len
  <2> DEFINE R == {p \in S : p.seq # s.seq}
  <2>1. Put(S, s) = R \cup {s}
    BY <1>2 DEF Put
  <2>2. \A p \in S : p.seq = s.seq => Bytes(p) \subseteq Bytes(s)
    BY <1>0, <1>2 DEF Bytes
  <2>3. BytesOf(S) \cup Bytes(s) \subseteq BytesOf(R \cup {s})
    BY <2>2 DEF BytesOf
  <2>4. IsFiniteSet(S) => IsFiniteSet(R \cup {s})
    BY FS_Subset, FS_AddElement
  <2> QED BY <2>1, <2>3, <2>4
<1> QED BY <1>1, <1>2

Rising(s) == \A i, j \in 1..Len(s) : i < j => s[i] < s[j]

(* More of the stream, after all that was fed.                              *)
LEMMA FeedMore ==
  ASSUME NEW L \in Nat, NEW F \in Seq(0..L-1), Rising(F), NEW a \in Nat, NEW b \in 0..L, a < b,
         \A p \in ToSet(F) : p < a,
         NEW B, B \in [1..b - a -> Int], \A i \in 1..b - a : B[i] = a + i - 1
  PROVE  /\ F \o B \in Seq(0..L-1) /\ Rising(F \o B) /\ IsPrefix(F, F \o B)
         /\ \A p : p \in ToSet(F \o B) <=> p \in ToSet(F) \/ p \in a..b-1
<1> DEFINE n == Len(F)
           k == b - a
           G == F \o B
<1>1. n \in Nat /\ DOMAIN F = 1..n /\ k \in Nat \ {0}
  OBVIOUS
<1>2. B \in Seq(0..L-1) /\ Len(B) = k /\ DOMAIN B = 1..k
  <2>1. \A i \in 1..k : B[i] \in 0..L-1
    OBVIOUS
  <2>2. DOMAIN B = 1..k
    OBVIOUS
  <2> HIDE DEF k
  <2> QED BY <1>1, <2>1, <2>2
<1>3. /\ G \in Seq(0..L-1) /\ Len(G) = n + k
      /\ \A i \in 1..n : G[i] = F[i]
      /\ \A i \in 1..k : G[n + i] = B[i]
  <2> HIDE DEF k
  <2> QED BY <1>1, <1>2
<1>4. \A i \in 1..n : F[i] \in Int /\ F[i] < a
  BY <1>1 DEF ToSet
<1>5. \A i \in 1..n + k : i \in 1..n \/ (i - n \in 1..k /\ i = n + (i - n) /\ G[i] = a + (i - n) - 1)
  <2> SUFFICES ASSUME NEW i \in 1..n + k, i \notin 1..n
               PROVE  i - n \in 1..k /\ i = n + (i - n) /\ G[i] = a + (i - n) - 1
    OBVIOUS
  <2>1. i - n \in 1..k /\ i = n + (i - n)
    BY <1>1
  <2>2. G[n + (i - n)] = B[i - n] /\ B[i - n] = a + (i - n) - 1
    BY <1>3, <2>1
  <2> QED BY <2>1, <2>2
<1>6. Rising(G)
  <2> SUFFICES ASSUME NEW i \in 1..n + k, NEW j \in 1..n + k, i < j PROVE G[i] < G[j]
    BY <1>3 DEF Rising
  <2>1. CASE j \in 1..n
    <3>1. i \in 1..n
      BY <1>1, <2>1
    <3> QED BY <1>3, <2>1, <3>1 DEF Rising
  <2>2. CASE j \notin 1..n /\ i \in 1..n
    <3>1. j - n \in 1..k /\ G[j] = a + (j - n) - 1
      BY <1>5, <2>2
    <3>2. G[i] \in Int /\ G[i] < a
      BY <1>3, <1>4, <2>2
    <3> QED BY <1>1, <3>1, <3>2
  <2>3. CASE j \notin 1..n /\ i \notin 1..n
    <3>1. G[j] = a + (j - n) - 1 /\ G[i] = a + (i - n) - 1
      BY <1>5, <2>3
    <3> QED BY <1>1, <3>1
  <2> QED BY <2>1, <2>2, <2>3
<1>7. IsPrefix(F, G)
  <2>1. Len(F) <= Len(G)
    BY <1>1, <1>3
  <2>2. SubSeq(F, 1, n) = F
    BY <1>1
  <2>3. SubSeq(G, 1, n) = F
    <3>1. SubSeq(G, 1, n) = [i \in 1..n |-> G[i]]
      BY <1>1, <1>3
    <3>2. F = [i \in 1..n |-> F[i]]
      BY <1>1
    <3>3. [i \in 1..n |-> G[i]] = [i \in 1..n |-> F[i]]
      BY <1>3
    <3> QED BY <3>1, <3>2, <3>3
  <2> QED BY <2>1, <2>2, <2>3 DEF IsPrefix
<1>8. ToSet(G) = ToSet(F) \cup a..b-1
  <2>1. DOMAIN G = 1..n + k
    BY <1>1, <1>3
  <2>2. ASSUME NEW i \in 1..n + k PROVE G[i] \in ToSet(F) \cup a..b-1
    <3>1. CASE i \in 1..n
      BY <1>1, <1>3, <3>1 DEF ToSet
    <3>2. CASE i \notin 1..n
      <4>1. i - n \in 1..k /\ G[i] = a + (i - n) - 1
        BY <1>5, <3>2
      <4> QED BY <1>1, <4>1
    <3> QED BY <3>1, <3>2
  <2>3. ASSUME NEW i \in 1..n PROVE F[i] \in ToSet(G)
    <3>1. i \in 1..n + k
      BY <1>1
    <3> QED BY <1>3, <2>1, <3>1 DEF ToSet
  <2>4. ASSUME NEW p \in a..b-1 PROVE p \in ToSet(G)
    <3>1. p - a + 1 \in 1..k /\ a + (p - a + 1) - 1 = p /\ n + (p - a + 1) \in 1..n + k
      BY <1>1
    <3>2. G[n + (p - a + 1)] = p
      BY <1>3, <3>1
    <3> QED BY <2>1, <3>1, <3>2 DEF ToSet
  <2> HIDE DEF G
  <2>5. ToSet(G) \subseteq ToSet(F) \cup a..b-1
    BY <2>1, <2>2 DEF ToSet
  <2>6. ToSet(F) \subseteq ToSet(G)
    BY <1>1, <2>3 DEF ToSet
  <2> QED BY <2>4, <2>5, <2>6
<1> QED BY <1>3, <1>6, <1>7, <1>8

-----------------------------------------------------------------------------
(***************************************************************************)
(* The inductive invariant.                                                *)
(***************************************************************************)
Reported == IF settings.defer THEN {} ELSE skipped
Seg(s) == s \in Segment /\ s.pos + s.len <= StreamLen
Lies(s) == s.seq - s.pos = next - nextPos

(* Before the flow has an origin.                                           *)
Fresh ==
    next = None =>
        /\ nextPos = None /\ pending = {} /\ todo = <<>> /\ fed = <<>>
        /\ skipped = {} /\ rescanned = {} /\ gap = None
        /\ pc \notin {"capacity", "timeout"} /\ call # "service"

(* The number of position 0 is one of two.                                  *)
Anchored ==
    next # None =>
        /\ unanchored = {} /\ next \in Nat /\ nextPos \in 0..StreamLen
        /\ next - nextPos \in {ISN, ISN - M}

(* The segments kept until there is an origin.                              *)
Keeping ==
    /\ Kept(unanchored) /\ BytesOf(unanchored) \subseteq received
    /\ unanchored # {} => \E p \in 0..StreamLen : reference = Wire(p)

(* The segments held are on the line of next, and ahead of it.              *)
Ahead ==
    /\ IsFiniteSet(pending) /\ BytesOf(pending) \subseteq received
    /\ \A s \in pending : Seg(s) /\ Lies(s) /\ s.seq > next

(* What a commit has still to add is on the same line, in order and beyond  *)
(* what is held; of its bytes none was passed over without a report.        *)
ToAdd ==
    /\ BytesOf(ToSet(todo)) \subseteq received
    /\ \A i \in DOMAIN todo : Seg(todo[i]) /\ Lies(todo[i]) /\ todo[i].seq >= 0
    /\ \A i, j \in DOMAIN todo : i < j => todo[i].seq < todo[j].seq
    /\ \A i \in DOMAIN todo, s \in pending : s.seq < todo[i].seq
    /\ \A p \in BytesOf(ToSet(todo)) : p < nextPos => p \in ToSet(fed) \cup Reported

(* What was fed, offered or skipped is behind next.                         *)
Behind ==
    /\ Rising(fed)
    /\ ToSet(fed) \subseteq received /\ rescanned \subseteq received
    /\ \A p \in ToSet(fed) \cup rescanned \cup skipped : p < nextPos
    /\ ToSet(fed) \cap skipped = {}

(* Every byte captured is somewhere.                                        *)
Covered == received \subseteq ToSet(fed) \cup rescanned \cup Reported \cup Held

(* Which loop runs for whom.                                                *)
Control ==
    /\ fin \in {None, Wire(StreamLen)}
    /\ pc \in {"idle", "drain", "closed"} => todo = <<>>
    /\ pc \in {"drain", "closed"} => call = "finish"
    /\ pc = "closed" => pending = {}
    /\ call = "finish" => unanchored = {}
    /\ call = "service" => settings.defer
    /\ pc = "timeout" /\ settings.defer => todo = <<>>
    /\ pc \in {"commit", "capacity", "timeout"} => call # "none"

IInv == /\ TypeOK /\ Fresh /\ Anchored /\ Keeping /\ Ahead
        /\ ToAdd /\ Behind /\ Covered /\ Control

-----------------------------------------------------------------------------
(***************************************************************************)
(* What a delivery does.                                                   *)
(***************************************************************************)
(* The flow goes on along its line, to a number behind which it holds no    *)
(* segment; the positions from a on were fed.                               *)
Feeds(S, a) ==
    /\ next' \in Nat /\ nextPos' \in 0..StreamLen /\ next' - nextPos' = next - nextPos
    /\ a < nextPos'
    /\ fed' \in Seq(0..StreamLen-1) /\ Rising(fed') /\ IsPrefix(fed, fed')
    /\ ToSet(fed') = ToSet(fed) \cup a..nextPos'-1
    /\ ToSet(fed') \subseteq received'
    /\ pending' \subseteq S /\ \A s \in pending' : s.seq > next'
    /\ BytesOf(S) \subseteq ToSet(fed') \cup BytesOf(pending')
    /\ gap' \in Nat \cup {None}
    /\ pending' # {} => gap' # None /\ \E s \in pending' : gap' = s.ts
    /\ pending' = {} => gap' = None

(* The oldest timestamp of the segments held.                               *)
LEMMA OldestIs ==
  ASSUME FlowConstants, NEW S, \A s \in S : s.ts \in Nat
  PROVE  /\ Oldest(S) \in Nat \cup {None}
         /\ S # {} => Oldest(S) # None /\ \E s \in S : Oldest(S) = s.ts
         /\ S = {} => Oldest(S) = None
<1>1. CASE S = {}
  BY <1>1 DEF Oldest
<1>2. CASE S # {}
  <2> DEFINE T == {s.ts : s \in S}
  <2>1. T # {} /\ \A t \in T : t \in Int /\ 0 <= t
    BY <1>2
  <2>2. Oldest(S) = Min(T)
    BY <1>2 DEF Oldest
  <2>3. Min(T) \in T
    <3> HIDE DEF T
    <3> QED BY <2>1, MinOf
  <2>4. None \notin Nat
    BY DEF FlowConstants
  <2> QED BY <1>2, <2>2, <2>3, <2>4
<1> QED BY <1>1, <1>2

(* The code's delivery and flush, from the number n of a segment of S.      *)
LEMMA Delivers ==
  ASSUME FlowConstants, Behind,
         next \in Nat, nextPos \in 0..StreamLen, fed \in Seq(0..StreamLen-1),
         received \subseteq received',
         NEW S, \A s \in S : Seg(s) /\ Lies(s), BytesOf(S) \subseteq received',
         NEW t \in S, \A s \in S : s.seq >= t.seq, t.seq >= next,
         DeliverAndFlush(S, t.seq)
  PROVE  Feeds(S, t.pos)
<1> DEFINE off == next - nextPos
           n == t.seq
           r == FlushPoint(S, n)
           B == [i \in 1..r - n |-> ByteAt(S, n + i - 1)]
<1>1. off \in Int /\ OnLine(S, off) /\ StreamLen \in Nat
  BY DEF OnLine, Seg, Lies, FlowConstants
<1>2. /\ n \in Int /\ t.pos = n - off /\ t.pos \in Nat
  <2> HIDE DEF off
  <2> QED BY <1>1, LineSegment
<1>3. /\ r \in Int /\ r > n /\ r <= off + StreamLen
      /\ \A s \in S : s.seq <= r => End(s) <= r
      /\ \A a \in n..r-1 : \E s \in S : s.seq <= a /\ a < End(s)
  <2> HIDE DEF off
  <2> QED BY <1>1, <1>2, FlushStops
<1>4. /\ next' = r /\ nextPos' = B[r - n] + 1 /\ fed' = fed \o B
      /\ pending' = {s \in S : s.seq > r} /\ gap' = Oldest({s \in S : s.seq > r})
  BY DEF DeliverAndFlush
<1> HIDE DEF r
<1>5. \A x \in n..r-1 : ByteAt(S, x) = x - off /\ \E s \in S : x - off \in Bytes(s)
  <2> HIDE DEF off, n
  <2> TAKE x \in n..r-1
  <2>1. x \in Int /\ \E s \in S : s.seq <= x /\ x < End(s)
    BY <1>2, <1>3
  <2> QED BY <1>1, <2>1, ByteAtIs
<1> DEFINE a == t.pos
           b == r - off
<1> HIDE DEF off, n
<1>6. a \in Nat /\ b \in 0..StreamLen /\ a < b /\ b - a = r - n
  BY <1>1, <1>2, <1>3
<1>7. B \in [1..b - a -> Int] /\ \A i \in 1..b - a : B[i] = a + i - 1
  <2>1. \A i \in 1..r - n : ByteAt(S, n + i - 1) = a + i - 1
    <3> TAKE i \in 1..r - n
    <3>1. n + i - 1 \in n..r-1 /\ (n + i - 1) - off = a + i - 1
      BY <1>1, <1>2, <1>3
    <3> QED BY <1>5, <3>1
  <2> DEFINE k == r - n
  <2>2. B = [i \in 1..k |-> ByteAt(S, n + i - 1)]
    OBVIOUS
  <2> HIDE DEF B
  <2>3. \A i \in 1..k : ByteAt(S, n + i - 1) = a + i - 1 /\ a + i - 1 \in Int
    BY <1>6, <2>1
  <2> HIDE DEF k
  <2>4. B \in [1..k -> Int] /\ \A i \in 1..k : B[i] = a + i - 1
    BY <2>2, <2>3
  <2>5. b - a = k
    BY <1>6 DEF k
  <2> QED BY <2>4, <2>5
<1>8. \A p \in ToSet(fed) : p \in Int /\ p < a
  <2>1. nextPos <= a
    BY <1>1, <1>2 DEF off, n
  <2>2. \A p \in ToSet(fed) : p \in Int /\ p < nextPos
    <3>1. \A i \in DOMAIN fed : fed[i] \in Int
      BY <1>1
    <3> QED BY <3>1 DEF Behind, ToSet
  <2> QED BY <1>6, <2>1, <2>2
<1>9. nextPos' = b
  <2>1. r - n = b - a /\ b - a \in 1..b - a
    BY <1>2, <1>3, <1>6
  <2> HIDE DEF B, a, b
  <2>2. B[r - n] = a + (b - a) - 1
    BY <1>7, <2>1
  <2> QED BY <1>4, <1>6, <2>2
<1>10. /\ fed' \in Seq(0..StreamLen-1) /\ Rising(fed') /\ IsPrefix(fed, fed')
       /\ ToSet(fed') = ToSet(fed) \cup a..b-1
  <2>1. Rising(fed)
    BY DEF Behind
  <2> HIDE DEF B, a, b
  <2>2. /\ fed \o B \in Seq(0..StreamLen-1) /\ Rising(fed \o B) /\ IsPrefix(fed, fed \o B)
        /\ ToSet(fed \o B) = ToSet(fed) \cup a..b-1
    <3> DEFINE F == fed
    <3>1. F \in Seq(0..StreamLen-1) /\ Rising(F) /\ \A p \in ToSet(F) : p < a
      BY <1>8, <2>1
    <3> HIDE DEF F
    <3>2. /\ F \o B \in Seq(0..StreamLen-1) /\ Rising(F \o B) /\ IsPrefix(F, F \o B)
          /\ \A p : p \in ToSet(F \o B) <=> p \in ToSet(F) \/ p \in a..b-1
      <4>1. StreamLen \in Nat /\ a \in Nat /\ b \in 0..StreamLen /\ a < b
        BY <1>1, <1>6
      <4> QED BY <1>7, <3>1, <4>1, FeedMore
    <3> QED BY <3>2 DEF F
  <2> QED BY <1>4, <2>2
<1>11. next' \in Nat /\ next' - nextPos' = off
  <2>1. r > next
    <3>1. n >= next
      BY DEF n
    <3> QED BY <1>2, <1>3, <3>1
  <2> QED BY <1>1, <1>3, <1>4, <1>9, <2>1
<1>12. a..b-1 \subseteq received'
  <2> SUFFICES ASSUME NEW p \in a..b-1 PROVE p \in received'
    OBVIOUS
  <2>1. p + off \in n..r-1 /\ (p + off) - off = p
    BY <1>1, <1>2, <1>3, <1>6
  <2>2. \E s \in S : p \in Bytes(s)
    BY <1>5, <2>1
  <2> QED BY <2>2 DEF BytesOf
<1>13. BytesOf(S) \subseteq ToSet(fed') \cup BytesOf(pending')
  <2> SUFFICES ASSUME NEW s \in S, NEW p \in Bytes(s), s \notin pending' PROVE p \in a..b-1
    BY <1>10 DEF BytesOf
  <2>1. /\ s.seq \in Int /\ s.pos = s.seq - off /\ s.len \in Nat
        /\ \A x \in Int : x \in Bytes(s) <=> (s.seq <= x + off /\ x + off < End(s))
        /\ End(s) \in Int
    BY <1>1, LineSegment
  <2>2. p \in Int
    BY <1>1, <2>1 DEF Bytes
  <2>3. s.seq <= r
    BY <1>3, <1>4, <2>1
  <2>4. End(s) <= r /\ s.seq >= n
    BY <1>3, <2>3 DEF n
  <2>5. s.seq <= p + off /\ p + off < End(s)
    BY <2>1, <2>2
  <2> QED BY <1>1, <1>2, <1>3, <2>1, <2>2, <2>4, <2>5
<1>14. /\ gap' \in Nat \cup {None}
       /\ pending' # {} => gap' # None /\ \E s \in pending' : gap' = s.ts
       /\ pending' = {} => gap' = None
  <2>1. \A s \in pending' : s.ts \in Nat
    BY <1>4 DEF Seg, Segment
  <2>2. gap' = Oldest(pending')
    BY <1>4
  <2> DEFINE P == pending'
  <2>3. gap' = Oldest(P) /\ \A s \in P : s.ts \in Nat
    BY <2>1, <2>2
  <2> HIDE DEF P
  <2>4. /\ Oldest(P) \in Nat \cup {None}
        /\ P # {} => Oldest(P) # None /\ \E s \in P : Oldest(P) = s.ts
        /\ P = {} => Oldest(P) = None
    BY <2>3, OldestIs
  <2> QED BY <2>3, <2>4 DEF P
<1>15. pending' \subseteq S /\ \A s \in pending' : s.seq > next'
  BY <1>4
<1>16. ToSet(fed) \subseteq received'
  BY DEF Behind
<1> QED BY <1>6, <1>9, <1>10, <1>11, <1>12, <1>13, <1>14, <1>15, <1>16 DEF Feeds, off

(* What _add_anchored_segment does with a segment s of the line: `old` of   *)
(* its bytes are behind next; the rest, if any, is held or delivered.       *)
Adds(s, rescan, rest, old) ==
    /\ old \in 0..s.len
    /\ \A p \in s.pos .. s.pos + old - 1 : p < nextPos /\ p \in Bytes(s)
    /\ rescanned' = IF rescan THEN rescanned \cup s.pos .. s.pos + old - 1 ELSE rescanned
    /\ \/ /\ old = s.len
          /\ UNCHANGED <<next, pending, gap, nextPos, fed>>
          /\ pc' = "commit"
       \/ /\ Seg(rest) /\ Lies(rest) /\ rest.seq > next
          /\ rest.pos = s.pos /\ rest.len = s.len /\ rest.ts = s.ts /\ old = 0
          /\ pending' = Put(pending, rest)
          /\ gap' = IF gap = None THEN s.ts ELSE gap
          /\ pc' = IF CapacityExceeded(pending') THEN "capacity"
                   ELSE IF settings.defer THEN "commit" ELSE "timeout"
          /\ UNCHANGED <<next, nextPos, fed>>
       \/ /\ Seg(rest) /\ Lies(rest) /\ rest.seq = next
          /\ Bytes(rest) \subseteq Bytes(s)
          /\ \A p \in Bytes(s) : p \in Bytes(rest) \/ p \in s.pos .. s.pos + old - 1
          /\ DeliverAndFlush(pending \cup {rest}, next)
          /\ pc' = "commit"

(* payload[overlap:] of a segment.                                          *)
LEMMA TrimIs ==
  ASSUME NEW s, NEW q, NEW l, NEW p, NEW t, NEW old,
         s = [seq |-> q, len |-> l, pos |-> p, ts |-> t]
  PROVE  Trim(s, old) = [seq |-> q + old, len |-> l - old, pos |-> p + old, ts |-> t]
<1> DEFINE a == [s EXCEPT !.seq = @ + old]
           b == [a EXCEPT !.pos = @ + old]
           c == [b EXCEPT !.len = @ - old]
<1>1. a = [seq |-> q + old, len |-> l, pos |-> p, ts |-> t]
  OBVIOUS
<1> HIDE DEF a
<1>2. b = [seq |-> q + old, len |-> l, pos |-> p + old, ts |-> t]
  BY <1>1
<1> HIDE DEF b
<1>3. c = [seq |-> q + old, len |-> l - old, pos |-> p + old, ts |-> t]
  BY <1>2
<1>4. Trim(s, old) = [[[s EXCEPT !.seq = s.seq + old] EXCEPT !.pos = s.pos + old] EXCEPT !.len = s.len - old]
  BY DEF Trim
<1>5. Trim(s, old) = c
  BY <1>4, <1>1, <1>2 DEF c, b, a
<1> QED BY <1>3, <1>5

(* What _add_anchored_segment does is one of the three.                     *)
LEMMA AddAnchoredIs ==
  ASSUME FlowConstants, next \in Nat, nextPos \in 0..StreamLen, NEW s, Seg(s),
         Unwrap(s.seq, next) = s.pos + (next - nextPos), NEW rescan \in BOOLEAN,
         AddAnchored(s, rescan)
  PROVE  \E rest, old : Adds(s, rescan, rest, old)
<1> DEFINE at == Unwrap(s.seq, next)
           old == IF at >= next THEN 0 ELSE Min({next - at, s.len})
           moved == [s EXCEPT !.seq = at]
           rest == Trim(moved, old)
<1>0. /\ s.seq \in Int /\ s.len \in 1..StreamLen /\ s.pos \in 0..StreamLen /\ s.ts \in Nat
      /\ s.pos + s.len <= StreamLen /\ StreamLen \in Nat
      /\ s = [seq |-> s.seq, len |-> s.len, pos |-> s.pos, ts |-> s.ts]
  BY DEF Seg, Segment, FlowConstants
<1>1. at \in Int /\ at - s.pos = next - nextPos
  BY <1>0
<1>2. /\ rescanned' = IF rescan THEN rescanned \cup s.pos..s.pos + old - 1 ELSE rescanned
      /\ \/ /\ rest.len = 0
            /\ pc' = "commit"
            /\ UNCHANGED <<next, pending, gap, nextPos, fed>>
         \/ /\ rest.len > 0 /\ rest.seq > next
            /\ pending' = Put(pending, rest)
            /\ gap' = IF gap = None THEN s.ts ELSE gap
            /\ pc' = IF CapacityExceeded(Put(pending, rest)) THEN "capacity"
                     ELSE IF settings.defer THEN "commit" ELSE "timeout"
            /\ UNCHANGED <<next, nextPos, fed>>
         \/ /\ rest.len > 0 /\ rest.seq = next
            /\ DeliverAndFlush(pending \cup {rest}, next)
            /\ pc' = "commit"
  BY DEF AddAnchored
<1> HIDE DEF at
<1>3. /\ old \in 0..s.len
      /\ at >= next => old = 0
      /\ at < next => old = next - at \/ (old = s.len /\ s.len <= next - at)
  <2>1. CASE at >= next
    BY <1>0, <1>1, <2>1
  <2>2. CASE ~(at >= next)
    <3> DEFINE T == {next - at, s.len}
    <3>1. \A t \in T : t \in Int /\ 0 <= t
      BY <1>0, <1>1, <2>2
    <3>2. Min(T) \in T /\ \A t \in T : Min(T) <= t
      <4>1. T # {}
        OBVIOUS
      <4> HIDE DEF T
      <4> QED BY <3>1, <4>1, MinOf
    <3>3. old = Min(T)
      BY <2>2
    <3> QED BY <1>0, <1>1, <2>2, <3>2, <3>3
  <2> QED BY <2>1, <2>2
<1>4. /\ rest.seq = at + old /\ rest.pos = s.pos + old /\ rest.len = s.len - old
      /\ rest.ts = s.ts
      /\ rest = [seq |-> at + old, len |-> s.len - old, pos |-> s.pos + old, ts |-> s.ts]
  <2>1. moved = [seq |-> at, len |-> s.len, pos |-> s.pos, ts |-> s.ts]
    BY <1>0
  <2> HIDE DEF moved, old
  <2>2. rest = [seq |-> at + old, len |-> s.len - old, pos |-> s.pos + old, ts |-> s.ts]
    BY <2>1, TrimIs
  <2> HIDE DEF rest
  <2> QED BY <2>2
<1> HIDE DEF old, rest, moved
<1>5. \A p \in s.pos..s.pos + old - 1 : p < nextPos /\ p \in Bytes(s)
  BY <1>0, <1>1, <1>3 DEF Bytes
<1>6. ASSUME rest.len > 0 PROVE Seg(rest) /\ Lies(rest)
  BY <1>0, <1>1, <1>3, <1>4, <1>6 DEF Seg, Lies, Segment
<1>7. CASE rest.len = 0 /\ pc' = "commit" /\ UNCHANGED <<next, pending, gap, nextPos, fed>>
  <2>1. old = s.len
    BY <1>0, <1>3, <1>4, <1>7
  <2>2. Adds(s, rescan, rest, old)
    BY <1>2, <1>3, <1>5, <1>7, <2>1 DEF Adds
  <2> QED BY <2>2
<1>8. CASE /\ rest.len > 0 /\ rest.seq > next
           /\ pending' = Put(pending, rest)
           /\ gap' = IF gap = None THEN s.ts ELSE gap
           /\ pc' = IF CapacityExceeded(Put(pending, rest)) THEN "capacity"
                    ELSE IF settings.defer THEN "commit" ELSE "timeout"
           /\ UNCHANGED <<next, nextPos, fed>>
  <2>1. old = 0
    BY <1>0, <1>1, <1>3, <1>4, <1>8
  <2>2. rest.pos = s.pos /\ rest.len = s.len
    BY <1>0, <1>4, <2>1
  <2>3. pc' = IF CapacityExceeded(pending') THEN "capacity"
              ELSE IF settings.defer THEN "commit" ELSE "timeout"
    BY <1>8
  <2>4. Adds(s, rescan, rest, old)
    BY <1>2, <1>3, <1>4, <1>5, <1>6, <1>8, <2>1, <2>2, <2>3 DEF Adds
  <2> QED BY <2>4
<1>9. CASE /\ rest.len > 0 /\ rest.seq = next
           /\ DeliverAndFlush(pending \cup {rest}, next)
           /\ pc' = "commit"
  <2>1. Bytes(rest) \subseteq Bytes(s)
    BY <1>0, <1>3, <1>4 DEF Bytes
  <2>2. \A p \in Bytes(s) : p \in Bytes(rest) \/ p \in s.pos..s.pos + old - 1
    BY <1>0, <1>3, <1>4 DEF Bytes
  <2>3. Adds(s, rescan, rest, old)
    BY <1>2, <1>3, <1>5, <1>6, <1>9, <2>1, <2>2 DEF Adds
  <2> QED BY <2>3
<1> QED BY <1>2, <1>7, <1>8, <1>9

-----------------------------------------------------------------------------
(* The flow keeps what it has, and gives nothing captured up but as a gap   *)
(* that overtakes the commit of a replay.                                   *)
Onward ==
    /\ settings' = settings
    /\ received \subseteq received' /\ rescanned \subseteq rescanned' /\ skipped \subseteq skipped'
    /\ IsPrefix(fed, fed')
    /\ (skipped' \ skipped) \cap received' \subseteq Unsafe

(* Every sequence is a prefix of itself.                                    *)
LEMMA PrefixSelf ==
  ASSUME NEW S, NEW s \in Seq(S)
  PROVE  IsPrefix(s, s)
<1>1. Len(s) \in Nat
  OBVIOUS
<1> QED BY <1>1 DEF IsPrefix

(* More segments have more bytes.                                           *)
LEMMA BytesUp ==
  ASSUME NEW S, NEW T, S \subseteq T
  PROVE  BytesOf(S) \subseteq BytesOf(T)
BY DEF BytesOf

(* Bytes of a union.                                                        *)
LEMMA BytesJoin ==
  ASSUME NEW S, NEW s
  PROVE  BytesOf(S \cup {s}) = BytesOf(S) \cup Bytes(s)
BY DEF BytesOf

-----------------------------------------------------------------------------
(***************************************************************************)
(* A step of a flow that has its origin.                                   *)
(***************************************************************************)
(* The flow moves along its line: it feeds the positions from a on, and     *)
(* jumps over those before a.                                               *)
Moves(a) ==
    /\ a \in nextPos..nextPos'
    /\ next' \in Nat /\ nextPos' \in 0..StreamLen /\ next' - nextPos' = next - nextPos
    /\ fed' \in Seq(0..StreamLen-1) /\ Rising(fed') /\ IsPrefix(fed, fed')
    /\ \A p : p \in ToSet(fed') <=> p \in ToSet(fed) \/ p \in a..nextPos'-1
    /\ skipped' = skipped \cup nextPos..a-1

(* It loses nothing of what it holds or gets.                               *)
Holds(a) ==
    /\ received \subseteq received' /\ received' \subseteq 0..StreamLen-1
    /\ ToSet(fed') \subseteq received'
    /\ rescanned \subseteq rescanned' /\ rescanned' \subseteq received'
    /\ \A p \in rescanned' : p < nextPos'
    /\ IsFiniteSet(pending') /\ BytesOf(pending') \subseteq received'
    /\ \A s \in pending' : Seg(s) /\ Lies(s) /\ s.seq > next'
    /\ todo' \in Seq(Segment)
    /\ \A i \in DOMAIN todo' : \E j \in DOMAIN todo : todo'[i] = todo[j]
    /\ \A i, j \in DOMAIN todo' : i < j => todo'[i].seq < todo'[j].seq
    /\ \A i \in DOMAIN todo', s \in pending' : s.seq < todo'[i].seq
    /\ \A p \in BytesOf(ToSet(todo')) : nextPos <= p /\ p < a => ~settings.defer
    /\ received' \subseteq ToSet(fed') \cup rescanned' \cup Reported
                           \cup BytesOf(pending') \cup BytesOf(ToSet(todo'))
                           \cup (IF settings.defer THEN {} ELSE nextPos..a-1)
    /\ (nextPos..a-1) \cap received' \subseteq Unsafe

(* The rest of the state keeps its types.                                   *)
Rest ==
    /\ UNCHANGED <<settings, unanchored, reference, unanchoredAt, fin, finAt>>
    /\ gap' \in MaybeNat
    /\ now' \in Nat /\ clock' \in Nat /\ packets' \in Nat
    /\ pc' \in {"idle", "commit", "capacity", "timeout", "drain", "closed"}
    /\ call' \in {"none", "segment", "service", "finish"}

(* The bytes of a sequence of segments.                                     *)
LEMMA BytesIn ==
  ASSUME NEW q
  PROVE  \A p : p \in BytesOf(ToSet(q)) <=> \E i \in DOMAIN q : p \in Bytes(q[i])
BY DEF BytesOf, ToSet

(* No segment has no bytes.                                                 *)
LEMMA NoBytes == BytesOf({}) = {}
BY DEF BytesOf

(* An empty buffer keeps everything.                                        *)
LEMMA KeptNone == Kept({})
<1>1. IsFiniteSet({})
  BY FS_EmptySet
<1> QED BY <1>1 DEF Kept

(* Positions are integers.                                                  *)
LEMMA Positions ==
  ASSUME FlowConstants
  PROVE  \A p \in 0..StreamLen-1 : p \in Int /\ 0 <= p /\ p < StreamLen
BY DEF FlowConstants

(* The elements of a sequence.                                              *)
LEMMA Elements ==
  ASSUME NEW S, NEW q \in Seq(S)
  PROVE  \A i \in DOMAIN q : q[i] \in S
OBVIOUS

(* An interval of integers.                                                 *)
LEMMA Between ==
  ASSUME NEW a \in Int, NEW b \in Int
  PROVE  \A p : p \in a..b-1 <=> p \in Int /\ a <= p /\ p < b
OBVIOUS

(* Such a step keeps the invariant.                                         *)
LEMMA LineKept ==
  ASSUME FlowConstants, IInv, next # None, NEW a, Moves(a), Holds(a), Rest, Control'
  PROVE  IInv' /\ Onward
<1>0. StreamLen \in Nat /\ None \notin Int
  BY DEF FlowConstants
<1>1. /\ unanchored = {} /\ next \in Nat /\ nextPos \in 0..StreamLen
      /\ next - nextPos \in {ISN, ISN - M}
  BY DEF IInv, Anchored
<1>2. /\ a \in Int /\ nextPos <= a /\ a <= nextPos' /\ nextPos' \in 0..StreamLen
      /\ next' \in Nat /\ next' - nextPos' = next - nextPos
      /\ skipped' = skipped \cup nextPos..a-1
      /\ \A p : p \in ToSet(fed') <=> p \in ToSet(fed) \/ p \in a..nextPos'-1
  <2>1. /\ a \in nextPos..nextPos' /\ nextPos' \in 0..StreamLen
        /\ next' \in Nat /\ next' - nextPos' = next - nextPos
        /\ skipped' = skipped \cup nextPos..a-1
        /\ \A p : p \in ToSet(fed') <=> p \in ToSet(fed) \/ p \in a..nextPos'-1
    BY DEF Moves
  <2>2. a \in Int /\ nextPos <= a /\ a <= nextPos'
    BY <1>0, <1>1, <2>1
  <2> QED BY <2>1, <2>2
<1>20. \A p : p \in a..nextPos'-1 <=> p \in Int /\ a <= p /\ p < nextPos'
  BY <1>0, <1>2, Between
<1>21. \A p : p \in nextPos..a-1 <=> p \in Int /\ nextPos <= p /\ p < a
  BY <1>1, <1>2, Between
<1>3. settings' = settings /\ unanchored' = {}
  BY <1>1 DEF Rest
<1>4. skipped \subseteq 0..StreamLen-1
  BY DEF IInv, TypeOK
<1>5. \A s \in pending' : s \in Segment
  BY DEF Holds, Seg
<1>6. TypeOK'
  <2>1. /\ settings' \in Flows /\ unanchored' \subseteq Segment
        /\ reference' \in Int \cup {None} /\ unanchoredAt' \in MaybeNat
        /\ fin' \in MaybeNat /\ finAt' \in MaybeNat
    BY DEF IInv, TypeOK, Rest
  <2>2. skipped' \subseteq 0..StreamLen-1
    BY <1>0, <1>1, <1>2, <1>4
  <2>3. nextPos' \in MaybeNat
    BY <1>0, <1>2 DEF MaybeNat
  <2>4. received' \subseteq 0..StreamLen-1 /\ rescanned' \subseteq 0..StreamLen-1
    BY DEF Holds
  <2>5. fed' \in Seq(0..StreamLen-1) /\ todo' \in Seq(Segment)
    BY DEF Moves, Holds
  <2>6. next' \in Int \cup {None} /\ pending' \subseteq Segment
    BY <1>2, <1>5
  <2> QED BY <2>1, <2>2, <2>3, <2>4, <2>5, <2>6 DEF TypeOK, Rest
<1>7. Fresh'
  BY <1>0, <1>2 DEF Fresh
<1>8. Anchored'
  BY <1>1, <1>2, <1>3 DEF Anchored
<1>9. Keeping'
  <2>1. Kept({}) /\ BytesOf({}) = {}
    BY KeptNone, NoBytes
  <2> QED BY <1>3, <2>1 DEF Keeping
<1>10. Ahead'
  BY <1>2 DEF Holds, Ahead, Lies
<1>11. \A p : p \in Reported' <=> p \in Reported \/ (~settings.defer /\ p \in nextPos..a-1)
  BY <1>2, <1>3 DEF Reported
<1>12. \A p \in BytesOf(ToSet(todo')) : p \in BytesOf(ToSet(todo)) /\ p \in received /\ p \in Int
  <2> TAKE p \in BytesOf(ToSet(todo'))
  <2>1. PICK i \in DOMAIN todo' : p \in Bytes(todo'[i])
    BY BytesIn
  <2>2. PICK j \in DOMAIN todo : todo'[i] = todo[j]
    BY DEF Holds
  <2>3. p \in BytesOf(ToSet(todo))
    BY <2>1, <2>2, BytesIn
  <2>4. BytesOf(ToSet(todo)) \subseteq received /\ received \subseteq 0..StreamLen-1
    BY DEF IInv, ToAdd, TypeOK
  <2>5. \A x \in 0..StreamLen-1 : x \in Int
    BY Positions
  <2> QED BY <2>3, <2>4, <2>5
<1>13. ToAdd'
  <2>1. BytesOf(ToSet(todo')) \subseteq received'
    BY <1>12 DEF Holds
  <2>2. ASSUME NEW i \in DOMAIN todo'
        PROVE  Seg(todo'[i]) /\ Lies(todo[i])' /\ todo'[i].seq >= 0
    <3>1. PICK j \in DOMAIN todo : todo'[i] = todo[j]
      BY DEF Holds
    <3>2. Seg(todo[j]) /\ Lies(todo[j]) /\ todo[j].seq >= 0
      BY DEF IInv, ToAdd
    <3> QED BY <1>2, <3>1, <3>2 DEF Lies
  <2>3. ASSUME NEW p \in BytesOf(ToSet(todo')), p < nextPos'
        PROVE  p \in ToSet(fed') \cup Reported'
    <3>1. p \in BytesOf(ToSet(todo)) /\ p \in Int
      BY <1>12
    <3>2. CASE p < nextPos
      <4>1. p \in ToSet(fed) \cup Reported
        BY <3>1, <3>2 DEF IInv, ToAdd
      <4> QED BY <1>2, <1>11, <4>1
    <3>3. CASE nextPos <= p /\ p < a
      <4>1. ~settings.defer
        BY <3>3 DEF Holds
      <4>2. p \in nextPos..a-1
        BY <1>21, <3>1, <3>3
      <4> QED BY <1>11, <4>1, <4>2
    <3>4. CASE a <= p
      <4>1. p \in a..nextPos'-1
        BY <1>20, <2>3, <3>1, <3>4
      <4> QED BY <1>2, <4>1
    <3> QED BY <1>1, <1>2, <3>1, <3>2, <3>3, <3>4
  <2>4. \A i, j \in DOMAIN todo' : i < j => todo'[i].seq < todo'[j].seq
    BY DEF Holds
  <2>5. \A i \in DOMAIN todo', s \in pending' : s.seq < todo'[i].seq
    BY DEF Holds
  <2> QED BY <2>1, <2>2, <2>3, <2>4, <2>5 DEF ToAdd, Seg
<1>14. Behind'
  <2>1. \A p \in ToSet(fed) : p \in Int /\ p < nextPos
    <3>1. \A i \in DOMAIN fed : fed[i] \in 0..StreamLen-1
      <4>1. fed \in Seq(0..StreamLen-1)
        BY DEF IInv, TypeOK
      <4> QED BY <4>1, Elements
    <3>2. \A p \in ToSet(fed) : p < nextPos
      BY DEF IInv, Behind
    <3>3. \A x \in 0..StreamLen-1 : x \in Int
      BY Positions
    <3> QED BY <3>1, <3>2, <3>3 DEF ToSet
  <2>2. \A p \in skipped : p \in Int /\ p < nextPos
    <3>1. \A p \in skipped : p < nextPos
      BY DEF IInv, Behind
    <3>2. \A x \in 0..StreamLen-1 : x \in Int
      BY Positions
    <3> QED BY <1>4, <3>1, <3>2
  <2>3. \A p \in ToSet(fed) : p \notin skipped
    BY DEF IInv, Behind
  <2>4. \A p \in ToSet(fed') : p < nextPos' /\ p \notin skipped'
    <3> TAKE p \in ToSet(fed')
    <3>1. CASE p \in ToSet(fed)
      <4>1. p \in Int /\ p < nextPos /\ p \notin skipped
        BY <2>1, <2>3, <3>1
      <4>2. p \notin nextPos..a-1 /\ p < nextPos'
        BY <1>1, <1>2, <1>21, <4>1
      <4> QED BY <1>2, <4>1, <4>2
    <3>2. CASE p \in a..nextPos'-1
      <4>1. p \in Int /\ a <= p /\ p < nextPos'
        BY <1>20, <3>2
      <4>2. p \notin nextPos..a-1
        BY <1>2, <1>21, <4>1
      <4>3. p \notin skipped
        BY <1>1, <1>2, <2>2, <4>1
      <4> QED BY <1>2, <4>1, <4>2, <4>3
    <3> QED BY <1>2, <3>1, <3>2
  <2>5. \A p \in skipped' : p < nextPos'
    <3> TAKE p \in skipped'
    <3>1. CASE p \in skipped
      BY <1>1, <1>2, <2>2, <3>1
    <3>2. CASE p \in nextPos..a-1
      BY <1>2, <1>21, <3>2
    <3> QED BY <1>2, <3>1, <3>2
  <2>6. Rising(fed') /\ ToSet(fed') \subseteq received' /\ rescanned' \subseteq received'
        /\ \A p \in rescanned' : p < nextPos'
    BY DEF Moves, Holds
  <2> QED BY <2>4, <2>5, <2>6 DEF Behind, Rising
<1>15. Covered'
  <2>1. \A p \in received' : p \in ToSet(fed') \cup rescanned' \cup Reported'
                                \cup BytesOf(pending') \cup BytesOf(ToSet(todo'))
    <3> TAKE p \in received'
    <3>1. p \in ToSet(fed') \cup rescanned' \cup Reported \cup BytesOf(pending')
               \cup BytesOf(ToSet(todo')) \cup (IF settings.defer THEN {} ELSE nextPos..a-1)
      BY DEF Holds
    <3> QED BY <1>11, <3>1
  <2> QED BY <2>1 DEF Covered, Held
<1>16. IsPrefix(fed, fed') /\ received \subseteq received' /\ rescanned \subseteq rescanned'
  BY DEF Moves, Holds
<1>17. (skipped' \ skipped) \cap received' \subseteq Unsafe
  BY <1>2 DEF Holds
<1>18. Onward
  BY <1>2, <1>3, <1>16, <1>17 DEF Onward
<1>19. IInv'
  BY <1>6, <1>7, <1>8, <1>9, <1>10, <1>13, <1>14, <1>15 DEF IInv
<1> QED BY <1>18, <1>19

-----------------------------------------------------------------------------
(***************************************************************************)
(* A gap is given up.                                                      *)
(***************************************************************************)
(* What a segment is.                                                       *)
LEMMA SegIs ==
  ASSUME FlowConstants, NEW s, Seg(s)
  PROVE  /\ s.seq \in Int /\ s.len \in Nat \ {0} /\ s.pos \in Nat /\ s.ts \in Nat
         /\ s.pos + s.len <= StreamLen /\ StreamLen \in Nat /\ s \in Segment
         /\ Bytes(s) \subseteq 0..StreamLen-1
         /\ \A p : p \in Bytes(s) <=> p \in Int /\ s.pos <= p /\ p < s.pos + s.len
<1>1. /\ s.seq \in Int /\ s.len \in 1..StreamLen /\ s.pos \in 0..StreamLen /\ s.ts \in Nat
      /\ s.pos + s.len <= StreamLen /\ StreamLen \in Nat /\ s \in Segment
  BY DEF Seg, Segment, FlowConstants
<1>2. Bytes(s) \subseteq 0..StreamLen-1
  BY <1>1 DEF Bytes
<1>3. \A p : p \in Bytes(s) <=> p \in Int /\ s.pos <= p /\ p < s.pos + s.len
  BY <1>1 DEF Bytes
<1> QED BY <1>1, <1>2, <1>3

(* The line of a flow that has its origin.                                  *)
LEMMA LineFacts ==
  ASSUME FlowConstants, IInv, next # None
  PROVE  /\ unanchored = {} /\ next \in Nat /\ nextPos \in 0..StreamLen /\ StreamLen \in Nat
         /\ fed \in Seq(0..StreamLen-1) /\ received \subseteq 0..StreamLen-1
         /\ \A p \in ToSet(fed) \cup rescanned \cup Reported : p < nextPos
         /\ BytesOf(pending) \subseteq received /\ IsFiniteSet(pending)
         /\ todo \in Seq(Segment)
<1>1. Reported \subseteq skipped
  BY DEF Reported
<1> QED BY <1>1 DEF IInv, TypeOK, Anchored, Behind, Ahead, FlowConstants

(* What a commit has still to add lies beyond what is held.                 *)
LEMMA AddBeyond ==
  ASSUME FlowConstants, IInv, next # None, NEW s \in pending
  PROVE  \A p \in BytesOf(ToSet(todo)) : s.pos < p
<1> TAKE p \in BytesOf(ToSet(todo))
<1>1. PICK i \in DOMAIN todo : p \in Bytes(todo[i])
  BY BytesIn
<1>2. s.seq < todo[i].seq /\ Lies(todo[i]) /\ Seg(todo[i])
  BY DEF IInv, ToAdd
<1>3. Lies(s) /\ Seg(s)
  BY DEF IInv, Ahead
<1> DEFINE t == todo[i]
<1> HIDE DEF t
<1>4. /\ t.seq \in Int /\ t.pos \in Nat /\ p \in Int /\ t.pos <= p
  BY <1>1, <1>2, SegIs DEF t
<1>5. s.seq \in Int /\ s.pos \in Nat
  BY <1>3, SegIs
<1>6. s.seq < t.seq /\ t.seq - t.pos = s.seq - s.pos
  BY <1>2, <1>3 DEF t, Lies
<1> QED BY <1>4, <1>5, <1>6

(* There is a first segment to resume at.                                   *)
LEMMA FirstHeld ==
  ASSUME FlowConstants, IInv, next # None, pending # {}
  PROVE  \E s \in pending : \A t \in pending : s.seq <= t.seq
<1> DEFINE T == {s.seq : s \in pending}
<1>1. next \in Int /\ \A s \in pending : s.seq \in Int /\ next <= s.seq
  <2>1. next \in Nat
    BY LineFacts
  <2>2. \A s \in pending : Seg(s) /\ s.seq > next
    BY DEF IInv, Ahead
  <2> QED BY <2>1, <2>2, SegIs
<1>2. T # {} /\ \A t \in T : t \in Int /\ next <= t
  BY <1>1
<1>3. Min(T) \in T /\ \A t \in T : Min(T) <= t
  <2> HIDE DEF T
  <2> QED BY <1>1, <1>2, MinOf
<1>4. PICK s \in pending : s.seq = Min(T)
  BY <1>3
<1>5. \A t \in pending : t.seq \in T
  OBVIOUS
<1> HIDE DEF T
<1> QED BY <1>3, <1>4, <1>5

(* _resume_after_gap jumps over bytes that were not captured.               *)
LEMMA ResumeMoves ==
  ASSUME FlowConstants, IInv, pending # {}, ResumeAfterGap,
         UNCHANGED <<loopUnchanged, todo, rescanned>>
  PROVE  \E a : next # None /\ Moves(a) /\ Holds(a) /\ Feeds(pending, a)
<1>0. next # None
  BY DEF IInv, Fresh
<1> DEFINE first == CHOOSE s \in pending : \A t \in pending : s.seq <= t.seq
           a == first.pos
<1>1. first \in pending /\ \A t \in pending : first.seq <= t.seq
  BY <1>0, FirstHeld
<1>2. skipped' = skipped \cup nextPos..a-1 /\ DeliverAndFlush(pending, first.seq)
  BY DEF ResumeAfterGap
<1> HIDE DEF first
<1>3. /\ unanchored = {} /\ next \in Nat /\ nextPos \in 0..StreamLen /\ StreamLen \in Nat
      /\ fed \in Seq(0..StreamLen-1) /\ received \subseteq 0..StreamLen-1
      /\ \A p \in ToSet(fed) \cup rescanned \cup Reported : p < nextPos
      /\ BytesOf(pending) \subseteq received /\ IsFiniteSet(pending) /\ todo \in Seq(Segment)
  BY <1>0, LineFacts
<1>4. \A s \in pending : Seg(s) /\ Lies(s) /\ s.seq > next
  BY DEF IInv, Ahead
<1>5. UNCHANGED <<received, rescanned, todo, settings, unanchored>>
  BY DEF loopUnchanged, env
<1>6. \A s \in pending : /\ s.seq \in Int /\ s.pos \in Nat /\ s.seq - s.pos = next - nextPos
                         /\ \A p \in Bytes(s) : p \in Int /\ s.pos <= p
  BY <1>4, SegIs DEF Lies
<1>7. a \in Int /\ nextPos < a /\ \A s \in pending : a <= s.pos
  <2>1. /\ first.seq \in Int /\ a \in Nat /\ first.seq - a = next - nextPos /\ first.seq > next
    BY <1>1, <1>4, <1>6
  <2>2. next \in Int /\ nextPos \in Int
    BY <1>3
  <2>3. nextPos < a
    BY <2>1, <2>2
  <2>4. ASSUME NEW s \in pending PROVE a <= s.pos
    <3>1. s.seq \in Int /\ s.pos \in Nat /\ s.seq - s.pos = next - nextPos /\ first.seq <= s.seq
      BY <1>1, <1>6
    <3> QED BY <2>1, <2>2, <3>1
  <2> QED BY <2>1, <2>3, <2>4
<1>8. Feeds(pending, a)
  <2>1. Behind
    BY DEF IInv
  <2>2. \A s \in pending : s.seq >= first.seq
    BY <1>1, <1>6
  <2>3. first.seq >= next
    BY <1>1, <1>3, <1>4, <1>6
  <2>4. received \subseteq received' /\ BytesOf(pending) \subseteq received'
    BY <1>3, <1>5
  <2> DEFINE S == pending
  <2>5. /\ \A s \in S : Seg(s) /\ Lies(s)
        /\ BytesOf(S) \subseteq received' /\ first \in S /\ \A s \in S : s.seq >= first.seq
        /\ DeliverAndFlush(S, first.seq)
    BY <1>1, <1>2, <1>4, <2>2, <2>4
  <2> HIDE DEF S
  <2>6. Feeds(S, first.pos)
    BY <1>3, <2>1, <2>3, <2>4, <2>5, Delivers
  <2> QED BY <2>6 DEF S
<1>9. /\ next' \in Nat /\ nextPos' \in 0..StreamLen /\ next' - nextPos' = next - nextPos
      /\ a < nextPos'
      /\ ToSet(fed') = ToSet(fed) \cup a..nextPos'-1 /\ ToSet(fed') \subseteq received'
      /\ pending' \subseteq pending /\ \A s \in pending' : s.seq > next'
      /\ BytesOf(pending) \subseteq ToSet(fed') \cup BytesOf(pending')
  BY <1>8 DEF Feeds
<1>10. Moves(a)
  <2>1. a \in nextPos..nextPos'
    BY <1>3, <1>7, <1>9
  <2>2. fed' \in Seq(0..StreamLen-1) /\ Rising(fed') /\ IsPrefix(fed, fed')
    BY <1>8 DEF Feeds
  <2> QED BY <1>2, <1>9, <2>1, <2>2 DEF Moves
<1>11. \A p \in BytesOf(ToSet(todo)) : a < p
  BY <1>0, <1>1, AddBeyond
<1>12. \A p \in BytesOf(pending) : p \in Int /\ a <= p
  <2> TAKE p \in BytesOf(pending)
  <2>1. PICK s \in pending : p \in Bytes(s)
    BY DEF BytesOf
  <2> QED BY <1>6, <1>7, <2>1
<1>13. received \subseteq ToSet(fed) \cup rescanned \cup Reported \cup BytesOf(pending)
                           \cup BytesOf(ToSet(todo))
  <2>1. BytesOf(unanchored) = {}
    BY <1>3, NoBytes
  <2> QED BY <2>1 DEF IInv, Covered, Held
<1>14. \A p \in BytesOf(ToSet(todo)) : p \in Int
  <2>1. BytesOf(ToSet(todo)) \subseteq received
    BY DEF IInv, ToAdd
  <2>2. \A x \in 0..StreamLen-1 : x \in Int
    BY Positions
  <2> QED BY <1>3, <2>1, <2>2
<1>15. (nextPos..a-1) \cap received = {}
  <2> SUFFICES ASSUME NEW p \in received, p \in nextPos..a-1 PROVE FALSE
    OBVIOUS
  <2>1. p \in Int /\ ~(p < nextPos) /\ ~(a <= p) /\ ~(a < p)
    BY <1>3, <1>7
  <2> QED BY <1>3, <1>11, <1>12, <1>13, <2>1
<1>16. Holds(a)
  <2>1. \A p \in rescanned : p < nextPos'
    <3>1. rescanned \subseteq 0..StreamLen-1
      BY DEF IInv, TypeOK
    <3> QED BY <1>3, <1>7, <1>9, <3>1
  <2>2. IsFiniteSet(pending') /\ BytesOf(pending') \subseteq received
    <3>1. BytesOf(pending') \subseteq BytesOf(pending)
      BY <1>9, BytesUp
    <3> QED BY <1>3, <1>9, <3>1, FS_Subset
  <2>3. \A s \in pending' : Seg(s) /\ Lies(s) /\ s.seq > next'
    BY <1>4, <1>9
  <2>4. /\ \A i, j \in DOMAIN todo : i < j => todo[i].seq < todo[j].seq
        /\ \A i \in DOMAIN todo, s \in pending' : s.seq < todo[i].seq
    BY <1>9 DEF IInv, ToAdd
  <2>5. \A p \in BytesOf(ToSet(todo)) : ~(nextPos <= p /\ p < a)
    BY <1>7, <1>11, <1>14
  <2>6. received \subseteq ToSet(fed') \cup rescanned \cup Reported \cup BytesOf(pending')
                            \cup BytesOf(ToSet(todo))
    BY <1>9, <1>13
  <2>7. rescanned \subseteq received
    BY DEF IInv, Behind
  <2> QED BY <1>3, <1>5, <1>9, <1>15, <2>1, <2>2, <2>3, <2>4, <2>5, <2>6, <2>7 DEF Holds
<1> QED BY <1>0, <1>8, <1>10, <1>16

-----------------------------------------------------------------------------
(***************************************************************************)
(* A segment is added.                                                     *)
(***************************************************************************)
(* The segment s is added to a flow that has its origin, from outside or by *)
(* a commit; what the commit has still to add comes after it.               *)
Adding(s, rescan) ==
    /\ Seg(s) /\ Unwrap(s.seq, next) = s.pos + (next - nextPos)
    /\ AddAnchored(s, rescan)
    /\ received' = received \cup Bytes(s)
    /\ todo' \in Seq(Segment)
    /\ \A i \in DOMAIN todo' :
          /\ \E j \in DOMAIN todo : todo'[i] = todo[j]
          /\ s.pos + (next - nextPos) < todo'[i].seq
    /\ \A i, j \in DOMAIN todo' : i < j => todo'[i].seq < todo'[j].seq
    /\ BytesOf(ToSet(todo)) \subseteq BytesOf(ToSet(todo')) \cup Bytes(s)
    /\ rescan \/ \A p \in Bytes(s) : p < nextPos => p \in ToSet(fed) \cup Reported
    /\ skipped' = skipped

(* What a buffer must hold of the segments ahead.                           *)
HeldAhead ==
    /\ IsFiniteSet(pending') /\ BytesOf(pending') \subseteq received'
    /\ \A s \in pending' : Seg(s) /\ Lies(s) /\ s.seq > next'
    /\ \A i \in DOMAIN todo', s \in pending' : s.seq < todo'[i].seq

(* The number and the position go on together.                              *)
LEMMA Forward ==
  ASSUME NEW n \in Int, NEW p \in Int, NEW m \in Int, NEW q \in Int, m - q = n - p, p < q
  PROVE  p <= q /\ n < m
OBVIOUS

(* What becomes of the buffer and its timer: nothing; the segment is held;  *)
(* or some of what is held is left, with the timer of the oldest.           *)
Left ==
    /\ pending' # {} => gap' # None /\ \E s \in pending' : gap' = s.ts
    /\ pending' = {} => gap' = None
    /\ pending' \subseteq pending

AddedTo(s) ==
    \/ UNCHANGED <<pending, gap>> /\ pc' = "commit"
    \/ /\ \E rest : /\ Seg(rest) /\ Lies(rest) /\ rest.pos = s.pos /\ rest.ts = s.ts
                     /\ pending' = Put(pending, rest)
       /\ gap' = IF gap = None THEN s.ts ELSE gap
       /\ pc' # "capacity" => ~CapacityExceeded(pending')
    \/ Left /\ pc' = "commit"

(* A segment that is added moves the flow along its line if it is the next, *)
(* and is held if it is ahead.                                              *)
LEMMA AddMoves ==
  ASSUME FlowConstants, IInv, next # None, NEW s, NEW rescan \in BOOLEAN, Adding(s, rescan)
  PROVE  /\ Moves(nextPos) /\ Holds(nextPos) /\ gap' \in MaybeNat
         /\ pc' \in {"commit", "capacity", "timeout"}
         /\ pc' = "timeout" => ~settings.defer
         /\ AddedTo(s)
<1>1. /\ unanchored = {} /\ next \in Nat /\ nextPos \in 0..StreamLen /\ StreamLen \in Nat
      /\ fed \in Seq(0..StreamLen-1) /\ received \subseteq 0..StreamLen-1
      /\ \A p \in ToSet(fed) \cup rescanned \cup Reported : p < nextPos
      /\ BytesOf(pending) \subseteq received /\ IsFiniteSet(pending) /\ todo \in Seq(Segment)
  BY LineFacts
<1>2. Seg(s) /\ AddAnchored(s, rescan) /\ Unwrap(s.seq, next) = s.pos + (next - nextPos)
  BY DEF Adding
<1>3. PICK rest, old : Adds(s, rescan, rest, old)
  BY <1>1, <1>2, AddAnchoredIs
<1>4. /\ s.seq \in Int /\ s.len \in Nat \ {0} /\ s.pos \in Nat /\ s.ts \in Nat
      /\ Bytes(s) \subseteq 0..StreamLen-1
      /\ \A p : p \in Bytes(s) <=> p \in Int /\ s.pos <= p /\ p < s.pos + s.len
  BY <1>2, SegIs
<1>5. /\ received' = received \cup Bytes(s) /\ todo' \in Seq(Segment) /\ skipped' = skipped
      /\ \A i \in DOMAIN todo' : \E j \in DOMAIN todo : todo'[i] = todo[j]
      /\ \A i, j \in DOMAIN todo' : i < j => todo'[i].seq < todo'[j].seq
      /\ BytesOf(ToSet(todo)) \subseteq BytesOf(ToSet(todo')) \cup Bytes(s)
  BY DEF Adding
<1> DEFINE late == s.pos .. s.pos + old - 1
<1>6. /\ \A p \in late : p < nextPos /\ p \in Bytes(s)
      /\ rescanned' = IF rescan THEN rescanned \cup late ELSE rescanned
  BY <1>3 DEF Adds
<1> HIDE DEF late
<1>7. \A p \in late : p \in ToSet(fed) \cup rescanned' \cup Reported
  <2>1. CASE rescan
    BY <1>6, <2>1
  <2>2. CASE ~rescan
    <3>1. \A p \in Bytes(s) : p < nextPos => p \in ToSet(fed) \cup Reported
      BY <2>2 DEF Adding
    <3> QED BY <1>6, <3>1
  <2> QED BY <2>1, <2>2
<1>8. \A q \in pending : Seg(q) /\ Lies(q) /\ q.seq > next
  BY DEF IInv, Ahead
<1>9. \A i \in DOMAIN todo', q \in pending : q.seq < todo'[i].seq
  BY <1>5 DEF IInv, ToAdd
<1>10. received \subseteq ToSet(fed) \cup rescanned \cup Reported \cup BytesOf(pending)
                           \cup BytesOf(ToSet(todo))
  <2>1. BytesOf(unanchored) = {}
    BY <1>1, NoBytes
  <2> QED BY <2>1 DEF IInv, Covered, Held
<1>11. gap \in MaybeNat /\ rescanned \subseteq received
  BY DEF IInv, TypeOK, Behind
<1>12. /\ rescanned \subseteq rescanned' /\ rescanned' \subseteq received'
       /\ \A p \in rescanned' : p < nextPos
  BY <1>1, <1>5, <1>6, <1>11
<1>13. nextPos \in Int /\ nextPos..nextPos-1 = {}
  BY <1>1
<1>14. ASSUME /\ nextPos' \in 0..StreamLen /\ nextPos <= nextPos'
              /\ ToSet(fed') \subseteq received' /\ ToSet(fed) \subseteq ToSet(fed')
              /\ HeldAhead
              /\ BytesOf(pending) \subseteq ToSet(fed') \cup BytesOf(pending')
              /\ Bytes(s) \subseteq ToSet(fed') \cup BytesOf(pending') \cup late
       PROVE  Holds(nextPos)
  <2>1. received \subseteq received' /\ received' \subseteq 0..StreamLen-1
    BY <1>1, <1>4, <1>5
  <2>2. \A p \in rescanned' : p < nextPos'
    <3>1. \A p \in rescanned' : p \in Int
      <4>1. \A x \in 0..StreamLen-1 : x \in Int
        BY Positions
      <4> QED BY <1>12, <2>1, <4>1
    <3> QED BY <1>1, <1>12, <1>14, <3>1
  <2>3. \A p \in BytesOf(ToSet(todo')) : ~(nextPos <= p /\ p < nextPos)
    <3> SUFFICES ASSUME NEW p \in BytesOf(ToSet(todo')) PROVE p \in Int
      BY <1>13
    <3>1. PICK i \in DOMAIN todo' : p \in Bytes(todo'[i])
      BY BytesIn
    <3>2. PICK j \in DOMAIN todo : todo'[i] = todo[j]
      BY <1>5
    <3>3. Seg(todo[j])
      BY DEF IInv, ToAdd
    <3> DEFINE t == todo[j]
    <3>4. Seg(t) /\ p \in Bytes(t)
      BY <3>1, <3>2, <3>3
    <3> HIDE DEF t
    <3> QED BY <3>4, SegIs
  <2>4. received' \subseteq ToSet(fed') \cup rescanned' \cup Reported
                              \cup BytesOf(pending') \cup BytesOf(ToSet(todo'))
    <3> SUFFICES ASSUME NEW p \in received'
                 PROVE  p \in ToSet(fed') \cup rescanned' \cup Reported
                               \cup BytesOf(pending') \cup BytesOf(ToSet(todo'))
      OBVIOUS
    <3>1. CASE p \in Bytes(s)
      BY <1>7, <1>14, <3>1
    <3>2. CASE p \in received /\ p \notin Bytes(s)
      <4>1. p \in BytesOf(ToSet(todo)) => p \in BytesOf(ToSet(todo'))
        BY <1>5, <3>2
      <4>2. p \in BytesOf(pending) => p \in ToSet(fed') \cup BytesOf(pending')
        BY <1>14
      <4> QED BY <1>10, <1>12, <1>14, <3>2, <4>1, <4>2
    <3> QED BY <1>5, <3>1, <3>2
  <2>5. (nextPos..nextPos-1) \cap received' \subseteq Unsafe
    BY <1>13
  <2>6. /\ IsFiniteSet(pending') /\ BytesOf(pending') \subseteq received'
        /\ \A q \in pending' : Seg(q) /\ Lies(q) /\ q.seq > next'
        /\ \A i \in DOMAIN todo', q \in pending' : q.seq < todo'[i].seq
    BY <1>14 DEF HeldAhead
  <2> QED BY <1>5, <1>12, <1>14, <2>1, <2>2, <2>3, <2>4, <2>5, <2>6 DEF Holds
<1>15. ASSUME UNCHANGED <<next, nextPos, fed>>
       PROVE  /\ Moves(nextPos) /\ nextPos' \in 0..StreamLen /\ nextPos <= nextPos'
              /\ ToSet(fed') \subseteq received'
  <2>1. IsPrefix(fed, fed)
    BY <1>1, PrefixSelf
  <2>2. Rising(fed) /\ ToSet(fed) \subseteq received
    BY DEF IInv, Behind
  <2>3. nextPos \in nextPos..nextPos
    BY <1>13
  <2>4. Moves(nextPos)
    BY <1>1, <1>5, <1>13, <1>15, <2>1, <2>2, <2>3 DEF Moves
  <2> QED BY <1>1, <1>5, <1>13, <1>15, <2>2, <2>4
<1>16. CASE /\ old = s.len /\ UNCHANGED <<next, pending, gap, nextPos, fed>> /\ pc' = "commit"
  <2>1. HeldAhead
    BY <1>1, <1>5, <1>8, <1>9, <1>16 DEF HeldAhead
  <2>2. Bytes(s) \subseteq late
    BY <1>4, <1>16 DEF late
  <2>3. Moves(nextPos) /\ Holds(nextPos)
    BY <1>14, <1>15, <1>16, <2>1, <2>2
  <2>4. AddedTo(s)
    BY <1>16 DEF AddedTo
  <2> QED BY <1>11, <1>16, <2>3, <2>4
<1>17. CASE /\ Seg(rest) /\ Lies(rest) /\ rest.seq > next
            /\ rest.pos = s.pos /\ rest.len = s.len /\ rest.ts = s.ts /\ old = 0
            /\ pending' = Put(pending, rest)
            /\ gap' = IF gap = None THEN s.ts ELSE gap
            /\ pc' = IF CapacityExceeded(pending') THEN "capacity"
                     ELSE IF settings.defer THEN "commit" ELSE "timeout"
            /\ UNCHANGED <<next, nextPos, fed>>
  <2>1. Bytes(rest) = Bytes(s)
    BY <1>17 DEF Bytes
  <2>2. /\ Put(pending, rest) \subseteq pending \cup {rest}
        /\ BytesOf(pending) \cup Bytes(rest) \subseteq BytesOf(Put(pending, rest))
        /\ IsFiniteSet(Put(pending, rest))
    <3>1. \A q \in pending : q \in Segment /\ q.seq \in Int /\ q.pos \in Nat
      BY <1>8, SegIs
    <3>2. rest \in Segment /\ rest.seq \in Int /\ rest.pos \in Nat
      BY <1>17, SegIs
    <3>3. \A q \in pending : q.seq = rest.seq => q.pos = rest.pos
      BY <1>8, <1>17, <3>1, <3>2 DEF Lies
    <3>4. pending \cup {rest} \subseteq Segment
      BY <3>1, <3>2
    <3> QED BY <1>1, <3>3, <3>4, PutKeeps
  <2>3. BytesOf(pending') \subseteq received'
    <3>1. BytesOf(Put(pending, rest)) \subseteq BytesOf(pending \cup {rest})
      BY <2>2, BytesUp
    <3>2. BytesOf(pending \cup {rest}) = BytesOf(pending) \cup Bytes(rest)
      BY BytesJoin
    <3> QED BY <1>1, <1>5, <1>17, <2>1, <3>1, <3>2
  <2>4. \A i \in DOMAIN todo' : rest.seq < todo'[i].seq
    <3>1. rest.seq = s.pos + (next - nextPos)
      <4>1. rest.seq \in Int /\ rest.pos \in Nat
        BY <1>17, SegIs
      <4> QED BY <1>1, <1>4, <1>17, <4>1 DEF Lies
    <3> QED BY <3>1 DEF Adding
  <2>5. HeldAhead
    BY <1>8, <1>9, <1>17, <2>2, <2>3, <2>4 DEF HeldAhead
  <2>6. Moves(nextPos) /\ Holds(nextPos)
    BY <1>14, <1>15, <1>17, <2>1, <2>2, <2>5
  <2>7. gap' \in MaybeNat
    BY <1>4, <1>11, <1>17 DEF MaybeNat
  <2>8. pc' \in {"commit", "capacity", "timeout"} /\ (pc' = "timeout" => ~settings.defer)
    BY <1>17
  <2>9. AddedTo(s)
    BY <1>17 DEF AddedTo
  <2> QED BY <2>6, <2>7, <2>8, <2>9
<1>18. CASE /\ Seg(rest) /\ Lies(rest) /\ rest.seq = next
            /\ Bytes(rest) \subseteq Bytes(s)
            /\ \A p \in Bytes(s) : p \in Bytes(rest) \/ p \in late
            /\ DeliverAndFlush(pending \cup {rest}, next)
            /\ pc' = "commit"
  <2> DEFINE S == pending \cup {rest}
  <2>1. BytesOf(S) = BytesOf(pending) \cup Bytes(rest)
    BY BytesJoin
  <2>2. rest.seq \in Int /\ rest.pos = nextPos
    <3>1. rest.seq \in Int /\ rest.pos \in Nat
      BY <1>18, SegIs
    <3> QED BY <1>1, <1>18, <3>1 DEF Lies
  <2>3. \A q \in S : q.seq \in Int /\ Seg(q) /\ Lies(q) /\ q.seq >= rest.seq
    BY <1>1, <1>8, <1>18, <2>2, SegIs
  <2>4. received \subseteq received' /\ BytesOf(S) \subseteq received'
    BY <1>1, <1>5, <1>18, <2>1
  <2>5. rest \in S /\ rest.seq >= next /\ DeliverAndFlush(S, rest.seq) /\ Behind
    BY <1>1, <1>18 DEF IInv
  <2>6. \A q \in S : q = rest \/ q \in pending
    OBVIOUS
  <2>7. Bytes(rest) \subseteq BytesOf(S) /\ BytesOf(pending) \subseteq BytesOf(S)
    BY <2>1
  <2> HIDE DEF S
  <2>8. Feeds(S, rest.pos)
    BY <1>1, <2>3, <2>4, <2>5, Delivers
  <2>9. /\ next' \in Nat /\ nextPos' \in 0..StreamLen /\ next' - nextPos' = next - nextPos
        /\ nextPos < nextPos'
        /\ fed' \in Seq(0..StreamLen-1) /\ Rising(fed') /\ IsPrefix(fed, fed')
        /\ ToSet(fed') = ToSet(fed) \cup nextPos..nextPos'-1 /\ ToSet(fed') \subseteq received'
        /\ pending' \subseteq S /\ \A q \in pending' : q.seq > next'
        /\ BytesOf(S) \subseteq ToSet(fed') \cup BytesOf(pending')
        /\ gap' \in MaybeNat
    BY <2>2, <2>8 DEF Feeds, MaybeNat
  <2>10. next < next' /\ nextPos \in nextPos..nextPos' /\ nextPos <= nextPos'
    <3>1. /\ nextPos' \in 0..StreamLen /\ nextPos < nextPos' /\ next' \in Nat
          /\ next' - nextPos' = next - nextPos
      BY <2>9
    <3>2. StreamLen \in Nat /\ nextPos \in 0..StreamLen /\ next \in Nat
      BY <1>1
    <3>3. nextPos <= nextPos' /\ next < next'
      <4>1. nextPos \in Int /\ nextPos' \in Int /\ next \in Int /\ next' \in Int
        BY <3>1, <3>2
      <4> QED BY <3>1, <4>1, Forward
    <3>4. nextPos \in nextPos..nextPos'
      BY <3>1, <3>2
    <3> QED BY <3>3, <3>4
  <2>11. pending' \subseteq pending
    <3>1. rest \notin pending'
      BY <1>1, <1>18, <2>9, <2>10
    <3> QED BY <2>6, <2>9, <3>1
  <2>12. Moves(nextPos)
    BY <1>5, <1>13, <2>9, <2>10 DEF Moves
  <2>13. HeldAhead
    <3>1. IsFiniteSet(pending')
      BY <1>1, <2>11, FS_Subset
    <3>2. BytesOf(pending') \subseteq BytesOf(pending)
      BY <2>11, BytesUp
    <3> QED BY <1>1, <1>5, <1>8, <1>9, <2>9, <2>11, <3>1, <3>2 DEF HeldAhead
  <2>14. Bytes(s) \subseteq ToSet(fed') \cup BytesOf(pending') \cup late
    BY <1>18, <2>7, <2>9
  <2>15. BytesOf(pending) \subseteq ToSet(fed') \cup BytesOf(pending')
    BY <2>7, <2>9
  <2>16. Holds(nextPos)
    BY <1>14, <2>9, <2>10, <2>13, <2>14, <2>15
  <2>17. AddedTo(s)
    <3>1. /\ pending' # {} => gap' # None /\ \E q \in pending' : gap' = q.ts
          /\ pending' = {} => gap' = None
      BY <2>8 DEF Feeds
    <3> QED BY <1>18, <2>11, <3>1 DEF AddedTo, Left
  <2> QED BY <1>18, <2>9, <2>12, <2>16, <2>17
<1> QED BY <1>3, <1>16, <1>17, <1>18 DEF Adds, late

-----------------------------------------------------------------------------
(***************************************************************************)
(* The other ways to step.                                                 *)
(***************************************************************************)
(* The types of what the steps below set freely.                            *)
FreeTypes ==
    /\ gap' \in MaybeNat /\ finAt' \in MaybeNat
    /\ now' \in Nat /\ clock' \in Nat /\ packets' \in Nat
    /\ pc' \in {"idle", "commit", "capacity", "timeout", "drain", "closed"}
    /\ call' \in {"none", "segment", "service", "finish"}

(* A step that moves no byte keeps the invariant.                           *)
LEMMA UnmovedKept ==
  ASSUME FlowConstants, IInv,
         UNCHANGED <<settings, next, pending, unanchored, reference, unanchoredAt, todo, history>>,
         FreeTypes, Control', next = None => gap' = None /\ call' # "service"
                                             /\ pc' \notin {"capacity", "timeout"}
  PROVE  IInv' /\ Onward
<1>1. UNCHANGED <<settings, next, pending, unanchored, reference, unanchoredAt, todo,
                  nextPos, received, fed, rescanned, skipped>>
  BY DEF history
<1>2. fin' \in MaybeNat
  <2>1. StreamLen \in 0..StreamLen
    BY DEF FlowConstants
  <2>2. Wire(StreamLen) \in 0..M-1 /\ M \in Nat
    BY <2>1, WireIs DEF FlowConstants
  <2> QED BY <2>2 DEF Control, MaybeNat
<1>3. TypeOK'
  BY <1>1, <1>2 DEF IInv, TypeOK, FreeTypes
<1>4. Fresh'
  BY <1>1 DEF IInv, Fresh
<1>5. Anchored'
  BY <1>1 DEF IInv, Anchored
<1>6. Keeping'
  BY <1>1 DEF IInv, Keeping
<1>7. Ahead'
  BY <1>1 DEF IInv, Ahead, Seg, Lies
<1>8. ToAdd'
  BY <1>1 DEF IInv, ToAdd, Seg, Lies, Reported
<1>9. Behind'
  BY <1>1 DEF IInv, Behind
<1>10. Covered'
  BY <1>1 DEF IInv, Covered, Held, Reported
<1>11. Onward
  <2>1. IsPrefix(fed, fed)
    <3>1. fed \in Seq(0..StreamLen-1)
      BY DEF IInv, TypeOK
    <3> QED BY <3>1, PrefixSelf
  <2> QED BY <1>1, <2>1 DEF Onward
<1> QED BY <1>3, <1>4, <1>5, <1>6, <1>7, <1>8, <1>9, <1>10, <1>11 DEF IInv

(* An empty interval.                                                       *)
LEMMA NoneBetween ==
  ASSUME NEW a \in Int
  PROVE  \A p : p \notin a..a-1
OBVIOUS

(* _resume_after_fin_gap jumps to the end of the stream, over bytes that    *)
(* were not captured or that the commit of a replay has still to add.       *)
LEMMA FinMoves ==
  ASSUME FlowConstants, IInv, pending = {}, fin # None, next # None, next < FinAbsolute,
         ResumeAfterFinGap, UNCHANGED <<settings, pending, todo, fed, rescanned, received>>,
         settings.defer => todo = <<>>
  PROVE  /\ Moves(nextPos') /\ Holds(nextPos') /\ gap' = None
<1>1. /\ unanchored = {} /\ next \in Nat /\ nextPos \in 0..StreamLen /\ StreamLen \in Nat
      /\ fed \in Seq(0..StreamLen-1) /\ received \subseteq 0..StreamLen-1
      /\ \A p \in ToSet(fed) \cup rescanned \cup Reported : p < nextPos
      /\ todo \in Seq(Segment)
  BY LineFacts
<1>2. FinAbsolute = next + (StreamLen - nextPos)
  <2>1. fin = Wire(StreamLen)
    BY DEF IInv, Control
  <2>2. next - nextPos \in {ISN, ISN - M}
    BY DEF IInv, Anchored
  <2>3. StreamLen \in 0..StreamLen
    BY <1>1
  <2>4. Unwrap(Wire(StreamLen), next) = next + (StreamLen - nextPos)
    BY <1>1, <2>2, <2>3, UnwrapLine
  <2> QED BY <2>1, <2>4 DEF FinAbsolute
<1>3. /\ skipped' = skipped \cup nextPos..nextPos + (FinAbsolute - next) - 1
      /\ next' = FinAbsolute /\ nextPos' = nextPos + (FinAbsolute - next) /\ gap' = None
  BY DEF ResumeAfterFinGap
<1>4. /\ nextPos' = StreamLen /\ next' \in Nat /\ next' - nextPos' = next - nextPos
      /\ nextPos < StreamLen /\ skipped' = skipped \cup nextPos..StreamLen-1
  <2>1. PICK f : /\ f = FinAbsolute /\ next' = f /\ nextPos' = nextPos + (f - next)
                 /\ skipped' = skipped \cup nextPos..nextPos + (f - next) - 1
    BY <1>3
  <2>2. f = next + (StreamLen - nextPos) /\ next < f
    BY <1>2, <2>1
  <2>3. /\ f \in Int /\ nextPos \in Nat /\ nextPos <= StreamLen
        /\ next \in Nat /\ StreamLen \in Nat
    BY <1>1, <2>2
  <2>4. /\ nextPos + (f - next) = StreamLen /\ nextPos + (f - next) - 1 = StreamLen - 1
        /\ f \in Nat /\ f - StreamLen = next - nextPos /\ nextPos < StreamLen
    BY <2>2, <2>3
  <2> QED BY <2>1, <2>4
<1>5. Moves(nextPos')
  <2>1. StreamLen \in nextPos..StreamLen /\ StreamLen \in 0..StreamLen
    BY <1>1
  <2>2. IsPrefix(fed, fed) /\ Rising(fed)
    BY <1>1, PrefixSelf DEF IInv, Behind
  <2>3. \A p : p \notin StreamLen..StreamLen-1
    BY <1>1, NoneBetween
  <2>4. \A p : p \in ToSet(fed') <=> p \in ToSet(fed) \/ p \in StreamLen..StreamLen-1
    BY <2>3
  <2> QED BY <1>1, <1>4, <2>1, <2>2, <2>4 DEF Moves
<1>6. Holds(nextPos')
  <2>1. \A p \in rescanned : p < nextPos'
    <3>1. rescanned \subseteq 0..StreamLen-1
      BY DEF IInv, TypeOK
    <3> QED BY <1>1, <1>4, <3>1
  <2>2. ToSet(fed) \subseteq received /\ rescanned \subseteq received
    BY DEF IInv, Behind
  <2>3. \A i, j \in DOMAIN todo : i < j => todo[i].seq < todo[j].seq
    BY DEF IInv, ToAdd
  <2>4. settings.defer => BytesOf(ToSet(todo)) = {}
    <3>1. ToSet(<<>>) = {}
      BY DEF ToSet
    <3> QED BY <3>1, NoBytes
  <2>5. received \subseteq ToSet(fed) \cup rescanned \cup Reported \cup BytesOf(ToSet(todo))
    <3>1. BytesOf(unanchored) = {} /\ BytesOf(pending) = {}
      BY <1>1, NoBytes
    <3> QED BY <3>1 DEF IInv, Covered, Held
  <2>6. (nextPos..StreamLen-1) \cap received \subseteq Unsafe
    <3> SUFFICES ASSUME NEW p \in received, p \in nextPos..StreamLen-1 PROVE p \in Unsafe
      OBVIOUS
    <3>1. ~(p < nextPos)
      BY <1>1
    <3>2. p \in BytesOf(ToSet(todo))
      BY <1>1, <2>5, <3>1
    <3> QED BY <2>4, <3>2 DEF Unsafe
  <2>7. BytesOf(pending) = {} /\ IsFiniteSet(pending)
    BY NoBytes, FS_EmptySet
  <2> QED BY <1>1, <1>4, <2>1, <2>2, <2>3, <2>4, <2>5, <2>6, <2>7 DEF Holds
<1> QED BY <1>3, <1>5, <1>6

-----------------------------------------------------------------------------
(* The commit of the segments S, with the reference ref, fixes the origin.  *)
Starting(S, ref) ==
    /\ S # {} /\ Kept(S) /\ \E r \in 0..StreamLen : ref = Wire(r)
    /\ received \subseteq received' /\ received' \subseteq 0..StreamLen-1
    /\ BytesOf(S) \subseteq received' /\ received' \subseteq BytesOf(S)
    /\ StartCommit(S, ref)
    /\ UNCHANGED <<settings, pending, gap, fin, finAt, fed, rescanned, skipped>>
    /\ now' \in Nat /\ clock' \in Nat /\ packets' \in Nat
    /\ call' \in {"segment", "service", "finish"}
    /\ call' = "service" => settings.defer

(* The bytes of the segments of a line are those of the segments put on it, *)
(* and start with the first.                                                *)
LEMMA LinedBytes ==
  ASSUME FlowConstants, NEW S, Kept(S), NEW off \in Int, NEW q, Lined(q, S, off)
  PROVE  /\ \A p : p \in BytesOf(ToSet(q)) <=> p \in BytesOf(S)
         /\ 1 \in DOMAIN q /\ Head(q) = q[1]
         /\ q[1].seq \in Nat /\ q[1].pos \in 0..StreamLen /\ q[1].seq - q[1].pos = off
         /\ \A p \in BytesOf(ToSet(q)) : p \in Int /\ q[1].pos <= p
<1>1. q \in Seq(Segment) /\ q # <<>>
  BY DEF Lined
<1>2. 1 \in DOMAIN q /\ Head(q) = q[1] /\ DOMAIN q = 1..Len(q) /\ Len(q) \in Nat
  BY <1>1
<1>3. \A i \in DOMAIN q : q[i] \in Segment
  BY <1>1, Elements
<1>4. ASSUME NEW i \in DOMAIN q
      PROVE  /\ q[i].seq \in Nat /\ q[i].pos \in 0..StreamLen /\ q[i].seq - q[i].pos = off
             /\ q[i].len \in Nat /\ StreamLen \in Nat
  BY <1>3, <1>4 DEF Lined, Segment, FlowConstants
<1>5. ASSUME NEW p \in BytesOf(ToSet(q)) PROVE p \in BytesOf(S) /\ p \in Int /\ q[1].pos <= p
  <2>1. PICK i \in DOMAIN q : p \in Bytes(q[i])
    BY <1>5, BytesIn
  <2>2. PICK s \in S : q[i].pos = s.pos /\ q[i].len = s.len
    BY DEF Lined
  <2>3. p \in Bytes(s)
    BY <2>1, <2>2 DEF Bytes
  <2>4. /\ q[i].seq \in Nat /\ q[i].pos \in 0..StreamLen /\ q[i].seq - q[i].pos = off
        /\ q[1].seq \in Nat /\ q[1].pos \in 0..StreamLen /\ q[1].seq - q[1].pos = off
        /\ q[i].len \in Nat /\ StreamLen \in Nat
    BY <1>2, <1>4
  <2>5. q[1].seq <= q[i].seq
    <3>1. i = 1 \/ 1 < i
      BY <1>2
    <3>2. \A a, b \in DOMAIN q : a < b => q[a].seq < q[b].seq
      BY DEF Lined
    <3>3. 1 < i => q[1].seq < q[i].seq
      BY <1>2, <3>2
    <3> QED BY <2>4, <3>1, <3>3
  <2>6. p \in Int /\ q[i].pos <= p
    BY <2>1, <2>4 DEF Bytes
  <2>7. q[1].pos <= p
    <3> DEFINE a == q[1]  b == q[i]
    <3>1. /\ b.seq \in Int /\ b.pos \in Int /\ b.seq - b.pos = off /\ b.pos <= p /\ p \in Int
          /\ a.seq \in Int /\ a.pos \in Int /\ a.seq - a.pos = off /\ a.seq <= b.seq
      BY <2>4, <2>5, <2>6
    <3> HIDE DEF a, b
    <3>2. a.pos <= p
      BY <3>1
    <3> QED BY <3>2 DEF a
  <2> QED BY <2>3, <2>6, <2>7 DEF BytesOf
<1>6. ASSUME NEW p \in BytesOf(S) PROVE p \in BytesOf(ToSet(q))
  <2>1. PICK s \in S : p \in Bytes(s)
    BY <1>6 DEF BytesOf
  <2>2. PICK i \in DOMAIN q : q[i].pos = s.pos /\ q[i].len = s.len
    BY DEF Lined
  <2>3. p \in Bytes(q[i])
    BY <2>1, <2>2 DEF Bytes
  <2> QED BY <2>3, BytesIn
<1> QED BY <1>2, <1>4, <1>5, <1>6

(* It keeps the invariant.                                                  *)
LEMMA StartKept ==
  ASSUME FlowConstants, IInv, next = None, NEW S, NEW ref, Starting(S, ref)
  PROVE  IInv' /\ Onward
<1>1. /\ pending = {} /\ fed = <<>> /\ skipped = {} /\ rescanned = {} /\ gap = None
      /\ nextPos = None
  BY DEF IInv, Fresh
<1>2. /\ S # {} /\ Kept(S)
      /\ received \subseteq received' /\ received' \subseteq 0..StreamLen-1
      /\ BytesOf(S) \subseteq received' /\ received' \subseteq BytesOf(S)
      /\ UNCHANGED <<settings, pending, gap, fin, finAt, fed, rescanned, skipped>>
      /\ now' \in Nat /\ clock' \in Nat /\ packets' \in Nat
      /\ call' \in {"segment", "service", "finish"}
      /\ call' = "service" => settings.defer
  BY DEF Starting
<1> DEFINE q == Ordered(S, ref)
<1>3. /\ next' = Head(q).seq /\ nextPos' = Head(q).pos /\ todo' = q /\ pc' = "commit"
      /\ unanchored' = {} /\ reference' = None /\ unanchoredAt' = None
  BY DEF Starting, StartCommit
<1>4. PICK off \in {ISN, ISN - M} : Lined(q, S, off)
  <2>1. PICK r \in 0..StreamLen : ref = Wire(r)
    BY DEF Starting
  <2> QED BY <1>2, <2>1, OrderedLines
<1> HIDE DEF q
<1>5. off \in Int
  BY <1>4 DEF FlowConstants
<1>6. /\ \A p : p \in BytesOf(ToSet(q)) <=> p \in BytesOf(S)
      /\ 1 \in DOMAIN q /\ Head(q) = q[1]
      /\ q[1].seq \in Nat /\ q[1].pos \in 0..StreamLen /\ q[1].seq - q[1].pos = off
      /\ \A p \in BytesOf(ToSet(q)) : p \in Int /\ q[1].pos <= p
  BY <1>2, <1>4, <1>5, LinedBytes
<1>7. /\ next' \in Nat /\ nextPos' \in 0..StreamLen /\ next' - nextPos' = off
      /\ \A p \in BytesOf(ToSet(q)) : p \in Int /\ nextPos' <= p
  BY <1>3, <1>6
<1>8. StreamLen \in Nat /\ None \notin Int
  BY DEF FlowConstants
<1>9. TypeOK'
  <2>1. q \in Seq(Segment)
    BY <1>4 DEF Lined
  <2>2. nextPos' \in Nat
    BY <1>7, <1>8
  <2>3. pending' = {} /\ unanchored' = {} /\ pending' \subseteq Segment /\ unanchored' \subseteq Segment
    BY <1>1, <1>2, <1>3
  <2> QED BY <1>2, <1>3, <1>7, <2>1, <2>2, <2>3 DEF IInv, TypeOK, MaybeNat
<1>10. Fresh'
  BY <1>7, <1>8 DEF Fresh
<1>11. Anchored'
  BY <1>3, <1>4, <1>7 DEF Anchored
<1>12. Keeping'
  <2>1. BytesOf(unanchored') = {}
    BY <1>3, NoBytes
  <2>2. Kept(unanchored')
    BY <1>3, KeptNone
  <2> QED BY <1>3, <2>1, <2>2 DEF Keeping
<1>13. Ahead'
  <2>1. pending' = {} /\ BytesOf(pending') = {} /\ IsFiniteSet(pending')
    BY <1>1, <1>2, NoBytes, FS_EmptySet
  <2> QED BY <2>1 DEF Ahead
<1>14. ToAdd'
  <2>1. BytesOf(ToSet(todo')) \subseteq received'
    BY <1>2, <1>3, <1>6
  <2>2. \A i \in DOMAIN q : q[i] \in Segment
    <3>1. q \in Seq(Segment)
      BY <1>4 DEF Lined
    <3> QED BY <3>1, Elements
  <2>3. \A i \in DOMAIN todo' : /\ todo'[i] \in Segment /\ todo'[i].pos + todo'[i].len <= StreamLen
                                /\ todo'[i].seq - todo'[i].pos = next' - nextPos'
                                /\ todo'[i].seq >= 0
    BY <1>3, <1>4, <1>7, <2>2 DEF Lined
  <2>4. \A i, j \in DOMAIN todo' : i < j => todo'[i].seq < todo'[j].seq
    BY <1>3, <1>4 DEF Lined
  <2>5. \A p \in BytesOf(ToSet(todo')) : ~(p < nextPos')
    BY <1>3, <1>7, <1>8
  <2>6. pending' = {}
    BY <1>1, <1>2
  <2> QED BY <2>1, <2>3, <2>4, <2>5, <2>6 DEF ToAdd, Seg, Lies
<1>15. Behind'
  <2>1. ToSet(fed') = {} /\ rescanned' = {} /\ skipped' = {} /\ fed' = <<>>
    BY <1>1, <1>2 DEF ToSet
  <2>2. Rising(<<>>)
    BY DEF Rising
  <2> QED BY <2>1, <2>2 DEF Behind
<1>16. Covered'
  <2>1. BytesOf(S) \subseteq BytesOf(ToSet(todo'))
    BY <1>3, <1>6
  <2> QED BY <1>2, <2>1 DEF Covered, Held
<1>17. Control'
  BY <1>2, <1>3 DEF IInv, Control
<1>18. Onward
  <2>1. IsPrefix(fed, fed)
    <3>1. fed \in Seq(0..StreamLen-1)
      BY DEF IInv, TypeOK
    <3> QED BY <3>1, PrefixSelf
  <2>2. (skipped' \ skipped) \cap received' \subseteq Unsafe
    BY <1>2
  <2> QED BY <1>2, <2>1, <2>2 DEF Onward
<1> QED BY <1>9, <1>10, <1>11, <1>12, <1>13, <1>14, <1>15, <1>16, <1>17, <1>18 DEF IInv

-----------------------------------------------------------------------------
(***************************************************************************)
(* The packets.                                                            *)
(***************************************************************************)
(* The loops have their call, and a flow without an origin has no gap.      *)
LEMMA Typed ==
  ASSUME IInv
  PROVE  /\ settings \in Flows /\ gap \in MaybeNat /\ fin \in MaybeNat /\ finAt \in MaybeNat
         /\ now \in Nat /\ clock \in Nat /\ packets \in Nat
         /\ pc \in {"idle", "commit", "capacity", "timeout", "drain", "closed"}
         /\ call \in {"none", "segment", "service", "finish"}
         /\ todo \in Seq(Segment) /\ fed \in Seq(0..StreamLen-1)
         /\ received \subseteq 0..StreamLen-1 /\ skipped \subseteq 0..StreamLen-1
         /\ rescanned \subseteq 0..StreamLen-1
BY DEF IInv, TypeOK

(* Without an origin, all that was captured is kept.                        *)
LEMMA FreshHolds ==
  ASSUME FlowConstants, IInv, next = None
  PROVE  received \subseteq BytesOf(unanchored) /\ BytesOf(unanchored) \subseteq received
<1>1. pending = {} /\ todo = <<>> /\ fed = <<>> /\ skipped = {} /\ rescanned = {}
  BY DEF IInv, Fresh
<1>2. ToSet(fed) = {} /\ ToSet(todo) = {}
  BY <1>1 DEF ToSet
<1>3. BytesOf(pending) = {} /\ BytesOf(ToSet(todo)) = {} /\ Reported = {}
  BY <1>1, <1>2, NoBytes DEF Reported
<1>4. received \subseteq BytesOf(unanchored)
  BY <1>1, <1>2, <1>3 DEF IInv, Covered, Held
<1>5. BytesOf(unanchored) \subseteq received
  BY DEF IInv, Keeping
<1> QED BY <1>4, <1>5

(* anchor_sequence.                                                         *)
LEMMA AnchorKept ==
  ASSUME FlowConstants, IInv, AnchorSequence
  PROVE  IInv' /\ Onward
<1>1. /\ next = None /\ unanchored = {} /\ next' = Wire(0) /\ nextPos' = 0
      /\ UNCHANGED <<pending, unanchored, reference, unanchoredAt, gap, fin, finAt,
                     pc, call, todo, now, settings, clock, packets,
                     received, fed, rescanned, skipped>>
  BY DEF AnchorSequence, control, env
<1>2. /\ pending = {} /\ todo = <<>> /\ fed = <<>> /\ skipped = {} /\ rescanned = {}
  BY <1>1 DEF IInv, Fresh
<1>3. received = {}
  <2>1. received \subseteq BytesOf(unanchored)
    BY <1>1, FreshHolds
  <2>2. BytesOf(unanchored) = {}
    BY <1>1, NoBytes
  <2> QED BY <2>1, <2>2
<1>4. next' \in Nat /\ nextPos' \in 0..StreamLen /\ next' - nextPos' \in {ISN, ISN - M}
  <2>1. 0 \in 0..StreamLen
    BY DEF FlowConstants
  <2>2. Wire(0) \in 0..M-1 /\ (Wire(0) = ISN + 0 \/ Wire(0) = ISN + 0 - M)
    BY <2>1, WireIs
  <2>3. M \in Nat /\ ISN \in Int
    BY DEF FlowConstants
  <2> DEFINE w == Wire(0)
  <2>4. w \in 0..M-1 /\ (w = ISN + 0 \/ w = ISN + 0 - M) /\ next' = w
    BY <1>1, <2>2
  <2> HIDE DEF w
  <2>5. w \in Nat /\ w - 0 \in {ISN, ISN - M}
    BY <2>3, <2>4
  <2> QED BY <1>1, <2>1, <2>4, <2>5
<1>5. ToSet(todo') = {} /\ ToSet(fed') = {} /\ BytesOf(ToSet(todo')) = {} /\ BytesOf(pending') = {}
  <2>1. ToSet(todo') = {} /\ ToSet(fed') = {} /\ pending' = {}
    BY <1>1, <1>2 DEF ToSet
  <2> QED BY <2>1, NoBytes
<1>6. None \notin Int
  BY DEF FlowConstants
<1>7. TypeOK'
  <2>1. nextPos' \in MaybeNat /\ next' \in Int \cup {None}
    BY <1>1, <1>4 DEF MaybeNat
  <2> QED BY <1>1, <2>1 DEF IInv, TypeOK
<1>8. Fresh'
  BY <1>4, <1>6 DEF Fresh
<1>9. Anchored'
  BY <1>1, <1>4 DEF Anchored
<1>10. Keeping'
  BY <1>1 DEF IInv, Keeping
<1>11. Ahead'
  <2>1. IsFiniteSet(pending') /\ pending' = {}
    BY <1>1, <1>2, FS_EmptySet
  <2> QED BY <1>5, <2>1 DEF Ahead
<1>12. ToAdd'
  <2>1. DOMAIN todo' = {}
    BY <1>1, <1>2
  <2> QED BY <1>5, <2>1 DEF ToAdd
<1>13. Behind'
  <2>1. Rising(fed')
    BY <1>1, <1>2 DEF Rising
  <2> QED BY <1>1, <1>2, <1>5, <2>1 DEF Behind
<1>14. Covered'
  BY <1>1, <1>3 DEF Covered
<1>15. Control'
  BY <1>1 DEF IInv, Control
<1>16. Onward
  <2>1. IsPrefix(fed, fed)
    BY Typed, PrefixSelf
  <2> QED BY <1>1, <2>1 DEF Onward
<1> QED BY <1>7, <1>8, <1>9, <1>10, <1>11, <1>12, <1>13, <1>14, <1>15, <1>16 DEF IInv

(* mark_fin.                                                                *)
LEMMA MarkKept ==
  ASSUME FlowConstants, IInv, MarkFin
  PROVE  IInv' /\ Onward
<1>1. /\ fin' = Wire(StreamLen) /\ finAt' = clock /\ gap' = FinTimer(fin', clock, gap)
      /\ packets' = packets + 1
      /\ UNCHANGED <<next, pending, unanchored, reference, unanchoredAt, pc, call, todo, now,
                     settings, clock, history>>
      /\ pc = "idle"
  BY DEF MarkFin, control, CanReceive, Ready
<1>2. /\ gap \in MaybeNat /\ clock \in Nat /\ packets \in Nat /\ now \in Nat
      /\ pc \in {"idle", "commit", "capacity", "timeout", "drain", "closed"}
      /\ call \in {"none", "segment", "service", "finish"}
  BY Typed
<1>3. gap' \in MaybeNat /\ (next = None => gap' = gap)
  BY <1>1, <1>2 DEF FinTimer, MaybeNat
<1>4. FreeTypes
  BY <1>1, <1>2, <1>3 DEF FreeTypes, MaybeNat
<1>5. Control'
  BY <1>1 DEF IInv, Control
<1>6. next = None => gap' = None /\ call' # "service" /\ pc' \notin {"capacity", "timeout"}
  BY <1>1, <1>3 DEF IInv, Fresh
<1> QED BY <1>1, <1>4, <1>5, <1>6, UnmovedKept

(* The clock, and a flow that is closed.                                    *)
LEMMA TickKept ==
  ASSUME FlowConstants, IInv, Tick
  PROVE  IInv' /\ Onward
<1>1. /\ clock' = clock + 1
      /\ UNCHANGED <<next, pending, unanchored, reference, unanchoredAt, gap, fin, finAt,
                     pc, call, todo, now, settings, packets, history>>
  BY DEF Tick, code, control
<1>2. FreeTypes
  BY <1>1, Typed DEF FreeTypes
<1>3. Control'
  BY <1>1 DEF IInv, Control
<1>4. next = None => gap' = None /\ call' # "service" /\ pc' \notin {"capacity", "timeout"}
  BY <1>1 DEF IInv, Fresh
<1> QED BY <1>1, <1>2, <1>3, <1>4, UnmovedKept

(* Nothing happens.                                                         *)
LEMMA StutterKept ==
  ASSUME FlowConstants, IInv, UNCHANGED vars
  PROVE  IInv' /\ Onward
<1>1. UNCHANGED <<next, pending, unanchored, reference, unanchoredAt, gap, fin, finAt,
                  pc, call, todo, now, settings, clock, packets, history>>
  BY DEF vars, code, control, env
<1>2. FreeTypes
  BY <1>1, Typed DEF FreeTypes
<1>3. Control'
  BY <1>1 DEF IInv, Control
<1>4. next = None => gap' = None /\ call' # "service" /\ pc' \notin {"capacity", "timeout"}
  BY <1>1 DEF IInv, Fresh
<1> QED BY <1>1, <1>2, <1>3, <1>4, UnmovedKept

(* The reference that orders what is kept.                                  *)
KeptWith(s) == IF unanchored = {} THEN s.seq ELSE reference

(* A segment that comes before the origin is known is kept with the others. *)
LEMMA KeepMore ==
  ASSUME FlowConstants, IInv, next = None,
         NEW s \in Segment, s.pos + s.len <= StreamLen, s.seq = Wire(s.pos)
  PROVE  /\ Put(unanchored, s) # {} /\ Kept(Put(unanchored, s))
         /\ BytesOf(Put(unanchored, s)) \subseteq received \cup Bytes(s)
         /\ received \cup Bytes(s) \subseteq BytesOf(Put(unanchored, s))
         /\ \E r \in 0..StreamLen : KeptWith(s) = Wire(r)
         /\ Bytes(s) \subseteq 0..StreamLen-1
<1>1. Kept(unanchored) /\ (unanchored # {} => \E p \in 0..StreamLen : reference = Wire(p))
  BY DEF IInv, Keeping
<1>2. received \subseteq BytesOf(unanchored) /\ BytesOf(unanchored) \subseteq received
  BY FreshHolds
<1>3. s.pos \in 0..StreamLen /\ \A p \in unanchored : p.pos \in 0..StreamLen
  BY <1>1 DEF Kept, Segment
<1>4. \A p \in unanchored : p.seq = s.seq => p.pos = s.pos
  BY <1>1, <1>3, WireInjective DEF Kept
<1>5. unanchored \cup {s} \subseteq Segment
  BY <1>1 DEF Kept
<1> DEFINE P == Put(unanchored, s)
<1>6. /\ P \subseteq unanchored \cup {s} /\ P # {}
      /\ BytesOf(unanchored) \cup Bytes(s) \subseteq BytesOf(P)
      /\ IsFiniteSet(unanchored) => IsFiniteSet(P)
      /\ (\A p, t \in unanchored : p.seq = t.seq => p = t) => \A p, t \in P : p.seq = t.seq => p = t
  BY <1>4, <1>5, PutKeeps
<1> HIDE DEF P
<1>7. Kept(P)
  BY <1>1, <1>6 DEF Kept
<1>8. BytesOf(P) \subseteq received \cup Bytes(s)
  <2>1. BytesOf(P) \subseteq BytesOf(unanchored \cup {s})
    BY <1>6, BytesUp
  <2>2. BytesOf(unanchored \cup {s}) = BytesOf(unanchored) \cup Bytes(s)
    BY BytesJoin
  <2> QED BY <1>2, <2>1, <2>2
<1>9. \E r \in 0..StreamLen : KeptWith(s) = Wire(r)
  BY <1>1, <1>3 DEF KeptWith
<1>10. Bytes(s) \subseteq 0..StreamLen-1
  <2>1. Seg(s)
    BY DEF Seg
  <2> QED BY <2>1, SegIs
<1> QED BY <1>2, <1>6, <1>7, <1>8, <1>9, <1>10 DEF P

-----------------------------------------------------------------------------
(* A segment is kept while the origin is unknown.                           *)
LEMMA KeepKept ==
  ASSUME FlowConstants, IInv, next = None, pc = "idle", fin' = fin,
         NEW s \in Segment, s.pos + s.len <= StreamLen, s.seq = Wire(s.pos),
         received' = received \cup Bytes(s),
         unanchored' = Put(unanchored, s), reference' = KeptWith(s),
         unanchoredAt' = IF unanchoredAt = None THEN s.ts ELSE unanchoredAt,
         UNCHANGED <<next, pending, gap, todo, nextPos, fed, rescanned, skipped,
                     settings, finAt, clock>>,
         pc' = "commit", call' = "segment", now' \in Nat, packets' \in Nat
  PROVE  IInv' /\ Onward
<1>1. /\ unanchored' # {} /\ Kept(unanchored')
      /\ BytesOf(unanchored') \subseteq received' /\ received' \subseteq BytesOf(unanchored')
      /\ \E r \in 0..StreamLen : reference' = Wire(r)
      /\ Bytes(s) \subseteq 0..StreamLen-1
  <2> DEFINE P == Put(unanchored, s)  ref == KeptWith(s)
  <2>1. /\ P # {} /\ Kept(P)
        /\ BytesOf(P) \subseteq received \cup Bytes(s)
        /\ received \cup Bytes(s) \subseteq BytesOf(P)
        /\ \E r \in 0..StreamLen : ref = Wire(r)
        /\ Bytes(s) \subseteq 0..StreamLen-1
    BY KeepMore
  <2>2. unanchored' = P /\ reference' = ref
    OBVIOUS
  <2> HIDE DEF P, ref
  <2> QED BY <2>1, <2>2
<1>2. /\ nextPos = None /\ pending = {} /\ todo = <<>> /\ fed = <<>>
      /\ skipped = {} /\ rescanned = {} /\ gap = None
  BY DEF IInv, Fresh
<1>3. None \notin Int
  BY DEF FlowConstants
<1>4. TypeOK'
  <2>1. reference' \in Int
    <3>1. PICK r \in 0..StreamLen : reference' = Wire(r)
      BY <1>1
    <3>2. Wire(r) \in 0..M-1 /\ M \in Nat
      BY WireIs DEF FlowConstants
    <3> QED BY <3>1, <3>2
  <2>2. unanchored' \subseteq Segment
    BY <1>1 DEF Kept
  <2>3. received' \subseteq 0..StreamLen-1
    BY <1>1, Typed
  <2>4. unanchoredAt' \in MaybeNat
    BY DEF IInv, TypeOK, MaybeNat, Segment
  <2> QED BY <2>1, <2>2, <2>3, <2>4 DEF IInv, TypeOK
<1>5. Fresh'
  BY <1>2 DEF Fresh
<1>6. Anchored'
  BY DEF Anchored
<1>7. Keeping'
  BY <1>1 DEF Keeping
<1>8. Ahead'
  <2>1. pending' = {} /\ IsFiniteSet(pending') /\ BytesOf(pending') = {}
    BY <1>2, NoBytes, FS_EmptySet
  <2> QED BY <2>1 DEF Ahead
<1>9. ToSet(todo') = {} /\ ToSet(fed') = {} /\ DOMAIN todo' = {} /\ BytesOf(ToSet(todo')) = {}
  <2>1. ToSet(todo') = {} /\ ToSet(fed') = {} /\ DOMAIN todo' = {}
    BY <1>2 DEF ToSet
  <2> QED BY <2>1, NoBytes
<1>10. ToAdd'
  BY <1>9 DEF ToAdd
<1>11. Behind'
  <2>1. Rising(fed')
    BY <1>2 DEF Rising
  <2> QED BY <1>2, <1>9, <2>1 DEF Behind
<1>12. Covered'
  BY <1>1 DEF Covered, Held
<1>13. Control'
  BY DEF IInv, Control
<1>14. Onward
  <2>1. IsPrefix(fed, fed)
    BY Typed, PrefixSelf
  <2> QED BY <2>1 DEF Onward
<1> QED BY <1>4, <1>5, <1>6, <1>7, <1>8, <1>10, <1>11, <1>12, <1>13, <1>14 DEF IInv

(* A segment that comes to a flow that has its origin.                      *)
LEMMA AddKept ==
  ASSUME FlowConstants, IInv, next # None, NEW s, NEW rescan \in BOOLEAN, Adding(s, rescan),
         UNCHANGED <<settings, unanchored, reference, unanchoredAt, fin, finAt, clock>>,
         now' \in Nat, packets' \in Nat, call' \in {"segment", "service", "finish"},
         call' = "service" => settings.defer
  PROVE  IInv' /\ Onward
<1>1. /\ Moves(nextPos) /\ Holds(nextPos) /\ gap' \in MaybeNat
      /\ pc' \in {"commit", "capacity", "timeout"}
      /\ pc' = "timeout" => ~settings.defer
  BY AddMoves
<1>2. Rest
  BY <1>1, Typed DEF Rest
<1>3. Control'
  <2>1. unanchored = {}
    BY LineFacts
  <2> QED BY <1>1, <2>1 DEF IInv, Control
<1> QED BY <1>1, <1>2, <1>3, LineKept

(* A captured payload lies on the line of the flow.                         *)
LEMMA SegmentAdds ==
  ASSUME FlowConstants, IInv, next # None, pc = "idle",
         NEW s, s \in Segment, s.pos + s.len <= StreamLen, s.seq = Wire(s.pos),
         AddAnchored(s, TRUE), received' = received \cup Bytes(s), UNCHANGED <<skipped, todo>>
  PROVE  Seg(s) /\ Adding(s, TRUE)
<1>1. todo = <<>>
  BY DEF IInv, Control
<1>2. DOMAIN todo' = {} /\ BytesOf(ToSet(todo)) = {} /\ todo' \in Seq(Segment)
  <2>1. ToSet(<<>>) = {} /\ DOMAIN <<>> = {}
    BY DEF ToSet
  <2> QED BY <1>1, <2>1, NoBytes, Typed
<1>3. Seg(s)
  BY DEF Seg
<1>4. Unwrap(s.seq, next) = s.pos + (next - nextPos)
  <2> DEFINE p == s.pos
  <2>1. /\ next \in Nat /\ nextPos \in 0..StreamLen /\ next - nextPos \in {ISN, ISN - M}
        /\ StreamLen \in Nat
    BY DEF IInv, Anchored, FlowConstants
  <2>2. p \in 0..StreamLen /\ s.seq = Wire(p)
    BY DEF Segment
  <2> HIDE DEF p
  <2>3. Unwrap(Wire(p), next) = next + (p - nextPos)
    BY <2>1, <2>2, UnwrapLine
  <2>4. next + (p - nextPos) = p + (next - nextPos)
    BY <2>1, <2>2
  <2> QED BY <2>2, <2>3, <2>4 DEF p
<1>5. Adding(s, TRUE)
  BY <1>1, <1>2, <1>3, <1>4 DEF Adding
<1> QED BY <1>3, <1>5

(* add_segment.                                                             *)
LEMMA SegmentKept ==
  ASSUME FlowConstants, IInv, NEW pos \in 0..StreamLen-1, NEW len \in 1..MaxSegment,
         AddSegment(pos, len)
  PROVE  IInv' /\ Onward
<1> DEFINE s == [seq |-> Wire(pos), len |-> len, pos |-> pos, ts |-> clock]
<1>1. /\ pc = "idle" /\ pos + len <= StreamLen
      /\ received' = received \cup Bytes(s) /\ packets' = packets + 1
      /\ call' = "segment" /\ now' = clock
      /\ UNCHANGED <<settings, fin, finAt, clock, skipped>>
      /\ \/ next = None /\ AddUnanchored(s) /\ UNCHANGED rescanned
         \/ /\ next # None /\ AddAnchored(s, TRUE)
            /\ UNCHANGED <<unanchored, reference, unanchoredAt, todo>>
  BY DEF AddSegment, CanReceive, Ready
<1>2. /\ s \in Segment /\ s.pos = pos /\ s.len = len /\ s.seq = Wire(pos)
      /\ pos \in 0..StreamLen /\ s.pos + s.len <= StreamLen
  <2>1. /\ pos \in 0..StreamLen /\ len \in 1..StreamLen /\ clock \in Nat
    BY Typed DEF FlowConstants
  <2>2. Wire(pos) \in Int
    BY <2>1, WireIs DEF FlowConstants
  <2> QED BY <1>1, <2>1, <2>2 DEF Segment
<1> HIDE DEF s
<1>3. now' \in Nat /\ packets' \in Nat /\ clock' \in Nat
  BY <1>1, Typed
<1>4. CASE next = None /\ AddUnanchored(s) /\ UNCHANGED rescanned
  <2> DEFINE P == Put(unanchored, s)
             ref == KeptWith(s)
  <2>1. /\ P # {} /\ Kept(P)
        /\ BytesOf(P) \subseteq received \cup Bytes(s)
        /\ received \cup Bytes(s) \subseteq BytesOf(P)
        /\ \E r \in 0..StreamLen : ref = Wire(r)
        /\ Bytes(s) \subseteq 0..StreamLen-1
    BY <1>2, <1>4, KeepMore
  <2>2. \/ StartCommit(P, ref) /\ UNCHANGED <<pending, gap, fed>>
        \/ /\ unanchored' = P /\ reference' = ref
           /\ unanchoredAt' = IF unanchoredAt = None THEN s.ts ELSE unanchoredAt
           /\ pc' = "commit"
           /\ UNCHANGED <<next, pending, gap, todo, nextPos, fed>>
    BY <1>4 DEF AddUnanchored, KeptWith
  <2>3. CASE StartCommit(P, ref) /\ UNCHANGED <<pending, gap, fed>>
    <3>1. received' \subseteq 0..StreamLen-1
      BY <1>1, <2>1, Typed
    <3> HIDE DEF P, ref
    <3>2. Starting(P, ref)
      BY <1>1, <1>3, <1>4, <2>1, <2>3, <3>1 DEF Starting
    <3> QED BY <1>4, <3>2, StartKept
  <2>4. CASE /\ unanchored' = P /\ reference' = ref
             /\ unanchoredAt' = IF unanchoredAt = None THEN s.ts ELSE unanchoredAt
             /\ pc' = "commit"
             /\ UNCHANGED <<next, pending, gap, todo, nextPos, fed>>
    BY <1>1, <1>2, <1>3, <1>4, <2>4, KeepKept
  <2> QED BY <2>2, <2>3, <2>4
<1>5. CASE /\ next # None /\ AddAnchored(s, TRUE)
           /\ UNCHANGED <<unanchored, reference, unanchoredAt, todo>>
  <2>1. Adding(s, TRUE)
    BY <1>1, <1>2, <1>5, SegmentAdds
  <2> QED BY <1>1, <1>3, <1>5, <2>1, AddKept
<1> QED BY <1>1, <1>4, <1>5

-----------------------------------------------------------------------------
(***************************************************************************)
(* The calls of the owner and the loops.                                   *)
(***************************************************************************)
(* A sequence without its head.                                             *)
LEMMA TailIs ==
  ASSUME NEW S, NEW q \in Seq(S), q # <<>>
  PROVE  /\ Tail(q) \in Seq(S) /\ 1 \in DOMAIN q /\ Head(q) = q[1]
         /\ \A i \in DOMAIN Tail(q) : /\ i \in Int /\ 1 <= i /\ i + 1 \in DOMAIN q
                                      /\ Tail(q)[i] = q[i + 1]
         /\ \A i \in DOMAIN q : i = 1 \/ (i - 1 \in DOMAIN Tail(q) /\ Tail(q)[i - 1] = q[i])
OBVIOUS

(* A number of the line is unwrapped to itself.                             *)
LEMMA LineUnwrap ==
  ASSUME FlowConstants, IInv, next # None, NEW s, Seg(s), Lies(s), s.seq >= 0
  PROVE  s.pos + (next - nextPos) = s.seq /\ Unwrap(s.seq, next) = s.seq
<1>1. /\ s.seq \in Int /\ s.pos \in 0..StreamLen /\ s.seq - s.pos = next - nextPos /\ s.seq >= 0
  BY DEF Lies, Seg, Segment
<1>2. /\ next \in Nat /\ nextPos \in 0..StreamLen /\ next - nextPos \in {ISN, ISN - M}
      /\ StreamLen \in Nat
  BY DEF IInv, Anchored, FlowConstants
<1> DEFINE p == s.pos  n == s.seq
<1>3. p \in 0..StreamLen /\ n \in Int /\ n - p = next - nextPos /\ n >= 0
  BY <1>1
<1> HIDE DEF p, n
<1>4. n = next + (p - nextPos) /\ p + (next - nextPos) = n
  <2>1. p \in Int /\ nextPos \in Int /\ next \in Int
    BY <1>2, <1>3
  <2> QED BY <1>3, <2>1
<1>5. Unwrap(next + (p - nextPos), next) = next + (p - nextPos)
  BY <1>2, <1>3, <1>4, UnwrapLine
<1>6. Unwrap(n, next) = n
  BY <1>4, <1>5
<1> QED BY <1>4, <1>6 DEF p, n

(* _commit_unanchored adds the next segment.                                *)
LEMMA CommitAdds ==
  ASSUME FlowConstants, IInv, CommitNext
  PROVE  Adding(Head(todo), FALSE)
<1> DEFINE s == Head(todo)
<1>1. /\ pc = "commit" /\ todo # <<>> /\ AddAnchored(s, FALSE) /\ todo' = Tail(todo)
      /\ now' = s.ts
      /\ UNCHANGED <<unanchored, reference, unanchoredAt, fin, finAt, settings, clock, packets,
                     received, call, skipped>>
  BY DEF CommitNext, loopUnchanged, env
<1>2. next # None
  BY <1>1 DEF IInv, Fresh
<1>3. todo \in Seq(Segment)
  BY Typed
<1>4. /\ Tail(todo) \in Seq(Segment) /\ 1 \in DOMAIN todo /\ s = todo[1]
      /\ \A i \in DOMAIN Tail(todo) : /\ i \in Int /\ 1 <= i /\ i + 1 \in DOMAIN todo
                                      /\ Tail(todo)[i] = todo[i + 1]
      /\ \A i \in DOMAIN todo : \/ i = 1
                                \/ i - 1 \in DOMAIN Tail(todo) /\ Tail(todo)[i - 1] = todo[i]
  BY <1>1, <1>3, TailIs
<1> HIDE DEF s
<1>5. /\ \A i \in DOMAIN todo : Seg(todo[i]) /\ Lies(todo[i]) /\ todo[i].seq >= 0
      /\ \A i, j \in DOMAIN todo : i < j => todo[i].seq < todo[j].seq
      /\ BytesOf(ToSet(todo)) \subseteq received
      /\ \A p \in BytesOf(ToSet(todo)) : p < nextPos => p \in ToSet(fed) \cup Reported
  BY DEF IInv, ToAdd
<1>6. /\ Seg(s) /\ s.seq - s.pos = next - nextPos /\ s.seq >= 0
      /\ s.seq \in Int /\ s.pos \in 0..StreamLen /\ s.ts \in Nat
  <2>1. Seg(s) /\ Lies(s) /\ s.seq >= 0
    BY <1>4, <1>5
  <2> QED BY <2>1 DEF Lies, Seg, Segment
<1>7. s.pos + (next - nextPos) = s.seq /\ Unwrap(s.seq, next) = s.seq
  BY <1>2, <1>6, LineUnwrap DEF Lies
<1>8. Bytes(s) \subseteq BytesOf(ToSet(todo))
  BY <1>4, BytesIn
<1>9. \A i \in DOMAIN todo' : /\ \E j \in DOMAIN todo : todo'[i] = todo[j]
                               /\ s.seq < todo'[i].seq
  <2> SUFFICES ASSUME NEW i \in DOMAIN Tail(todo)
               PROVE  /\ \E j \in DOMAIN todo : Tail(todo)[i] = todo[j]
                      /\ s.seq < Tail(todo)[i].seq
    BY <1>1
  <2>1. i \in Int /\ 1 <= i /\ i + 1 \in DOMAIN todo /\ Tail(todo)[i] = todo[i + 1]
    BY <1>4
  <2>2. 1 < i + 1
    BY <2>1
  <2>3. todo[1].seq < todo[i + 1].seq
    BY <1>4, <1>5, <2>1, <2>2
  <2> QED BY <1>4, <2>1, <2>3
<1>10. \A i, j \in DOMAIN todo' : i < j => todo'[i].seq < todo'[j].seq
  <2> SUFFICES ASSUME NEW i \in DOMAIN Tail(todo), NEW j \in DOMAIN Tail(todo), i < j
               PROVE  Tail(todo)[i].seq < Tail(todo)[j].seq
    BY <1>1
  <2>1. /\ i \in Int /\ i + 1 \in DOMAIN todo /\ Tail(todo)[i] = todo[i + 1]
        /\ j \in Int /\ j + 1 \in DOMAIN todo /\ Tail(todo)[j] = todo[j + 1]
    BY <1>4
  <2>2. i + 1 < j + 1
    BY <2>1
  <2> QED BY <1>5, <2>1, <2>2
<1>11. BytesOf(ToSet(todo)) \subseteq BytesOf(ToSet(todo')) \cup Bytes(s)
  <2> SUFFICES ASSUME NEW p \in BytesOf(ToSet(todo)), p \notin Bytes(s)
               PROVE  p \in BytesOf(ToSet(Tail(todo)))
    BY <1>1
  <2>1. PICK i \in DOMAIN todo : p \in Bytes(todo[i])
    BY BytesIn
  <2>2. i - 1 \in DOMAIN Tail(todo) /\ Tail(todo)[i - 1] = todo[i]
    BY <1>4, <2>1
  <2> QED BY <2>1, <2>2, BytesIn
<1>12. Adding(s, FALSE)
  <2>1. received' = received \cup Bytes(s)
    BY <1>1, <1>5, <1>8
  <2>2. \A p \in Bytes(s) : p < nextPos => p \in ToSet(fed) \cup Reported
    BY <1>5, <1>8
  <2> QED BY <1>1, <1>4, <1>6, <1>7, <1>9, <1>10, <1>11, <2>1, <2>2 DEF Adding
<1> QED BY <1>12 DEF s

(* ... and keeps the invariant.                                             *)
LEMMA CommitKept ==
  ASSUME FlowConstants, IInv, CommitNext
  PROVE  IInv' /\ Onward
<1>1. /\ pc = "commit" /\ todo # <<>> /\ now' = Head(todo).ts
      /\ UNCHANGED <<unanchored, reference, unanchoredAt, fin, finAt, settings, clock, packets,
                     call>>
  BY DEF CommitNext, loopUnchanged, env
<1>2. next # None
  BY <1>1 DEF IInv, Fresh
<1>3. Adding(Head(todo), FALSE)
  BY CommitAdds
<1>4. now' \in Nat
  <2>1. Seg(Head(todo))
    BY <1>3 DEF Adding
  <2> QED BY <1>1, <2>1 DEF Seg, Segment
<1>5. /\ call' \in {"segment", "service", "finish"} /\ (call' = "service" => settings.defer)
      /\ packets' \in Nat
  BY <1>1, Typed DEF IInv, Control
<1> DEFINE s == Head(todo)
<1>6. Adding(s, FALSE)
  BY <1>3
<1> HIDE DEF s
<1> QED BY <1>1, <1>2, <1>4, <1>5, <1>6, AddKept

(* The commit, or the single segment, is done.                              *)
LEMMA ReturnKept ==
  ASSUME FlowConstants, IInv, CommitReturn
  PROVE  IInv' /\ Onward
<1>1. /\ pc = "commit" /\ todo = <<>>
      /\ pc' = CASE call = "segment" -> "idle"
                 [] call = "service" -> "timeout"
                 [] call = "finish" -> "drain"
      /\ call' = IF call = "segment" THEN "none" ELSE call
      /\ now' = IF call = "service" THEN clock ELSE 0
      /\ UNCHANGED <<next, pending, unanchored, reference, unanchoredAt, gap, fin, finAt,
                     settings, clock, packets, todo, history>>
  BY DEF CommitReturn, code, env
<1>2. call \in {"segment", "service", "finish"}
  BY <1>1, Typed DEF IInv, Control
<1>3. /\ call = "segment" => pc' = "idle" /\ call' = "none"
      /\ call = "service" => pc' = "timeout" /\ call' = "service"
      /\ call = "finish" => pc' = "drain" /\ call' = "finish"
  BY <1>1
<1>4. FreeTypes
  <2>1. now' \in Nat
    BY <1>1, Typed
  <2> QED BY <1>1, <1>2, <1>3, <2>1, Typed DEF FreeTypes
<1>5. Control'
  BY <1>1, <1>2, <1>3 DEF IInv, Control
<1>6. next = None => gap' = None /\ call' # "service" /\ pc' \notin {"capacity", "timeout"}
  BY <1>1, <1>2, <1>3 DEF IInv, Fresh
<1> QED BY <1>1, <1>4, <1>5, <1>6, UnmovedKept

(* The commit of what is kept, for the owner.                               *)
LEMMA CallStarts ==
  ASSUME FlowConstants, IInv, unanchored # {}, StartCommit(unanchored, reference),
         UNCHANGED <<settings, pending, gap, fin, finAt, clock, packets, received, fed,
                     rescanned, skipped>>,
         now' \in Nat, call' \in {"service", "finish"}, call' = "service" => settings.defer
  PROVE  IInv' /\ Onward
<1>1. next = None
  BY DEF IInv, Anchored
<1>2. /\ Kept(unanchored) /\ \E r \in 0..StreamLen : reference = Wire(r)
  BY DEF IInv, Keeping
<1>3. received \subseteq BytesOf(unanchored) /\ BytesOf(unanchored) \subseteq received
  BY <1>1, FreshHolds
<1> DEFINE S == unanchored  ref == reference
<1>4. Starting(S, ref)
  BY <1>2, <1>3, Typed DEF Starting
<1> HIDE DEF S, ref
<1> QED BY <1>1, <1>4, StartKept

(* service_gaps.                                                            *)
LEMMA ServiceKept ==
  ASSUME FlowConstants, IInv, ServiceGaps
  PROVE  IInv' /\ Onward
<1>1. /\ pc = "idle" /\ settings.defer /\ call' = "service" /\ now' = clock
      /\ UNCHANGED <<pending, gap, fin, finAt, settings, clock, packets, received, fed,
                     rescanned, skipped>>
  BY DEF ServiceGaps, Ready, env
<1>2. CASE GraceOver
  BY <1>1, <1>2, Typed, CallStarts DEF ServiceGaps, GraceOver
<1>3. CASE ~GraceOver
  <2>1. /\ pc' = "timeout"
        /\ UNCHANGED <<next, nextPos, todo, unanchored, reference, unanchoredAt>>
    BY <1>3 DEF ServiceGaps
  <2>2. next # None
    <3>1. pending # {} \/ FinTimer(fin, finAt, gap) # gap \/ FinGapDue(clock)
      BY <1>3 DEF ServiceGaps
    <3> QED BY <3>1 DEF IInv, Fresh, FinTimer, FinGapDue
  <2>3. FreeTypes
    BY <1>1, <2>1, Typed DEF FreeTypes
  <2>4. Control'
    BY <1>1, <2>1 DEF IInv, Control
  <2> QED BY <1>1, <2>1, <2>2, <2>3, <2>4, UnmovedKept DEF history
<1> QED BY <1>2, <1>3

(* finish.                                                                  *)
LEMMA FinishKept ==
  ASSUME FlowConstants, IInv, Finish
  PROVE  IInv' /\ Onward
<1>1. /\ pc = "idle" /\ call' = "finish"
      /\ UNCHANGED <<pending, gap, fin, finAt, now, settings, clock, packets, received, fed,
                     rescanned, skipped>>
  BY DEF Finish, env
<1>2. CASE unanchored # {}
  BY <1>1, <1>2, Typed, CallStarts DEF Finish
<1>3. CASE unanchored = {}
  <2>1. /\ pc' = "drain"
        /\ UNCHANGED <<next, nextPos, todo, unanchored, reference, unanchoredAt>>
    BY <1>3 DEF Finish
  <2>2. FreeTypes
    BY <1>1, <2>1, Typed DEF FreeTypes
  <2>3. Control'
    BY <1>1, <1>3, <2>1 DEF IInv, Control
  <2>4. next = None => gap' = None /\ call' # "service" /\ pc' \notin {"capacity", "timeout"}
    BY <1>1, <2>1 DEF IInv, Fresh
  <2> QED BY <1>1, <2>1, <2>2, <2>3, <2>4, UnmovedKept DEF history
<1> QED BY <1>2, <1>3

-----------------------------------------------------------------------------
(* A restart behind a gap.                                                  *)
LEMMA ResumeKept ==
  ASSUME FlowConstants, IInv, pending # {}, ResumeAfterGap,
         UNCHANGED <<loopUnchanged, pc, call, todo, now, rescanned>>
  PROVE  IInv' /\ Onward
<1>1. PICK a : next # None /\ Moves(a) /\ Holds(a) /\ Feeds(pending, a)
  BY ResumeMoves
<1>2. UNCHANGED <<unanchored, reference, unanchoredAt, fin, finAt, settings, clock, packets,
                  received, pc, call, todo, now, rescanned>>
  BY DEF loopUnchanged, env
<1>3. gap' \in MaybeNat
  BY <1>1 DEF Feeds, MaybeNat
<1>4. Rest
  BY <1>2, <1>3, Typed DEF Rest
<1>5. Control'
  BY <1>2 DEF IInv, Control
<1> QED BY <1>1, <1>4, <1>5, LineKept

(* What is over the limits is not empty.                                    *)
LEMMA OverHolds ==
  ASSUME FlowConstants, IInv, CapacityExceeded(pending)
  PROVE  pending # {}
<1>1. settings \in Settings
  BY Typed DEF FlowConstants
<1>2. ~CapacityExceeded({})
  BY <1>1, EmptyWithin
<1> QED BY <1>2

(* The capacity loop.                                                       *)
LEMMA ShedKept ==
  ASSUME FlowConstants, IInv, ShedPending
  PROVE  IInv' /\ Onward
<1>1. pc = "capacity" /\ UNCHANGED <<loopUnchanged, call, todo, now, rescanned>>
  BY DEF ShedPending
<1>2. CASE CapacityExceeded(pending) /\ ResumeAfterGap /\ UNCHANGED pc
  BY <1>1, <1>2, OverHolds, ResumeKept
<1>3. CASE /\ pc' = "commit"
           /\ UNCHANGED <<next, pending, gap, nextPos, fed, skipped>>
  <2>1. UNCHANGED <<next, pending, unanchored, reference, unanchoredAt, gap, fin, finAt,
                    settings, clock, packets, call, todo, now, history>>
    BY <1>1, <1>3 DEF loopUnchanged, env, history
  <2>2. FreeTypes
    BY <1>3, <2>1, Typed DEF FreeTypes
  <2>3. Control'
    BY <1>1, <1>3, <2>1 DEF IInv, Control
  <2>4. next # None
    BY <1>1 DEF IInv, Fresh
  <2> QED BY <2>1, <2>2, <2>3, <2>4, UnmovedKept
<1> QED BY <1>2, <1>3 DEF ShedPending

(* The end of service_gaps.                                                 *)
LEMMA FinGapKept ==
  ASSUME FlowConstants, IInv, ExpireFinGap
  PROVE  IInv' /\ Onward
<1>1. /\ pc = "timeout"
      /\ UNCHANGED <<unanchored, reference, unanchoredAt, fin, finAt, settings, clock, packets,
                     received, pending, todo, fed, rescanned>>
      /\ IF call = "service"
         THEN pc' = "idle" /\ call' = "none" /\ now' = 0
         ELSE pc' = "commit" /\ UNCHANGED <<call, now>>
  BY DEF ExpireFinGap, loopUnchanged, env
<1>2. next # None /\ (settings.defer => todo = <<>>) /\ call # "none"
  BY <1>1 DEF IInv, Fresh, Control
<1>3. /\ pc' \in {"idle", "commit"} /\ call' \in {"none", "segment", "service", "finish"}
      /\ now' \in Nat
  BY <1>1, Typed
<1>4. Control'
  BY <1>1, <1>2 DEF IInv, Control
<1>5. CASE FinGapDue(now) /\ next < FinAbsolute /\ ResumeAfterFinGap
  <2>1. pending = {} /\ fin # None
    BY <1>5 DEF FinGapDue
  <2>2. Moves(nextPos') /\ Holds(nextPos') /\ gap' = None
    BY <1>1, <1>2, <1>5, <2>1, FinMoves
  <2> DEFINE a == nextPos'
  <2>3. Moves(a) /\ Holds(a)
    BY <2>2
  <2> HIDE DEF a
  <2>4. Rest
    BY <1>1, <1>3, <2>2, Typed DEF Rest, MaybeNat
  <2> QED BY <1>2, <1>4, <2>3, <2>4, LineKept
<1>6. CASE gap' = FinTimer(fin, finAt, gap) /\ UNCHANGED <<next, nextPos, skipped>>
  <2>1. gap' \in MaybeNat
    BY <1>6, Typed DEF FinTimer
  <2>2. FreeTypes
    BY <1>1, <1>3, <2>1, Typed DEF FreeTypes
  <2> QED BY <1>1, <1>2, <1>4, <1>6, <2>2, UnmovedKept DEF history
<1> QED BY <1>5, <1>6 DEF ExpireFinGap

(* The tail of finish.                                                      *)
LEMMA DrainKept ==
  ASSUME FlowConstants, IInv, DrainFinGap
  PROVE  IInv' /\ Onward
<1>1. /\ pc = "drain" /\ pending = {} /\ ResumeAfterFinGap /\ pc' = "closed"
      /\ UNCHANGED <<unanchored, reference, unanchoredAt, fin, finAt, settings, clock, packets,
                     received, pending, call, todo, now, fed, rescanned>>
  BY DEF DrainFinGap, loopUnchanged, env
<1>2. Control'
  BY <1>1 DEF IInv, Control
<1>3. CASE fin # None /\ next # None /\ next < FinAbsolute
  <2>1. settings.defer => todo = <<>>
    BY <1>1 DEF IInv, Control
  <2>2. Moves(nextPos') /\ Holds(nextPos') /\ gap' = None
    BY <1>1, <1>3, <2>1, FinMoves
  <2> DEFINE a == nextPos'
  <2>3. Moves(a) /\ Holds(a)
    BY <2>2
  <2> HIDE DEF a
  <2>4. Rest
    BY <1>1, <2>2, Typed DEF Rest, MaybeNat
  <2> QED BY <1>2, <1>3, <2>3, <2>4, LineKept
<1>4. CASE ~(fin # None /\ next # None /\ next < FinAbsolute)
  <2>1. UNCHANGED <<skipped, next, nextPos, gap>>
    BY <1>1, <1>4 DEF ResumeAfterFinGap
  <2>2. FreeTypes
    BY <1>1, <2>1, Typed DEF FreeTypes
  <2>3. next = None => gap' = None /\ call' # "service" /\ pc' \notin {"capacity", "timeout"}
    BY <1>1, <2>1 DEF IInv, Fresh
  <2> QED BY <1>1, <1>2, <2>1, <2>2, <2>3, UnmovedKept DEF history
<1> QED BY <1>3, <1>4

(* Every step keeps the invariant.                                          *)
LEMMA StepKept ==
  ASSUME FlowConstants, IInv, [Next]_vars
  PROVE  IInv' /\ Onward
<1>1. CASE AnchorSequence
  BY <1>1, AnchorKept
<1>2. ASSUME NEW pos \in 0..StreamLen-1, NEW len \in 1..MaxSegment, AddSegment(pos, len)
      PROVE  IInv' /\ Onward
  BY <1>2, SegmentKept
<1>3. CASE MarkFin
  BY <1>3, MarkKept
<1>4. CASE ServiceGaps
  BY <1>4, ServiceKept
<1>5. CASE Finish
  BY <1>5, FinishKept
<1>6. CASE CommitNext
  BY <1>6, CommitKept
<1>7. CASE CommitReturn
  BY <1>7, ReturnKept
<1>8. CASE ShedPending
  BY <1>8, ShedKept
<1>9. CASE ExpireGap
  BY <1>9, ResumeKept DEF ExpireGap
<1>10. CASE ExpireFinGap
  BY <1>10, FinGapKept
<1>11. CASE DrainPending
  BY <1>11, ResumeKept DEF DrainPending
<1>12. CASE DrainFinGap
  BY <1>12, DrainKept
<1>13. CASE Tick
  BY <1>13, TickKept
<1>14. CASE Closed \/ UNCHANGED vars
  BY <1>14, StutterKept DEF Closed
<1> QED BY <1>1, <1>2, <1>3, <1>4, <1>5, <1>6, <1>7, <1>8, <1>9, <1>10, <1>11, <1>12, <1>13,
           <1>14 DEF Next, Loop

(* The flow begins with nothing.                                            *)
LEMMA InitKept ==
  ASSUME FlowConstants, Init
  PROVE  IInv
<1>1. /\ settings \in Flows /\ next = None /\ pending = {} /\ unanchored = {}
      /\ reference = None /\ unanchoredAt = None /\ gap = None /\ fin = None /\ finAt = None
      /\ pc = "idle" /\ call = "none" /\ todo = <<>> /\ now = 0 /\ clock = 0 /\ packets = 0
      /\ nextPos = None /\ received = {} /\ fed = <<>> /\ rescanned = {} /\ skipped = {}
  BY DEF Init
<1>2. /\ ToSet(todo) = {} /\ ToSet(fed) = {} /\ BytesOf({}) = {} /\ DOMAIN todo = {}
  BY <1>1, NoBytes DEF ToSet
<1>3. TypeOK
  BY <1>1 DEF TypeOK, MaybeNat
<1>4. Fresh /\ Anchored
  BY <1>1 DEF Fresh, Anchored
<1>5. Keeping /\ Ahead
  BY <1>1, <1>2, KeptNone, FS_EmptySet DEF Keeping, Ahead
<1>6. ToAdd /\ Covered
  BY <1>1, <1>2 DEF ToAdd, Covered
<1>7. Behind
  <2>1. Rising(fed)
    BY <1>1 DEF Rising
  <2> QED BY <1>1, <1>2, <2>1 DEF Behind
<1>8. Control
  BY <1>1 DEF Control
<1> QED BY <1>3, <1>4, <1>5, <1>6, <1>7, <1>8 DEF IInv

-----------------------------------------------------------------------------
(***************************************************************************)
(* The theorems.                                                           *)
(***************************************************************************)
(* The invariant holds throughout.                                          *)
LEMMA Invariant == Spec => []IInv
<1>1. FlowConstants
  BY TcpFlowAssumption
<1>2. Init => IInv
  BY <1>1, InitKept
<1>3. IInv /\ [Next]_vars => IInv'
  BY <1>1, StepKept
<1> QED BY <1>2, <1>3, PTL DEF Spec

(* A number of the line and its position agree modulo M.                    *)
LEMMA SameWire ==
  ASSUME FlowConstants, NEW n \in Nat, NEW p \in 0..StreamLen, n - p \in {ISN, ISN - M}
  PROVE  n % M = Wire(p)
<1>1. /\ M \in Nat \ {0} /\ ISN \in 0..M-1 /\ StreamLen \in Nat /\ 2 * StreamLen < M
  BY DEF FlowConstants
<1> DEFINE x == ISN + p
<1>2. x \in 0..2*M-1 /\ (n = x \/ (n = x - M /\ n \in 0..2*M-1))
  BY <1>1
<1>3. Wire(p) = x % M
  BY DEF Wire
<1> HIDE DEF x
<1>4. CASE n = x
  BY <1>3, <1>4
<1>5. CASE n = x - M /\ n \in 0..2*M-1
  <2>1. n % M = IF n < M THEN n ELSE n - M
    BY <1>1, <1>5, SmallMod
  <2>2. x % M = IF x < M THEN x ELSE x - M
    BY <1>1, <1>2, SmallMod
  <2> QED BY <1>1, <1>2, <1>3, <1>5, <2>1, <2>2
<1> QED BY <1>2, <1>4, <1>5

(* What is held and what is to be added lie on the line of next.            *)
LEMMA LineAligned ==
  ASSUME FlowConstants, IInv
  PROVE  Aligned
<1>1. TypeOK
  BY DEF IInv
<1>2. ASSUME next # None PROVE next % M = Wire(nextPos)
  BY <1>2, SameWire DEF IInv, Anchored
<1>3. ASSUME next # None, NEW s, Seg(s), Lies(s)
      PROVE  s.seq - next = s.pos - nextPos
  <2>1. s.seq \in Int /\ s.pos \in Int /\ s.seq - s.pos = next - nextPos
    BY <1>3, SegIs DEF Lies
  <2>2. next \in Int /\ nextPos \in Int
    BY <1>3, LineFacts
  <2> QED BY <2>1, <2>2
<1>4. ASSUME next # None, NEW s \in pending PROVE s.seq - next = s.pos - nextPos
  <2>1. Seg(s) /\ Lies(s)
    BY DEF IInv, Ahead
  <2> QED BY <1>3, <1>4, <2>1
<1>5. ASSUME next # None, NEW s \in ToSet(todo)
      PROVE  Unwrap(s.seq, next) - next = s.pos - nextPos
  <2>1. Seg(s) /\ Lies(s) /\ s.seq >= 0
    BY DEF IInv, ToAdd, ToSet
  <2>2. Unwrap(s.seq, next) = s.seq
    BY <1>5, <2>1, LineUnwrap
  <2> QED BY <1>3, <1>5, <2>1, <2>2
<1> QED BY <1>1, <1>2, <1>4, <1>5 DEF Aligned, NumbersAligned

(* Wherever the numbers of a flow wrap, and in whatever order its segments  *)
(* come, every segment that the flow holds or has still to add lies as far  *)
(* from `next` in the code's numbers as in the stream                       *)
(* (_unwrap_tcp_sequence, _ordered_unanchored).                             *)
THEOREM NumbersStayAligned == Spec => []Aligned
<1>1. IInv => Aligned
  BY TcpFlowAssumption, LineAligned
<1> QED BY <1>1, Invariant, PTL

(* No scanner reset gives up a byte that was captured, but in a replay for  *)
(* those of the commit under way (_resume_after_gap,                        *)
(* _resume_after_fin_gap).                                                  *)
THEOREM ResetsSkipOnlyLost == Spec => ResetsSkipOnlyLostBytes
<1>1. IInv /\ [Next]_vars => [(skipped' \ skipped) \cap received' \subseteq Unsafe]_vars
  BY TcpFlowAssumption, StepKept DEF Onward
<1> QED BY <1>1, Invariant, PTL DEF Spec, ResetsSkipOnlyLostBytes

(* A closed flow stays as it is.                                            *)
LEMMA ClosedStays ==
  ASSUME Next, pc = "closed"
  PROVE  UNCHANGED vars
BY DEF Next, AnchorSequence, AddSegment, MarkFin, ServiceGaps, Finish, Loop, CommitNext,
       CommitReturn, ShedPending, ExpireGap, ExpireFinGap, DrainPending, DrainFinGap, Tick,
       Closed, CanReceive, Ready

(* A closed flow holds nothing.                                             *)
LEMMA ClosedHoldsNone ==
  ASSUME IInv, pc = "closed"
  PROVE  received \subseteq ToSet(fed) \cup rescanned \cup Reported
<1>1. pending = {} /\ unanchored = {} /\ todo = <<>>
  BY DEF IInv, Control
<1>2. ToSet(todo) = {}
  BY <1>1 DEF ToSet
<1>3. Held = {}
  BY <1>1, <1>2, NoBytes DEF Held
<1> QED BY <1>3 DEF IInv, Covered

(* ... and so after a step.                                                 *)
LEMMA ClosedHoldsPrimed ==
  (IInv /\ pc = "closed" => received \subseteq ToSet(fed) \cup rescanned \cup Reported)'
<1>1. IInv /\ pc = "closed" => received \subseteq ToSet(fed) \cup rescanned \cup Reported
  BY ClosedHoldsNone
<1> QED BY <1>1, PTL

(* Every step of the flow is one of the promise, or changes nothing of it.  *)
LEMMA StepPromised ==
  ASSUME FlowConstants, IInv, Next
  PROVE  [Stream!Step]_(Stream!vars)
<1>1. CASE pc = "closed"
  <2>1. UNCHANGED vars
    BY <1>1, ClosedStays
  <2> QED BY <2>1 DEF vars, code, control, env, history, Stream!vars
<1>2. CASE pc # "closed"
  <2>1. IInv' /\ Onward
    BY StepKept
  <2>2. /\ received \subseteq received' /\ rescanned \subseteq rescanned' /\ IsPrefix(fed, fed')
        /\ skipped \subseteq skipped' /\ settings' = settings
    BY <2>1 DEF Onward
  <2>3. /\ Stream!Increasing(fed') /\ ToSet(fed') \subseteq received'
        /\ rescanned' \subseteq received' /\ ToSet(fed') \cap skipped' = {}
    BY <2>1 DEF IInv, Behind, Rising, Stream!Increasing
  <2>4. (pc' = "closed") => received' \subseteq ToSet(fed') \cup rescanned' \cup Reported'
    BY <2>1, ClosedHoldsPrimed
  <2>5. /\ Reported \subseteq Reported' /\ Reported' \cap ToSet(fed') = {}
    BY <2>2, <2>3 DEF Reported
  <2> DEFINE lost == IF settings.defer THEN {} ELSE skipped
             done == pc = "closed"
  <2>6. /\ done' \in BOOLEAN /\ ~done
        /\ done' => received' \subseteq ToSet(fed') \cup rescanned' \cup lost'
        /\ lost \subseteq lost' /\ lost' \cap ToSet(fed') = {}
    BY <1>2, <2>4, <2>5 DEF Reported
  <2>7. Stream!ToSet(fed') = ToSet(fed') /\ Stream!IsPrefix(fed, fed')
    BY <2>2 DEF ToSet, Stream!ToSet, IsPrefix, Stream!IsPrefix
  <2>8. Stream!Step
    BY <2>2, <2>3, <2>6, <2>7, Zenon DEF Stream!Step
  <2> QED BY <2>8
<1> QED BY <1>1, <1>2

(* Reassembly of the flow implements the contract of its scanner: what it   *)
(* feeds are captured bytes, each once, in stream order and never           *)
(* retracted, and a flow that is done has fed or offered every captured     *)
(* byte, but for those a replay reported as a gap.                          *)
THEOREM FlowKeepsPromise == Spec => StreamPromise
<1>1. Init => Stream!Init
  BY DEF Init, Stream!Init
<1>2. IInv /\ [Next]_vars => [Stream!Step]_(Stream!vars)
  <2>1. ASSUME IInv, Next PROVE [Stream!Step]_(Stream!vars)
    BY <2>1, TcpFlowAssumption, StepPromised
  <2>2. ASSUME UNCHANGED vars PROVE UNCHANGED Stream!vars
    BY <2>2 DEF vars, code, control, env, history, Stream!vars
  <2> QED BY <2>1, <2>2
<1> QED BY <1>1, <1>2, Invariant, PTL DEF Spec, StreamPromise, Stream!Spec

-----------------------------------------------------------------------------
(***************************************************************************)
(* Holes, timers and limits.                                               *)
(***************************************************************************)
(* The timer is never younger than all that is held, or than the FIN.       *)
GapTimed ==
    /\ pending # {} => gap # None /\ (\/ \E s \in pending : gap <= s.ts
                                      \/ fin # None /\ gap <= finAt)
    /\ pending = {} /\ gap # None => fin # None /\ gap <= finAt

(* No segment and no FIN comes from later than now.                         *)
Stamped ==
    /\ \A s \in pending \cup unanchored \cup ToSet(todo) : s.ts <= clock
    /\ fin # None => finAt \in Nat /\ finAt <= clock

(* Only the capacity loop sees a buffer over its limits.                    *)
Within ==
    /\ pc # "capacity" => ~CapacityExceeded(pending)
    /\ ~CapacityExceeded(unanchored)

Bounds == GapTimed /\ Stamped /\ Within

Over(S) ==
    \/ Cardinality(S) > settings.segments
    \/ settings.bytes # None /\ SumLen(S) > settings.bytes

(* Over the limits, without the sum's lambda.                               *)
LEMMA OverIs ==
  ASSUME NEW S
  PROVE  CapacityExceeded(S) <=> Over(S)
BY DEF CapacityExceeded, Over, SumLen
BothOver ==
    /\ CapacityExceeded(pending) <=> Over(pending)
    /\ CapacityExceeded(unanchored) <=> Over(unanchored)

(* ... for the two buffers,                                                 *)
LEMMA OverAre == BothOver
<1> DEFINE S == pending T == unanchored
<1>1. CapacityExceeded(S) <=> Over(S)
  <2> HIDE DEF S
  <2> QED BY OverIs
<1>2. CapacityExceeded(T) <=> Over(T)
  <2> HIDE DEF T
  <2> QED BY OverIs
<1> QED BY <1>1, <1>2 DEF BothOver
(* ... before and after a step.                                             *)
LEMMA OverArePrimed == BothOver'
BY OverAre, PTL
(* A step that keeps the settings keeps the limits.                         *)
LEMMA OverNext ==
  ASSUME settings' = settings
  PROVE  /\ CapacityExceeded(pending)' <=> CapacityExceeded(pending')
         /\ CapacityExceeded(unanchored)' <=> CapacityExceeded(unanchored')
<1> DEFINE S == pending' T == unanchored'
<1>1. CapacityExceeded(S) <=> Over(S)
  <2> HIDE DEF S
  <2> QED BY OverIs
<1>2. CapacityExceeded(T) <=> Over(T)
  <2> HIDE DEF T
  <2> QED BY OverIs
<1>3. Over(pending)' <=> Over(S)
  BY DEF Over
<1>4. Over(unanchored)' <=> Over(T)
  BY DEF Over
<1>5. BothOver'
  BY OverArePrimed
<1> QED BY <1>1, <1>2, <1>3, <1>4, <1>5 DEF BothOver

(* The timestamps are natural numbers.                                      *)
LEMMA StampsAre ==
  ASSUME IInv
  PROVE  /\ \A s \in pending \cup unanchored \cup ToSet(todo) : s.ts \in Nat /\ s.len \in Nat
         /\ IsFiniteSet(pending)
<1>1. \A i \in DOMAIN todo : todo[i] \in Segment
  BY Typed, Elements
<1>2. pending \subseteq Segment /\ unanchored \subseteq Segment
  BY DEF IInv, TypeOK
<1>3. \A s \in Segment : s.ts \in Nat /\ s.len \in Nat
  BY DEF Segment
<1> QED BY <1>1, <1>2, <1>3 DEF ToSet, IInv, Ahead

(* What leaves buffers and timer alone keeps them within bounds.            *)
LEMMA StillBounded ==
  ASSUME FlowConstants, IInv, Bounds,
         UNCHANGED <<settings, pending, gap, unanchored, todo, fin, finAt>>,
         clock' \in Nat, clock <= clock',
         pc' # "capacity" => ~CapacityExceeded(pending)
  PROVE  Bounds'
<1>1. \A s \in pending \cup unanchored \cup ToSet(todo) : s.ts \in Nat
  BY StampsAre
<1>2. clock \in Nat
  BY Typed
<1>3. GapTimed'
  BY DEF Bounds, GapTimed
<1>4. Stamped'
  BY <1>1, <1>2 DEF Bounds, Stamped
<1>5. Within'
  BY OverNext DEF Bounds, Within
<1> QED BY <1>3, <1>4, <1>5 DEF Bounds

(* What leaves some of what is held, with the timer of the oldest, too.     *)
LEMMA LeftBounded ==
  ASSUME FlowConstants, IInv, Bounds, Left,
         UNCHANGED <<settings, unanchored, fin, finAt, clock>>,
         \A i \in DOMAIN todo' : \E j \in DOMAIN todo : todo'[i] = todo[j],
         (pc = "capacity" /\ pc' = "capacity") \/ pc # "capacity"
  PROVE  Bounds'
<1>1. /\ \A s \in pending \cup unanchored \cup ToSet(todo) : s.ts \in Nat /\ s.len \in Nat
      /\ IsFiniteSet(pending)
  BY StampsAre
<1>2. pending' \subseteq pending
  BY DEF Left
<1>3. GapTimed'
  <2>1. ASSUME pending' # {} PROVE gap' # None /\ \E s \in pending' : gap' <= s.ts
    <3>1. gap' # None
      BY <2>1 DEF Left
    <3>2. PICK s \in pending' : gap' = s.ts
      BY <2>1 DEF Left
    <3>3. s.ts \in Nat
      BY <1>1, <1>2
    <3> QED BY <3>1, <3>2, <3>3
  <2>2. pending' = {} => gap' = None
    BY DEF Left
  <2> QED BY <2>1, <2>2 DEF GapTimed
<1>4. Stamped'
  <2>1. \A s \in ToSet(todo') : s \in ToSet(todo)
    BY DEF ToSet
  <2> QED BY <1>2, <2>1 DEF Bounds, Stamped
<1>5. Within'
  <2>1. settings \in Settings
    BY Typed DEF FlowConstants
  <2>2. ASSUME pc' # "capacity" PROVE ~CapacityExceeded(pending')
    <3>1. ~CapacityExceeded(pending)
      BY <2>2 DEF Bounds, Within
    <3> DEFINE T == pending'
    <3>2. T \in SUBSET pending
      BY <1>2
    <3> HIDE DEF T
    <3>3. ~CapacityExceeded(T)
      BY <1>1, <2>1, <3>1, <3>2, CapacityShrinks
    <3> QED BY <3>3 DEF T
  <2>3. ~CapacityExceeded(unanchored')
    BY DEF Bounds, Within
  <2> QED BY <2>2, <2>3, OverNext DEF Within
<1> QED BY <1>3, <1>4, <1>5 DEF Bounds

(* A commit starts within bounds.                                           *)
LEMMA StartBounded ==
  ASSUME FlowConstants, IInv, Bounds, next = None, NEW S, NEW ref, Starting(S, ref),
         \A s \in S : s.ts <= clock, clock' = clock, UNCHANGED finAt
  PROVE  Bounds'
<1>1. /\ pending' = {} /\ gap' = None /\ unanchored' = {} /\ pc' = "commit"
      /\ todo' = Ordered(S, ref) /\ UNCHANGED <<settings, fin>>
      /\ S # {} /\ Kept(S)
  BY DEF Starting, StartCommit, IInv, Fresh
<1>2. \A s \in ToSet(todo') : s.ts <= clock
  <2>1. PICK r \in 0..StreamLen : ref = Wire(r)
    BY DEF Starting
  <2>2. PICK off \in {ISN, ISN - M} : Lined(Ordered(S, ref), S, off)
    BY <1>1, <2>1, OrderedLines
  <2> DEFINE q == Ordered(S, ref)
  <2>3. Lined(q, S, off) /\ todo' = q
    BY <1>1, <2>2
  <2> HIDE DEF q
  <2>4. \A i \in DOMAIN q : \E s \in S : q[i].ts = s.ts
    BY <2>3 DEF Lined
  <2> QED BY <2>3, <2>4 DEF ToSet
<1>3. GapTimed'
  BY <1>1 DEF GapTimed
<1>4. Stamped'
  BY <1>1, <1>2 DEF Bounds, Stamped
<1>5. Within'
  <2>1. settings \in Settings
    BY Typed DEF FlowConstants
  <2>2. ~CapacityExceeded({})
    BY <2>1, EmptyWithin
  <2> QED BY <1>1, <2>2, OverNext DEF Within
<1> QED BY <1>3, <1>4, <1>5 DEF Bounds

(* A segment that is put into the buffer is no older than what it replaces. *)
LEMMA AddBounded ==
  ASSUME FlowConstants, IInv, Bounds, next # None, pc # "capacity",
         NEW s, Seg(s), AddedTo(s), s.ts <= clock,
         \A q \in pending : q.pos = s.pos => q.ts <= s.ts,
         UNCHANGED <<settings, unanchored, fin, finAt, clock>>,
         \A i \in DOMAIN todo' : \E j \in DOMAIN todo : todo'[i] = todo[j]
  PROVE  Bounds'
<1>1. /\ \A q \in pending \cup unanchored \cup ToSet(todo) : q.ts \in Nat /\ q.len \in Nat
      /\ s.ts \in Nat /\ gap \in MaybeNat
  BY StampsAre, Typed, SegIs
<1>2. \A q \in ToSet(todo') : q \in ToSet(todo)
  BY DEF ToSet
<1>3. CASE UNCHANGED <<pending, gap>> /\ pc' = "commit"
  <2>1. GapTimed'
    BY <1>3 DEF Bounds, GapTimed
  <2>2. Stamped'
    BY <1>2, <1>3 DEF Bounds, Stamped
  <2>3. Within'
    BY <1>3, OverNext DEF Bounds, Within
  <2> QED BY <2>1, <2>2, <2>3 DEF Bounds
<1>4. CASE Left /\ pc' = "commit"
  BY <1>4, LeftBounded
<1>5. ASSUME NEW rest, Seg(rest), Lies(rest), rest.pos = s.pos, rest.ts = s.ts,
             pending' = Put(pending, rest), gap' = IF gap = None THEN s.ts ELSE gap,
             pc' # "capacity" => ~CapacityExceeded(pending')
      PROVE  Bounds'
  <2>1. \A q \in pending : Seg(q) /\ Lies(q) /\ q.seq \in Int /\ q.pos \in Nat
    BY SegIs DEF IInv, Ahead
  <2>2. rest.seq \in Int /\ rest.pos \in Nat /\ rest \in Segment
    BY <1>5, SegIs
  <2>3. \A q \in pending : q.seq = rest.seq => q.pos = rest.pos
    BY <1>5, <2>1, <2>2 DEF Lies
  <2>4. pending \cup {rest} \subseteq Segment
    BY <2>1, <2>2 DEF Seg
  <2> DEFINE P == Put(pending, rest)
  <2>5. /\ P \subseteq pending \cup {rest} /\ P # {}
        /\ \A p \in pending : p \in P \/ (rest \in P /\ p.seq = rest.seq)
    BY <2>3, <2>4, PutKeeps
  <2>6. pending' = P
    BY <1>5
  <2> HIDE DEF P
  <2>7. \A q \in pending' : q.ts <= clock
    BY <1>5, <2>5, <2>6 DEF Bounds, Stamped
  <2>8. gap' # None /\ (gap = None => gap' = s.ts) /\ (gap # None => gap' = gap)
    <3>1. s.ts # None
      BY <1>1 DEF FlowConstants
    <3> QED BY <1>5, <3>1
  <2>9. \/ \E q \in pending' : gap' <= q.ts
        \/ fin # None /\ gap' <= finAt
    <3>1. CASE pending = {}
      <4>1. CASE gap = None
        <5>1. rest \in pending'
          BY <2>5, <2>6, <3>1
        <5>2. gap' <= rest.ts
          BY <1>1, <1>5, <2>8, <4>1
        <5> QED BY <5>1, <5>2
      <4>2. CASE gap # None
        BY <2>8, <3>1, <4>2 DEF Bounds, GapTimed
      <4> QED BY <4>1, <4>2
    <3>2. CASE pending # {}
      <4>1. gap # None /\ gap \in Nat
        BY <1>1, <3>2 DEF Bounds, GapTimed, MaybeNat
      <4>2. CASE fin # None /\ gap <= finAt
        BY <2>8, <4>1, <4>2
      <4>3. ASSUME NEW p \in pending, gap <= p.ts PROVE \E q \in pending' : gap' <= q.ts
        <5>1. CASE p \in P
          BY <2>6, <2>8, <4>1, <4>3, <5>1
        <5>2. CASE rest \in P /\ p.seq = rest.seq
          <6>1. p.ts <= rest.ts
            BY <1>5, <2>3, <5>2
          <6>2. p.ts \in Nat /\ rest.ts \in Nat
            BY <1>1, <1>5
          <6>3. gap <= rest.ts
            BY <4>1, <4>3, <6>1, <6>2
          <6> QED BY <2>6, <2>8, <4>1, <5>2, <6>3
        <5> QED BY <2>5, <5>1, <5>2
      <4> QED BY <3>2, <4>2, <4>3 DEF Bounds, GapTimed
    <3> QED BY <3>1, <3>2
  <2>10. GapTimed'
    <3>1. pending' # {}
      BY <2>5, <2>6
    <3> QED BY <2>8, <2>9, <3>1 DEF GapTimed
  <2>11. Stamped'
    BY <1>2, <2>7 DEF Bounds, Stamped
  <2>12. Within'
    BY <1>5, OverNext DEF Bounds, Within
  <2> QED BY <2>10, <2>11, <2>12 DEF Bounds
<1> QED BY <1>3, <1>4, <1>5 DEF AddedTo

-----------------------------------------------------------------------------
(* A packet leaves the flow within bounds.                                  *)
LEMMA SegmentBounded ==
  ASSUME FlowConstants, IInv, Bounds, NEW pos \in 0..StreamLen-1, NEW len \in 1..MaxSegment,
         AddSegment(pos, len)
  PROVE  Bounds'
<1> DEFINE s == [seq |-> Wire(pos), len |-> len, pos |-> pos, ts |-> clock]
<1>1. /\ pc = "idle" /\ pos + len <= StreamLen
      /\ received' = received \cup Bytes(s) /\ packets' = packets + 1
      /\ call' = "segment" /\ now' = clock
      /\ UNCHANGED <<settings, fin, finAt, clock, skipped>>
      /\ \/ next = None /\ AddUnanchored(s) /\ UNCHANGED rescanned
         \/ /\ next # None /\ AddAnchored(s, TRUE)
            /\ UNCHANGED <<unanchored, reference, unanchoredAt, todo>>
  BY DEF AddSegment, CanReceive, Ready
<1>2. /\ s \in Segment /\ s.pos = pos /\ s.len = len /\ s.seq = Wire(pos) /\ s.ts = clock
      /\ pos \in 0..StreamLen /\ s.pos + s.len <= StreamLen
  <2>1. /\ pos \in 0..StreamLen /\ len \in 1..StreamLen /\ clock \in Nat
    BY Typed DEF FlowConstants
  <2>2. Wire(pos) \in Int
    BY <2>1, WireIs DEF FlowConstants
  <2> QED BY <1>1, <2>1, <2>2 DEF Segment
<1> HIDE DEF s
<1>3. now' \in Nat /\ packets' \in Nat /\ clock' \in Nat /\ clock \in Nat
  BY <1>1, Typed
<1>4. CASE next = None /\ AddUnanchored(s) /\ UNCHANGED rescanned
  <2> DEFINE P == Put(unanchored, s)
             ref == KeptWith(s)
  <2>1. /\ P # {} /\ Kept(P)
        /\ BytesOf(P) \subseteq received \cup Bytes(s)
        /\ received \cup Bytes(s) \subseteq BytesOf(P)
        /\ \E r \in 0..StreamLen : ref = Wire(r)
        /\ Bytes(s) \subseteq 0..StreamLen-1
    BY <1>2, <1>4, KeepMore
  <2>2. \A q \in P : q.ts <= clock
    <3>1. \A q \in P : q \in unanchored \/ q = s
      BY DEF Put
    <3> HIDE DEF P
    <3>2. \A q \in unanchored : q.ts <= clock
      BY DEF Bounds, Stamped
    <3> QED BY <1>2, <1>3, <3>1, <3>2
  <2>3. \/ StartCommit(P, ref) /\ UNCHANGED <<pending, gap, fed>>
        \/ /\ ~CapacityExceeded(P) /\ unanchored' = P /\ pc' = "commit"
           /\ UNCHANGED <<next, pending, gap, todo>>
    BY <1>4 DEF AddUnanchored, KeptWith
  <2> HIDE DEF P, ref
  <2>4. CASE StartCommit(P, ref) /\ UNCHANGED <<pending, gap, fed>>
    <3>1. received' \subseteq 0..StreamLen-1
      BY <1>1, <2>1, Typed
    <3>2. Starting(P, ref)
      BY <1>1, <1>3, <1>4, <2>1, <2>4, <3>1 DEF Starting
    <3> QED BY <1>1, <1>4, <2>2, <3>2, StartBounded
  <2>5. CASE /\ ~CapacityExceeded(P) /\ unanchored' = P /\ pc' = "commit"
             /\ UNCHANGED <<next, pending, gap, todo>>
    <3>1. GapTimed'
      BY <1>1, <2>5 DEF Bounds, GapTimed
    <3>2. Stamped'
      BY <1>1, <2>2, <2>5 DEF Bounds, Stamped
    <3>3. Within'
      BY <1>1, <2>5, OverNext DEF Bounds, Within
    <3> QED BY <3>1, <3>2, <3>3 DEF Bounds
  <2> QED BY <2>3, <2>4, <2>5
<1>5. CASE /\ next # None /\ AddAnchored(s, TRUE)
           /\ UNCHANGED <<unanchored, reference, unanchoredAt, todo>>
  <2>1. Seg(s) /\ Adding(s, TRUE)
    BY <1>1, <1>2, <1>5, SegmentAdds
  <2>2. AddedTo(s)
    BY <1>5, <2>1, AddMoves
  <2>3. \A q \in pending : q.ts <= s.ts
    BY <1>2 DEF Bounds, Stamped
  <2>4. s.ts <= clock
    BY <1>2, <1>3
  <2>5. \A i \in DOMAIN todo' : \E j \in DOMAIN todo : todo'[i] = todo[j]
    BY <1>5
  <2> QED BY <1>1, <1>5, <2>1, <2>2, <2>3, <2>4, <2>5, AddBounded
<1> QED BY <1>1, <1>4, <1>5

(* So does a commit.                                                        *)
LEMMA CommitBounded ==
  ASSUME FlowConstants, IInv, Bounds, CommitNext
  PROVE  Bounds'
<1> DEFINE s == Head(todo)
<1>1. /\ pc = "commit" /\ todo # <<>>
      /\ UNCHANGED <<unanchored, fin, finAt, settings, clock>>
  BY DEF CommitNext, loopUnchanged, env
<1>2. next # None
  BY <1>1 DEF IInv, Fresh
<1>3. Adding(s, FALSE)
  BY CommitAdds
<1>4. Seg(s) /\ s.pos + (next - nextPos) = s.seq /\ \A q \in pending : q.seq < s.seq
  <2>1. todo \in Seq(Segment)
    BY Typed
  <2>2. 1 \in DOMAIN todo /\ s = todo[1]
    BY <1>1, <2>1, TailIs
  <2>3. Seg(s) /\ Lies(s) /\ s.seq >= 0 /\ \A q \in pending : q.seq < s.seq
    BY <2>2 DEF IInv, ToAdd
  <2> HIDE DEF s
  <2>4. s.pos + (next - nextPos) = s.seq
    BY <1>2, <2>3, LineUnwrap
  <2> QED BY <2>3, <2>4
<1>5. s.ts <= clock
  <2>1. \A i \in DOMAIN todo : todo[i].ts <= clock
    BY DEF Bounds, Stamped, ToSet
  <2>2. todo \in Seq(Segment)
    BY Typed
  <2>3. 1 \in DOMAIN todo /\ s = todo[1]
    BY <1>1, <2>2, TailIs
  <2> QED BY <2>1, <2>3
<1> HIDE DEF s
<1>6. AddedTo(s)
  BY <1>2, <1>3, AddMoves
<1>7. \A q \in pending : q.pos # s.pos
  <2> TAKE q \in pending
  <2>1. Seg(q) /\ q.seq - q.pos = next - nextPos /\ q.seq < s.seq
    BY <1>4 DEF IInv, Ahead, Lies
  <2>2. q.seq \in Int /\ q.pos \in Int /\ s.seq \in Int /\ s.pos \in Int
    BY <1>4, <2>1, SegIs
  <2>3. next \in Int /\ nextPos \in Int
    BY <1>2, LineFacts
  <2> QED BY <1>4, <2>1, <2>2, <2>3
<1>8. \A i \in DOMAIN todo' : \E j \in DOMAIN todo : todo'[i] = todo[j]
  BY <1>3 DEF Adding
<1> QED BY <1>1, <1>2, <1>4, <1>5, <1>6, <1>7, <1>8, AddBounded

(* A restart behind a gap leaves the timer of the oldest segment held.      *)
LEMMA ResumeBounded ==
  ASSUME FlowConstants, IInv, Bounds, pending # {}, ResumeAfterGap,
         UNCHANGED <<loopUnchanged, pc, call, todo, now, rescanned>>
  PROVE  Bounds'
<1>1. PICK a : Feeds(pending, a)
  BY ResumeMoves
<1>2. Left
  BY <1>1 DEF Feeds, Left
<1> QED BY <1>2, LeftBounded DEF loopUnchanged, env

(* The end of service_gaps starts or leaves the timer of a FIN.             *)
LEMMA FinGapBounded ==
  ASSUME FlowConstants, IInv, Bounds, ExpireFinGap
  PROVE  Bounds'
<1>1. /\ pc = "timeout" /\ pc' # "capacity"
      /\ UNCHANGED <<unanchored, fin, finAt, settings, clock, pending, todo>>
  BY DEF ExpireFinGap, loopUnchanged, env
<1>2. CASE FinGapDue(now) /\ next < FinAbsolute /\ ResumeAfterFinGap
  <2>1. pending = {} /\ gap' = None
    BY <1>2 DEF FinGapDue, ResumeAfterFinGap
  <2>2. Left
    BY <1>1, <2>1 DEF Left
  <2> QED BY <1>1, <2>2, LeftBounded
<1>3. CASE gap' = FinTimer(fin, finAt, gap)
  <2>1. GapTimed'
    <3>1. CASE gap' = gap
      BY <1>1, <3>1 DEF Bounds, GapTimed
    <3>2. CASE gap' = finAt /\ fin # None /\ pending = {}
      BY <1>1, <3>2 DEF Bounds, Stamped, GapTimed
    <3> QED BY <1>3, <3>1, <3>2 DEF FinTimer
  <2>2. Stamped'
    BY <1>1 DEF Bounds, Stamped
  <2>3. Within'
    BY <1>1, OverNext DEF Bounds, Within
  <2> QED BY <2>1, <2>2, <2>3 DEF Bounds
<1> QED BY <1>2, <1>3 DEF ExpireFinGap

(* A FIN starts the timer, or is later than it.                             *)
LEMMA MarkBounded ==
  ASSUME FlowConstants, IInv, Bounds, MarkFin
  PROVE  Bounds'
<1>1. /\ fin' = Wire(StreamLen) /\ finAt' = clock /\ gap' = FinTimer(fin', clock, gap)
      /\ UNCHANGED <<pending, unanchored, pc, todo, settings, clock>>
  BY DEF MarkFin, control
<1>2. fin' # None
  <2>1. StreamLen \in 0..StreamLen
    BY DEF FlowConstants
  <2>2. Wire(StreamLen) \in 0..M-1 /\ M \in Nat /\ None \notin Int
    BY <2>1, WireIs DEF FlowConstants
  <2> QED BY <1>1, <2>2
<1>3. clock \in Nat /\ gap \in MaybeNat
  BY Typed
<1>4. gap = None \/ gap \in Nat
  BY <1>3 DEF MaybeNat
<1>5. GapTimed'
  <2>1. CASE gap' = clock /\ pending = {}
    BY <1>1, <1>2, <1>3, <2>1 DEF GapTimed
  <2>2. CASE gap' = gap
    <3>1. ASSUME fin # None, gap <= finAt, gap # None PROVE gap <= finAt'
      <4>1. finAt \in Nat /\ finAt <= clock
        BY <3>1 DEF Bounds, Stamped
      <4> QED BY <1>1, <1>3, <1>4, <3>1, <4>1
    <3> QED BY <1>1, <1>2, <2>2, <3>1 DEF Bounds, GapTimed
  <2> QED BY <1>1, <2>1, <2>2 DEF FinTimer
<1>6. Stamped'
  BY <1>1, <1>3 DEF Bounds, Stamped
<1>7. Within'
  BY <1>1, OverNext DEF Bounds, Within
<1> QED BY <1>5, <1>6, <1>7 DEF Bounds

-----------------------------------------------------------------------------
(* The owner's calls commit what was kept, or leave the buffers alone.      *)
LEMMA CallBounded ==
  ASSUME FlowConstants, IInv, Bounds, ServiceGaps \/ Finish
  PROVE  Bounds'
<1>1. /\ pc = "idle" /\ call' \in {"service", "finish"} /\ (call' = "service" => settings.defer)
      /\ UNCHANGED <<pending, gap, fin, finAt, settings, clock, packets, received, fed,
                     rescanned, skipped>>
      /\ now' = clock \/ now' = now
  BY DEF ServiceGaps, Finish, Ready, env
<1>2. now' \in Nat /\ clock' \in Nat /\ packets' \in Nat /\ clock <= clock'
  BY <1>1, Typed
<1>3. CASE unanchored # {} /\ StartCommit(unanchored, reference)
  <2>1. next = None
    BY <1>3 DEF IInv, Anchored
  <2>2. Kept(unanchored) /\ \E r \in 0..StreamLen : reference = Wire(r)
    BY <1>3 DEF IInv, Keeping
  <2>3. received \subseteq BytesOf(unanchored) /\ BytesOf(unanchored) \subseteq received
    BY <2>1, FreshHolds
  <2> DEFINE S == unanchored  ref == reference
  <2>4. Starting(S, ref)
    BY <1>1, <1>2, <1>3, <2>2, <2>3, Typed DEF Starting
  <2>5. \A s \in S : s.ts <= clock
    BY DEF Bounds, Stamped
  <2> HIDE DEF S, ref
  <2> QED BY <1>1, <2>1, <2>4, <2>5, StartBounded
<1>4. CASE pc' # "capacity" /\ UNCHANGED <<unanchored, todo>>
  <2>1. ~CapacityExceeded(pending)
    BY <1>1 DEF Bounds, Within
  <2> QED BY <1>1, <1>2, <1>4, <2>1, StillBounded
<1> QED BY <1>3, <1>4 DEF ServiceGaps, Finish, GraceOver

(* The steps that leave the buffers alone.                                  *)
LEMMA OtherBounded ==
  ASSUME FlowConstants, IInv, Bounds,
         AnchorSequence \/ CommitReturn \/ Tick \/ Closed \/ UNCHANGED vars
  PROVE  Bounds'
<1>1. /\ UNCHANGED <<settings, pending, gap, unanchored, todo, fin, finAt>>
      /\ clock' = clock \/ clock' = clock + 1
      /\ pc' = pc \/ pc = "commit"
  BY DEF AnchorSequence, CommitReturn, Tick, Closed, vars, code, control, env
<1>2. clock' \in Nat /\ clock <= clock'
  BY <1>1, Typed
<1>3. pc' # "capacity" => ~CapacityExceeded(pending)
  BY <1>1 DEF Bounds, Within
<1> QED BY <1>1, <1>2, <1>3, StillBounded

(* The capacity loop ends when the buffer is within its limits.             *)
LEMMA ShedBounded ==
  ASSUME FlowConstants, IInv, Bounds, ShedPending
  PROVE  Bounds'
<1>1. pc = "capacity" /\ UNCHANGED <<loopUnchanged, call, todo, now, rescanned>>
  BY DEF ShedPending
<1>2. CASE CapacityExceeded(pending) /\ ResumeAfterGap /\ UNCHANGED pc
  BY <1>1, <1>2, OverHolds, ResumeBounded
<1>3. CASE ~CapacityExceeded(pending) /\ UNCHANGED <<next, pending, gap, nextPos, fed, skipped>>
  <2>1. UNCHANGED <<settings, pending, gap, unanchored, todo, fin, finAt, clock>>
    BY <1>1, <1>3 DEF loopUnchanged, env
  <2>2. clock' \in Nat /\ clock <= clock'
    BY <2>1, Typed
  <2> QED BY <1>3, <2>1, <2>2, StillBounded
<1> QED BY <1>2, <1>3 DEF ShedPending

(* A flow that is done holds nothing, and has no timer for it.              *)
LEMMA DrainBounded ==
  ASSUME FlowConstants, IInv, Bounds, DrainFinGap
  PROVE  Bounds'
<1>1. /\ pc = "drain" /\ pending = {} /\ pc' = "closed" /\ ResumeAfterFinGap
      /\ UNCHANGED <<unanchored, fin, finAt, settings, clock, pending, todo>>
  BY DEF DrainFinGap, loopUnchanged, env
<1>2. gap' = None \/ gap' = gap
  BY <1>1 DEF ResumeAfterFinGap
<1>3. CASE gap' = None
  <2>1. Left
    BY <1>1, <1>3 DEF Left
  <2> QED BY <1>1, <2>1, LeftBounded
<1>4. CASE gap' = gap
  <2>1. clock' \in Nat /\ clock <= clock'
    BY <1>1, Typed
  <2>2. ~CapacityExceeded(pending)
    BY <1>1 DEF Bounds, Within
  <2> QED BY <1>1, <1>4, <2>1, <2>2, StillBounded
<1> QED BY <1>2, <1>3, <1>4

(* Every step keeps the flow within bounds.                                 *)
LEMMA StepBounded ==
  ASSUME FlowConstants, IInv, Bounds, [Next]_vars
  PROVE  Bounds'
<1>1. ASSUME NEW pos \in 0..StreamLen-1, NEW len \in 1..MaxSegment, AddSegment(pos, len)
      PROVE  Bounds'
  BY <1>1, SegmentBounded
<1>2. CASE MarkFin
  BY <1>2, MarkBounded
<1>3. CASE ServiceGaps \/ Finish
  BY <1>3, CallBounded
<1>4. CASE CommitNext
  BY <1>4, CommitBounded
<1>5. CASE ShedPending
  BY <1>5, ShedBounded
<1>6. CASE ExpireGap \/ DrainPending
  BY <1>6, ResumeBounded DEF ExpireGap, DrainPending
<1>7. CASE ExpireFinGap
  BY <1>7, FinGapBounded
<1>8. CASE DrainFinGap
  BY <1>8, DrainBounded
<1>9. CASE AnchorSequence \/ CommitReturn \/ Tick \/ Closed \/ UNCHANGED vars
  BY <1>9, OtherBounded
<1> QED BY <1>1, <1>2, <1>3, <1>4, <1>5, <1>6, <1>7, <1>8, <1>9 DEF Next, Loop

(* A flow begins within bounds.                                             *)
LEMMA InitBounded ==
  ASSUME FlowConstants, Init
  PROVE  Bounds
<1>1. /\ settings \in Flows /\ pending = {} /\ unanchored = {} /\ todo = <<>>
      /\ gap = None /\ fin = None
  BY DEF Init
<1>2. settings \in Settings
  BY <1>1 DEF FlowConstants
<1>3. ~CapacityExceeded({})
  BY <1>2, EmptyWithin
<1>4. ToSet(todo) = {}
  BY <1>1 DEF ToSet
<1> QED BY <1>1, <1>3, <1>4 DEF Bounds, GapTimed, Stamped, Within

(* Between operations, what a flow holds waits behind a hole, under a timer *)
(* that is no younger than all of it or than the FIN, and its buffers keep  *)
(* both of their limits (gap_started_at, _flush_pending,                    *)
(* _pending_capacity_exceeded).                                             *)
THEOREM HolesStayBounded == Spec => []GapsBounded
<1>1. FlowConstants
  BY TcpFlowAssumption
<1>2. Init => Bounds
  BY <1>1, InitBounded
<1>3. IInv /\ Bounds /\ [Next]_vars => Bounds'
  BY <1>1, StepBounded
<1>4. IInv /\ Bounds => GapsBounded
  BY DEF IInv, Ahead, Bounds, GapTimed, Within, GapsBounded, HoleIsTimed, WithinLimits
<1> QED BY <1>2, <1>3, <1>4, Invariant, PTL DEF Spec
=============================================================================
