---------------------------- MODULE AutoIDProofs ----------------------------
(* The allocators of AutoID hand no ID out twice, for every number of servers, *)
(* every size of the integers, and whatever is allocated, rebased and lost.    *)
EXTENDS AutoID, TLAPS

USE ZenonT(3), SMTT(30)    \* the provers of a step that names none

-----------------------------------------------------------------------------
(* Arithmetic of int64 and uint64. *)

\* Division and multiplication bracket a number within one increment.
LEMMA DivBounds ==
  ASSUME NEW x \in Nat, NEW y \in Nat \ {0}
  PROVE  /\ (x \div y) * y \in Nat
         /\ (x \div y) * y <= x
         /\ x < (x \div y) * y + y
  OBVIOUS

\* The modulus does nothing to a number in its range, and moves one outside of it into it.
LEMMA ModCases ==
  ASSUME NEW m \in Nat \ {0}, NEW x \in Int
  PROVE  /\ x \in 0..(m - 1) => x % m = x
         /\ x \in m..(2 * m - 1) => x % m = x - m
         /\ x \in (-m)..(-1) => x % m = x + m
  OBVIOUS

Modulus == IF unsigned THEN Max + 1 ELSE 2 * (Max + 1)
Least == IF unsigned THEN 0 ELSE -(Max + 1)

\* Int64 is the identity on its range, and wraps around once beyond it.
LEMMA Wrapping ==
  ASSUME unsigned \in BOOLEAN, NEW x \in Int
  PROVE  /\ x \in Least..Max => Int64(x) = x
         /\ x - Modulus \in Least..Max => Int64(x) = x - Modulus
         /\ x + Modulus \in Least..Max => Int64(x) = x + Modulus
<1>. Max \in Nat \ {0}
  BY AutoIDAssumption
<1>1. CASE unsigned
  <2>1. Int64(x) = x % (Max + 1) /\ Modulus = Max + 1 /\ Least = 0
    BY <1>1 DEF Int64, UInt64, Modulus, Least
  <2>. DEFINE m == Max + 1
  <2>2. /\ x \in 0..(m - 1) => x % m = x
        /\ x \in m..(2 * m - 1) => x % m = x - m
        /\ x \in (-m)..(-1) => x % m = x + m
    <3>1. m \in Nat \ {0}
      OBVIOUS
    <3>. HIDE DEF m
    <3>. QED  BY <3>1, ModCases
  <2>. QED  BY <2>1, <2>2
<1>2. CASE ~unsigned
  <2>. DEFINE y == x + Max + 1
              m == 2 * (Max + 1)
  <2>1. Int64(x) = (y % m) - (Max + 1) /\ Modulus = m /\ Least = -(Max + 1)
    BY <1>2 DEF Int64, UInt64, Modulus, Least
  <2>2. m \in Nat \ {0} /\ y \in Int
    OBVIOUS
  <2>3. /\ y \in 0..(m - 1) => y % m = y
        /\ y \in m..(2 * m - 1) => y % m = y - m
        /\ y \in (-m)..(-1) => y % m = y + m
    <3>. HIDE DEF y, m
    <3>. QED  BY <2>2, ModCases
  <2>. QED  BY <2>1, <2>3
<1>. QED  BY <1>1, <1>2

\* The conversion to uint64 does nothing to what an ID can be.
LEMMA UnsignedID ==
  ASSUME unsigned \in BOOLEAN, NEW x \in 0..Max
  PROVE  UInt64(x) = x
<1>. DEFINE m == IF unsigned THEN Max + 1 ELSE 2 * (Max + 1)
<1>1. m \in Nat \ {0} /\ x \in 0..(m - 1)
  BY AutoIDAssumption
<1>2. UInt64(x) = x % m
  BY DEF UInt64
<1>. HIDE DEF m
<1>. QED  BY <1>1, <1>2, ModCases

\* A multiple of the increment grows with its factor.
LEMMA Multiples ==
  ASSUME NEW n \in Nat \ {0}, NEW inc \in Nat \ {0}, NEW k \in 0..(n - 1)
  PROVE  k * inc \in 0..((n - 1) * inc)
  OBVIOUS

\* A chain of three additions that wraps around at most once on the way and returns to
\* the range has the value it would have without wrapping.
LEMMA Chain ==
  ASSUME unsigned \in BOOLEAN,
         NEW b \in 0..Max, NEW t \in Nat, NEW d \in Nat,
         t + d - b \in 1..Max, t > b
  PROVE  Int64(Int64(Int64(t) + d) - b) = t + d - b
<1>. Max \in Nat \ {0}
  BY AutoIDAssumption
<1>. DEFINE t1 == Int64(t)
            t2 == Int64(t1 + d)
<1>1. t1 = IF t <= Max THEN t ELSE t - Modulus
  BY Wrapping DEF Modulus, Least
<1>2. t1 \in Int /\ t2 = IF t + d <= Max THEN t + d ELSE t + d - Modulus
  <2>1. t1 + d \in Int /\ (t1 + d = t + d \/ t1 + d = t + d - Modulus)
    BY <1>1 DEF Modulus
  <2>. HIDE DEF t1
  <2>. QED  BY <1>1, <2>1, Wrapping DEF Modulus, Least
<1>3. t2 - b \in Int /\ Int64(t2 - b) = t + d - b
  <2>. HIDE DEF t2, t1
  <2>. QED  BY <1>2, Wrapping DEF Modulus, Least
<1>. QED  BY <1>3

\* SeekToFirstAutoID finds, modulo the size of the integers, a number within two
\* increments above its base, and the caller's own seek finds the same if it is an ID.
LEMMA Seek ==
  ASSUME unsigned \in BOOLEAN,
         NEW b \in 0..Max, NEW inc \in 1..Max, NEW off \in 1..Max,
         off - 1 <= b, 2 * inc <= Max
  PROVE  \E t \in Nat :
            /\ SeekToFirstAutoID(b, inc, off) = Int64(t)
            /\ b < t /\ t < b + 2 * inc
            /\ t <= Max => SeekToFirstAutoIDUnSigned(b, inc, off) = t
<1>. Max \in Nat \ {0}
  BY AutoIDAssumption
<1>. DEFINE x == b + inc - off
<1>0. x \in Nat /\ x < 2 * Max + 1 /\ x >= inc - 1
  OBVIOUS
<1>1. CASE x <= Max
  <2>. DEFINE p == (x \div inc) * inc
  <2>1. p \in Nat /\ p <= x /\ x < p + inc
    BY <1>0, DivBounds
  <2>2. Int64(x) = x /\ UInt64(x) = x /\ Quotient(x, inc) = x \div inc
    BY <1>0, <1>1, Wrapping, UnsignedID DEF Least, Quotient
  <2>3. Int64(p) = p /\ UInt64(p) = p
    <3>. HIDE DEF p
    <3>. QED  BY <1>0, <1>1, <2>1, Wrapping, UnsignedID DEF Least
  <2>4. SeekToFirstAutoID(b, inc, off) = Int64(p + off)
    BY <2>2, <2>3 DEF SeekToFirstAutoID
  <2>5. SeekToFirstAutoIDUnSigned(b, inc, off) = UInt64(p + off)
    BY <2>2, <2>3 DEF SeekToFirstAutoIDUnSigned
  <2>6. p + off \in Nat /\ b < p + off /\ p + off < b + 2 * inc
    <3>. HIDE DEF p
    <3>. QED  BY <2>1
  <2>7. p + off <= Max => UInt64(p + off) = p + off
    <3>. HIDE DEF p
    <3>. QED  BY <2>6, UnsignedID
  <2>. HIDE DEF p
  <2>. QED  BY <2>4, <2>5, <2>6, <2>7
<1>2. CASE x > Max /\ unsigned
  <2>. DEFINE y == x - (Max + 1)
              p == (y \div inc) * inc
  <2>1. y \in 0..Max /\ Int64(x) = y
    BY <1>0, <1>2, Wrapping DEF Modulus, Least
  <2>2. p \in Nat /\ p <= y /\ Quotient(y, inc) = y \div inc
    <3>. HIDE DEF y
    <3>. QED  BY <2>1, DivBounds DEF Quotient
  <2>3. Int64(p) = p
    <3>. HIDE DEF p, y
    <3>. QED  BY <2>1, <2>2, <1>2, Wrapping DEF Least
  <2>4. SeekToFirstAutoID(b, inc, off) = Int64(p + off)
    BY <2>1, <2>2, <2>3 DEF SeekToFirstAutoID
  <2>5. p + off \in 0..Max
    <3>. HIDE DEF p
    <3>. QED  BY <2>1, <2>2
  <2>6. Int64(p + off) = p + off /\ Int64(p + off + (Max + 1)) = p + off
    <3>. HIDE DEF p
    <3>. QED  BY <1>2, <2>5, Wrapping DEF Modulus, Least
  <2>7. /\ p + off + (Max + 1) \in Nat /\ b < p + off + (Max + 1)
        /\ p + off + (Max + 1) < b + 2 * inc /\ ~(p + off + (Max + 1) <= Max)
    <3>. HIDE DEF p
    <3>. QED  BY <2>1, <2>2, <2>5
  <2>. HIDE DEF p
  <2>. QED  BY <2>4, <2>6, <2>7
<1>3. CASE x > Max /\ ~unsigned
  <2>. DEFINE m == 2 * (Max + 1)
              z == m - x
              r == (z \div inc) * inc
  <2>1. z \in 1..(Max + 1) /\ Int64(x) = -z
    BY <1>0, <1>3, Wrapping DEF Modulus, Least
  <2>2. r \in Nat /\ r <= z /\ z < r + inc
    <3>. HIDE DEF z
    <3>. QED  BY <2>1, DivBounds
  <2>3. Quotient(-z, inc) * inc = -r
    <3>. HIDE DEF z
    <3>1. Quotient(-z, inc) = -(z \div inc)
      BY <2>1 DEF Quotient
    <3>2. z \div inc \in Int
      BY <2>1
    <3>. QED  BY <3>1, <3>2
  <2>4. Int64(-r) = -r
    <3>. HIDE DEF r, z
    <3>. QED  BY <1>3, <2>1, <2>2, Wrapping DEF Least
  <2>5. SeekToFirstAutoID(b, inc, off) = Int64(off - r)
    <3>1. SeekToFirstAutoID(b, inc, off) = Int64(-r + off)
      <4>. HIDE DEF r
      <4>. QED  BY <2>1, <2>3, <2>4 DEF SeekToFirstAutoID
    <3>2. -r + off = off - r
      <4>. HIDE DEF r
      <4>. QED  BY <2>2
    <3>. QED  BY <3>1, <3>2
  <2>6. Int64(off - r) = off - r /\ Int64(off - r + m) = off - r
    <3>. HIDE DEF r, z
    <3>. QED  BY <1>3, <2>1, <2>2, Wrapping DEF Modulus, Least
  <2>7. /\ off - r + m \in Nat /\ b < off - r + m
        /\ off - r + m < b + 2 * inc /\ ~(off - r + m <= Max)
    <3>. HIDE DEF r
    <3>. QED  BY <1>0, <1>3, <2>1, <2>2
  <2>. HIDE DEF r, m
  <2>. QED  BY <2>5, <2>6, <2>7
<1>. QED  BY <1>0, <1>1, <1>2, <1>3

\* What Alloc needs is positive, and if it fits below Max, what the caller derives lies
\* in the part of the range that Alloc takes, up to its last ID.
LEMMA Answer ==
  ASSUME unsigned \in BOOLEAN, NEW b \in 0..Max, NEW c \in Call, c.off - 1 <= b
  PROVE  /\ Needed(b, c) \in 1..Max
         /\ Needed(b, c) <= Max - b =>
               /\ Derived(b, c) \subseteq (b + 1)..(b + Needed(b, c))
               /\ b + Needed(b, c) \in Derived(b, c)
<1>. Max \in Nat \ {0}
  BY AutoIDAssumption
<1>. DEFINE n == c.n
            inc == c.inc
            off == c.off
            d == (n - 1) * inc
<1>1. n \in 1..Max /\ inc \in 1..Max /\ off \in 1..Max /\ (n + 1) * inc <= Max
  BY AutoIDAssumption DEF Call
<1>2. d \in Nat /\ d + 2 * inc = (n + 1) * inc
  BY <1>1
<1>. HIDE DEF n, inc, off, d
<1>3. PICK t \in Nat :
         /\ SeekToFirstAutoID(b, inc, off) = Int64(t)
         /\ b < t /\ t < b + 2 * inc
         /\ t <= Max => SeekToFirstAutoIDUnSigned(b, inc, off) = t
  <2>1. off - 1 <= b /\ 2 * inc <= Max
    BY <1>1, <1>2 DEF off
  <2>. QED  BY <1>1, <2>1, Seek
<1>4. t + d - b \in 1..Max
  BY <1>1, <1>2, <1>3
<1>5. inc # 1 => Needed(b, c) = t + d - b
  <2>. SUFFICES ASSUME inc # 1
                PROVE  Needed(b, c) = t + d - b
    OBVIOUS
  <2>1. Needed(b, c) = Int64(Int64(Int64(t) + d) - b)
    BY <1>3 DEF Needed, CalcNeededBatchSize, n, inc, off, d
  <2>. QED  BY <1>2, <1>3, <1>4, <2>1, Chain
<1>6. inc = 1 => Needed(b, c) = n /\ d = n - 1
  BY <1>1 DEF Needed, CalcNeededBatchSize, n, inc, d
<1>7. Needed(b, c) \in 1..Max
  BY <1>1, <1>4, <1>5, <1>6
<1>8. ASSUME Needed(b, c) <= Max - b
      PROVE  /\ Derived(b, c) \subseteq (b + 1)..(b + Needed(b, c))
             /\ b + Needed(b, c) \in Derived(b, c)
  <2>. DEFINE u == SeekToFirstAutoIDUnSigned(b, inc, off)
  <2>1. u \in (b + 1)..Max /\ u + d = b + Needed(b, c)
    <3>1. CASE inc = 1
      <4>1. t = b + 1
        BY <1>3, <3>1
      <4>2. b + 1 <= Max
        BY <1>7, <1>8
      <4>. QED  BY <1>1, <1>3, <1>6, <3>1, <4>1, <4>2
    <3>2. CASE inc # 1
      <4>1. t + d = b + Needed(b, c) /\ t <= Max
        BY <1>2, <1>4, <1>5, <1>8, <3>2
      <4>. QED  BY <1>3, <4>1
    <3>. QED  BY <3>1, <3>2
  <2>. HIDE DEF u
  <2>2. \A k \in 0..(n - 1) : k * inc \in 0..d
    BY <1>1, Multiples DEF d
  <2>3. \A k \in 0..(n - 1) : UInt64(u + k * inc) = u + k * inc
    BY <1>2, <1>7, <1>8, <2>1, <2>2, UnsignedID
  <2>4. Derived(b, c) = {u + k * inc : k \in 0..(n - 1)}
    <3>1. Derived(b, c) = {UInt64(u + k * inc) : k \in 0..(n - 1)}
      BY DEF Derived, u, n, inc, off
    <3>. QED  BY <2>3, <3>1
  <2>5. Derived(b, c) \subseteq (b + 1)..(b + Needed(b, c))
    BY <1>2, <1>7, <2>1, <2>2, <2>4
  <2>6. b + Needed(b, c) \in Derived(b, c)
    <3>1. n - 1 \in 0..(n - 1) /\ u + (n - 1) * inc = b + Needed(b, c)
      BY <1>1, <2>1 DEF d
    <3>. QED  BY <2>4, <3>1
  <2>. QED  BY <2>5, <2>6
<1>. QED  BY <1>7, <1>8

-----------------------------------------------------------------------------
(* The inductive invariant. *)

InRange(s, i) == base[s] < i /\ i <= end[s]

\* Ranges are reserved in the counter, disjoint, not handed out yet, and above all that
\* their server handed out or was told of.
Reservation ==
    /\ \A s \in Server : base[s] <= end[s] /\ end[s] <= counter /\ floor[s] <= counter
    /\ \A s \in Server : base[s] < end[s] => floor[s] <= base[s]
    /\ \A s \in Server : call[s] # NoCall => call[s].off - 1 <= base[s]
    /\ \A i \in ID : times[i] \in {0, 1} /\ (counter < i => times[i] = 0)
    /\ \A s \in Server, i \in ID : InRange(s, i) => times[i] = 0
    /\ \A s, t \in Server, i \in ID : s # t /\ InRange(s, i) => ~InRange(t, i)

\* Servers that loaded the last ALTER TABLE only hold IDs from its base on.
Altered ==
    ~ddl.run =>
       /\ counter >= ddl.base - 1
       /\ \A s \in Server : s \notin ddl.pending /\ base[s] < end[s] => base[s] >= ddl.base - 1

IInv == TypeOK /\ Reservation /\ Altered

\* What a rebase leaves: the IDs it keeps were reserved before or are new in the counter.
LEMMA Rebased ==
  ASSUME IInv, NEW s \in Server, NEW v \in 0..Max, NEW step \in Steps
  PROVE  LET r == rebase(s, v, step, TRUE) IN
         /\ r.counter \in 0..Max /\ r.base \in 0..Max /\ r.end \in 0..Max
         /\ counter <= r.counter /\ r.base <= r.end /\ r.end <= r.counter /\ v <= r.base
         /\ \/ r.counter = counter /\ base[s] <= r.base /\ r.end = end[s]
            \/ counter <= r.base /\ end[s] < v
         /\ base[s] <= r.base
<1>. Max \in Nat \ {0} /\ step \in 1..Max
  BY AutoIDAssumption
<1>1. /\ counter \in 0..Max /\ base[s] \in 0..Max /\ end[s] \in 0..Max
      /\ base[s] <= end[s] /\ end[s] <= counter
  BY DEF IInv, TypeOK, Reservation
<1>2. CASE v <= base[s]
  <2>1. rebase(s, v, step, TRUE) = [counter |-> counter, base |-> base[s], end |-> end[s]]
    BY <1>2 DEF rebase
  <2>. DEFINE r == rebase(s, v, step, TRUE)
  <2>2. r = [counter |-> counter, base |-> base[s], end |-> end[s]]
    BY <2>1, Zenon
  <2>3. /\ r.counter \in 0..Max /\ r.base \in 0..Max /\ r.end \in 0..Max
        /\ counter <= r.counter /\ r.base <= r.end /\ r.end <= r.counter /\ v <= r.base
        /\ r.counter = counter /\ base[s] <= r.base /\ r.end = end[s]
    <3>. HIDE DEF r
    <3>. QED  BY <1>1, <1>2, <2>2
  <2>. QED  BY <2>3, Zenon
<1>3. CASE ~(v <= base[s]) /\ v <= end[s]
  <2>1. rebase(s, v, step, TRUE) = [counter |-> counter, base |-> v, end |-> end[s]]
    BY <1>3 DEF rebase
  <2>. DEFINE r == rebase(s, v, step, TRUE)
  <2>2. r = [counter |-> counter, base |-> v, end |-> end[s]]
    BY <2>1, Zenon
  <2>3. /\ r.counter \in 0..Max /\ r.base \in 0..Max /\ r.end \in 0..Max
        /\ counter <= r.counter /\ r.base <= r.end /\ r.end <= r.counter /\ v <= r.base
        /\ r.counter = counter /\ base[s] <= r.base /\ r.end = end[s]
    <3>. HIDE DEF r
    <3>. QED  BY <1>1, <1>3, <2>2
  <2>. QED  BY <2>3, Zenon
<1>4. CASE ~(v <= base[s]) /\ ~(v <= end[s])
  <2>. DEFINE nb == Greater(counter, v)
              ne == Lesser(Max - step, nb) + step
  <2>1. nb \in 0..Max /\ counter <= nb /\ v <= nb
    BY <1>1 DEF Greater
  <2>2. ne \in 0..Max /\ nb <= ne
    <3>. HIDE DEF nb
    <3>. QED  BY <2>1 DEF Lesser
  <2>3. rebase(s, v, step, TRUE) = [counter |-> ne, base |-> nb, end |-> ne]
    BY <1>4 DEF rebase
  <2>. HIDE DEF nb, ne
  <2>4. counter <= nb /\ end[s] < v /\ base[s] <= nb /\ counter <= ne
    BY <1>1, <1>4, <2>1, <2>2
  <2>. DEFINE r == rebase(s, v, step, TRUE)
  <2>5. r = [counter |-> ne, base |-> nb, end |-> ne]
    BY <2>3, Zenon
  <2>6. /\ r.counter \in 0..Max /\ r.base \in 0..Max /\ r.end \in 0..Max
        /\ counter <= r.counter /\ r.base <= r.end /\ r.end <= r.counter /\ v <= r.base
        /\ counter <= r.base /\ end[s] < v /\ base[s] <= r.base
    <3>. HIDE DEF r
    <3>. QED  BY <2>1, <2>2, <2>4, <2>5
  <2>. QED  BY <2>6
<1>. QED  BY <1>2, <1>3, <1>4

\* A server that moves to a range it had, or to new IDs of the counter, keeps the ranges
\* reserved.
LEMMA Moves ==
  ASSUME IInv, NEW s \in Server, NEW r \in [counter : 0..Max, base : 0..Max, end : 0..Max],
         Assign(s, r), UNCHANGED <<unsigned, times>>,
         counter <= r.counter, r.base <= r.end, r.end <= r.counter,
         \/ r.counter = counter /\ base[s] <= r.base /\ r.end = end[s]
         \/ counter <= r.base
  PROVE  /\ counter' \in 0..Max /\ base' \in [Server -> 0..Max] /\ end' \in [Server -> 0..Max]
         /\ \A t \in Server : base'[t] <= end'[t] /\ end'[t] <= counter'
         /\ \A i \in ID : times'[i] \in {0, 1} /\ (counter' < i => times'[i] = 0)
         /\ \A t \in Server, i \in ID : InRange(t, i)' => times'[i] = 0
         /\ \A t, u \in Server, i \in ID : t # u /\ InRange(t, i)' => ~InRange(u, i)'
<1>. Max \in Nat \ {0} /\ ID \subseteq Nat
  BY AutoIDAssumption DEF ID
<1>1. /\ counter \in 0..Max /\ base \in [Server -> 0..Max] /\ end \in [Server -> 0..Max]
      /\ Reservation
  BY DEF IInv, TypeOK
<1>2. /\ counter' = r.counter
      /\ base' = [base EXCEPT ![s] = r.base] /\ end' = [end EXCEPT ![s] = r.end]
  BY DEF Assign
<1>3. \A t \in Server : /\ base'[t] = IF t = s THEN r.base ELSE base[t]
                        /\ end'[t] = IF t = s THEN r.end ELSE end[t]
  BY <1>1, <1>2
<1>4. counter' \in 0..Max /\ base' \in [Server -> 0..Max] /\ end' \in [Server -> 0..Max]
  BY <1>1, <1>2
<1>5. \A t \in Server : base'[t] <= end'[t] /\ end'[t] <= counter'
  BY <1>1, <1>2, <1>3 DEF Reservation
<1>6. \A i \in ID : times'[i] \in {0, 1} /\ (counter' < i => times'[i] = 0)
  BY <1>1, <1>2 DEF Reservation
<1>7. \A i \in ID : InRange(s, i)' => InRange(s, i) \/ counter < i
  <2>. SUFFICES ASSUME NEW i \in ID, r.base < i, i <= r.end
                PROVE  (base[s] < i /\ i <= end[s]) \/ counter < i
    BY <1>3 DEF InRange
  <2>. r.base \in 0..Max /\ r.end \in 0..Max /\ i \in Nat /\ base[s] \in 0..Max
    BY <1>1
  <2>. QED  BY <1>1
<1>8. \A t \in Server \ {s}, i \in ID : InRange(t, i)' <=> InRange(t, i)
  BY <1>3 DEF InRange
<1>9. \A t \in Server, i \in ID : InRange(t, i) => i <= counter
  BY <1>1 DEF InRange, Reservation
<1>10. \A t \in Server, i \in ID : InRange(t, i)' => times'[i] = 0
  BY <1>1, <1>7, <1>8 DEF Reservation
<1>11. \A t, u \in Server, i \in ID : t # u /\ InRange(t, i)' => ~InRange(u, i)'
  BY <1>1, <1>7, <1>8, <1>9 DEF Reservation
<1>. QED  BY <1>4, <1>5, <1>6, <1>10, <1>11

LEMMA Sum ==
  ASSUME unsigned \in BOOLEAN, NEW b \in 0..Max, NEW n \in 1..Max, n <= Max - b
  PROVE  Int64(b + n) = b + n
<1>1. b + n \in Int /\ b + n \in Least..Max
  BY AutoIDAssumption DEF Least
<1>. QED  BY <1>1, Wrapping

\* A call whose offset was reached, and that is not exhausted, gets IDs above its range's
\* start without overflow.
LEMMA Fits ==
  ASSUME IInv, NEW s \in Server, NEW c \in Call, Allocating(s, c)
  PROVE  /\ c.off - 1 <= base[s]
         /\ base[s] \in 0..Max /\ end[s] \in 0..Max /\ counter \in 0..Max
         /\ base[s] <= end[s] /\ end[s] <= counter
         /\ Needed(base[s], c) \in 1..Max /\ Needed(counter, c) \in 1..Max
<1>. Max \in Nat \ {0} /\ unsigned \in BOOLEAN
  BY AutoIDAssumption DEF IInv, TypeOK
<1>1. /\ base[s] \in 0..Max /\ end[s] \in 0..Max /\ counter \in 0..Max
      /\ base[s] <= end[s] /\ end[s] <= counter
  BY DEF IInv, TypeOK, Reservation
<1>2. c.n \in 1..Max /\ c.off \in 1..Max
  BY AutoIDAssumption DEF Call
<1>3. c # NoCall
  BY <1>2 DEF NoCall
<1>4. c.off - 1 <= base[s]
  <2>1. CASE call[s] = NoCall
    BY <2>1 DEF Allocating
  <2>2. CASE call[s] # NoCall
    BY <2>2, <1>3 DEF Allocating, IInv, Reservation
  <2>. QED  BY <2>1, <2>2
<1>5. c.off - 1 <= counter
  BY <1>1, <1>2, <1>4
<1>6. Needed(base[s], c) \in 1..Max /\ Needed(counter, c) \in 1..Max
  BY <1>1, <1>4, <1>5, Answer
<1>. QED  BY <1>1, <1>4, <1>6

\* Handing out an answer gives new IDs, as the promise allows.
LEMMA Hands ==
  ASSUME IInv, NEW s \in Server, NEW c \in Call, NEW lo \in 0..Max, c.off - 1 <= lo,
         Needed(lo, c) <= Max - lo, floor[s] <= lo,
         \A i \in ID : lo < i /\ i <= lo + Needed(lo, c) => times[i] = 0,
         HandOut(s, c, lo, lo + Needed(lo, c))
  PROVE  /\ Promise!Give(s)
         /\ times' \in [ID -> Nat]
         /\ \A i \in ID : times'[i] # times[i] =>
               lo < i /\ i <= lo + Needed(lo, c) /\ times'[i] = 1
         /\ floor' = [floor EXCEPT ![s] = lo + Needed(lo, c)]
         /\ lo + Needed(lo, c) \in ID
<1>. Max \in Nat \ {0} /\ unsigned \in BOOLEAN
  BY AutoIDAssumption DEF IInv, TypeOK
<1>. times \in [ID -> Nat] /\ floor \in [Server -> 0..Max] /\ ID = 1..Max
  BY DEF IInv, TypeOK, ID
<1>. DEFINE hi == lo + Needed(lo, c)
            D == Derived(lo, c)
            S == {i \in ID : times'[i] # times[i]}
<1>1. Needed(lo, c) \in 1..Max /\ D \subseteq (lo + 1)..hi /\ hi \in D
  BY Answer
<1>2. hi \in 1..Max /\ lo < hi /\ floor[s] \in 0..Max
  BY <1>1
<1>3. /\ times' = [i \in ID |-> IF i \in D THEN times[i] + 1 ELSE times[i]]
      /\ floor' = [floor EXCEPT ![s] = Greater(floor[s], hi)]
  BY DEF HandOut
<1>. \A i \in ID : lo < i /\ i <= hi => times[i] = 0
  OBVIOUS
<1>. HIDE DEF hi, D
<1>4. Greater(floor[s], hi) = hi
  BY <1>2 DEF Greater
<1>5. floor' = [floor EXCEPT ![s] = hi]
  BY <1>3, <1>4
<1>6. \A i \in D : i \in ID /\ lo < i /\ i <= hi /\ times[i] = 0
  BY <1>1, <1>2
<1>7. \A i \in ID : times'[i] = IF i \in D THEN 1 ELSE times[i]
  BY <1>3, <1>6
<1>8. S = D
  BY <1>6, <1>7
<1>9. times' \in [ID -> Nat] /\ times' = [i \in ID |-> IF i \in S THEN 1 ELSE times[i]]
  BY <1>3, <1>7, <1>8
<1>10. floor'[s] = hi /\ floor' = [floor EXCEPT ![s] = floor'[s]]
  BY <1>5
<1>11. S # {} /\ hi \in S /\ \A i \in S : times[i] = 0 /\ floor[s] < i /\ i <= hi
  <2>1. D # {} /\ hi \in D /\ \A i \in D : times[i] = 0 /\ floor[s] < i /\ i <= hi
    <3>. HIDE DEF S
    <3>. QED  BY <1>1, <1>2, <1>6
  <2>. QED  BY <2>1, <1>8, Zenon
<1>12. Promise!Give(s)
  BY <1>9, <1>10, <1>11 DEF Promise!Give
<1>. QED  BY <1>2, <1>5, <1>6, <1>7, <1>9, <1>12 DEF hi

-----------------------------------------------------------------------------
(* What every step keeps. *)

\* A step gives or tells an ID as the promise allows, or leaves it alone.
Allowed == Promise!Next \/ UNCHANGED Promise!vars

\* What a step hands out is at least the base of an ALTER TABLE that everyone loaded.
Honoured == ddl.pending = {} /\ ~ddl.run => \A i \in ID : times'[i] # times[i] => i >= ddl.base

LEMMA RebaseStep ==
  ASSUME IInv, NEW s \in Server, NEW v \in Bases, Rebase(s, v)
  PROVE  IInv' /\ Allowed /\ Honoured
<1>. Max \in Nat \ {0} /\ v \in 1..Max /\ v \in 0..Max
  BY AutoIDAssumption
<1>. PICK step \in Steps : Assign(s, rebase(s, v, step, TRUE))
  BY DEF Rebase
<1>. DEFINE r == rebase(s, v, step, TRUE)
<1>1. /\ r.counter \in 0..Max /\ r.base \in 0..Max /\ r.end \in 0..Max
      /\ counter <= r.counter /\ r.base <= r.end /\ r.end <= r.counter /\ v <= r.base
      /\ \/ r.counter = counter /\ base[s] <= r.base /\ r.end = end[s]
         \/ counter <= r.base /\ end[s] < v
      /\ base[s] <= r.base
  BY Rebased
<1>2. r \in [counter : 0..Max, base : 0..Max, end : 0..Max]
  BY <1>1 DEF rebase
<1>. Assign(s, r)
  OBVIOUS
<1>. HIDE DEF r
<1>3. /\ call[s] = NoCall
      /\ floor' = [floor EXCEPT ![s] = Greater(floor[s], v)]
      /\ UNCHANGED <<unsigned, call, times, ddl>>
  BY DEF Rebase
<1>4. /\ counter' \in 0..Max /\ base' \in [Server -> 0..Max] /\ end' \in [Server -> 0..Max]
      /\ \A t \in Server : base'[t] <= end'[t] /\ end'[t] <= counter'
      /\ \A i \in ID : times'[i] \in {0, 1} /\ (counter' < i => times'[i] = 0)
      /\ \A t \in Server, i \in ID : InRange(t, i)' => times'[i] = 0
      /\ \A t, u \in Server, i \in ID : t # u /\ InRange(t, i)' => ~InRange(u, i)'
  BY <1>1, <1>2, <1>3, Moves
<1>5. /\ counter \in 0..Max /\ base \in [Server -> 0..Max] /\ end \in [Server -> 0..Max]
      /\ floor \in [Server -> 0..Max] /\ call \in [Server -> Call \cup {NoCall}]
      /\ TypeOK /\ Reservation /\ Altered
  BY DEF IInv, TypeOK
<1>6. /\ counter' = r.counter
      /\ \A t \in Server : /\ base'[t] = IF t = s THEN r.base ELSE base[t]
                           /\ end'[t] = IF t = s THEN r.end ELSE end[t]
                           /\ floor'[t] = IF t = s THEN Greater(floor[s], v) ELSE floor[t]
  BY <1>3, <1>5 DEF Assign
<1>. DEFINE f == Greater(floor[s], v)
<1>7. f \in 0..Max /\ floor[s] <= f /\ v <= f /\ f \in {floor[s], v}
  BY <1>5 DEF Greater
<1>8. TypeOK'
  BY <1>3, <1>4, <1>5, <1>7 DEF TypeOK
<1>. HIDE DEF f
<1>9. \A t \in Server : floor'[t] <= counter'
  BY <1>1, <1>5, <1>6, <1>7 DEF Reservation, f
<1>10. \A t \in Server : base'[t] < end'[t] => floor'[t] <= base'[t]
  BY <1>1, <1>5, <1>6, <1>7 DEF Reservation, f
<1>11. \A t \in Server : call'[t] # NoCall => call'[t].off - 1 <= base'[t]
  BY <1>3, <1>5, <1>6 DEF Reservation
<1>12. Reservation'
  BY <1>4, <1>9, <1>10, <1>11 DEF Reservation
<1>13. Altered'
  BY <1>1, <1>3, <1>5, <1>6 DEF Altered, TypeOK
<1>14. Allowed
  <2>1. CASE f = floor[s]
    <3>1. floor' = floor
      BY <2>1, <1>3, <1>5 DEF f
    <3>. QED  BY <3>1, <1>3 DEF Allowed, Promise!vars
  <2>2. CASE f # floor[s]
    <3>1. floor'[s] = f /\ f = v /\ floor[s] < f /\ floor' = [floor EXCEPT ![s] = floor'[s]]
      BY <2>2, <1>3, <1>5, <1>6, <1>7 DEF f
    <3>2. Promise!Tell(s)
      BY <3>1, <1>3 DEF Promise!Tell, ID
    <3>. QED  BY <3>2 DEF Allowed, Promise!Next
  <2>. QED  BY <2>1, <2>2
<1>15. Honoured
  BY <1>3 DEF Honoured
<1>. QED  BY <1>8, <1>12, <1>13, <1>14, <1>15 DEF IInv

LEMMA AllocRebaseStep ==
  ASSUME IInv, NEW s \in Server, NEW c \in Call, AllocRebase(s, c)
  PROVE  IInv' /\ Allowed /\ Honoured
<1>. DEFINE v == c.off - 1
<1>. Max \in Nat \ {0} /\ c.off \in 1..Max
  BY AutoIDAssumption DEF Call
<1>. v \in 0..Max
  OBVIOUS
<1>. PICK step \in Steps : Assign(s, rebase(s, v, step, TRUE))
  BY DEF AllocRebase
<1>. DEFINE r == rebase(s, v, step, TRUE)
<1>. HIDE DEF v
<1>1. /\ r.counter \in 0..Max /\ r.base \in 0..Max /\ r.end \in 0..Max
      /\ counter <= r.counter /\ r.base <= r.end /\ r.end <= r.counter /\ v <= r.base
      /\ \/ r.counter = counter /\ base[s] <= r.base /\ r.end = end[s]
         \/ counter <= r.base /\ end[s] < v
      /\ base[s] <= r.base
  BY Rebased
<1>2. r \in [counter : 0..Max, base : 0..Max, end : 0..Max]
  BY <1>1 DEF rebase
<1>. Assign(s, r)
  OBVIOUS
<1>. HIDE DEF r
<1>3. call' = [call EXCEPT ![s] = c] /\ UNCHANGED <<unsigned, times, floor, ddl>>
  BY DEF AllocRebase
<1>4. /\ counter' \in 0..Max /\ base' \in [Server -> 0..Max] /\ end' \in [Server -> 0..Max]
      /\ \A t \in Server : base'[t] <= end'[t] /\ end'[t] <= counter'
      /\ \A i \in ID : times'[i] \in {0, 1} /\ (counter' < i => times'[i] = 0)
      /\ \A t \in Server, i \in ID : InRange(t, i)' => times'[i] = 0
      /\ \A t, u \in Server, i \in ID : t # u /\ InRange(t, i)' => ~InRange(u, i)'
  BY <1>1, <1>2, <1>3, Moves
<1>5. /\ counter \in 0..Max /\ base \in [Server -> 0..Max] /\ end \in [Server -> 0..Max]
      /\ floor \in [Server -> 0..Max] /\ call \in [Server -> Call \cup {NoCall}]
      /\ TypeOK /\ Reservation /\ Altered
  BY DEF IInv, TypeOK
<1>6. /\ counter' = r.counter
      /\ \A t \in Server : /\ base'[t] = IF t = s THEN r.base ELSE base[t]
                           /\ end'[t] = IF t = s THEN r.end ELSE end[t]
                           /\ call'[t] = IF t = s THEN c ELSE call[t]
  BY <1>3, <1>5 DEF Assign
<1>7. TypeOK'
  BY <1>3, <1>4, <1>5 DEF TypeOK
<1>8. \A t \in Server : floor'[t] <= counter'
  BY <1>1, <1>3, <1>5, <1>6 DEF Reservation
<1>9. \A t \in Server : base'[t] < end'[t] => floor'[t] <= base'[t]
  <2>. SUFFICES ASSUME NEW t \in Server, base'[t] < end'[t] PROVE floor'[t] <= base'[t]
    OBVIOUS
  <2>1. CASE t # s
    BY <1>3, <1>5, <1>6, <2>1 DEF Reservation
  <2>2. CASE t = s
    <3>1. /\ base[s] \in Int /\ end[s] \in Int /\ floor[s] \in Int
          /\ floor[s] <= counter /\ (base[s] < end[s] => floor[s] <= base[s])
      BY <1>5 DEF Reservation
    <3>2. r.base < r.end
      BY <1>6, <2>2
    <3>3. floor[s] <= r.base
      BY <1>1, <1>5, <3>1, <3>2
    <3>. QED  BY <1>3, <1>6, <2>2, <3>3
  <2>. QED  BY <2>1, <2>2
<1>10. \A t \in Server : call'[t] # NoCall => call'[t].off - 1 <= base'[t]
  BY <1>1, <1>3, <1>5, <1>6 DEF Reservation, v
<1>11. Reservation'
  BY <1>4, <1>8, <1>9, <1>10 DEF Reservation
<1>12. Altered'
  BY <1>1, <1>3, <1>5, <1>6 DEF Altered, TypeOK
<1>13. Allowed /\ Honoured
  BY <1>3 DEF Allowed, Honoured, Promise!vars
<1>. QED  BY <1>7, <1>11, <1>12, <1>13 DEF IInv

LEMMA AllocLocalStep ==
  ASSUME IInv, NEW s \in Server, NEW c \in Call, AllocLocal(s, c)
  PROVE  IInv' /\ Allowed /\ Honoured
<1>. Max \in Nat \ {0} /\ ID \subseteq Nat
  BY AutoIDAssumption DEF ID
<1>. DEFINE lo == base[s]
            n1 == Needed(base[s], c)
            hi == base[s] + Needed(base[s], c)
<1>1. /\ c.off - 1 <= lo /\ lo \in 0..Max /\ end[s] \in 0..Max /\ counter \in 0..Max
      /\ lo <= end[s] /\ end[s] <= counter /\ n1 \in 1..Max /\ unsigned \in BOOLEAN
  BY Fits DEF AllocLocal, FitsRange, IInv, TypeOK
<1>2. n1 < Max - lo
  BY <1>1 DEF AllocLocal, FitsRange, Exhausted
<1>3. Int64(hi) = hi
  BY <1>1, <1>2, Sum
<1>4. /\ hi <= end[s] /\ base' = [base EXCEPT ![s] = hi]
      /\ HandOut(s, c, lo, hi) /\ UNCHANGED <<unsigned, counter, end, ddl>>
  BY <1>3 DEF AllocLocal, FitsRange
<1>5. /\ TypeOK /\ Reservation /\ Altered
      /\ base \in [Server -> 0..Max] /\ end \in [Server -> 0..Max]
      /\ floor \in [Server -> 0..Max] /\ call \in [Server -> Call \cup {NoCall}]
  BY DEF IInv, TypeOK
<1>6. lo < hi /\ hi <= end[s] /\ hi \in 1..Max
  BY <1>1, <1>2, <1>4
<1>7. floor[s] <= lo
  BY <1>1, <1>5, <1>6 DEF Reservation
<1>8. \A i \in ID : lo < i /\ i <= hi => times[i] = 0
  BY <1>1, <1>5, <1>6 DEF Reservation, InRange
<1>0. n1 <= Max - lo
  BY <1>1, <1>2
<1>9. /\ times' \in [ID -> Nat]
      /\ \A i \in ID : times'[i] # times[i] => lo < i /\ i <= hi /\ times'[i] = 1
      /\ floor' = [floor EXCEPT ![s] = hi]
  BY <1>0, <1>1, <1>4, <1>7, <1>8, Hands
<1>16. Promise!Give(s)
  BY <1>0, <1>1, <1>4, <1>7, <1>8, Hands
<1>10. call' = [call EXCEPT ![s] = NoCall]
  BY <1>4 DEF HandOut
<1>. HIDE DEF n1
<1>. HIDE DEF hi, lo
<1>11. \A t \in Server : /\ base'[t] = IF t = s THEN hi ELSE base[t]
                         /\ floor'[t] = IF t = s THEN hi ELSE floor[t]
                         /\ call'[t] = IF t = s THEN NoCall ELSE call[t]
  BY <1>4, <1>5, <1>9, <1>10
<1>12. TypeOK'
  BY <1>4, <1>5, <1>6, <1>9, <1>10 DEF TypeOK
<1>. lo = base[s]
  BY DEF lo
<1>13. Reservation'
  <2>1. \A t \in Server : base'[t] <= end'[t] /\ end'[t] <= counter' /\ floor'[t] <= counter'
    BY <1>1, <1>4, <1>5, <1>6, <1>11 DEF Reservation
  <2>2. \A t \in Server : base'[t] < end'[t] => floor'[t] <= base'[t]
    BY <1>4, <1>5, <1>6, <1>11 DEF Reservation
  <2>3. \A t \in Server : call'[t] # NoCall => call'[t].off - 1 <= base'[t]
    BY <1>5, <1>11 DEF Reservation
  <2>4. \A i \in ID : times'[i] \in {0, 1} /\ (counter' < i => times'[i] = 0)
    BY <1>1, <1>4, <1>5, <1>6, <1>9 DEF Reservation
  <2>5. \A t \in Server, i \in ID : InRange(t, i)' =>
           InRange(t, i) /\ ~(t = s /\ i <= hi)
    <3>. SUFFICES ASSUME NEW t \in Server, NEW i \in Nat, base'[t] < i, i <= end'[t]
                  PROVE  base[t] < i /\ i <= end[t] /\ ~(t = s /\ i <= hi)
      BY DEF InRange
    <3>1. CASE t = s
      BY <3>1, <1>1, <1>4, <1>6, <1>11
    <3>2. CASE t # s
      BY <3>2, <1>4, <1>11
    <3>. QED  BY <3>1, <3>2
  <2>6. \A i \in ID : times'[i] # times[i] => InRange(s, i) /\ i <= hi
    <3>. SUFFICES ASSUME NEW i \in ID, times'[i] # times[i]
                  PROVE  base[s] < i /\ i <= end[s] /\ i <= hi
      BY DEF InRange
    <3>1. i \in Nat /\ lo < i /\ i <= hi
      BY <1>9
    <3>. QED  BY <3>1, <1>1, <1>6
  <2>7. \A t \in Server, i \in ID : InRange(t, i)' => times'[i] = 0
    BY <2>5, <2>6, <1>5 DEF Reservation
  <2>8. \A t, u \in Server, i \in ID : t # u /\ InRange(t, i)' => ~InRange(u, i)'
    BY <2>5, <1>5 DEF Reservation
  <2>. QED  BY <2>1, <2>2, <2>3, <2>4, <2>7, <2>8 DEF Reservation
<1>14. Altered'
  BY <1>1, <1>4, <1>5, <1>6, <1>11 DEF Altered, TypeOK
<1>15. Honoured
  BY <1>1, <1>5, <1>6, <1>9 DEF Altered, Honoured, TypeOK
<1>. QED  BY <1>12, <1>13, <1>14, <1>15, <1>16 DEF IInv, Allowed, Promise!Next

LEMMA AllocRangeStep ==
  ASSUME IInv, NEW s \in Server, NEW c \in Call, AllocRange(s, c)
  PROVE  IInv' /\ Allowed /\ Honoured
<1>. Max \in Nat \ {0} /\ ID \subseteq Nat
  BY AutoIDAssumption DEF ID
<1>. DEFINE n1 == Needed(counter, c)
            hi == counter + Needed(counter, c)
<1>1. /\ c.off - 1 <= base[s] /\ base[s] \in 0..Max /\ end[s] \in 0..Max
      /\ counter \in 0..Max /\ base[s] <= end[s] /\ end[s] <= counter
      /\ n1 \in 1..Max /\ unsigned \in BOOLEAN /\ c.off \in 1..Max
  BY Fits, AutoIDAssumption DEF AllocRange, NeedsRange, IInv, TypeOK, Call
<1>p. PICK step \in Steps :
        /\ Enough(c, step)
        /\ Assign(s, [counter |-> counter + Reserved(c, step),
                      base |-> Int64(counter + Needed(counter, c)),
                      end |-> counter + Reserved(c, step)])
  BY DEF AllocRange
<1>. DEFINE top == counter + Reserved(c, step)
<1>2. n1 <= Max - counter /\ hi <= top /\ top \in 0..Max
  <2>1. step \in 1..Max
    BY AutoIDAssumption
  <2>2. Greater(step, n1) \in 1..Max
    <3>. HIDE DEF n1
    <3>. QED  BY <2>1, <1>1 DEF Greater
  <2>. DEFINE g == Greater(step, n1)
  <2>3. Reserved(c, step) = Lesser(Max - counter, g)
    BY DEF Reserved
  <2>4. Reserved(c, step) >= n1
    BY <1>p DEF Enough
  <2>. HIDE DEF g, n1
  <2>5. Lesser(Max - counter, g) \in 0..(Max - counter)
    BY <2>2, <1>1 DEF Lesser, g
  <2>. QED  BY <2>3, <2>4, <2>5, <1>1 DEF n1
<1>3. Int64(hi) = hi
  BY <1>1, <1>2, Sum
<1>4. /\ counter' = top /\ base' = [base EXCEPT ![s] = hi] /\ end' = [end EXCEPT ![s] = top]
      /\ HandOut(s, c, counter, hi) /\ UNCHANGED <<unsigned, ddl>>
  BY <1>3, <1>p DEF AllocRange, Assign
<1>5. /\ TypeOK /\ Reservation /\ Altered
      /\ base \in [Server -> 0..Max] /\ end \in [Server -> 0..Max]
      /\ floor \in [Server -> 0..Max] /\ call \in [Server -> Call \cup {NoCall}]
  BY DEF IInv, TypeOK
<1>6. counter < hi /\ hi <= top /\ hi \in 1..Max /\ top \in 0..Max
  BY <1>1, <1>2
<1>7. floor[s] <= counter /\ c.off - 1 <= counter
  BY <1>1, <1>5 DEF Reservation
<1>8. \A i \in ID : counter < i /\ i <= hi => times[i] = 0
  BY <1>5 DEF Reservation
<1>9. /\ times' \in [ID -> Nat]
      /\ \A i \in ID : times'[i] # times[i] => counter < i /\ i <= hi /\ times'[i] = 1
      /\ floor' = [floor EXCEPT ![s] = hi]
  BY <1>1, <1>2, <1>4, <1>7, <1>8, Hands
<1>10. Promise!Give(s)
  BY <1>1, <1>2, <1>4, <1>7, <1>8, Hands
<1>11. call' = [call EXCEPT ![s] = NoCall]
  BY <1>4 DEF HandOut
<1>. HIDE DEF hi, n1, top
<1>12. \A t \in Server : /\ base'[t] = IF t = s THEN hi ELSE base[t]
                         /\ end'[t] = IF t = s THEN top ELSE end[t]
                         /\ floor'[t] = IF t = s THEN hi ELSE floor[t]
                         /\ call'[t] = IF t = s THEN NoCall ELSE call[t]
  BY <1>4, <1>5, <1>9, <1>11
<1>a. counter \in Nat /\ hi \in Nat /\ top \in Nat /\ counter < hi /\ hi <= top
  BY <1>1, <1>6
<1>b. \A i \in ID : times'[i] # times[i] => counter < i /\ i <= hi /\ times'[i] = 1
  BY <1>9
<1>c. /\ \A t \in Server : base[t] \in Nat /\ end[t] \in Nat /\ floor[t] \in Nat
      /\ \A t \in Server : base[t] <= end[t] /\ end[t] <= counter /\ floor[t] <= counter
      /\ \A t \in Server : base[t] < end[t] => floor[t] <= base[t]
      /\ \A i \in ID : times[i] \in {0, 1} /\ (counter < i => times[i] = 0)
  BY <1>5 DEF Reservation
<1>13. TypeOK'
  BY <1>4, <1>5, <1>6, <1>9, <1>11 DEF TypeOK
<1>14. Reservation'
  <2>1. \A t \in Server : base'[t] <= end'[t] /\ end'[t] <= counter' /\ floor'[t] <= counter'
    <3>. SUFFICES ASSUME NEW t \in Server
                  PROVE  base'[t] <= end'[t] /\ end'[t] <= counter' /\ floor'[t] <= counter'
      OBVIOUS
    <3>1. counter' = top
      BY <1>4
    <3>2. CASE t = s
      BY <1>12, <1>a, <3>1, <3>2
    <3>3. CASE t # s
      <4>1. base'[t] = base[t] /\ end'[t] = end[t] /\ floor'[t] = floor[t]
        BY <1>12, <3>3
      <4>2. /\ base[t] \in Nat /\ end[t] \in Nat /\ floor[t] \in Nat
            /\ base[t] <= end[t] /\ end[t] <= counter /\ floor[t] <= counter
        BY <1>c
      <4>3. end[t] <= top /\ floor[t] <= top
        BY <1>a, <4>2
      <4>. QED  BY <3>1, <4>1, <4>2, <4>3
    <3>. QED  BY <3>2, <3>3
  <2>2. \A t \in Server : base'[t] < end'[t] => floor'[t] <= base'[t]
    <3>1. hi <= hi
      BY <1>a
    <3>. QED  BY <1>12, <1>c, <3>1
  <2>3. \A t \in Server : call'[t] # NoCall => call'[t].off - 1 <= base'[t]
    BY <1>5, <1>12 DEF Reservation
  <2>4. \A i \in ID : times'[i] \in {0, 1} /\ (counter' < i => times'[i] = 0)
    BY <1>4, <1>a, <1>b, <1>c
  <2>5. \A i \in ID : InRange(s, i)' => hi < i
    BY <1>12 DEF InRange
  <2>6. \A t \in Server \ {s}, i \in ID : InRange(t, i)' => InRange(t, i) /\ i <= counter
    <3>. SUFFICES ASSUME NEW t \in Server \ {s}, NEW i \in Nat, base'[t] < i, i <= end'[t]
                  PROVE  base[t] < i /\ i <= end[t] /\ i <= counter
      BY DEF InRange
    <3>1. base[t] < i /\ i <= end[t] /\ end[t] <= counter /\ end[t] \in 0..Max
      BY <1>5, <1>12 DEF Reservation
    <3>. QED  BY <3>1, <1>a
  <2>7. ASSUME NEW i \in ID, hi < i PROVE times'[i] = 0
    <3>1. counter < i /\ ~(i <= hi)
      BY <2>7, <1>a
    <3>2. times[i] = 0
      BY <3>1, <1>c
    <3>. QED  BY <3>1, <3>2, <1>b
  <2>8. \A i \in ID : i <= counter => times'[i] = times[i]
    BY <1>a, <1>b
  <2>9. \A t \in Server, i \in ID : InRange(t, i)' => times'[i] = 0
    BY <2>5, <2>6, <2>7, <2>8, <1>5 DEF Reservation
  <2>10. \A i \in ID : ~(hi < i /\ i <= counter)
    BY <1>a
  <2>11. \A t, u \in Server, i \in ID : t # u /\ InRange(t, i)' => ~InRange(u, i)'
    BY <2>5, <2>6, <2>10, <1>5 DEF Reservation
  <2>. QED  BY <2>1, <2>2, <2>3, <2>4, <2>9, <2>11 DEF Reservation
<1>15. Altered'
  <2>. SUFFICES ASSUME ~ddl.run
                PROVE  /\ counter' >= ddl.base - 1
                       /\ \A t \in Server : t \notin ddl.pending /\ base'[t] < end'[t] => base'[t] >= ddl.base - 1
    BY <1>4 DEF Altered
  <2>1. ddl.base \in Int /\ counter >= ddl.base - 1
    BY <1>5 DEF Altered, TypeOK
  <2>2. counter' >= ddl.base - 1 /\ hi >= ddl.base - 1
    BY <1>4, <1>a, <2>1
  <2>3. ASSUME NEW t \in Server, t \notin ddl.pending, base'[t] < end'[t]
        PROVE  base'[t] >= ddl.base - 1
    <3>1. CASE t = s
      BY <3>1, <1>12, <2>2
    <3>2. CASE t # s
      BY <3>2, <2>3, <1>5, <1>12 DEF Altered
    <3>. QED  BY <3>1, <3>2
  <2>. QED  BY <2>2, <2>3
<1>16. Honoured
  BY <1>1, <1>5, <1>9 DEF Altered, Honoured, TypeOK
<1>. QED  BY <1>10, <1>13, <1>14, <1>15, <1>16 DEF IInv, Allowed, Promise!Next

\* Steps that leave the ranges alone, and only let the counter grow.
LEMMA CounterStep ==
  ASSUME IInv, counter' \in 0..Max, counter <= counter', TypeOK', Altered',
         \A t \in Server : call'[t] \in {call[t], NoCall},
         UNCHANGED <<base, end, times, floor>>
  PROVE  IInv' /\ Allowed /\ Honoured
<1>. Max \in Nat \ {0} /\ ID \subseteq Nat
  BY AutoIDAssumption DEF ID
<1>1. /\ counter \in 0..Max /\ base \in [Server -> 0..Max] /\ end \in [Server -> 0..Max]
      /\ floor \in [Server -> 0..Max] /\ Reservation
  BY DEF IInv, TypeOK
<1>2. \A t \in Server : base'[t] <= end'[t] /\ end'[t] <= counter' /\ floor'[t] <= counter'
  BY <1>1 DEF Reservation
<1>3. \A i \in ID : times'[i] \in {0, 1} /\ (counter' < i => times'[i] = 0)
  BY <1>1 DEF Reservation
<1>4. \A t \in Server, i \in ID : InRange(t, i)' <=> InRange(t, i)
  BY DEF InRange
<1>5. \A t \in Server : call'[t] # NoCall => call'[t].off - 1 <= base'[t]
  BY <1>1 DEF Reservation
<1>6. Reservation'
  BY <1>1, <1>2, <1>3, <1>4, <1>5 DEF Reservation
<1>. QED  BY <1>6 DEF IInv, Allowed, Honoured, Promise!vars

LEMMA LostCommits ==
  ASSUME IInv, NEW s \in Server,
         \/ \E v \in Wanted : RebaseUndetermined(s, v)
         \/ \E c \in Call : AllocUndetermined(s, c) \/ AllocFails(s, c)
  PROVE  IInv' /\ Allowed /\ Honoured
<1>. Max \in Nat \ {0}
  BY AutoIDAssumption
<1>. TypeOK /\ Altered /\ counter \in 0..Max /\ call \in [Server -> Call \cup {NoCall}]
  BY DEF IInv, TypeOK
<1>1. CASE \E v \in Wanted : RebaseUndetermined(s, v)
  <2>. PICK v \in Wanted : RebaseUndetermined(s, v)
    BY <1>1
  <2>0. PICK step \in Steps : counter' = rebase(s, v, step, TRUE).counter
    BY DEF RebaseUndetermined
  <2>1. v \in 0..Max
    BY AutoIDAssumption DEF Wanted
  <2>. DEFINE r == rebase(s, v, step, TRUE)
  <2>2. counter' \in 0..Max /\ counter <= counter'
    <3>1. r.counter \in 0..Max /\ counter <= r.counter
      BY <2>1, Rebased, Zenon
    <3>2. counter' = r.counter
      BY <2>0, Zenon
    <3>. HIDE DEF r
    <3>. QED  BY <3>1, <3>2
  <2>3. UNCHANGED <<unsigned, base, end, call, times, floor, ddl>>
    BY DEF RebaseUndetermined
  <2>4. TypeOK' /\ Altered'
    BY <2>2, <2>3 DEF TypeOK, Altered
  <2>. QED  BY <2>2, <2>3, <2>4, CounterStep
<1>2. CASE \E c \in Call : AllocUndetermined(s, c)
  <2>. PICK c \in Call : AllocUndetermined(s, c)
    BY <1>2
  <2>. PICK step \in Steps : Enough(c, step) /\ counter' = counter + Reserved(c, step)
    BY DEF AllocUndetermined
  <2>1. Needed(counter, c) \in 1..Max /\ step \in 1..Max
    BY Fits, AutoIDAssumption DEF AllocUndetermined, NeedsRange
  <2>2. Greater(step, Needed(counter, c)) \in 1..Max
    BY <2>1 DEF Greater
  <2>3. Reserved(c, step) \in 0..(Max - counter)
    BY <2>2 DEF Reserved, Lesser
  <2>4. counter' \in 0..Max /\ counter <= counter'
    BY <2>3
  <2>5. /\ call' = [call EXCEPT ![s] = NoCall]
        /\ UNCHANGED <<unsigned, base, end, times, floor, ddl>>
    BY DEF AllocUndetermined
  <2>6. TypeOK' /\ Altered' /\ \A t \in Server : call'[t] \in {call[t], NoCall}
    BY <2>4, <2>5 DEF TypeOK, Altered
  <2>. QED  BY <2>4, <2>5, <2>6, CounterStep
<1>3. CASE \E c \in Call : AllocFails(s, c)
  <2>1. /\ call' = [call EXCEPT ![s] = NoCall]
        /\ UNCHANGED <<unsigned, counter, base, end, times, floor, ddl>>
    BY <1>3 DEF AllocFails
  <2>2. TypeOK' /\ Altered' /\ \A t \in Server : call'[t] \in {call[t], NoCall}
    BY <2>1 DEF TypeOK, Altered
  <2>. QED  BY <2>1, <2>2, CounterStep
<1>. QED  BY <1>1, <1>2, <1>3

LEMMA AlterSteps ==
  ASSUME IInv, (\E v \in Bases : AdjustNewBase(v)) \/ RunRebaseAutoID
  PROVE  IInv' /\ Allowed /\ Honoured
<1>. Max \in Nat \ {0} /\ Alters \in Nat
  BY AutoIDAssumption
<1>. TypeOK /\ Altered /\ counter \in 0..Max /\ unsigned \in BOOLEAN
  BY DEF IInv, TypeOK
<1>. ddl \in [base : 1..(Max + 1), run : BOOLEAN, pending : SUBSET Server, left : 0..Alters]
  BY DEF TypeOK
<1>. DEFINE next == NextGlobalAutoID
<1>0. next \in 0..(Max + 1)
  <2>. DEFINE m == IF unsigned THEN Max + 1 ELSE 2 * (Max + 1)
  <2>1. m \in Nat \ {0} /\ m >= Max + 1
    OBVIOUS
  <2>2. (counter + 1) \in 0..(m - 1) \/ (counter + 1 = m)
    BY <2>1
  <2>3. next = (counter + 1) % m
    BY DEF UInt64, NextGlobalAutoID
  <2>. HIDE DEF m, next
  <2>. DEFINE x == counter + 1
  <2>4. x \in Int /\ (x \in 0..(m - 1) \/ (x \in m..(2 * m - 1) /\ x = m))
    BY <2>1, <2>2
  <2>. HIDE DEF x
  <2>5. x % m = x \/ x % m = 0
    <3>1. x \in Int /\ m \in Nat \ {0}
      BY <2>1, <2>4
    <3>2. /\ x \in 0..(m - 1) => x % m = x
          /\ x \in m..(2 * m - 1) => x % m = x - m
      BY <3>1, ModCases
    <3>. QED  BY <3>1, <3>2, <2>4
  <2>. QED  BY <2>3, <2>5 DEF x
<1>. HIDE DEF next
<1>1. CASE \E v \in Bases : AdjustNewBase(v)
  <2>. PICK v \in Bases : AdjustNewBase(v)
    BY <1>1
  <2>1. v \in 1..Max
    BY AutoIDAssumption
  <2>. DEFINE g == Greater(v, next)
              l == ddl.left - 1
  <2>2. /\ ddl' = [ddl EXCEPT !.base = g, !.run = TRUE, !.left = l]
        /\ ddl.left > 0 /\ UNCHANGED <<unsigned, counter, base, end, call, times, floor>>
    BY DEF AdjustNewBase, next
  <2>3. g \in 1..(Max + 1) /\ l \in 0..Alters
    BY <2>1, <2>2, <1>0 DEF Greater
  <2>. HIDE DEF g, l
  <2>4. ddl' \in [base : 1..(Max + 1), run : BOOLEAN, pending : SUBSET Server,
                  left : 0..Alters] /\ ddl'.run
    BY <2>2, <2>3
  <2>5. TypeOK' /\ Altered'
    BY <2>2, <2>4 DEF TypeOK, Altered
  <2>. QED  BY <2>2, <2>5, CounterStep
<1>2. CASE RunRebaseAutoID
  <2>. DEFINE g == Greater(ddl.base, next)
              done == [ddl EXCEPT !.base = g, !.run = FALSE, !.pending = Server]
              cancelled == [ddl EXCEPT !.base = 1, !.run = FALSE]
  <2>1. /\ \/ counter' = Greater(counter, g - 1) /\ (ddl' = ddl \/ ddl' = done)
           \/ counter' \in {counter, Greater(counter, g - 1)} /\ ddl' = cancelled
        /\ ddl.run /\ UNCHANGED <<unsigned, base, end, call, times, floor>>
    BY <1>2 DEF RunRebaseAutoID, next
  <2>2. g \in 1..(Max + 1)
    BY <1>0 DEF Greater
  <2>. HIDE DEF g
  <2>3. /\ counter' \in 0..Max /\ counter <= counter'
        /\ counter' = Greater(counter, g - 1) => counter' >= g - 1
    BY <2>1, <2>2 DEF Greater
  <2>4. CASE counter' = Greater(counter, g - 1) /\ ddl' = done
    <3>1. /\ ddl' \in [base : 1..(Max + 1), run : BOOLEAN, pending : SUBSET Server,
                       left : 0..Alters]
          /\ ddl'.base = g /\ ddl'.pending = Server
      BY <2>2, <2>4
    <3>2. TypeOK'
      BY <2>1, <2>3, <3>1 DEF TypeOK
    <3>3. Altered'
      BY <2>3, <2>4, <3>1 DEF Altered
    <3>. QED  BY <2>1, <2>3, <3>2, <3>3, CounterStep
  <2>5. CASE ddl' = ddl
    <3>1. TypeOK' /\ Altered'
      BY <2>1, <2>3, <2>5 DEF TypeOK, Altered
    <3>. QED  BY <2>1, <2>3, <3>1, CounterStep
  <2>6. CASE ddl' = cancelled
    <3>. DEFINE one == 1
    <3>a. one \in 1..(Max + 1) /\ ddl' = [ddl EXCEPT !.base = one, !.run = FALSE]
      BY <2>6
    <3>b. one = 1
      OBVIOUS
    <3>. HIDE DEF one
    <3>c. /\ ddl' \in [base : 1..(Max + 1), run : BOOLEAN, pending : SUBSET Server,
                       left : 0..Alters]
          /\ ddl'.base = one
      BY <3>a
    <3>1. /\ ddl' \in [base : 1..(Max + 1), run : BOOLEAN, pending : SUBSET Server,
                       left : 0..Alters]
          /\ ddl'.base = 1
      BY <3>b, <3>c
    <3>2. TypeOK'
      BY <2>1, <2>3, <3>1 DEF TypeOK
    <3>3. counter' >= ddl'.base - 1 /\ \A s \in Server : base'[s] >= ddl'.base - 1
      BY <2>3, <3>1, <3>2 DEF TypeOK
    <3>4. Altered'
      BY <3>3 DEF Altered
    <3>. QED  BY <2>1, <2>3, <3>2, <3>4, CounterStep
  <2>. QED  BY <2>1, <2>4, <2>5, <2>6
<1>. QED  BY <1>1, <1>2

LEMMA NewAllocatorStep ==
  ASSUME IInv, NEW s \in Server, NewAllocator(s)
  PROVE  IInv' /\ Allowed /\ Honoured
<1>. Max \in Nat \ {0} /\ ID \subseteq Nat
  BY AutoIDAssumption DEF ID
<1>1. /\ TypeOK /\ Reservation /\ Altered
      /\ counter \in 0..Max /\ base \in [Server -> 0..Max] /\ end \in [Server -> 0..Max]
      /\ floor \in [Server -> 0..Max] /\ call \in [Server -> Call \cup {NoCall}]
      /\ ddl \in [base : 1..(Max + 1), run : BOOLEAN, pending : SUBSET Server, left : 0..Alters]
  BY DEF IInv, TypeOK
<1>2. /\ base' = [base EXCEPT ![s] = 0] /\ end' = [end EXCEPT ![s] = 0]
      /\ call' = [call EXCEPT ![s] = NoCall]
      /\ ddl' = [ddl EXCEPT !.pending = ddl.pending \ {s}]
      /\ UNCHANGED <<unsigned, counter, times, floor>>
  BY DEF NewAllocator
<1>3. \A t \in Server : /\ base'[t] = IF t = s THEN 0 ELSE base[t]
                        /\ end'[t] = IF t = s THEN 0 ELSE end[t]
                        /\ call'[t] = IF t = s THEN NoCall ELSE call[t]
  BY <1>1, <1>2
<1>4. /\ ddl' \in [base : 1..(Max + 1), run : BOOLEAN, pending : SUBSET Server, left : 0..Alters]
      /\ ddl'.base = ddl.base /\ ddl'.run = ddl.run /\ ddl'.pending = ddl.pending \ {s}
  BY <1>1, <1>2
<1>5. TypeOK'
  BY <1>1, <1>2, <1>4 DEF TypeOK
<1>6. \A t \in Server, i \in ID : InRange(t, i)' => InRange(t, i)
  BY <1>3 DEF InRange
<1>7. \A t \in Server : /\ base'[t] <= end'[t] /\ end'[t] <= counter' /\ floor'[t] <= counter'
                        /\ base'[t] < end'[t] => floor'[t] <= base'[t]
  BY <1>1, <1>2, <1>3 DEF Reservation
<1>8. \A t \in Server : call'[t] # NoCall => call'[t].off - 1 <= base'[t]
  BY <1>1, <1>3 DEF Reservation
<1>9. Reservation'
  BY <1>1, <1>2, <1>6, <1>7, <1>8 DEF Reservation
<1>10. Altered'
  BY <1>1, <1>2, <1>3, <1>4 DEF Altered
<1>. QED  BY <1>2, <1>5, <1>9, <1>10 DEF IInv, Allowed, Honoured, Promise!vars

-----------------------------------------------------------------------------
(* The theorems. *)

LEMMA Start == Init => IInv /\ Promise!Init
<1>. SUFFICES ASSUME Init PROVE IInv /\ Promise!Init
  OBVIOUS
<1>. Max \in Nat \ {0} /\ Alters \in Nat /\ ID \subseteq Nat
  BY AutoIDAssumption DEF ID
<1>1. TypeOK
  BY DEF Init, TypeOK
<1>2. Reservation
  BY DEF Init, Reservation, InRange
<1>3. Altered
  BY DEF Init, Altered
<1>. QED  BY <1>1, <1>2, <1>3 DEF IInv, Init, Promise!Init

LEMMA Step == IInv /\ [Next]_vars => IInv' /\ Allowed /\ Honoured
<1>. SUFFICES ASSUME IInv, [Next]_vars PROVE IInv' /\ Allowed /\ Honoured
  OBVIOUS
<1>1. CASE \E s \in Server, v \in Bases : Rebase(s, v)
  BY <1>1, RebaseStep
<1>2. CASE \E s \in Server : \/ \E v \in Wanted : RebaseUndetermined(s, v)
                             \/ \E c \in Call : AllocUndetermined(s, c) \/ AllocFails(s, c)
  BY <1>2, LostCommits
<1>3. CASE \E s \in Server, c \in Call : AllocRebase(s, c)
  BY <1>3, AllocRebaseStep
<1>4. CASE \E s \in Server, c \in Call : AllocLocal(s, c)
  BY <1>4, AllocLocalStep
<1>5. CASE \E s \in Server, c \in Call : AllocRange(s, c)
  BY <1>5, AllocRangeStep
<1>6. CASE \E s \in Server : LoadSchema(s) \/ Restart(s)
  BY <1>6, NewAllocatorStep DEF LoadSchema, Restart
<1>7. CASE (\E v \in Bases : AdjustNewBase(v)) \/ RunRebaseAutoID
  BY <1>7, AlterSteps
<1>8. CASE UNCHANGED vars
  <2>1. IInv'
    BY <1>8 DEF vars, IInv, TypeOK, Reservation, Altered, InRange
  <2>2. Allowed /\ Honoured
    BY <1>8 DEF vars, Allowed, Honoured, Promise!vars
  <2>. QED  BY <2>1, <2>2
<1>. QED  BY <1>1, <1>2, <1>3, <1>4, <1>5, <1>6, <1>7, <1>8 DEF Next

\* The counter, the ranges and the arithmetic on them stay within the width of the ID column.
THEOREM Typing == Spec => []TypeOK
<1>1. Spec => []IInv
  BY Start, Step, PTL DEF Spec
<1>2. IInv => TypeOK
  BY DEF IInv
<1>. QED  BY <1>1, <1>2, PTL

\* The allocators of any number of servers keep the promise: no ID twice, and each server
\* above all it handed out or was told of, through lost commits, restarts and ALTER TABLE.
THEOREM Refinement == Spec => Implements
<1>1. Init => IInv /\ Promise!Init
  BY Start
<1>2. IInv /\ [Next]_vars => IInv' /\ [Promise!Next]_(Promise!vars)
  BY Step DEF Allowed
<1>. QED  BY <1>1, <1>2, PTL DEF Spec, Implements, Promise!Spec

\* Once every server has loaded an ALTER TABLE AUTO_INCREMENT, no smaller ID is handed out.
THEOREM Altering == Spec => RebaseHonoured
<1>1. Init => IInv
  BY Start
<1>2. IInv /\ [Next]_vars => IInv' /\ Honoured
  BY Step
<1>. QED  BY <1>1, <1>2, PTL DEF Spec, RebaseHonoured, Honoured
=============================================================================
