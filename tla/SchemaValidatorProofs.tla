----------------------- MODULE SchemaValidatorProofs -----------------------
(* The queue of deltas of a schema validator (domain/schema_validator.go) is   *)
(* bounded and merged, and still a faithful history: the invariant says that   *)
(* each delta has every change since the delta before it (Covers), and no      *)
(* change that is older than a version in use below it (Exact). That no stale  *)
(* transaction passes Check rests on the first, that none is failed for        *)
(* nothing on the second.                                                      *)
EXTENDS SchemaValidator, SequenceTheorems, WellFoundedInduction, TLAPS

USE ZenonT(3), SMTT(30)    \* the provers of a step that names none

-----------------------------------------------------------------------------
(* Induction, and the contents of a flattened sequence. *)

\* A set of numbers that is not empty has a least one.
LEMMA LeastNumber ==
    ASSUME NEW T, T \subseteq Nat, T # {}
    PROVE  \E m \in T : \A k \in T : m <= k
<1>1. PICK m \in T : \A k \in T : ~(<<k, m>> \in OpToRel(<, Nat))
    BY NatLessThanWellFounded, WFMin
<1>2. \A k \in T : ~(k < m)
    BY <1>1 DEF OpToRel
<1> QED BY <1>2

\* Induction over the natural numbers, as a fact about a set.
LEMMA SetInduction ==
    ASSUME NEW T, 0 \in T, \A n \in Nat : n \in T => n + 1 \in T
    PROVE  \A n \in Nat : n \in T
<1> DEFINE Out == {n \in Nat : n \notin T}
<1> SUFFICES ASSUME Out # {} PROVE FALSE
    OBVIOUS
<1>1. Out \subseteq Nat
    OBVIOUS
<1>2. PICK m \in Out : \A k \in Out : m <= k
  <2> HIDE DEF Out
  <2> QED BY <1>1, LeastNumber
<1>3. m \in Nat /\ m # 0 /\ m \notin T
    OBVIOUS
<1>4. m - 1 \in Nat /\ ~(m <= m - 1)
    BY <1>3
<1>5. m - 1 \in T
    BY <1>2, <1>4
<1>6. (m - 1) + 1 \in T
    BY <1>4, <1>5
<1>7. (m - 1) + 1 = m
    BY <1>3
<1> QED BY <1>3, <1>6, <1>7

\* A concatenation holds what its two parts hold.
LEMMA ConcatContents ==
    ASSUME NEW S, NEW s \in Seq(S), NEW t \in Seq(S)
    PROVE  s \o t \in Seq(S) /\ ToSet(s \o t) = ToSet(s) \cup ToSet(t)
<1>0. /\ Len(s) \in Nat /\ Len(t) \in Nat
      /\ DOMAIN s = 1..Len(s) /\ DOMAIN t = 1..Len(t)
    OBVIOUS
<1>1. s \o t \in Seq(S) /\ Len(s \o t) = Len(s) + Len(t)
    OBVIOUS
<1>2. DOMAIN (s \o t) = 1..Len(s) + Len(t)
    BY <1>1
<1>3. \A i \in 1..Len(s) : (s \o t)[i] = s[i] /\ i \in 1..Len(s) + Len(t)
    BY <1>0
<1>4. \A i \in 1..Len(t) : (s \o t)[Len(s) + i] = t[i] /\ Len(s) + i \in 1..Len(s) + Len(t)
    BY <1>0
<1>5. \A i \in 1..Len(s) + Len(t) : i \in 1..Len(s) \/ \E k \in 1..Len(t) : i = Len(s) + k
  <2> TAKE i \in 1..Len(s) + Len(t)
  <2> SUFFICES ASSUME i \notin 1..Len(s) PROVE \E k \in 1..Len(t) : i = Len(s) + k
    OBVIOUS
  <2>1. i - Len(s) \in 1..Len(t) /\ i = Len(s) + (i - Len(s))
    BY <1>0
  <2> QED BY <2>1
<1>6. ASSUME NEW p \in ToSet(s \o t) PROVE p \in ToSet(s) \cup ToSet(t)
  <2>1. PICK i \in 1..Len(s) + Len(t) : p = (s \o t)[i]
    BY <1>2 DEF ToSet
  <2>2. CASE i \in 1..Len(s)
    BY <2>1, <2>2, <1>0, <1>3 DEF ToSet
  <2>3. ASSUME NEW k \in 1..Len(t), i = Len(s) + k PROVE p \in ToSet(t)
    BY <2>1, <2>3, <1>0, <1>4 DEF ToSet
  <2> QED BY <2>2, <2>3, <1>5
<1>7. ASSUME NEW p \in ToSet(s) \cup ToSet(t) PROVE p \in ToSet(s \o t)
  <2>1. CASE p \in ToSet(s)
    <3>1. PICK i \in 1..Len(s) : p = s[i]
        BY <2>1, <1>0 DEF ToSet
    <3> QED BY <3>1, <1>2, <1>3 DEF ToSet
  <2>2. CASE p \in ToSet(t)
    <3>1. PICK i \in 1..Len(t) : p = t[i]
        BY <2>2, <1>0 DEF ToSet
    <3> QED BY <3>1, <1>2, <1>4 DEF ToSet
  <2> QED BY <2>1, <2>2
<1> QED BY <1>1, <1>6, <1>7

\* What tryLoadSchemaDiffs gathers holds what the diffs hold: FlattenSeq, a recursive function, has
\* the elements of all its parts. The function exists by induction on its domain.
LEMMA FlattenSeqContents ==
    ASSUME NEW S, NEW ss \in Seq(Seq(S))
    PROVE  /\ FlattenSeq(ss) \in Seq(S)
           /\ \A p : p \in ToSet(FlattenSeq(ss)) <=> \E i \in 1..Len(ss) : p \in ToSet(ss[i])
<1> DEFINE N == Len(ss)
           Step(g, i) == IF i = 1 THEN ss[i] ELSE g[i - 1] \o ss[i]
           Body(g, n) == [i \in 1..n |-> Step(g, i)]
           flatten == CHOOSE g : g = Body(g, N)
<1>0. N \in Nat /\ ss \in [1..N -> Seq(S)]
    OBVIOUS
<1>1. CASE N = 0
  <2>1. FlattenSeq(ss) = <<>>
    BY <1>1 DEF FlattenSeq
  <2> QED BY <2>1, <1>1 DEF ToSet
<1>2. CASE N # 0
  <2>1. FlattenSeq(ss) = flatten[N]
    BY <1>2 DEF FlattenSeq
  <2>2. \E g : g = Body(g, N)
    <3> DEFINE Has(n) == \E g : g = Body(g, n)
               T == {n \in Nat : Has(n)}
    <3>1. Has(0)
        OBVIOUS
    <3>2. ASSUME NEW n \in Nat, Has(n) PROVE Has(n + 1)
      <4>1. PICK g : g = Body(g, n)
        BY <3>2
      <4> DEFINE h == Body(g, n + 1)
      <4>2. \A i \in 1..n + 1 : h[i] = Step(g, i)
        <5> HIDE DEF Step
        <5> QED OBVIOUS
      <4>3. \A i \in 1..n : g[i] = Step(g, i)
        <5> HIDE DEF Step
        <5> QED BY <4>1
      <4>4. \A i \in 1..n : h[i] = g[i]
        <5> HIDE DEF Step, h
        <5> QED BY <4>2, <4>3
      <4>5. ASSUME NEW i \in 1..n + 1 PROVE Step(h, i) = Step(g, i)
        <5>1. CASE i = 1
            BY <5>1
        <5>2. CASE i # 1
          <6>1. i - 1 \in 1..n
            BY <5>2
          <6>2. h[i - 1] = g[i - 1]
            <7> HIDE DEF h
            <7> QED BY <6>1, <4>4
          <6> HIDE DEF h
          <6> QED BY <6>2
        <5> QED BY <5>1, <5>2
      <4>6. h = Body(h, n + 1)
        <5> HIDE DEF Step
        <5> QED BY <4>5
      <4> QED BY <4>6
    <3> HIDE DEF Has
    <3>3. 0 \in T /\ \A n \in Nat : n \in T => n + 1 \in T
        BY <3>1, <3>2
    <3>4. Has(N)
      <4> HIDE DEF T
      <4>1. N \in T
        BY <3>3, <1>0, SetInduction
      <4> QED BY <4>1 DEF T
    <3> QED BY <3>4 DEF Has
  <2>3. flatten = Body(flatten, N)
    <3> HIDE DEF Body
    <3> QED BY <2>2
  <2> HIDE DEF flatten
  <2>4. \A n \in 1..N : flatten[n] = Step(flatten, n)
    <3> HIDE DEF Step
    <3> QED BY <2>3
  <2> DEFINE Good(n) == /\ flatten[n] \in Seq(S)
                        /\ \A p : p \in ToSet(flatten[n]) <=> \E i \in 1..n : p \in ToSet(ss[i])
             T == {n \in Nat : n \in 1..N => Good(n)}
  <2>5. ASSUME NEW n \in Nat, n + 1 \in 1..N, n \in 1..N => Good(n) PROVE Good(n + 1)
    <3>0. ss[n + 1] \in Seq(S)
        BY <2>5, <1>0
    <3>1. CASE n = 0
      <4>1. flatten[n + 1] = ss[n + 1]
        BY <2>4, <2>5, <3>1
      <4>2. \A i \in 1..n + 1 : i = n + 1
        BY <3>1
      <4>3. n + 1 \in 1..n + 1
        OBVIOUS
      <4> HIDE DEF flatten, Step
      <4> QED BY <4>1, <4>2, <4>3, <3>0
    <3>2. CASE n # 0
      <4>1. Good(n)
        <5> HIDE DEF Good
        <5> QED BY <2>5, <3>2, <1>0
      <4>2. flatten[n + 1] = flatten[n] \o ss[n + 1]
        <5>1. (n + 1) - 1 = n /\ n + 1 # 1
            BY <3>2
        <5> QED BY <2>4, <2>5, <5>1
      <4>3. flatten[n + 1] \in Seq(S) /\ ToSet(flatten[n + 1]) = ToSet(flatten[n]) \cup ToSet(ss[n + 1])
        BY <4>1, <4>2, <3>0, ConcatContents
      <4>4. 1..n + 1 = 1..n \cup {n + 1}
        OBVIOUS
      <4> QED BY <4>1, <4>3, <4>4
    <3> QED BY <3>1, <3>2
  <2>6. 0 \in T /\ \A n \in Nat : n \in T => n + 1 \in T
    <3> HIDE DEF Good
    <3> QED BY <2>5, SMTT(30)
  <2>7. Good(N)
    <3> HIDE DEF Good
    <3>1. N \in T
      <4> HIDE DEF T
      <4> QED BY <2>6, <1>0, SetInduction
    <3> QED BY <3>1, <1>0, <1>2
  <2> QED BY <2>1, <2>7
<1> QED BY <1>1, <1>2

-----------------------------------------------------------------------------
(* The queue of deltas. *)

\* A table and what was done to it.
Pair == Table \X Action

\* A delta of a server that loaded versions up to ld, and a queue of them.
Entry(ld) == [ver : 1..ld, related : Seq(Pair)]

Queue(ld) == Seq(Entry(ld))

\* Every delta but the oldest records all changes since the delta before it.
Covers(ch, D) ==
    \A k \in 2..Len(D) : \A x \in D[k - 1].ver + 1..D[k].ver :
        ToSet(ch[x]) \subseteq ToSet(D[k].related)

\* A delta records only changes that are newer than any version in use that is older than it: merging
\* deltas never makes a change look newer than it is.
Exact(ch, us, D) ==
    \A k \in 1..Len(D) : \A v \in us : v < D[k].ver =>
        \A p \in ToSet(D[k].related) : \E x \in v + 1..D[k].ver : p \in ToSet(ch[x])

\* The queue ends with the loaded version, and is complete and exact.
Records(ch, us, ld, D) ==
    /\ D \in Queue(ld)
    /\ D # <<>> => D[Len(D)].ver = ld
    /\ Covers(ch, D)
    /\ Exact(ch, us, D)

\* The change that a diff load passes to Update is the union of the diffs between the versions.
LEMMA GatheredContents ==
    ASSUME changed \in Seq(Change), NEW from \in Nat, NEW to \in from..Latest
    PROVE  /\ Gathered(from, to) \in Seq(Pair)
           /\ \A p : p \in ToSet(Gathered(from, to)) <=>
                        \E x \in from + 1..to : p \in ToSet(changed[x])
<1> DEFINE ss == SubSeq(changed, from + 1, to)
<1>0. Latest \in Nat /\ changed \in [1..Latest -> Change]
    BY DEF Latest
<1>1. ASSUME NEW c \in Change PROVE c \in Seq(Pair)
  <2>1. CASE c = <<>>
    BY <2>1
  <2>2. ASSUME NEW t \in Table, NEW a \in Action, c = <<<<t, a>>>> PROVE c \in Seq(Pair)
    <3> DEFINE q == <<t, a>>
    <3>1. q \in Pair
        BY DEF Pair
    <3> HIDE DEF q
    <3>2. <<q>> \in Seq(Pair)
        BY <3>1
    <3> QED BY <3>2, <2>2 DEF q
  <2> QED BY <2>1, <2>2 DEF Change, NoChange
<1>2. \A x \in from + 1..to : changed[x] \in Seq(Pair)
    BY <1>0, <1>1
<1>3. /\ ss \in Seq(Seq(Pair)) /\ Len(ss) = to - from
      /\ \A i \in 1..to - from : ss[i] = changed[from + i]
    BY <1>0, <1>2 DEF Latest
<1>4. /\ Gathered(from, to) \in Seq(Pair)
      /\ \A p : p \in ToSet(Gathered(from, to)) <=> \E i \in 1..Len(ss) : p \in ToSet(ss[i])
  <2> HIDE DEF ss
  <2>1. /\ FlattenSeq(ss) \in Seq(Pair)
        /\ \A p : p \in ToSet(FlattenSeq(ss)) <=> \E i \in 1..Len(ss) : p \in ToSet(ss[i])
    BY <1>3, FlattenSeqContents
  <2> QED BY <2>1 DEF Gathered, ss
<1> HIDE DEF ss
<1>5. \A x \in from + 1..to : x - from \in 1..to - from /\ ss[x - from] = changed[x]
  <2> TAKE x \in from + 1..to
  <2>1. x - from \in 1..to - from /\ from + (x - from) = x
    BY <1>0
  <2> QED BY <2>1, <1>3
<1>6. \A i \in 1..to - from : from + i \in from + 1..to
    BY <1>0
<1>7. ASSUME NEW p
      PROVE  (\E i \in 1..Len(ss) : p \in ToSet(ss[i])) <=> (\E x \in from + 1..to : p \in ToSet(changed[x]))
    BY <1>3, <1>5, <1>6
<1> QED BY <1>4, <1>7

\* What a queue of deltas is made of.
LEMMA QueueFacts ==
    ASSUME NEW ld \in Nat, NEW D \in Queue(ld)
    PROVE  /\ Len(D) \in Nat
           /\ Len(D) = 0 <=> D = <<>>
           /\ \A k \in 1..Len(D) : D[k] \in Entry(ld) /\ D[k].ver \in 1..ld
<1>1. Len(D) \in Nat /\ (Len(D) = 0 <=> D = <<>>) /\ \A k \in 1..Len(D) : D[k] \in Entry(ld)
    BY DEF Queue
<1>2. ASSUME NEW e \in Entry(ld) PROVE e.ver \in 1..ld
    BY DEF Entry
<1> QED BY <1>1, <1>2

\* An empty queue (after Stop and Reset) is complete and exact.
LEMMA EmptyRecords ==
    ASSUME NEW ch, NEW us, NEW ld
    PROVE  Records(ch, us, ld, <<>>)
BY DEF Records, Queue, Covers, Exact

\* The queue M keeps the first n - 1 deltas of D and ends with one for version new, which covers all
\* changes since the delta before it and has only changes after version ld.
Extends(ch, us, ld, new, D, n, M) ==
    /\ new \in Nat /\ ld \in Nat /\ ld <= new /\ us \subseteq 1..ld
    /\ Len(D) \in Nat /\ \A k \in 1..Len(D) : D[k].ver \in 1..ld
    /\ n \in 1..Len(D) + 1 /\ Len(M) = n /\ \A k \in 1..n - 1 : M[k] = D[k]
    /\ M[n].ver = new
    /\ n > 1 => \A x \in D[n - 1].ver + 1..new : ToSet(ch[x]) \subseteq ToSet(M[n].related)
    /\ \A p \in ToSet(M[n].related) : \E x \in ld + 1..new : p \in ToSet(ch[x])

\* Such a queue is complete and exact again, with new as a further version in use.
LEMMA ExtendedRecords ==
    ASSUME NEW ch, NEW us, NEW ld, NEW new, NEW D, NEW n, NEW M,
           Extends(ch, us, ld, new, D, n, M), Covers(ch, D), Exact(ch, us, D)
    PROVE  Covers(ch, M) /\ Exact(ch, us \cup {new}, M)
<1>0. /\ new \in Nat /\ ld \in Nat /\ ld <= new /\ us \subseteq 1..ld
      /\ Len(D) \in Nat /\ \A k \in 1..Len(D) : D[k].ver \in 1..ld
      /\ n \in 1..Len(D) + 1 /\ Len(M) = n /\ \A k \in 1..n - 1 : M[k] = D[k]
      /\ M[n].ver = new
    BY DEF Extends
<1>1. ASSUME NEW k \in 2..Len(M), NEW x \in M[k - 1].ver + 1..M[k].ver
      PROVE  ToSet(ch[x]) \subseteq ToSet(M[k].related)
  <2>1. CASE k = n
    <3>1. n > 1 /\ k - 1 = n - 1 /\ n - 1 \in 1..n - 1
        BY <2>1, <1>0
    <3>2. M[k - 1] = D[n - 1]
        BY <3>1, <1>0
    <3>3. x \in D[n - 1].ver + 1..new
        BY <2>1, <3>2, <1>0
    <3> QED BY <2>1, <3>1, <3>3 DEF Extends
  <2>2. CASE k # n
    <3>1. k \in 2..Len(D) /\ k \in 1..n - 1 /\ k - 1 \in 1..n - 1
        BY <2>2, <1>0
    <3>2. M[k] = D[k] /\ M[k - 1] = D[k - 1]
        BY <3>1, <1>0
    <3> QED BY <3>1, <3>2 DEF Covers
  <2> QED BY <2>1, <2>2
<1>2. ASSUME NEW k \in 1..Len(M), NEW v \in us \cup {new}, v < M[k].ver,
             NEW p \in ToSet(M[k].related)
      PROVE  \E x \in v + 1..M[k].ver : p \in ToSet(ch[x])
  <2>1. CASE k = n
    <3>1. v \in 1..ld
        BY <2>1, <1>0, <1>2
    <3>2. PICK x \in ld + 1..new : p \in ToSet(ch[x])
        BY <2>1 DEF Extends
    <3>3. x \in v + 1..new
        BY <3>1, <1>0
    <3> QED BY <2>1, <3>2, <3>3, <1>0
  <2>2. CASE k # n
    <3>1. k \in 1..Len(D) /\ k \in 1..n - 1
        BY <2>2, <1>0
    <3>2. M[k] = D[k] /\ D[k].ver \in 1..ld
        BY <3>1, <1>0
    <3>3. v \in us
        BY <3>1, <3>2, <1>0, <1>2
    <3> QED BY <3>1, <3>2, <3>3, <1>2 DEF Exact
  <2> QED BY <2>1, <2>2
<1> QED BY ONLY <1>1, <1>2 DEF Covers, Exact

\* enqueue before it looks at the length: d replaces the last delta if it contains it.
Merged(D, d) ==
    IF Len(D) > 1 /\ containIn(Last(D), d) THEN [D EXCEPT ![Len(D)] = d] ELSE Append(D, d)

\* The merged queue is the old one up to some place, and ends with the new delta there.
LEMMA MergedQueue ==
    ASSUME NEW ld \in Nat, NEW new \in Nat, ld <= new, NEW D \in Queue(ld), NEW d \in Entry(new)
    PROVE  /\ Merged(D, d) \in Queue(new)
           /\ \E n \in 1..Len(D) + 1 :
                /\ Len(Merged(D, d)) = n /\ Merged(D, d)[n] = d
                /\ \A k \in 1..n - 1 : Merged(D, d)[k] = D[k]
                /\ \/ n = Len(D) /\ n > 1 /\ containIn(D[n], d)
                   \/ n = Len(D) + 1
<1> DEFINE E == Entry(new)
           N == Len(D)
           M == Merged(D, d)
<1>1. N \in Nat
    BY QueueFacts
<1>2. \A e \in Entry(ld) : e \in E
    BY DEF Entry
<1>3. D \in Seq(E)
    BY <1>2, SeqMonotonic DEF Queue
<1>4. CASE N > 1 /\ containIn(D[N], d)
  <2>1. M = [D EXCEPT ![N] = d]
    BY <1>4 DEF Merged, Last
  <2> HIDE DEF E, N, M
  <2>2. N \in 1..N /\ N \in 1..N + 1
    BY <1>1, <1>4
  <2>3. M \in Seq(E) /\ Len(M) = N /\ \A k \in 1..N : M[k] = IF k = N THEN d ELSE D[k]
    BY <2>1, <2>2, <1>3, ExceptSeq DEF E, N
  <2>4. \A k \in 1..N - 1 : k \in 1..N /\ k # N
    BY <1>1
  <2>5. /\ Len(M) = N /\ M[N] = d
        /\ \A k \in 1..N - 1 : M[k] = D[k]
        /\ N > 1 /\ containIn(D[N], d)
    BY <2>2, <2>3, <2>4, <1>4
  <2> QED BY <2>2, <2>3, <2>5 DEF Queue, E, N, M
<1>5. CASE ~(N > 1 /\ containIn(D[N], d))
  <2>1. M = Append(D, d)
    BY <1>5 DEF Merged, Last
  <2> HIDE DEF E, N, M
  <2>2. M \in Seq(E) /\ Len(M) = N + 1 /\ M[N + 1] = d /\ \A k \in 1..N : M[k] = D[k]
    BY <2>1, <1>3, AppendProperties DEF E, N
  <2>3. N + 1 \in 1..N + 1 /\ (N + 1) - 1 = N
    BY <1>1
  <2> QED BY <2>2, <2>3 DEF Queue, E, N, M
<1> QED BY <1>4, <1>5

\* Merging keeps the queue complete (the new delta contains the one it replaces) and exact.
LEMMA MergedRecords ==
    ASSUME NEW ch, NEW ld \in Nat, NEW us \in SUBSET (1..ld), NEW D, Records(ch, us, ld, D),
           NEW new \in Nat \ {0}, ld <= new, NEW c \in Seq(Pair),
           D # <<>> => \A x \in ld + 1..new : ToSet(ch[x]) \subseteq ToSet(c),
           \A p \in ToSet(c) : \E x \in ld + 1..new : p \in ToSet(ch[x])
    PROVE  /\ Records(ch, us \cup {new}, new, Merged(D, Delta(new, c)))
           /\ Merged(D, Delta(new, c)) # <<>>
           /\ Len(Merged(D, Delta(new, c))) <= Len(D) + 1
<1> DEFINE d == Delta(new, c)
           N == Len(D)
           M == Merged(D, d)
<1>1. d \in Entry(new) /\ d.ver = new /\ d.related = c
    BY DEF Delta, Entry
<1> HIDE DEF d
<1>2. D \in Queue(ld) /\ Covers(ch, D) /\ Exact(ch, us, D) /\ (D # <<>> => D[N].ver = ld)
    BY DEF Records
<1>3. N \in Nat
    BY <1>2, QueueFacts
<1>4. \A k \in 1..N : D[k].ver \in 1..ld
    BY <1>2, QueueFacts
<1>5. PICK n \in 1..N + 1 :
        /\ Len(M) = n /\ M[n] = d
        /\ \A k \in 1..n - 1 : M[k] = D[k]
        /\ \/ n = N /\ n > 1 /\ containIn(D[n], d)
           \/ n = N + 1
    BY <1>1, <1>2, MergedQueue
<1>6. M \in Queue(new)
    BY <1>1, <1>2, MergedQueue
<1> HIDE DEF M
<1>7. M # <<>> /\ Len(M) <= N + 1 /\ M[Len(M)].ver = new
  <2>1. Len(M) # 0
    BY <1>5
  <2> QED BY <2>1, <1>1, <1>5
<1>8. n > 1 => \A x \in D[n - 1].ver + 1..new : ToSet(ch[x]) \subseteq ToSet(c)
  <2> SUFFICES ASSUME n > 1, NEW x \in D[n - 1].ver + 1..new PROVE ToSet(ch[x]) \subseteq ToSet(c)
    OBVIOUS
  <2>1. n - 1 \in 1..N /\ N # 0
    BY <1>3
  <2>2. D # <<>> /\ D[n - 1].ver \in 1..ld
    BY <2>1, <1>4
  <2>3. CASE n = N + 1
    <3>1. D[n - 1].ver = ld
        BY <2>2, <2>3, <1>2, <1>3
    <3> QED BY <3>1, <2>2
  <2>4. CASE n = N /\ containIn(D[n], d)
    <3>1. ToSet(D[n].related) \subseteq ToSet(c)
        BY <2>4, <1>1 DEF containIn
    <3>2. x \in ld + 1..new \/ x \in D[n - 1].ver + 1..ld
        BY <2>2
    <3>3. CASE x \in ld + 1..new
        BY <3>3, <2>2
    <3>4. CASE x \in D[n - 1].ver + 1..ld
      <4>1. n \in 2..Len(D) /\ D[n].ver = ld
        BY <2>2, <2>4, <1>2
      <4>2. ToSet(ch[x]) \subseteq ToSet(D[n].related)
        BY <4>1, <3>4, <1>2 DEF Covers
      <4> QED BY <4>2, <3>1
    <3> QED BY <3>2, <3>3, <3>4
  <2> QED BY <2>3, <2>4, <1>5
<1>9. Extends(ch, us, ld, new, D, n, M)
    BY <1>1, <1>3, <1>4, <1>5, <1>8 DEF Extends
<1>10. Covers(ch, M) /\ Exact(ch, us \cup {new}, M)
    BY ONLY <1>2, <1>9, ExtendedRecords
<1> QED BY <1>6, <1>7, <1>10 DEF Records, M, d

\* The oldest delta may be dropped: nothing relies on what the first delta covers.
LEMMA TailRecords ==
    ASSUME NEW ch, NEW us, NEW ld \in Nat, NEW M, Records(ch, us, ld, M), Len(M) > 1
    PROVE  Records(ch, us, ld, Tail(M)) /\ Len(Tail(M)) = Len(M) - 1
<1> DEFINE E == Entry(ld)
           N == Len(M)
           T == Tail(M)
<1>1. M \in Seq(E) /\ N \in Nat /\ M # <<>> /\ M[N].ver = ld /\ Covers(ch, M) /\ Exact(ch, us, M)
    BY DEF Records, Queue
<1> HIDE DEF E
<1>2. T \in Seq(E) /\ Len(T) = N - 1 /\ \A k \in 1..N - 1 : T[k] = M[k + 1]
    BY <1>1
<1> HIDE DEF T
<1>3. T # <<>> => T[Len(T)].ver = ld
  <2>1. N - 1 \in 1..N - 1 /\ (N - 1) + 1 = N
    BY <1>1
  <2> QED BY <2>1, <1>1, <1>2
<1>4. ASSUME NEW k \in 2..Len(T), NEW x \in T[k - 1].ver + 1..T[k].ver
      PROVE  ToSet(ch[x]) \subseteq ToSet(T[k].related)
  <2>1. k \in 1..N - 1 /\ k - 1 \in 1..N - 1 /\ (k - 1) + 1 = (k + 1) - 1 /\ k + 1 \in 2..Len(M)
    BY <1>1, <1>2, SMTT(30)
  <2>2. T[k] = M[k + 1] /\ T[k - 1] = M[(k + 1) - 1]
    BY <2>1, <1>2
  <2> QED BY <2>1, <2>2, <1>1 DEF Covers
<1>5. ASSUME NEW k \in 1..Len(T), NEW v \in us, v < T[k].ver, NEW p \in ToSet(T[k].related)
      PROVE  \E x \in v + 1..T[k].ver : p \in ToSet(ch[x])
  <2>1. k \in 1..N - 1 /\ k + 1 \in 1..Len(M)
    BY <1>1, <1>2
  <2>2. T[k] = M[k + 1]
    BY <2>1, <1>2
  <2> QED BY <2>1, <2>2, <1>1, <1>5 DEF Exact
<1>6. Covers(ch, T) /\ Exact(ch, us, T)
    BY ONLY <1>4, <1>5 DEF Covers, Exact
<1> QED BY <1>2, <1>3, <1>6 DEF Records, Queue, T, E

\* enqueue keeps the queue complete, exact and within tidb_max_delta_schema_count.
LEMMA EnqueueRecords ==
    ASSUME NEW ch, NEW ld \in Nat, NEW us \in SUBSET (1..ld), NEW D, Records(ch, us, ld, D),
           Len(D) <= MaxDeltaSchemaCount,
           NEW new \in Nat \ {0}, ld <= new, NEW c \in Seq(Pair),
           D # <<>> => \A x \in ld + 1..new : ToSet(ch[x]) \subseteq ToSet(c),
           \A p \in ToSet(c) : \E x \in ld + 1..new : p \in ToSet(ch[x])
    PROVE  /\ Records(ch, us \cup {new}, new, enqueue(D, Delta(new, c)))
           /\ Len(enqueue(D, Delta(new, c))) <= MaxDeltaSchemaCount
<1> DEFINE M == Merged(D, Delta(new, c))
           R == enqueue(D, Delta(new, c))
<1>1. R = IF MaxDeltaSchemaCount = 0 THEN D ELSE IF Len(M) > MaxDeltaSchemaCount THEN Tail(M) ELSE M
    BY DEF enqueue, Merged
<1>2. Records(ch, us \cup {new}, new, M) /\ M # <<>> /\ Len(M) <= Len(D) + 1
    BY MergedRecords
<1>3. Len(D) \in Nat /\ MaxDeltaSchemaCount \in Nat /\ (Len(D) = 0 => D = <<>>)
    BY DeltaAssumption DEF Records, Queue
<1> HIDE DEF M, R
<1>4. Len(M) \in Nat
    BY <1>2 DEF Records, Queue
<1>5. CASE MaxDeltaSchemaCount = 0
  <2>1. R = <<>>
    BY <1>1, <1>3, <1>5
  <2> QED BY <2>1, <1>5, EmptyRecords DEF R
<1>6. CASE MaxDeltaSchemaCount # 0 /\ Len(M) > MaxDeltaSchemaCount
  <2>1. R = Tail(M) /\ Len(M) > 1
    BY <1>1, <1>3, <1>4, <1>6
  <2>2. Records(ch, us \cup {new}, new, R) /\ Len(R) = Len(M) - 1
    BY <1>2, <2>1, TailRecords
  <2>3. Len(R) <= MaxDeltaSchemaCount
    BY <1>2, <1>3, <1>4, <2>2
  <2> QED BY <2>2, <2>3 DEF R
<1>7. CASE MaxDeltaSchemaCount # 0 /\ ~(Len(M) > MaxDeltaSchemaCount)
  <2>1. R = M /\ Len(M) <= MaxDeltaSchemaCount
    BY <1>1, <1>3, <1>4, <1>7
  <2> QED BY <2>1, <1>2 DEF R
<1> QED BY <1>5, <1>6, <1>7

-----------------------------------------------------------------------------
(* The inductive invariant. *)

\* The type of a validator on a server that loaded version ld.
Validator(ld) == [started : BOOLEAN, latest : 0..ld, fresh : BOOLEAN, deltas : Queue(ld)]

\* A stopped validator has no deltas, and one with deltas knows the loaded version as its latest.
ValidatorInv(ch, us, ld, v) ==
    /\ v \in Validator(ld)
    /\ Len(v.deltas) <= MaxDeltaSchemaCount
    /\ ~v.started => v.deltas = <<>>
    /\ v.deltas # <<>> => v.latest = ld
    /\ Records(ch, us, ld, v.deltas)

\* The invariant of the whole module.
Inv ==
    /\ changed \in Seq(Change) /\ Latest <= MaxVersion
    /\ loaded \in 1..Latest
    /\ used \subseteq 1..loaded
    /\ ValidatorInv(changed, used, loaded, validator)

\* Update, after a load of version new: a stopped validator ignores it, another one enqueues.
LEMMA UpdateInv ==
    ASSUME NEW ch, NEW ld \in Nat, NEW us \in SUBSET (1..ld), NEW v, ValidatorInv(ch, us, ld, v),
           NEW new \in Nat \ {0}, ld <= new, NEW old \in Nat, old # new, NEW c \in Seq(Pair),
           v.deltas # <<>> => \A x \in ld + 1..new : ToSet(ch[x]) \subseteq ToSet(c),
           \A p \in ToSet(c) : \E x \in ld + 1..new : p \in ToSet(ch[x])
    PROVE  ValidatorInv(ch, us \cup {new}, new, Update(v, old, new, c))
<1> DEFINE D == v.deltas
           E == enqueue(D, Delta(new, c))
           w == Update(v, old, new, c)
<1>1. /\ v \in Validator(ld) /\ Len(D) <= MaxDeltaSchemaCount
      /\ (~v.started => D = <<>>) /\ Records(ch, us, ld, D)
    BY DEF ValidatorInv
<1>2. CASE ~v.started
  <2>1. w = v /\ D = <<>>
    BY <1>1, <1>2 DEF Update
  <2>2. v \in [started : BOOLEAN, latest : 0..ld, fresh : BOOLEAN, deltas : Queue(ld)]
    BY <1>1 DEF Validator
  <2>3. <<>> \in Queue(new)
    BY DEF Queue
  <2>4. v.latest \in 0..new
    BY <2>2
  <2>5. v \in Validator(new)
    BY <2>1, <2>2, <2>3, <2>4 DEF Validator
  <2>6. Records(ch, us \cup {new}, new, <<>>)
    BY EmptyRecords
  <2> QED BY <2>1, <2>5, <2>6, <1>1 DEF ValidatorInv
<1>3. CASE v.started
  <2>1. Records(ch, us \cup {new}, new, E) /\ Len(E) <= MaxDeltaSchemaCount
    BY <1>1, EnqueueRecords
  <2>2. E \in Queue(new)
    BY <2>1 DEF Records
  <2> HIDE DEF E
  <2>3. w = [v EXCEPT !.latest = new, !.fresh = TRUE, !.deltas = E]
    BY <1>3 DEF Update, E
  <2> HIDE DEF w, D
  <2>4. /\ w \in Validator(new)
        /\ w.started = TRUE /\ w.latest = new /\ w.deltas = E
    <3>1. new \in 0..new
        OBVIOUS
    <3>2. v \in [started : BOOLEAN, latest : 0..ld, fresh : BOOLEAN, deltas : Queue(ld)]
        BY <1>1 DEF Validator
    <3>3. /\ w \in [started : BOOLEAN, latest : 0..new, fresh : BOOLEAN, deltas : Queue(new)]
          /\ w.started = TRUE /\ w.latest = new /\ w.deltas = E
        BY ONLY <1>3, <2>2, <2>3, <3>1, <3>2
    <3> QED BY <3>3 DEF Validator
  <2>5. ValidatorInv(ch, us \cup {new}, new, w)
    BY <2>1, <2>4 DEF ValidatorInv
  <2> QED BY <2>5 DEF w
<1>4. v.started \in BOOLEAN
    BY <1>1 DEF Validator
<1> QED BY <1>2, <1>3, <1>4

\* Reset, Stop, Restart and the end of the lease keep the invariant of the validator.
LEMMA ClearedInv ==
    ASSUME NEW ch, NEW us, NEW ld \in Nat, NEW v, ValidatorInv(ch, us, ld, v)
    PROVE  /\ ValidatorInv(ch, us, ld, Reset(v)) /\ Reset(v).deltas = <<>>
           /\ ValidatorInv(ch, us, ld, Stop(v))
           /\ ValidatorInv(ch, us, ld, Restart(v))
           /\ ValidatorInv(ch, us, ld, [v EXCEPT !.fresh = FALSE])
<1>1. v \in Validator(ld) /\ Len(v.deltas) <= MaxDeltaSchemaCount
    BY DEF ValidatorInv
<1>2. <<>> \in Queue(ld) /\ Len(<<>>) = 0 /\ Records(ch, us, ld, <<>>)
    BY EmptyRecords DEF Queue
<1>3. 0 \in 0..ld /\ 0 <= MaxDeltaSchemaCount
    BY DeltaAssumption
<1>4. Reset(v) \in Validator(ld) /\ Reset(v).deltas = <<>> /\ Reset(v).started
    BY <1>1, <1>2, <1>3 DEF Reset, Validator
<1>5. Stop(v) \in Validator(ld) /\ Stop(v).deltas = <<>>
    BY <1>1, <1>2, <1>3 DEF Stop, Validator
<1>6. /\ Restart(v) \in Validator(ld)
      /\ Restart(v).deltas = v.deltas /\ Restart(v).latest = v.latest /\ Restart(v).started
    BY <1>1 DEF Restart, Validator
<1>7. /\ [v EXCEPT !.fresh = FALSE] \in Validator(ld)
      /\ [v EXCEPT !.fresh = FALSE].deltas = v.deltas
      /\ [v EXCEPT !.fresh = FALSE].latest = v.latest
      /\ [v EXCEPT !.fresh = FALSE].started = v.started
    BY <1>1 DEF Validator
<1>8. ValidatorInv(ch, us, ld, Reset(v))
    BY <1>2, <1>3, <1>4 DEF ValidatorInv
<1>9. ValidatorInv(ch, us, ld, Stop(v))
    BY <1>2, <1>3, <1>5 DEF ValidatorInv
<1>10. ValidatorInv(ch, us, ld, Restart(v))
    BY <1>6 DEF ValidatorInv
<1>11. ValidatorInv(ch, us, ld, [v EXCEPT !.fresh = FALSE])
    BY <1>7 DEF ValidatorInv
<1> QED BY <1>4, <1>8, <1>9, <1>10, <1>11

\* The first load gives the invariant.
LEMMA InitInv == Init => Inv
<1> SUFFICES ASSUME Init PROVE Inv
    OBVIOUS
<1>1. changed = <<<<>>>> /\ loaded = 1 /\ used = {1}
    BY DEF Init, NoChange
<1>2. Len(changed) = 1 /\ changed[1] = <<>>
    BY <1>1
<1>3. changed \in Seq(Change) /\ Latest = 1
  <2>1. <<>> \in Change
    BY DEF Change, NoChange
  <2> QED BY <2>1, <1>1 DEF Latest
<1>4. NewValidator \in Validator(0) /\ NewValidator.deltas = <<>> /\ NewValidator.started = TRUE
  <2>1. <<>> \in Queue(0)
    BY DEF Queue
  <2> QED BY <2>1 DEF NewValidator, Validator
<1>5. ValidatorInv(changed, {}, 0, NewValidator)
  <2>1. Records(changed, {}, 0, <<>>)
    BY EmptyRecords
  <2>2. Len(<<>>) <= MaxDeltaSchemaCount
    BY DeltaAssumption
  <2> QED BY <2>1, <2>2, <1>4 DEF ValidatorInv
<1>6. ValidatorInv(changed, {} \cup {1}, 1, Update(NewValidator, 0, 1, <<>>))
  <2>1. <<>> \in Seq(Pair) /\ ToSet(<<>>) = {}
    BY DEF ToSet
  <2>2. {} \in SUBSET (1..0) /\ 0 \in Nat /\ 1 \in Nat \ {0} /\ 0 <= 1 /\ 0 # 1
    OBVIOUS
  <2> QED BY <2>1, <2>2, <1>4, <1>5, UpdateInv
<1>7. {} \cup {1} = used /\ used \subseteq 1..1 /\ loaded \in 1..1 /\ 1 <= MaxVersion
    BY <1>1, VersionAssumption
<1>8. ValidatorInv(changed, used, loaded, validator)
    BY <1>1, <1>6, <1>7 DEF Init, NoChange
<1> QED BY <1>1, <1>3, <1>7, <1>8 DEF Inv

\* A version the server has not loaded does not matter to its queue.
LEMMA GrownRecords ==
    ASSUME NEW ch, NEW us, NEW ld \in Nat, us \subseteq Nat, NEW D, NEW ch2,
           \A x \in 1..ld : ch2[x] = ch[x], Records(ch, us, ld, D)
    PROVE  Records(ch2, us, ld, D)
<1>1. D \in Queue(ld) /\ Covers(ch, D) /\ Exact(ch, us, D)
    BY DEF Records
<1>2. Len(D) \in Nat /\ \A k \in 1..Len(D) : D[k].ver \in 1..ld
    BY <1>1, QueueFacts
<1>3. ASSUME NEW k \in 2..Len(D), NEW x \in D[k - 1].ver + 1..D[k].ver
      PROVE  ToSet(ch2[x]) \subseteq ToSet(D[k].related)
  <2>1. k \in 1..Len(D) /\ k - 1 \in 1..Len(D)
    BY <1>2
  <2>2. x \in 1..ld
    BY <2>1, <1>2
  <2>3. ToSet(ch[x]) \subseteq ToSet(D[k].related)
    BY <1>1 DEF Covers
  <2> QED BY <2>2, <2>3
<1>4. ASSUME NEW k \in 1..Len(D), NEW v \in us, v < D[k].ver, NEW p \in ToSet(D[k].related)
      PROVE  \E x \in v + 1..D[k].ver : p \in ToSet(ch2[x])
  <2>1. PICK x \in v + 1..D[k].ver : p \in ToSet(ch[x])
    BY <1>1, <1>4 DEF Exact
  <2>2. x \in 1..ld
    BY <1>2
  <2> QED BY <2>1, <2>2
<1>5. Covers(ch2, D) /\ Exact(ch2, us, D)
    BY ONLY <1>3, <1>4 DEF Covers, Exact
<1> QED BY <1>1, <1>5 DEF Records

\* A new version is committed.
LEMMA NewVersionInv == Inv /\ NewVersion => Inv'
<1> SUFFICES ASSUME Inv, NewVersion PROVE Inv'
    OBVIOUS
<1>1. /\ changed \in Seq(Change) /\ Latest <= MaxVersion /\ loaded \in 1..Latest /\ used \subseteq 1..loaded
      /\ ValidatorInv(changed, used, loaded, validator)
    BY DEF Inv
<1>2. PICK c \in Change : changed' = Append(changed, c)
    BY DEF NewVersion
<1>3. Latest \in Nat /\ Latest < MaxVersion /\ loaded' = loaded /\ used' = used /\ validator' = validator
    BY <1>1 DEF NewVersion, Latest
<1>4. /\ changed' \in Seq(Change) /\ Len(changed') = Latest + 1
      /\ \A x \in 1..Latest : changed'[x] = changed[x]
    BY <1>1, <1>2, AppendProperties DEF Latest
<1>5. Latest' = Latest + 1
    BY <1>4 DEF Latest
<1>6. loaded \in Nat /\ \A x \in 1..loaded : changed'[x] = changed[x]
    BY <1>1, <1>3, <1>4
<1>7. Records(changed', used, loaded, validator.deltas)
  <2>1. Records(changed, used, loaded, validator.deltas)
    BY <1>1 DEF ValidatorInv
  <2>2. used \subseteq Nat
    BY <1>1
  <2> QED BY <1>6, <2>1, <2>2, GrownRecords
<1>8. ValidatorInv(changed', used, loaded, validator)
    BY <1>1, <1>7 DEF ValidatorInv
<1>9. Latest' <= MaxVersion /\ loaded \in 1..Latest'
    BY <1>1, <1>3, <1>5, VersionAssumption
<1> QED BY <1>1, <1>3, <1>4, <1>8, <1>9 DEF Inv

\* What a load does beside the validator.
LEMMA LoadInv ==
    ASSUME Inv, NEW v, Load(v), ValidatorInv(changed, used \cup {Latest}, Latest, v)
    PROVE  Inv'
<1>1. /\ changed \in Seq(Change) /\ Latest <= MaxVersion /\ loaded \in 1..Latest /\ used \subseteq 1..loaded
    BY DEF Inv
<1>2. loaded' = Latest /\ used' = used \cup {Latest} /\ validator' = v /\ changed' = changed
    BY DEF Load
<1>3. Latest \in Nat /\ Latest' = Latest
    BY <1>1, <1>2 DEF Latest
<1>4. Latest \in 1..Latest /\ used \cup {Latest} \subseteq 1..Latest
    BY <1>1, <1>3
<1> QED BY <1>1, <1>2, <1>3, <1>4 DEF Inv

\* The three outcomes of Domain.Reload.
LEMMA ReloadInv == Inv /\ (ReloadHit \/ ReloadDiff \/ ReloadFull) => Inv'
<1> SUFFICES ASSUME Inv, ReloadHit \/ ReloadDiff \/ ReloadFull PROVE Inv'
    OBVIOUS
<1>1. /\ changed \in Seq(Change) /\ Latest <= MaxVersion /\ loaded \in 1..Latest /\ used \subseteq 1..loaded
      /\ ValidatorInv(changed, used, loaded, validator)
    BY DEF Inv
<1>2. /\ Latest \in Nat \ {0} /\ loaded \in Nat \ {0} /\ loaded <= Latest /\ used \in SUBSET (1..loaded)
      /\ 0 # Latest
    BY <1>1 DEF Latest
<1>3. <<>> \in Seq(Pair) /\ ToSet(<<>>) = {}
    BY DEF ToSet
<1>4. CASE ReloadHit
  <2>1. loaded = Latest /\ Load(Update(validator, 0, Latest, <<>>))
    BY <1>4 DEF ReloadHit, NoChange
  <2>2. loaded + 1..Latest = {}
    BY <1>2, <2>1
  <2>3. ValidatorInv(changed, used \cup {Latest}, Latest, Update(validator, 0, Latest, <<>>))
    BY <1>1, <1>2, <1>3, <2>2, UpdateInv
  <2> QED BY <2>1, <2>3, LoadInv
<1>5. CASE ReloadDiff
  <2> DEFINE c == Gathered(loaded, Latest)
  <2>1. loaded < Latest /\ Load(Update(validator, loaded, Latest, c))
    BY <1>5 DEF ReloadDiff
  <2>2. loaded # Latest /\ Latest \in loaded..Latest
    BY <1>2, <2>1
  <2>3. /\ c \in Seq(Pair)
        /\ \A p : p \in ToSet(c) <=> \E x \in loaded + 1..Latest : p \in ToSet(changed[x])
    BY <1>1, <1>2, <2>2, GatheredContents
  <2> HIDE DEF c
  <2>4. /\ \A x \in loaded + 1..Latest : ToSet(changed[x]) \subseteq ToSet(c)
        /\ \A p \in ToSet(c) : \E x \in loaded + 1..Latest : p \in ToSet(changed[x])
    BY <2>3
  <2>5. ValidatorInv(changed, used \cup {Latest}, Latest, Update(validator, loaded, Latest, c))
    BY <1>1, <1>2, <2>2, <2>3, <2>4, UpdateInv
  <2> QED BY <2>1, <2>5, LoadInv
<1>6. CASE ReloadFull
  <2>1. loaded < Latest /\ Load(Update(Reset(validator), loaded, Latest, <<>>))
    BY <1>6 DEF ReloadFull, NoChange
  <2>2. loaded # Latest
    BY <1>2, <2>1
  <2>3. ValidatorInv(changed, used, loaded, Reset(validator)) /\ Reset(validator).deltas = <<>>
    BY <1>1, <1>2, ClearedInv
  <2>4. ValidatorInv(changed, used \cup {Latest}, Latest, Update(Reset(validator), loaded, Latest, <<>>))
    BY <1>2, <1>3, <2>2, <2>3, UpdateInv
  <2> QED BY <2>1, <2>4, LoadInv
<1> QED BY <1>4, <1>5, <1>6

\* The lease runs out, and the etcd session is lost and comes back.
LEMMA SessionInv == Inv /\ (Expire \/ SessionLost \/ SessionBack) => Inv'
<1> SUFFICES ASSUME Inv, Expire \/ SessionLost \/ SessionBack PROVE Inv'
    OBVIOUS
<1>1. /\ changed \in Seq(Change) /\ Latest <= MaxVersion /\ loaded \in 1..Latest /\ used \subseteq 1..loaded
      /\ ValidatorInv(changed, used, loaded, validator)
    BY DEF Inv
<1>2. loaded \in Nat
    BY <1>1 DEF Latest
<1>3. changed' = changed /\ loaded' = loaded /\ used' = used
    BY DEF Expire, SessionLost, SessionBack
<1>4. ValidatorInv(changed, used, loaded, validator')
  <2>1. /\ ValidatorInv(changed, used, loaded, Stop(validator))
        /\ ValidatorInv(changed, used, loaded, Restart(validator))
        /\ ValidatorInv(changed, used, loaded, [validator EXCEPT !.fresh = FALSE])
    BY <1>1, <1>2, ClearedInv
  <2>2. \/ validator' = Stop(validator) \/ validator' = Restart(validator)
        \/ validator' = [validator EXCEPT !.fresh = FALSE]
    BY DEF Expire, SessionLost, SessionBack
  <2> QED BY ONLY <2>1, <2>2
<1>5. Latest' = Latest
    BY <1>3 DEF Latest
<1> QED BY <1>1, <1>3, <1>4, <1>5 DEF Inv

\* A transaction ends.
LEMMA ForgetInv == Inv /\ Forget => Inv'
<1> SUFFICES ASSUME Inv, Forget PROVE Inv'
    OBVIOUS
<1>1. /\ changed \in Seq(Change) /\ Latest <= MaxVersion /\ loaded \in 1..Latest /\ used \subseteq 1..loaded
      /\ ValidatorInv(changed, used, loaded, validator)
    BY DEF Inv
<1>2. changed' = changed /\ loaded' = loaded /\ validator' = validator /\ used' \subseteq used
    BY DEF Forget
<1>3. Records(changed, used', loaded, validator.deltas)
    BY <1>1, <1>2 DEF ValidatorInv, Records, Exact
<1>4. ValidatorInv(changed, used', loaded, validator)
    BY <1>1, <1>3 DEF ValidatorInv
<1>5. Latest' = Latest
    BY <1>2 DEF Latest
<1> QED BY <1>1, <1>2, <1>4, <1>5 DEF Inv

\* The queue of deltas is a complete and exact record of the history it covers, for any tables,
\* actions and number of versions and any size of the queue (Update, enqueue, Reset, Stop).
THEOREM History == Spec => []Inv
<1>1. ASSUME Inv, UNCHANGED vars PROVE Inv'
    BY <1>1 DEF vars, Inv, Latest
<1>2. Inv /\ [Next]_vars => Inv'
    BY <1>1, NewVersionInv, ReloadInv, SessionInv, ForgetInv DEF Next
<1> QED BY InitInv, <1>2, PTL DEF Spec

\* Every variable keeps its type, and the queue its bound.
THEOREM Typing == Spec => []TypeOK
<1>1. ASSUME Inv PROVE TypeOK
  <2>1. validator \in Validator(loaded) /\ Len(validator.deltas) <= MaxDeltaSchemaCount
    BY <1>1 DEF Inv, ValidatorInv
  <2>2. validator \in [started : BOOLEAN, latest : 0..loaded, fresh : BOOLEAN,
                       deltas : Seq([ver : 1..loaded, related : Seq(Table \X Action)])]
    BY <2>1 DEF Validator, Queue, Entry, Pair
  <2> QED BY <1>1, <2>1, <2>2 DEF Inv, TypeOK
<1> QED BY History, <1>1, PTL

\* findNewerDeltas returns the deltas after the last one that is not newer than version v.
LEMMA NewerDeltas ==
    ASSUME NEW ld \in Nat, NEW D \in Queue(ld), NEW v \in Nat
    PROVE  \E pos \in 0..Len(D) :
             /\ \A k \in pos + 1..Len(D) : D[k].ver > v
             /\ pos > 0 => D[pos].ver <= v
             /\ Len(findNewerDeltas(D, v)) = Len(D) - pos
             /\ \A d : d \in ToSet(findNewerDeltas(D, v)) <=> \E k \in pos + 1..Len(D) : d = D[k]
<1> DEFINE N == Len(D)
           old == {i \in DOMAIN D : D[i].ver <= v}
           pos == IF old = {} THEN 0 ELSE CHOOSE i \in old : \A k \in old : k <= i
<1>1. N \in Nat /\ DOMAIN D = 1..N /\ \A k \in 1..N : D[k].ver \in 1..ld
  <2>1. DOMAIN D = 1..N
    BY DEF Queue
  <2> QED BY <2>1, QueueFacts
<1>2. old \subseteq 1..N
    BY <1>1
<1>3. ASSUME old # {} PROVE \E i \in old : \A k \in old : k <= i
  <2> DEFINE R == {N - i : i \in old}
  <2>1. R \subseteq Nat /\ R # {}
    BY <1>1, <1>2, <1>3
  <2>2. PICK m \in R : \A k \in R : m <= k
    <3> HIDE DEF R
    <3> QED BY <2>1, LeastNumber
  <2>3. PICK i \in old : m = N - i
    OBVIOUS
  <2>4. \A k \in old : N - i <= N - k
    BY <2>2, <2>3
  <2>5. \A k \in old : k <= i
    BY <2>4, <1>1, <1>2
  <2> QED BY <2>5
<1>4. pos \in 0..N /\ (pos > 0 => pos \in old) /\ \A k \in old : k <= pos
  <2> HIDE DEF old
  <2>1. CASE old = {}
    BY <2>1, <1>1
  <2>2. CASE old # {}
    <3>1. pos \in old /\ \A k \in old : k <= pos
        BY <2>2, <1>3
    <3> HIDE DEF pos
    <3> QED BY <3>1, <1>1, <1>2
  <2> QED BY <2>1, <2>2
<1>5. findNewerDeltas(D, v) = SubSeq(D, pos + 1, N)
    BY DEF findNewerDeltas
<1> HIDE DEF pos
<1>6. \A k \in pos + 1..N : D[k].ver > v
  <2> TAKE k \in pos + 1..N
  <2>1. k \in 1..N /\ ~(k <= pos)
    BY <1>1, <1>4
  <2>2. k \notin old
    BY <2>1, <1>4
  <2> QED BY <2>1, <2>2, <1>1
<1>7. pos > 0 => D[pos].ver <= v
    BY <1>4
<1> HIDE DEF old
<1> DEFINE F == SubSeq(D, pos + 1, N)
<1>8. D \in Seq(Entry(ld))
    BY DEF Queue
<1>9. Len(F) = N - pos /\ DOMAIN F = 1..N - pos /\ \A i \in 1..N - pos : F[i] = D[pos + i]
  <2> DEFINE m == pos + 1
  <2>1. m \in Int /\ N \in Int /\ N - m + 1 = N - pos /\ \A i \in m..N : D[i] \in Entry(ld)
    BY <1>1, <1>4, <1>8
  <2>2. /\ F \in Seq(Entry(ld)) /\ Len(F) = IF m <= N THEN N - m + 1 ELSE 0
        /\ \A i \in 1..N - m + 1 : F[i] = D[m + i - 1]
    <3> HIDE DEF N, m
    <3> QED BY ONLY <2>1, SubSeqProperties DEF F, m
  <2> HIDE DEF F
  <2>3. Len(F) = N - pos /\ DOMAIN F = 1..N - pos
    <3>1. F \in Seq(Entry(ld)) /\ DOMAIN F = 1..Len(F)
        BY ONLY <2>2
    <3>2. (IF m <= N THEN N - m + 1 ELSE 0) = N - pos
      <4> HIDE DEF N
      <4>1. pos \in Nat /\ N \in Nat /\ pos <= N
        BY ONLY <1>1, <1>4
      <4> QED BY ONLY <4>1
    <3> QED BY ONLY <3>1, <3>2, <2>2
  <2>4. ASSUME NEW i \in 1..N - pos PROVE F[i] = D[pos + i]
    <3>1. m + i - 1 = pos + i /\ i \in 1..N - m + 1
        BY <1>1, <1>4, <2>1
    <3> QED BY <3>1, <2>2
  <2> QED BY <2>3, <2>4
<1> HIDE DEF F
<1>10. ASSUME NEW d PROVE d \in ToSet(F) <=> \E k \in pos + 1..N : d = D[k]
  <2>1. ASSUME d \in ToSet(F) PROVE \E k \in pos + 1..N : d = D[k]
    <3>1. PICK i \in 1..N - pos : d = F[i]
        BY <2>1, <1>9 DEF ToSet
    <3>2. pos + i \in pos + 1..N
        BY <1>1, <1>4
    <3> QED BY <3>1, <3>2, <1>9
  <2>2. ASSUME NEW k \in pos + 1..N, d = D[k] PROVE d \in ToSet(F)
    <3>1. k - pos \in 1..N - pos /\ pos + (k - pos) = k
        BY <1>1, <1>4
    <3>2. d = F[k - pos]
        BY <3>1, <1>9, <2>2
    <3> QED BY <3>1, <3>2, <1>9 DEF ToSet
  <2> QED BY <2>1, <2>2
<1> QED BY <1>4, <1>5, <1>6, <1>7, <1>9, <1>10 DEF F

\* What the two answers of Check mean for a version older than the latest one.
LEMMA CheckFacts ==
    ASSUME NEW v \in Nat, NEW t, validator.latest \in Nat, v < validator.latest
    PROVE  /\ Check(validator, v, {t}, TRUE) = "Succ" =>
                validator.started /\ ~isRelatedTablesChanged(validator, v, {t})
           /\ Check(validator, v, {t}, TRUE) = "Fail" =>
                validator.started /\ isRelatedTablesChanged(validator, v, {t})
BY DEF Check

\* No transaction of an old version passes Check when one of its tables was changed since. Take the
\* change's version x and the first newer delta that reaches x: the one before it does not, so the
\* delta covers x, and Check sees the table.
THEOREM NoStaleCommit == Spec => []StaleNeverPasses
<1>1. ASSUME Inv PROVE StaleNeverPasses
  <2> SUFFICES ASSUME NEW v \in used, NEW t \in Table,
                      v < validator.latest, Check(validator, v, {t}, TRUE) = "Succ",
                      t \in Touched(v, validator.latest)
               PROVE  FALSE
    BY DEF StaleNeverPasses
  <2> DEFINE D == validator.deltas
             N == Len(D)
             newer == findNewerDeltas(D, v)
  <2>1. /\ changed \in Seq(Change) /\ loaded \in 1..Latest /\ used \subseteq 1..loaded
        /\ ValidatorInv(changed, used, loaded, validator)
    BY <1>1 DEF Inv
  <2>2. /\ validator \in Validator(loaded) /\ D \in Queue(loaded) /\ Covers(changed, D)
        /\ D # <<>> => validator.latest = loaded /\ D[N].ver = loaded
    BY <2>1 DEF ValidatorInv, Records
  <2>3. v \in Nat /\ loaded \in Nat /\ Latest \in Nat /\ validator.latest \in 0..loaded
    BY <2>1, <2>2 DEF Latest, Validator
  <2>4. ~isRelatedTablesChanged(validator, v, {t})
    <3>1. validator.latest \in Nat
        BY <2>3
    <3> QED BY <2>3, <3>1, CheckFacts
  <2>5. /\ D # <<>> /\ Len(newer) # N
        /\ \A d \in ToSet(newer) : \A p \in ToSet(d.related) : p[1] # t
    BY <2>4 DEF isRelatedTablesChanged
  <2> HIDE DEF newer
  <2>6. PICK pos \in 0..N :
           /\ \A k \in pos + 1..N : D[k].ver > v
           /\ pos > 0 => D[pos].ver <= v
           /\ Len(newer) = N - pos
           /\ \A d : d \in ToSet(newer) <=> \E k \in pos + 1..N : d = D[k]
    BY <2>2, <2>3, NewerDeltas DEF newer
  <2>7. N \in Nat \ {0} /\ \A k \in 1..N : D[k].ver \in 1..loaded
    BY <2>2, <2>3, <2>5, QueueFacts
  <2>8. pos > 0 /\ pos # N
    <3>1. pos # 0
        BY <2>5, <2>6, <2>7
    <3>2. pos # N
        BY <2>2, <2>3, <2>5, <2>6, <2>7, <3>1
    <3> QED BY <3>1, <3>2
  <2>9. validator.latest = loaded /\ D[N].ver = loaded
    BY <2>2, <2>5
  <2>10. PICK p \in ToSet(Gathered(v, loaded)) : t = p[1]
    BY <2>9 DEF Touched
  <2>11. PICK x \in v + 1..loaded : p \in ToSet(changed[x])
    <3>1. loaded \in v..Latest
        BY <2>1, <2>3, <2>9
    <3> QED BY <2>1, <2>3, <3>1, GatheredContents
  <2> DEFINE T == {k \in pos + 1..N : D[k].ver >= x}
  <2>12. T \subseteq Nat /\ N \in T
    BY <2>3, <2>7, <2>8, <2>9
  <2>13. PICK k \in T : \A i \in T : k <= i
    <3> HIDE DEF T
    <3> QED BY <2>12, LeastNumber
  <2>14. k \in pos + 1..N /\ k \in 2..N /\ k - 1 \in 1..N /\ D[k].ver >= x
    BY <2>7, <2>8
  <2>15. D[k - 1].ver \in Nat /\ D[k].ver \in Nat /\ x \in Nat
    <3> HIDE DEF D, N, T
    <3>1. D[k - 1].ver \in 1..loaded /\ D[k].ver \in 1..loaded
        BY ONLY <2>7, <2>14
    <3> QED BY ONLY <3>1, <2>3, x \in v + 1..loaded
  <2>16. D[k - 1].ver < x
    <3>1. CASE k - 1 = pos
        BY <3>1, <2>3, <2>6, <2>7, <2>8
    <3>2. CASE k - 1 # pos
      <4>1. k - 1 \in pos + 1..N /\ ~(k <= k - 1)
        BY <3>2, <2>7, <2>14
      <4>2. k - 1 \notin T
        <5> HIDE DEF T
        <5> QED BY <4>1, <2>13
      <4>3. ~(D[k - 1].ver >= x)
        BY <4>1, <4>2
      <4> QED BY ONLY <4>3, <2>15
    <3> QED BY <3>1, <3>2
  <2>17. x \in D[k - 1].ver + 1..D[k].ver
    BY ONLY <2>14, <2>15, <2>16
  <2>18. p \in ToSet(D[k].related)
    BY <2>2, <2>11, <2>14, <2>17 DEF Covers
  <2>19. D[k] \in ToSet(newer)
    BY <2>6, <2>14
  <2> QED BY <2>5, <2>10, <2>18, <2>19
<1> QED BY History, <1>1, PTL

\* Check fails no transaction that the queue covers unless a table of it was changed since: the delta
\* that names the table is newer than the transaction's version, and exact.
THEOREM NoNeedlessAbort == Spec => []NoSpuriousAbort
<1>1. ASSUME Inv PROVE NoSpuriousAbort
  <2> SUFFICES ASSUME NEW v \in used, NEW t \in Table,
                      validator.deltas # <<>>, validator.deltas[1].ver <= v,
                      Check(validator, v, {t}, TRUE) = "Fail"
               PROVE  t \in Touched(v, validator.latest)
    BY DEF NoSpuriousAbort
  <2> DEFINE D == validator.deltas
             N == Len(D)
             newer == findNewerDeltas(D, v)
  <2>1. /\ changed \in Seq(Change) /\ loaded \in 1..Latest /\ used \subseteq 1..loaded
        /\ ValidatorInv(changed, used, loaded, validator)
    BY <1>1 DEF Inv
  <2>2. /\ validator \in Validator(loaded) /\ D \in Queue(loaded) /\ Exact(changed, used, D)
        /\ validator.latest = loaded
    BY <2>1 DEF ValidatorInv, Records
  <2>3. v \in Nat /\ loaded \in Nat /\ Latest \in Nat /\ v <= loaded
    BY <2>1 DEF Latest
  <2>4. v < validator.latest
    BY <2>2, <2>3 DEF Check
  <2>5. isRelatedTablesChanged(validator, v, {t})
    BY <2>2, <2>3, <2>4, CheckFacts
  <2> HIDE DEF newer
  <2>6. PICK pos \in 0..N :
           /\ \A k \in pos + 1..N : D[k].ver > v
           /\ pos > 0 => D[pos].ver <= v
           /\ Len(newer) = N - pos
           /\ \A d : d \in ToSet(newer) <=> \E k \in pos + 1..N : d = D[k]
    BY <2>2, <2>3, NewerDeltas DEF newer
  <2>7. N \in Nat \ {0} /\ \A k \in 1..N : D[k].ver \in 1..loaded
    BY <2>2, <2>3, QueueFacts
  <2>8. pos # 0
    BY <2>3, <2>6, <2>7
  <2>9. Len(newer) # N
    BY <2>6, <2>7, <2>8
  <2>10. PICK d \in ToSet(newer) : \E p \in ToSet(d.related) : p[1] = t
    BY <2>5, <2>9 DEF isRelatedTablesChanged, newer
  <2>11. PICK p \in ToSet(d.related) : p[1] = t
    BY <2>10
  <2>12. PICK k \in pos + 1..N : d = D[k]
    BY <2>6
  <2>13. k \in 1..N /\ v < D[k].ver /\ D[k].ver <= loaded
    BY <2>3, <2>6, <2>7
  <2>14. PICK x \in v + 1..D[k].ver : p \in ToSet(changed[x])
    BY <2>2, <2>10, <2>12, <2>13 DEF Exact
  <2>15. x \in v + 1..loaded /\ loaded \in v..Latest
    BY <2>1, <2>3, <2>7, <2>13
  <2>16. p \in ToSet(Gathered(v, loaded))
    BY <2>1, <2>3, <2>14, <2>15, GatheredContents
  <2> QED BY <2>2, <2>11, <2>16 DEF Touched
<1> QED BY History, <1>1, PTL
=============================================================================
