-------------------------- MODULE WorkQueues_proofs --------------------------
(***************************************************************************)
(* Proofs about WorkQueues, for any finite sets of clients and queues, any *)
(* work items and any number of references to them.                        *)
(***************************************************************************)
EXTENDS WorkQueues, FiniteSetTheorems, SequenceTheorems, WellFoundedInduction,
        TLAPS

\* A nonempty set of natural numbers has a least element.
LEMMA LeastNat ==
    ASSUME NEW S \in SUBSET Nat, S # {}
    PROVE  \E x \in S : \A y \in S : x <= y
<1> DEFINE R == OpToRel(<, Nat)
<1>1. IsWellFoundedOn(R, Nat)
  BY NatLessThanWellFounded
<1>2. \A x, y \in Nat : y < x => <<y, x>> \in R
  BY DEF OpToRel
<1> HIDE DEF R
<1>3. PICK x \in S : \A y \in S : ~(<<y, x>> \in R)
  BY <1>1, WFMin
<1>4. ASSUME NEW y \in S PROVE x <= y
  <2>1. x \in Nat /\ y \in Nat
    OBVIOUS
  <2>2. ~(y < x)
    BY <1>2, <1>3, <2>1, Zenon
  <2> QED BY <2>1, <2>2
<1> QED BY <1>4

-----------------------------------------------------------------------------
(* SimpleTls.                                                              *)

\* The vector of SimpleTls: sorted by thread, without duplicates.
Sorted == \A i, j \in 1..Len(tls) : i < j => tls[i][1] < tls[j][1]

\* Queues are numbered.
LEMMA QueueNat == \A q \in Queues : q \in Nat
BY WorkAssumption

\* The size of an interval.
LEMMA IntervalSize ==
    ASSUME NEW n \in Nat
    PROVE  Cardinality(1..n) = n
BY FS_Interval

\* Bisection finds the border between the smaller threads and the others.
LEMMA TlsBorder ==
    ASSUME tls \in Seq(Queues \X Queues), Sorted, NEW q \in Queues
    PROVE  /\ TlsPos(q) \in 1..Len(tls)+1
           /\ \A j \in 1..Len(tls) : j < TlsPos(q) <=> tls[j][1] < q
<1> DEFINE n == Len(tls)
           S == {j \in 1..n : ~(tls[j][1] < q)} \cup {n + 1}
           B == {j \in DOMAIN tls : tls[j][1] < q}
<1>1. n \in Nat /\ DOMAIN tls = 1..n /\ \A j \in 1..n : tls[j][1] \in Nat
  BY QueueNat
<1>2. S \in SUBSET Nat /\ S # {}
  BY <1>1
<1>3. PICK k \in S : \A y \in S : k <= y
  BY <1>2, LeastNat
<1>4. k \in 1..n+1
  BY <1>1, <1>3
<1>5. \A j \in 1..n : j < k <=> tls[j][1] < q
  <2> SUFFICES ASSUME NEW j \in 1..n PROVE j < k <=> tls[j][1] < q
    OBVIOUS
  <2>1. ASSUME j < k PROVE tls[j][1] < q
    <3>1. j \notin S
      BY <1>1, <1>3, <1>4, <2>1
    <3> QED BY <3>1
  <2>2. ASSUME ~(j < k) PROVE ~(tls[j][1] < q)
    <3>1. k \in 1..n /\ ~(tls[k][1] < q)
      BY <1>1, <1>3, <1>4, <2>2
    <3>2. CASE k = j
      BY <3>1, <3>2
    <3>3. CASE k < j
      <4>1. tls[k][1] < tls[j][1]
        BY <3>1, <3>3 DEF Sorted
      <4> QED BY <1>1, <3>1, <4>1, QueueNat
    <3> QED BY <1>1, <1>4, <2>2, <3>2, <3>3
  <2> QED BY <2>1, <2>2
<1>6. B = 1..k-1
  BY <1>1, <1>4, <1>5
<1>7. Cardinality(B) = k - 1
  <2>1. k - 1 \in Nat
    BY <1>1, <1>4
  <2> QED BY <1>6, <2>1, IntervalSize
<1>8. TlsPos(q) = k
  BY <1>1, <1>4, <1>7 DEF TlsPos
<1> QED BY <1>4, <1>5, <1>8

\* Looking up a thread that is in the table.
LEMMA TlsFound ==
    ASSUME tls \in Seq(Queues \X Queues), Sorted, NEW q \in Queues,
           NEW i \in 1..Len(tls), tls[i] = <<q, q>>
    PROVE  TlsGet(q) = q
<1>1. Len(tls) \in Nat /\ i \in Nat /\ \A j \in 1..Len(tls) : tls[j][1] \in Nat
  BY QueueNat
<1>2. TlsPos(q) \in 1..Len(tls)+1
  BY TlsBorder
<1>3. ~(i < TlsPos(q))
  <2>1. ~(tls[i][1] < q)
    BY QueueNat
  <2> QED BY <2>1, TlsBorder
<1>4. ~(TlsPos(q) < i)
  <2> SUFFICES ASSUME TlsPos(q) < i PROVE FALSE
    OBVIOUS
  <2>1. TlsPos(q) \in 1..Len(tls)
    BY <1>1, <1>2
  <2>2. tls[TlsPos(q)][1] < q
    BY <1>1, <2>1 DEF Sorted
  <2>3. TlsPos(q) < TlsPos(q)
    BY <2>1, <2>2, TlsBorder
  <2> QED BY <1>1, <1>2, <2>3
<1>5. TlsPos(q) = i
  BY <1>1, <1>2, <1>3, <1>4
<1> QED BY <1>1, <1>5 DEF TlsGet, TlsHas

\* Where Vec::insert puts an element and the others.
LEMMA InsertElements ==
    ASSUME NEW S, NEW s \in Seq(S), NEW p \in 1..Len(s)+1, NEW e \in S
    PROVE  /\ InsertAt(s, p, e) \in Seq(S)
           /\ Len(InsertAt(s, p, e)) = Len(s) + 1
           /\ \A i \in 1..Len(s)+1 : InsertAt(s, p, e)[i] =
                 IF i < p THEN s[i] ELSE IF i = p THEN e ELSE s[i-1]
<1> DEFINE a == SubSeq(s, 1, p-1)
           c == SubSeq(s, p, Len(s))
<1>0. Len(s) \in Nat /\ p \in Nat /\ p >= 1 /\ p <= Len(s) + 1
  OBVIOUS
<1>1. /\ a \in Seq(S) /\ Len(a) = p - 1
      /\ \A i \in 1..p-1 : a[i] = s[i]
  BY <1>0, SubSeqProperties
<1>2. /\ c \in Seq(S) /\ Len(c) = Len(s) - p + 1
      /\ \A i \in 1..Len(s)-p+1 : c[i] = s[p+i-1]
  BY <1>0, SubSeqProperties
<1>3. <<e>> \in Seq(S) /\ Len(<<e>>) = 1 /\ <<e>>[1] = e
  OBVIOUS
<1> HIDE DEF a, c
<1> DEFINE b == a \o <<e>>
<1>4. /\ b \in Seq(S) /\ Len(b) = p
      /\ \A i \in 1..p : b[i] = IF i < p THEN s[i] ELSE e
  <2>1. /\ b \in Seq(S) /\ Len(b) = p
        /\ \A i \in 1..p : b[i] = IF i <= p - 1 THEN a[i] ELSE <<e>>[i - (p-1)]
    BY <1>0, <1>1, <1>3, ConcatProperties
  <2> HIDE DEF b
  <2>2. \A i \in 1..p : b[i] = IF i < p THEN s[i] ELSE e
    <3> SUFFICES ASSUME NEW i \in 1..p PROVE b[i] = IF i < p THEN s[i] ELSE e
      OBVIOUS
    <3>1. CASE i < p
      BY <1>0, <1>1, <2>1, <3>1
    <3>2. CASE i = p
      <4>1. i - (p-1) = 1 /\ ~(i <= p-1)
        BY <1>0, <3>2
      <4>2. b[i] = <<e>>[i - (p-1)]
        BY <2>1, <4>1
      <4>3. b[i] = e
        BY <1>3, <4>1, <4>2
      <4>4. ~(i < p)
        BY <1>0, <3>2
      <4> QED BY <4>3, <4>4
    <3>3. i < p \/ i = p
      BY <1>0
    <3> QED BY <3>1, <3>2, <3>3
  <2> QED BY <2>1, <2>2
<1> HIDE DEF b
<1>5. /\ b \o c \in Seq(S) /\ Len(b \o c) = Len(s) + 1
      /\ \A i \in 1..Len(s)+1 : (b \o c)[i] = IF i <= p THEN b[i] ELSE c[i - p]
  BY <1>0, <1>2, <1>4, ConcatProperties
<1>6. ASSUME NEW i \in 1..Len(s)+1
      PROVE  (b \o c)[i] = IF i < p THEN s[i] ELSE IF i = p THEN e ELSE s[i-1]
  <2>1. CASE i <= p
    BY <1>0, <1>4, <1>5, <2>1
  <2>2. CASE i > p
    <3>1. i - p \in 1..Len(s)-p+1 /\ p + (i - p) - 1 = i - 1
      BY <1>0, <2>2
    <3> QED BY <1>0, <1>2, <1>5, <2>2, <3>1
  <2>3. i <= p \/ i > p
    BY <1>0
  <2> QED BY <2>1, <2>2, <2>3
<1>7. InsertAt(s, p, e) = b \o c
  BY DEF InsertAt, a, b, c
<1> QED BY <1>5, <1>6, <1>7

\* Inserting a thread that is not there keeps the vector sorted and keeps what
\* is in it.
LEMMA TlsInserted ==
    ASSUME tls \in Seq(Queues \X Queues), Sorted, NEW q \in Queues,
           \A i \in 1..Len(tls) : tls[i][1] # q,
           tls' = TlsInsert(q, q)
    PROVE  /\ tls' \in Seq(Queues \X Queues) /\ Sorted'
           /\ \A i \in 1..Len(tls') : tls'[i] = <<q, q>> \/ \E j \in 1..Len(tls) : tls'[i] = tls[j]
           /\ \A j \in 1..Len(tls) : \E i \in 1..Len(tls') : tls'[i] = tls[j]
           /\ \E i \in 1..Len(tls') : tls'[i] = <<q, q>>
<1> DEFINE p == TlsPos(q)
           n == Len(tls)
<1>1. n \in Nat /\ DOMAIN tls = 1..n /\ \A j \in 1..n : tls[j][1] \in Nat
  BY QueueNat
<1>2. p \in 1..n+1 /\ \A j \in 1..n : j < p <=> tls[j][1] < q
  BY TlsBorder
<1> HIDE DEF p
<1>3. ~TlsHas(q)
  BY <1>1, <1>2 DEF TlsHas, p
<1>4. tls' = InsertAt(tls, p, <<q, q>>)
  BY <1>3 DEF TlsInsert, p
<1>5. /\ tls' \in Seq(Queues \X Queues) /\ Len(tls') = n + 1
      /\ \A i \in 1..n+1 : tls'[i] = IF i < p THEN tls[i] ELSE
                                     IF i = p THEN <<q, q>> ELSE tls[i-1]
  <2> DEFINE S == Queues \X Queues
  <2>1. PICK e : e = <<q, q>>
    OBVIOUS
  <2>2. e \in S /\ tls \in Seq(S) /\ p \in 1..Len(tls)+1
    BY <1>2, <2>1
  <2> HIDE DEF S
  <2>3. /\ InsertAt(tls, p, e) \in Seq(S) /\ Len(InsertAt(tls, p, e)) = Len(tls) + 1
        /\ \A i \in 1..Len(tls)+1 : InsertAt(tls, p, e)[i] =
              IF i < p THEN tls[i] ELSE IF i = p THEN e ELSE tls[i-1]
    <3>1. InsertAt(tls, p, e) \in Seq(S) /\ Len(InsertAt(tls, p, e)) = Len(tls) + 1
      BY <2>2, InsertElements
    <3>2. ASSUME NEW i \in 1..Len(tls)+1
          PROVE  InsertAt(tls, p, e)[i] =
                    IF i < p THEN tls[i] ELSE IF i = p THEN e ELSE tls[i-1]
      BY <2>2, InsertElements
    <3> QED BY <3>1, <3>2
  <2>4. tls' = InsertAt(tls, p, e)
    BY <1>4, <2>1
  <2>5. tls' \in Seq(S) /\ Len(tls') = n + 1
    BY <2>3, <2>4
  <2>6. \A i \in 1..n+1 : tls'[i] = IF i < p THEN tls[i] ELSE
                                    IF i = p THEN e ELSE tls[i-1]
    BY <2>3, <2>4
  <2> QED BY <2>1, <2>5, <2>6 DEF S
<1>6. ASSUME NEW j \in 1..n, j >= p PROVE q < tls[j][1]
  <2>1. q \in Nat /\ tls[j][1] \in Nat /\ tls[j][1] # q
    BY <1>1, QueueNat
  <2>2. ~(tls[j][1] < q)
    BY <1>2, <1>6
  <2> QED BY <2>1, <2>2
<1>7. Sorted'
  <2> SUFFICES ASSUME NEW i \in 1..n+1, NEW j \in 1..n+1, i < j
               PROVE  tls'[i][1] < tls'[j][1]
    BY <1>5 DEF Sorted
  <2>0. q \in Nat /\ p \in Nat /\ i \in Nat /\ j \in Nat
    BY <1>1, <1>2, QueueNat
  <2>1. CASE j < p
    <3>1. i \in 1..n /\ j \in 1..n /\ i < p
      BY <1>1, <1>2, <2>0, <2>1
    <3> QED BY <1>5, <2>1, <3>1 DEF Sorted
  <2>2. CASE j = p
    <3>1. i \in 1..n /\ i < p
      BY <1>1, <2>0, <2>2
    <3> QED BY <1>2, <1>5, <2>2, <3>1
  <2>3. CASE i = p
    <3>1. j - 1 \in 1..n /\ j - 1 >= p /\ ~(j < p) /\ j # p
      BY <1>1, <2>0, <2>3
    <3> QED BY <1>5, <1>6, <2>3, <3>1
  <2>4. CASE i < p /\ j > p
    <3>1. i \in 1..n /\ j - 1 \in 1..n /\ i < j - 1 /\ ~(j < p) /\ j # p
      BY <1>1, <1>2, <2>0, <2>4
    <3> QED BY <1>5, <2>4, <3>1 DEF Sorted
  <2>5. CASE i > p
    <3>1. /\ i - 1 \in 1..n /\ j - 1 \in 1..n /\ i - 1 < j - 1
          /\ ~(j < p) /\ j # p /\ ~(i < p) /\ i # p
      BY <1>1, <1>2, <2>0, <2>5
    <3> QED BY <1>5, <3>1 DEF Sorted
  <2> QED BY <1>1, <2>0, <2>1, <2>2, <2>3, <2>4, <2>5
<1>8. ASSUME NEW i \in 1..n+1
      PROVE  tls'[i] = <<q, q>> \/ \E j \in 1..n : tls'[i] = tls[j]
  <2>1. CASE i < p
    BY <1>1, <1>2, <1>5, <2>1
  <2>2. CASE i = p
    BY <1>5, <2>2, <1>2, <1>1
  <2>3. CASE i > p
    <3>1. i - 1 \in 1..n /\ ~(i < p) /\ i # p
      BY <1>1, <1>2, <2>3
    <3> QED BY <1>5, <3>1
  <2> QED BY <1>1, <1>2, <2>1, <2>2, <2>3
<1>9. ASSUME NEW j \in 1..n PROVE \E i \in 1..n+1 : tls'[i] = tls[j]
  <2>1. CASE j < p
    <3>1. j \in 1..n+1
      BY <1>1
    <3> QED BY <1>5, <2>1, <3>1
  <2>2. CASE ~(j < p)
    <3>1. j + 1 \in 1..n+1 /\ ~(j + 1 < p) /\ j + 1 # p /\ (j + 1) - 1 = j
      BY <1>1, <1>2, <2>2
    <3> QED BY <1>5, <3>1
  <2> QED BY <2>1, <2>2
<1>10. \E i \in 1..n+1 : tls'[i] = <<q, q>>
  <2>1. ~(p < p)
    BY <1>1, <1>2
  <2> QED BY <1>2, <1>5, <2>1
<1> QED BY <1>5, <1>7, <1>8, <1>9, <1>10

-----------------------------------------------------------------------------
(* The queues as sets of items.                                            *)

\* No element is twice in the queue.
Distinct(q) == \A i, j \in 1..Len(q) : q[i] = q[j] => i = j

\* An item is appended to a queue.
LEMMA AppendSet ==
    ASSUME NEW S, NEW q \in Seq(S), NEW x \in S
    PROVE  /\ Append(q, x) \in Seq(S)
           /\ Append(q, x) # <<>>
           /\ ToSet(Append(q, x)) = ToSet(q) \cup {x}
           /\ Distinct(q) /\ x \notin ToSet(q) => Distinct(Append(q, x))
<1>1. /\ Append(q, x) \in Seq(S) /\ Append(q, x) # <<>>
      /\ DOMAIN q = 1..Len(q) /\ Len(q) \in Nat
      /\ DOMAIN Append(q, x) = 1..Len(q)+1
      /\ Len(Append(q, x)) = Len(q) + 1
      /\ \A i \in 1..Len(q) : Append(q, x)[i] = q[i]
      /\ Append(q, x)[Len(q) + 1] = x
  OBVIOUS
<1>2. \A i : i \in 1..Len(q)+1 <=> i \in 1..Len(q) \/ i = Len(q) + 1
  BY <1>1
<1>3. ToSet(Append(q, x)) = ToSet(q) \cup {x}
  BY <1>1, <1>2 DEF ToSet
<1>4. ASSUME Distinct(q), x \notin ToSet(q) PROVE Distinct(Append(q, x))
  BY <1>1, <1>2, <1>4 DEF Distinct, ToSet
<1> QED BY <1>1, <1>3, <1>4

\* The first item is taken from a queue.
LEMMA TailSet ==
    ASSUME NEW S, NEW q \in Seq(S), q # <<>>
    PROVE  /\ Tail(q) \in Seq(S)
           /\ Head(q) \in S
           /\ ToSet(q) = ToSet(Tail(q)) \cup {Head(q)}
           /\ Distinct(q) => Distinct(Tail(q)) /\ Head(q) \notin ToSet(Tail(q))
<1>1. /\ Tail(q) \in Seq(S) /\ Head(q) \in S /\ Head(q) = q[1]
      /\ DOMAIN q = 1..Len(q) /\ Len(q) \in Nat /\ Len(q) > 0
      /\ DOMAIN Tail(q) = 1..Len(q)-1
      /\ Len(Tail(q)) = Len(q) - 1
      /\ \A i \in 1..Len(q)-1 : Tail(q)[i] = q[i+1]
  OBVIOUS
<1>2. \A i \in 1..Len(q) : i = 1 \/ i - 1 \in 1..Len(q)-1
  BY <1>1
<1>3. \A i \in 1..Len(q)-1 : i + 1 \in 1..Len(q)
  BY <1>1
<1>4. ToSet(q) = ToSet(Tail(q)) \cup {Head(q)}
  <2>1. ASSUME NEW y \in ToSet(q) PROVE y \in ToSet(Tail(q)) \cup {Head(q)}
    <3>1. PICK i \in 1..Len(q) : y = q[i]
      BY <1>1, <2>1 DEF ToSet
    <3>2. CASE i = 1
      BY <1>1, <3>1, <3>2
    <3>3. CASE i # 1
      <4>1. i - 1 \in 1..Len(q)-1 /\ Tail(q)[i-1] = q[i]
        BY <1>1, <1>2, <3>1, <3>3
      <4> QED BY <1>1, <3>1, <4>1 DEF ToSet
    <3> QED BY <3>2, <3>3
  <2>2. ASSUME NEW y \in ToSet(Tail(q)) PROVE y \in ToSet(q)
    BY <1>1, <1>3, <2>2 DEF ToSet
  <2>3. Head(q) \in ToSet(q)
    BY <1>1 DEF ToSet
  <2> QED BY <2>1, <2>2, <2>3
<1>5. ASSUME Distinct(q) PROVE Distinct(Tail(q)) /\ Head(q) \notin ToSet(Tail(q))
  <2>1. Distinct(Tail(q))
    BY <1>1, <1>3, <1>5 DEF Distinct
  <2>2. Head(q) \notin ToSet(Tail(q))
    BY <1>1, <1>3, <1>5 DEF Distinct, ToSet
  <2> QED BY <2>1, <2>2
<1> QED BY <1>1, <1>4, <1>5

-----------------------------------------------------------------------------
(* The inductive invariant.                                                *)

TypeOK ==
    /\ arcs \in [Works -> Nat]
    /\ strong \in [Works -> Nat]
    /\ raw \in [Works -> Nat]
    /\ leaked \in [Clients -> (Works \X Queues) \cup {Nothing}]
    /\ queue \in [Queues -> Seq(Works)]
    /\ running \in [Queues -> Works \cup {Nothing}]
    /\ worker \in [Queues -> {"idle", "from_raw", "act", "acted"}]
    /\ tls \in Seq(Queues \X Queues)
    /\ started \in [Queues -> {"new", "registered", "started"}]
    /\ current \in [Queues -> Queues \cup {Nothing}]

\* The kernel queues an item once, and a queue's thread runs one item.
QueueInv ==
    /\ \A q \in Queues : Distinct(queue[q])
    /\ \A q, r \in Queues : q # r => ToSet(queue[q]) \cap ToSet(queue[r]) = {}
    /\ \A q \in Queues : worker[q] = "idle" <=> running[q] = Nothing

\* Work comes to started queues only, and those but the system queue are in the
\* table.
StartInv ==
    /\ \A c \in Clients : leaked[c] # Nothing => started[leaked[c][2]] = "started"
    /\ \A q \in Queues : queue[q] # <<>> => started[q] = "started"
    /\ \A q \in Queues : worker[q] # "idle" => started[q] = "started"
    /\ started[SysQueue] = "started"
    /\ Sorted
    /\ \A i \in 1..Len(tls) : started[tls[i][1]] # "new"
    /\ \A q \in Queues \ {SysQueue} :
          started[q] # "new" => \E i \in 1..Len(tls) : tls[i] = <<q, q>>

\* The queues whose threads hold the raw reference of w, or its Arc, and the
\* clients that leaked theirs.
Handling(w) == {q \in Queues : running[q] = w /\ worker[q] = "from_raw"}

Acting(w) == {q \in Queues : running[q] = w /\ worker[q] \in {"act", "acted"}}

Leaking(w) == {c \in Clients : leaked[c] # Nothing /\ leaked[c][1] = w}

\* RawRefsCover, for one item.
Covered(w) ==
    /\ raw[w] >= Count(Queued(w)) + Cardinality(Handling(w)) + Cardinality(Leaking(w))
    /\ strong[w] = arcs[w] + raw[w] + Cardinality(Acting(w))

WorkInv ==
    /\ TypeOK /\ QueueInv /\ StartInv /\ CurrentQueueKnown
    /\ \A w \in Works : Covered(w)

-----------------------------------------------------------------------------
\* None is no work item, no queue and no pair of them.
LEMMA Nones == Nothing \notin Works /\ Nothing \notin Queues /\ Nothing \notin Works \X Queues
BY WorkAssumption

\* The references to a work item are finitely many, so that they can be counted.
LEMMA Counts ==
    ASSUME NEW w
    PROVE  /\ IsFiniteSet(Handling(w)) /\ Cardinality(Handling(w)) \in Nat
           /\ IsFiniteSet(Acting(w)) /\ Cardinality(Acting(w)) \in Nat
           /\ IsFiniteSet(Leaking(w)) /\ Cardinality(Leaking(w)) \in Nat
           /\ Count(Queued(w)) \in {0, 1}
<1>1. /\ Handling(w) \in SUBSET Queues /\ Acting(w) \in SUBSET Queues
      /\ Leaking(w) \in SUBSET Clients
  BY DEF Handling, Acting, Leaking
<1>2. IsFiniteSet(Handling(w)) /\ IsFiniteSet(Acting(w)) /\ IsFiniteSet(Leaking(w))
  BY <1>1, FS_Subset, WorkAssumption
<1> QED BY <1>2, FS_CardinalityType DEF Count

\* Covered is RawRefsCover, for one work item.
LEMMA CoveredIsRawRefsCover == (\A w \in Works : Covered(w)) <=> RawRefsCover
BY DEF Covered, RawRefsCover, RawUses, Handling, Acting, Leaking

\* The invariant holds initially.
LEMMA InitInv == WorkInit => WorkInv
<1> SUFFICES ASSUME WorkInit PROVE WorkInv
  OBVIOUS
<1> USE Nones, WorkAssumption
<1>1. TypeOK
  BY DEF WorkInit, TypeOK
<1>2. tls = <<>> /\ Len(tls) = 0 /\ \A q \in Queues : queue[q] = <<>>
  BY DEF WorkInit
<1>3. \A q \in Queues : Distinct(queue[q]) /\ ToSet(queue[q]) = {}
  BY <1>2 DEF Distinct, ToSet
<1>4. QueueInv
  BY <1>3 DEF WorkInit, QueueInv
<1>5. StartInv
  BY <1>2 DEF WorkInit, StartInv, Sorted
<1>6. CurrentQueueKnown
  BY DEF WorkInit, CurrentQueueKnown
<1>7. ASSUME NEW w \in Works PROVE Covered(w)
  <2>1. Handling(w) = {} /\ Acting(w) = {} /\ Leaking(w) = {}
    BY DEF WorkInit, Handling, Acting, Leaking
  <2>2. ~Queued(w)
    BY <1>3 DEF Queued
  <2> QED BY <2>1, <2>2, FS_EmptySet DEF WorkInit, Covered, Count
<1> QED BY <1>1, <1>4, <1>5, <1>6, <1>7 DEF WorkInv

\* A step that leaves an item's references and uses alone.
LEMMA CoverKept ==
    ASSUME NEW w, Covered(w),
           arcs'[w] = arcs[w], strong'[w] = strong[w], raw'[w] = raw[w],
           Queued(w)' <=> Queued(w), Handling(w)' = Handling(w),
           Acting(w)' = Acting(w), Leaking(w)' = Leaking(w)
    PROVE  Covered(w)'
<1>1. Count(Queued(w)') = Count(Queued(w))
  BY DEF Count
<1> QED BY <1>1 DEF Covered

\* WorkQueueBuilder::start.
LEMMA StartQueueInv ==
    ASSUME WorkInv, NEW q \in Queues, RegisterQueue(q) \/ StartQueue(q)
    PROVE  WorkInv'
<1>0. TypeOK /\ QueueInv /\ StartInv /\ CurrentQueueKnown
  BY DEF WorkInv
<1>1. /\ UNCHANGED <<arcs, strong, raw, leaked, queue, running, worker, current>>
      /\ started[q] # "started"
  BY DEF RegisterQueue, StartQueue
<1>2. /\ q # SysQueue
      /\ \A r \in Queues : r # q => started'[r] = started[r]
      /\ started' \in [Queues -> {"new", "registered", "started"}]
      /\ started'[q] # "new"
  BY <1>0, <1>1 DEF TypeOK, StartInv, RegisterQueue, StartQueue
<1>3. /\ tls' \in Seq(Queues \X Queues) /\ Sorted'
      /\ \A i \in 1..Len(tls') : started'[tls'[i][1]] # "new"
      /\ \A r \in Queues \ {SysQueue} :
            started'[r] # "new" => \E i \in 1..Len(tls') : tls'[i] = <<r, r>>
  <2>0. tls \in Seq(Queues \X Queues) /\ Sorted
    BY <1>0 DEF TypeOK, StartInv
  <2>a. \A i \in 1..Len(tls) : tls[i][1] \in Queues /\ started[tls[i][1]] # "new"
    BY <1>0 DEF TypeOK, StartInv
  <2>1. CASE RegisterQueue(q)
    <3>1. started[q] = "new" /\ tls' = TlsInsert(q, q)
      BY <2>1 DEF RegisterQueue
    <3>2. \A i \in 1..Len(tls) : tls[i][1] # q
      BY <2>a, <3>1
    <3>3. /\ tls' \in Seq(Queues \X Queues) /\ Sorted'
          /\ \A i \in 1..Len(tls') :
                tls'[i] = <<q, q>> \/ \E j \in 1..Len(tls) : tls'[i] = tls[j]
          /\ \A j \in 1..Len(tls) : \E i \in 1..Len(tls') : tls'[i] = tls[j]
          /\ \E i \in 1..Len(tls') : tls'[i] = <<q, q>>
      BY <2>0, <3>1, <3>2, TlsInserted
    <3>4. ASSUME NEW i \in 1..Len(tls') PROVE started'[tls'[i][1]] # "new"
      <4>1. CASE tls'[i] = <<q, q>>
        BY <1>2, <4>1
      <4>2. ASSUME NEW j \in 1..Len(tls), tls'[i] = tls[j]
            PROVE  started'[tls'[i][1]] # "new"
        BY <1>2, <2>a, <3>2, <4>2
      <4> QED BY <3>3, <4>1, <4>2
    <3>5. ASSUME NEW r \in Queues \ {SysQueue}, started'[r] # "new"
          PROVE  \E i \in 1..Len(tls') : tls'[i] = <<r, r>>
      <4>1. CASE r = q
        BY <3>3, <4>1
      <4>2. CASE r # q
        <5>1. PICK j \in 1..Len(tls) : tls[j] = <<r, r>>
          BY <1>0, <1>2, <3>5, <4>2 DEF StartInv
        <5> QED BY <3>3, <5>1
      <4> QED BY <4>1, <4>2
    <3> QED BY <3>3, <3>4, <3>5
  <2>2. CASE StartQueue(q)
    <3>1. tls' = tls /\ started[q] = "registered"
      BY <2>2 DEF StartQueue
    <3>2. Sorted'
      BY <2>0, <3>1 DEF Sorted
    <3>3. \A i \in 1..Len(tls) : started'[tls[i][1]] # "new"
      BY <1>2, <2>a
    <3>4. \A r \in Queues : started'[r] # "new" => started[r] # "new"
      BY <1>2, <3>1
    <3> QED BY <1>0, <2>0, <3>1, <3>2, <3>3, <3>4 DEF StartInv
  <2> QED BY <2>1, <2>2
<1>4. TypeOK'
  BY <1>0, <1>1, <1>2, <1>3 DEF TypeOK
<1>5. QueueInv' /\ CurrentQueueKnown'
  BY <1>0, <1>1 DEF QueueInv, CurrentQueueKnown
<1>6. StartInv'
  <2>1. \A r \in Queues : started[r] = "started" => started'[r] = "started"
    BY <1>1, <1>2
  <2>2. \A c \in Clients : leaked[c] # Nothing => leaked[c][2] \in Queues
    BY <1>0 DEF TypeOK
  <2> QED BY <1>0, <1>1, <1>3, <2>1, <2>2, WorkAssumption DEF StartInv
<1>7. ASSUME NEW w \in Works PROVE Covered(w)'
  <2>1. /\ (Queued(w)' <=> Queued(w)) /\ Handling(w)' = Handling(w)
        /\ Acting(w)' = Acting(w) /\ Leaking(w)' = Leaking(w)
    BY <1>1 DEF Queued, Handling, Acting, Leaking
  <2> QED BY <1>1, <2>1, CoverKept DEF WorkInv
<1> QED BY <1>4, <1>5, <1>6, <1>7 DEF WorkInv

\* Clients clone and drop their Arcs.
LEMMA ArcsInv ==
    ASSUME WorkInv, NEW w \in Works, Clone(w) \/ DropArc(w)
    PROVE  WorkInv'
<1>0. TypeOK /\ QueueInv /\ StartInv /\ CurrentQueueKnown
  BY DEF WorkInv
<1>1. /\ UNCHANGED <<raw, leaked, queue, running, worker, tls, started, current>>
      /\ arcs[w] \in Nat /\ strong[w] \in Nat /\ raw[w] \in Nat /\ arcs[w] > 0
  BY <1>0 DEF Clone, DropArc, TypeOK
<1>2. strong[w] = arcs[w] + raw[w] + Cardinality(Acting(w))
  BY DEF WorkInv, Covered
<1>3. PICK d \in {1, -1} : /\ arcs' = [arcs EXCEPT ![w] = @ + d]
                           /\ strong' = [strong EXCEPT ![w] = @ + d]
  <2>1. CASE Clone(w)
    BY <2>1 DEF Clone
  <2>2. CASE DropArc(w)
    <3>1. arcs[w] - 1 = arcs[w] + (-1) /\ strong[w] - 1 = strong[w] + (-1)
      BY <1>1
    <3> QED BY <2>2, <3>1 DEF DropArc
  <2> QED BY <2>1, <2>2
<1>4. arcs[w] + d \in Nat /\ strong[w] + d \in Nat
  BY <1>1, <1>2, <1>3, Counts
<1>5. /\ arcs' \in [Works -> Nat] /\ strong' \in [Works -> Nat]
      /\ arcs'[w] = arcs[w] + d /\ strong'[w] = strong[w] + d
      /\ \A v \in Works : v # w => arcs'[v] = arcs[v] /\ strong'[v] = strong[v]
  BY <1>0, <1>3, <1>4 DEF TypeOK
<1>6. TypeOK'
  BY <1>0, <1>1, <1>5 DEF TypeOK
<1>7. QueueInv' /\ StartInv' /\ CurrentQueueKnown'
  BY <1>0, <1>1 DEF QueueInv, StartInv, Sorted, CurrentQueueKnown
<1>8. ASSUME NEW v \in Works PROVE Covered(v)'
  <2>1. /\ (Queued(v)' <=> Queued(v)) /\ Handling(v)' = Handling(v)
        /\ Acting(v)' = Acting(v) /\ Leaking(v)' = Leaking(v)
    BY <1>1 DEF Queued, Handling, Acting, Leaking
  <2>2. CASE v # w
    BY <1>1, <1>5, <2>1, <2>2, CoverKept DEF WorkInv
  <2>3. CASE v = w
    <3>1. Count(Queued(w)') = Count(Queued(w))
      BY <2>1, <2>3 DEF Count
    <3>2. raw[w] >= Count(Queued(w)) + Cardinality(Handling(w)) + Cardinality(Leaking(w))
      BY DEF WorkInv, Covered
    <3>3. strong'[w] = arcs'[w] + raw[w] + Cardinality(Acting(w))
      BY <1>1, <1>2, <1>3, <1>5, Counts
    <3> QED BY <1>1, <2>1, <2>3, <3>1, <3>2, <3>3 DEF Covered
  <2> QED BY <2>2, <2>3
<1> QED BY <1>6, <1>7, <1>8 DEF WorkInv

\* Arc::into_raw: an Arc of the client becomes the raw reference it submits.
LEMMA LeakInv ==
    ASSUME WorkInv, NEW c \in Clients, NEW w \in Works, NEW q \in Queues, Leak(c, w, q)
    PROVE  WorkInv'
<1>0. TypeOK /\ QueueInv /\ StartInv /\ CurrentQueueKnown
  BY DEF WorkInv
<1>1. /\ leaked[c] = Nothing /\ started[q] = "started"
      /\ UNCHANGED <<strong, queue, running, worker, tls, started, current>>
      /\ arcs[w] \in Nat /\ strong[w] \in Nat /\ raw[w] \in Nat /\ arcs[w] > 0
  BY <1>0 DEF Leak, TypeOK
<1>2. /\ arcs' \in [Works -> Nat] /\ raw' \in [Works -> Nat]
      /\ arcs'[w] = arcs[w] - 1 /\ raw'[w] = raw[w] + 1
      /\ \A v \in Works : v # w => arcs'[v] = arcs[v] /\ raw'[v] = raw[v]
  BY <1>0, <1>1 DEF Leak, TypeOK
<1>3. /\ leaked' \in [Clients -> (Works \X Queues) \cup {Nothing}]
      /\ leaked'[c] = <<w, q>> /\ leaked'[c] # Nothing
      /\ leaked'[c][1] = w /\ leaked'[c][2] = q
      /\ \A b \in Clients : b # c => leaked'[b] = leaked[b]
  BY <1>0, Nones DEF Leak, TypeOK
<1>4. TypeOK'
  BY <1>0, <1>1, <1>2, <1>3 DEF TypeOK
<1>5. QueueInv' /\ StartInv' /\ CurrentQueueKnown'
  <2>1. QueueInv' /\ CurrentQueueKnown'
    BY <1>0, <1>1 DEF QueueInv, CurrentQueueKnown
  <2>2. \A b \in Clients : leaked'[b] # Nothing => started[leaked'[b][2]] = "started"
    BY <1>0, <1>1, <1>3 DEF StartInv
  <2>3. StartInv'
    BY <1>0, <1>1, <2>2 DEF StartInv, Sorted
  <2> QED BY <2>1, <2>3
<1>6. ASSUME NEW v \in Works PROVE Covered(v)'
  <2>1. /\ (Queued(v)' <=> Queued(v)) /\ Handling(v)' = Handling(v)
        /\ Acting(v)' = Acting(v)
    BY <1>1 DEF Queued, Handling, Acting
  <2>2. CASE v # w
    <3>1. Leaking(v)' = Leaking(v)
      BY <1>1, <1>3, <2>2 DEF Leaking
    <3> QED BY <1>1, <1>2, <2>1, <2>2, <3>1, CoverKept DEF WorkInv
  <2>3. CASE v = w
    <3>1. Count(Queued(w)') = Count(Queued(w))
      BY <2>1, <2>3 DEF Count
    <3>2. Leaking(w)' = Leaking(w) \cup {c} /\ c \notin Leaking(w)
      BY <1>1, <1>3 DEF Leaking
    <3>3. Cardinality(Leaking(w)') = Cardinality(Leaking(w)) + 1
      BY <3>2, Counts, FS_AddElement
    <3>4. /\ raw[w] >= Count(Queued(w)) + Cardinality(Handling(w)) + Cardinality(Leaking(w))
          /\ strong[w] = arcs[w] + raw[w] + Cardinality(Acting(w))
      BY DEF WorkInv, Covered
    <3>5. /\ raw'[w] >= Count(Queued(w)) + Cardinality(Handling(w))
                        + Cardinality(Leaking(w)')
          /\ strong'[w] = arcs'[w] + raw'[w] + Cardinality(Acting(w))
      BY <1>1, <1>2, <3>3, <3>4, Counts
    <3> QED BY <2>1, <2>3, <3>1, <3>5 DEF Covered
  <2> QED BY <2>2, <2>3
<1> QED BY <1>4, <1>5, <1>6 DEF WorkInv

\* k_work_submit: the reference that the client leaked becomes the queue's, or
\* is left over.
LEMMA KWorkSubmitInv ==
    ASSUME WorkInv, NEW c \in Clients, KWorkSubmit(c)
    PROVE  WorkInv'
<1>0. TypeOK /\ QueueInv /\ StartInv /\ CurrentQueueKnown
  BY DEF WorkInv
<1>a. PICK w \in Works, q \in Queues : leaked[c] # Nothing /\ leaked[c] = <<w, q>>
  BY <1>0 DEF KWorkSubmit, TypeOK
<1>b. PICK r : r = Target(w, q)
  OBVIOUS
<1>1. /\ leaked[c] # Nothing /\ leaked[c][1] = w /\ leaked[c][2] = q
      /\ UNCHANGED <<arcs, strong, raw, running, worker, tls, started, current>>
      /\ leaked' = [leaked EXCEPT ![c] = Nothing]
      /\ queue' = IF Queued(w) THEN queue ELSE [queue EXCEPT ![r] = Append(@, w)]
  BY <1>a, <1>b DEF KWorkSubmit
<1>2. r \in Queues /\ started[r] = "started"
  <2>1. CASE \E x \in Queues : running[x] = w
    <3>1. r \in Queues /\ running[r] = w
      BY <1>b, <2>1 DEF Target
    <3> QED BY <1>0, <1>1, <3>1, Nones DEF QueueInv, StartInv
  <2>2. CASE ~(\E x \in Queues : running[x] = w)
    BY <1>0, <1>1, <1>b, <2>2 DEF Target, StartInv
  <2> QED BY <2>1, <2>2
<1>3. /\ leaked' \in [Clients -> (Works \X Queues) \cup {Nothing}]
      /\ leaked'[c] = Nothing
      /\ \A b \in Clients : b # c => leaked'[b] = leaked[b]
  BY <1>0, <1>1 DEF TypeOK
<1>4. /\ queue' \in [Queues -> Seq(Works)]
      /\ \A x \in Queues : x # r => queue'[x] = queue[x]
      /\ Queued(w) => queue' = queue
      /\ ~Queued(w) => queue'[r] = Append(queue[r], w)
  <2>1. queue[r] \in Seq(Works)
    BY <1>0, <1>2 DEF TypeOK
  <2>2. Append(queue[r], w) \in Seq(Works)
    BY <1>1, <2>1
  <2> QED BY <1>0, <1>1, <1>2, <2>2 DEF TypeOK
<1>5. ASSUME ~Queued(w)
      PROVE  /\ ToSet(queue'[r]) = ToSet(queue[r]) \cup {w} /\ Distinct(queue'[r])
             /\ \A x \in Queues : w \notin ToSet(queue[x])
  <2>1. \A x \in Queues : w \notin ToSet(queue[x])
    BY <1>5 DEF Queued
  <2> QED BY <1>0, <1>1, <1>2, <1>4, <1>5, <2>1, AppendSet DEF TypeOK, QueueInv
<1>6. TypeOK'
  BY <1>0, <1>1, <1>3, <1>4 DEF TypeOK
<1>7. QueueInv'
  <2>1. CASE Queued(w)
    BY <1>0, <1>1, <1>4, <2>1 DEF QueueInv
  <2>2. CASE ~Queued(w)
    <3>1. \A x \in Queues : Distinct(queue'[x])
      BY <1>0, <1>4, <1>5, <2>2 DEF QueueInv
    <3>2. ASSUME NEW x \in Queues, NEW y \in Queues, x # y
          PROVE  ToSet(queue'[x]) \cap ToSet(queue'[y]) = {}
      <4>1. CASE x # r /\ y # r
        BY <1>0, <1>4, <3>2, <4>1 DEF QueueInv
      <4>2. CASE x = r
        BY <1>0, <1>4, <1>5, <2>2, <3>2, <4>2 DEF QueueInv
      <4>3. CASE y = r
        BY <1>0, <1>4, <1>5, <2>2, <3>2, <4>3 DEF QueueInv
      <4> QED BY <4>1, <4>2, <4>3
    <3> QED BY <1>0, <1>1, <3>1, <3>2 DEF QueueInv
  <2> QED BY <2>1, <2>2
<1>8. StartInv'
  <2>1. \A x \in Queues : queue'[x] # <<>> => started[x] = "started"
    BY <1>0, <1>2, <1>4 DEF StartInv
  <2>2. \A b \in Clients : leaked'[b] # Nothing => started[leaked'[b][2]] = "started"
    BY <1>0, <1>3 DEF StartInv
  <2> QED BY <1>0, <1>1, <2>1, <2>2 DEF StartInv, Sorted
<1>9. CurrentQueueKnown'
  BY <1>0, <1>1 DEF CurrentQueueKnown
<1>10. ASSUME NEW v \in Works PROVE Covered(v)'
  <2>1. Handling(v)' = Handling(v) /\ Acting(v)' = Acting(v)
    BY <1>1 DEF Handling, Acting
  <2>2. CASE v # w
    <3>1. Leaking(v)' = Leaking(v)
      BY <1>1, <1>3, <2>2 DEF Leaking
    <3>2. \A x \in Queues : v \in ToSet(queue'[x]) <=> v \in ToSet(queue[x])
      <4>1. CASE Queued(w)
        BY <1>4, <4>1
      <4>2. CASE ~Queued(w)
        BY <1>4, <1>5, <2>2, <4>2
      <4> QED BY <4>1, <4>2
    <3>3. Queued(v)' <=> Queued(v)
      BY <3>2 DEF Queued
    <3> QED BY <1>1, <2>1, <3>1, <3>3, CoverKept DEF WorkInv
  <2>3. CASE v = w
    <3>1. Leaking(w)' = Leaking(w) \ {c} /\ c \in Leaking(w)
      BY <1>1, <1>3 DEF Leaking
    <3>2. Cardinality(Leaking(w)') = Cardinality(Leaking(w)) - 1
      BY <3>1, Counts, FS_RemoveElement
    <3>3. /\ raw[w] >= Count(Queued(w)) + Cardinality(Handling(w)) + Cardinality(Leaking(w))
          /\ strong[w] = arcs[w] + raw[w] + Cardinality(Acting(w))
      BY <1>1 DEF WorkInv, Covered
    <3>4. Count(Queued(w)') \in {0, 1} /\ Count(Queued(w)') <= Count(Queued(w)) + 1
      BY DEF Count
    <3>5. raw[w] \in Nat
      BY <1>0, <1>1 DEF TypeOK
    <3>6. raw[w] >= Count(Queued(w)') + Cardinality(Handling(w)) + Cardinality(Leaking(w)')
      BY <3>2, <3>3, <3>4, <3>5, Counts
    <3> QED BY <1>1, <2>1, <2>3, <3>3, <3>6 DEF Covered
  <2> QED BY <2>2, <2>3
<1> QED BY <1>6, <1>7, <1>8, <1>9, <1>10 DEF WorkInv

\* The queue's thread takes an item, which is in no queue then.
LEMMA KWorkRunInv ==
    ASSUME WorkInv, NEW q \in Queues, KWorkRun(q)
    PROVE  WorkInv'
<1>0. TypeOK /\ QueueInv /\ StartInv /\ CurrentQueueKnown
  BY DEF WorkInv
<1>a. PICK w : w = Head(queue[q])
  OBVIOUS
<1>1. /\ worker[q] = "idle" /\ queue[q] # <<>> /\ queue[q] \in Seq(Works)
      /\ running' = [running EXCEPT ![q] = w]
      /\ queue' = [queue EXCEPT ![q] = Tail(queue[q])]
      /\ worker' = [worker EXCEPT ![q] = "from_raw"]
      /\ UNCHANGED <<arcs, strong, raw, leaked, tls, started, current>>
  BY <1>0, <1>a DEF KWorkRun, TypeOK
<1>2. /\ Tail(queue[q]) \in Seq(Works) /\ w \in Works
      /\ ToSet(queue[q]) = ToSet(Tail(queue[q])) \cup {w}
      /\ Distinct(Tail(queue[q])) /\ w \notin ToSet(Tail(queue[q]))
  BY <1>0, <1>a, <1>1, TailSet DEF QueueInv
<1>3. /\ running' \in [Queues -> Works \cup {Nothing}] /\ queue' \in [Queues -> Seq(Works)]
      /\ worker' \in [Queues -> {"idle", "from_raw", "act", "acted"}]
      /\ running'[q] = w /\ queue'[q] = Tail(queue[q]) /\ worker'[q] = "from_raw"
      /\ \A x \in Queues : x # q =>
            running'[x] = running[x] /\ queue'[x] = queue[x] /\ worker'[x] = worker[x]
  BY <1>0, <1>1, <1>2 DEF TypeOK
<1>4. TypeOK'
  BY <1>0, <1>1, <1>3 DEF TypeOK
<1>5. QueueInv'
  <2>1. \A x \in Queues : Distinct(queue'[x]) /\ (worker'[x] = "idle" <=> running'[x] = Nothing)
    BY <1>0, <1>2, <1>3, Nones DEF QueueInv
  <2>2. \A x \in Queues : ToSet(queue'[x]) \subseteq ToSet(queue[x])
    BY <1>2, <1>3
  <2>3. \A x, y \in Queues : x # y => ToSet(queue'[x]) \cap ToSet(queue'[y]) = {}
    BY <1>0, <2>2 DEF QueueInv
  <2> QED BY <2>1, <2>3 DEF QueueInv
<1>6. StartInv'
  <2>1. \A x \in Queues : queue'[x] # <<>> \/ worker'[x] # "idle" => started[x] = "started"
    BY <1>0, <1>1, <1>3 DEF StartInv
  <2> QED BY <1>0, <1>1, <2>1 DEF StartInv, Sorted
<1>7. CurrentQueueKnown'
  BY <1>0, <1>1, <1>3 DEF CurrentQueueKnown
<1>8. \A x \in Queues : w \notin ToSet(queue'[x])
  BY <1>0, <1>2, <1>3 DEF QueueInv
<1>9. ASSUME NEW v \in Works PROVE Covered(v)'
  <2>1. Acting(v)' = Acting(v) /\ Leaking(v)' = Leaking(v)
    BY <1>1, <1>3 DEF Acting, Leaking
  <2>2. CASE v # w
    <3>1. Handling(v)' = Handling(v)
      BY <1>1, <1>3, <2>2 DEF Handling
    <3>2. \A x \in Queues : v \in ToSet(queue'[x]) <=> v \in ToSet(queue[x])
      BY <1>2, <1>3, <2>2
    <3>3. Queued(v)' <=> Queued(v)
      BY <3>2 DEF Queued
    <3> QED BY <1>1, <2>1, <3>1, <3>3, CoverKept DEF WorkInv
  <2>3. CASE v = w
    <3>1. Handling(w)' = Handling(w) \cup {q} /\ q \notin Handling(w)
      BY <1>1, <1>3 DEF Handling
    <3>2. Cardinality(Handling(w)') = Cardinality(Handling(w)) + 1
      BY <3>1, Counts, FS_AddElement
    <3>3. /\ raw[w] >= Count(Queued(w)) + Cardinality(Handling(w)) + Cardinality(Leaking(w))
          /\ strong[w] = arcs[w] + raw[w] + Cardinality(Acting(w))
      BY <1>2 DEF WorkInv, Covered
    <3>4. Count(Queued(w)') = 0 /\ Count(Queued(w)) = 1
      <4>1. Queued(w) /\ ~Queued(w)'
        BY <1>2, <1>8 DEF Queued
      <4> QED BY <4>1 DEF Count
    <3>5. raw[w] \in Nat
      BY <1>0, <1>2 DEF TypeOK
    <3>6. raw[w] >= Count(Queued(w)') + Cardinality(Handling(w)') + Cardinality(Leaking(w))
      BY <3>2, <3>3, <3>4, <3>5, Counts
    <3> QED BY <1>1, <2>1, <2>3, <3>3, <3>6 DEF Covered
  <2> QED BY <2>2, <2>3
<1> QED BY <1>4, <1>5, <1>6, <1>7, <1>9 DEF WorkInv

\* Work::handler recovers the Arc: the raw reference is there to be taken.
LEMMA FromRawInv ==
    ASSUME WorkInv, NEW q \in Queues, FromRaw(q)
    PROVE  WorkInv'
<1>0. TypeOK /\ QueueInv /\ StartInv /\ CurrentQueueKnown
  BY DEF WorkInv
<1>a. PICK w : w = running[q]
  OBVIOUS
<1>1. /\ worker[q] = "from_raw" /\ w \in Works /\ running[q] = w
      /\ raw' = [raw EXCEPT ![w] = @ - 1]
      /\ worker' = [worker EXCEPT ![q] = "act"]
      /\ UNCHANGED <<arcs, strong, leaked, queue, running, tls, started, current>>
  BY <1>0, <1>a DEF FromRaw, TypeOK, QueueInv
<1>2. /\ raw[w] >= Count(Queued(w)) + Cardinality(Handling(w)) + Cardinality(Leaking(w))
      /\ strong[w] = arcs[w] + raw[w] + Cardinality(Acting(w))
      /\ raw[w] \in Nat /\ arcs[w] \in Nat
  BY <1>0, <1>1 DEF WorkInv, Covered, TypeOK
<1>3. /\ worker' \in [Queues -> {"idle", "from_raw", "act", "acted"}]
      /\ worker'[q] = "act" /\ \A x \in Queues : x # q => worker'[x] = worker[x]
  BY <1>0, <1>1 DEF TypeOK
<1>4. /\ Handling(w)' = Handling(w) \ {q} /\ q \in Handling(w)
      /\ Acting(w)' = Acting(w) \cup {q} /\ q \notin Acting(w)
  BY <1>1, <1>3 DEF Handling, Acting
<1>5. /\ Cardinality(Handling(w)') = Cardinality(Handling(w)) - 1
      /\ Cardinality(Handling(w)) >= 1
      /\ Cardinality(Acting(w)') = Cardinality(Acting(w)) + 1
  <2>1. Cardinality(Handling(w)) # 0
    BY <1>4, Counts, FS_EmptySet
  <2>2. Cardinality(Handling(w)') = Cardinality(Handling(w)) - 1
    BY <1>4, Counts, FS_RemoveElement
  <2>3. Cardinality(Acting(w)') = Cardinality(Acting(w)) + 1
    BY <1>4, Counts, FS_AddElement
  <2> QED BY <2>1, <2>2, <2>3, Counts
<1>6. raw[w] - 1 \in Nat
  BY <1>2, <1>5, Counts
<1>7. /\ raw' \in [Works -> Nat] /\ raw'[w] = raw[w] - 1
      /\ \A v \in Works : v # w => raw'[v] = raw[v]
  BY <1>0, <1>1, <1>6 DEF TypeOK
<1>8. TypeOK'
  BY <1>0, <1>1, <1>3, <1>7 DEF TypeOK
<1>9. QueueInv'
  BY <1>0, <1>1, <1>3 DEF QueueInv
<1>10. StartInv'
  <2>1. \A x \in Queues : worker'[x] # "idle" => started[x] = "started"
    BY <1>0, <1>1, <1>3 DEF StartInv
  <2> QED BY <1>0, <1>1, <2>1 DEF StartInv, Sorted
<1>11. CurrentQueueKnown'
  BY <1>0, <1>1, <1>3 DEF CurrentQueueKnown
<1>12. ASSUME NEW v \in Works PROVE Covered(v)'
  <2>1. (Queued(v)' <=> Queued(v)) /\ Leaking(v)' = Leaking(v)
    BY <1>1 DEF Queued, Leaking
  <2>2. CASE v # w
    <3>1. Handling(v)' = Handling(v) /\ Acting(v)' = Acting(v)
      BY <1>1, <1>3, <2>2 DEF Handling, Acting
    <3> QED BY <1>1, <1>7, <2>1, <2>2, <3>1, CoverKept DEF WorkInv
  <2>3. CASE v = w
    <3>1. Count(Queued(w)') = Count(Queued(w))
      BY <2>1, <2>3 DEF Count
    <3>2. /\ raw'[w] >= Count(Queued(w)) + Cardinality(Handling(w)') + Cardinality(Leaking(w))
          /\ strong[w] = arcs[w] + raw'[w] + Cardinality(Acting(w)')
      BY <1>2, <1>5, <1>7, Counts
    <3> QED BY <1>1, <2>1, <2>3, <3>1, <3>2 DEF Covered
  <2> QED BY <2>2, <2>3
<1> QED BY <1>8, <1>9, <1>10, <1>11, <1>12 DEF WorkInv

\* get_current_workq finds the queue in the table.
LEMMA GetCurrentWorkqInv ==
    ASSUME WorkInv, NEW q \in Queues, GetCurrentWorkq(q)
    PROVE  WorkInv'
<1>0. TypeOK /\ QueueInv /\ StartInv /\ CurrentQueueKnown
  BY DEF WorkInv
<1>1. /\ worker[q] = "act"
      /\ current' = [current EXCEPT ![q] = TlsGet(q)]
      /\ worker' = [worker EXCEPT ![q] = "acted"]
      /\ UNCHANGED <<arcs, strong, raw, leaked, queue, running, tls, started>>
  BY DEF GetCurrentWorkq
<1>2. /\ worker' \in [Queues -> {"idle", "from_raw", "act", "acted"}]
      /\ worker'[q] = "acted" /\ \A x \in Queues : x # q => worker'[x] = worker[x]
  BY <1>0, <1>1 DEF TypeOK
<1>3. TlsGet(q) \in Queues \cup {Nothing}
  <2>1. CASE TlsHas(q)
    <3>1. TlsPos(q) \in 1..Len(tls)
      <4>1. TlsPos(q) \in 1..Len(tls)+1 /\ TlsPos(q) <= Len(tls)
        BY <1>0, <2>1, TlsBorder DEF TlsHas, TypeOK, StartInv
      <4> QED BY <1>0, <4>1 DEF TypeOK
    <3>2. tls[TlsPos(q)] \in Queues \X Queues
      BY <1>0, <3>1 DEF TypeOK
    <3> QED BY <2>1, <3>2 DEF TlsGet
  <2>2. CASE ~TlsHas(q)
    BY <2>2 DEF TlsGet
  <2> QED BY <2>1, <2>2
<1>4. q # SysQueue => TlsGet(q) = q
  <2> SUFFICES ASSUME q # SysQueue PROVE TlsGet(q) = q
    OBVIOUS
  <2>1. started[q] = "started"
    BY <1>0, <1>1 DEF StartInv
  <2>2. PICK i \in 1..Len(tls) : tls[i] = <<q, q>>
    BY <1>0, <2>1 DEF StartInv
  <2> QED BY <1>0, <2>2, TlsFound DEF TypeOK, StartInv
<1>5. /\ current' \in [Queues -> Queues \cup {Nothing}]
      /\ current'[q] = TlsGet(q) /\ \A x \in Queues : x # q => current'[x] = current[x]
  BY <1>0, <1>1, <1>3 DEF TypeOK
<1>6. TypeOK'
  BY <1>0, <1>1, <1>2, <1>5 DEF TypeOK
<1>7. QueueInv'
  BY <1>0, <1>1, <1>2 DEF QueueInv
<1>8. StartInv'
  <2>1. \A x \in Queues : worker'[x] # "idle" => started[x] = "started"
    BY <1>0, <1>1, <1>2 DEF StartInv
  <2> QED BY <1>0, <1>1, <2>1 DEF StartInv, Sorted
<1>9. CurrentQueueKnown'
  BY <1>0, <1>2, <1>4, <1>5 DEF CurrentQueueKnown
<1>10. ASSUME NEW v \in Works PROVE Covered(v)'
  <2>1. (Queued(v)' <=> Queued(v)) /\ Leaking(v)' = Leaking(v)
    BY <1>1 DEF Queued, Leaking
  <2>2. Handling(v)' = Handling(v) /\ Acting(v)' = Acting(v)
    BY <1>1, <1>2 DEF Handling, Acting
  <2> QED BY <1>1, <2>1, <2>2, CoverKept DEF WorkInv
<1> QED BY <1>6, <1>7, <1>8, <1>9, <1>10 DEF WorkInv

\* The handler drops the Arc it recovered.
LEMMA HandlerReturnsInv ==
    ASSUME WorkInv, NEW q \in Queues, HandlerReturns(q)
    PROVE  WorkInv'
<1>0. TypeOK /\ QueueInv /\ StartInv /\ CurrentQueueKnown
  BY DEF WorkInv
<1>a. PICK w : w = running[q]
  OBVIOUS
<1>1. /\ worker[q] \in {"act", "acted"} /\ w \in Works /\ running[q] = w
      /\ strong' = [strong EXCEPT ![w] = @ - 1]
      /\ running' = [running EXCEPT ![q] = Nothing]
      /\ current' = [current EXCEPT ![q] = Nothing]
      /\ worker' = [worker EXCEPT ![q] = "idle"]
      /\ UNCHANGED <<arcs, raw, leaked, queue, tls, started>>
  BY <1>0, <1>a DEF HandlerReturns, TypeOK, QueueInv
<1>2. /\ raw[w] >= Count(Queued(w)) + Cardinality(Handling(w)) + Cardinality(Leaking(w))
      /\ strong[w] = arcs[w] + raw[w] + Cardinality(Acting(w))
      /\ raw[w] \in Nat /\ arcs[w] \in Nat
  BY <1>0, <1>1 DEF WorkInv, Covered, TypeOK
<1>3. /\ worker' \in [Queues -> {"idle", "from_raw", "act", "acted"}]
      /\ running' \in [Queues -> Works \cup {Nothing}]
      /\ current' \in [Queues -> Queues \cup {Nothing}]
      /\ worker'[q] = "idle" /\ running'[q] = Nothing
      /\ \A x \in Queues : x # q => /\ worker'[x] = worker[x]
                                    /\ running'[x] = running[x]
                                    /\ current'[x] = current[x]
  BY <1>0, <1>1 DEF TypeOK
<1>4. /\ Acting(w)' = Acting(w) \ {q} /\ q \in Acting(w)
      /\ Handling(w)' = Handling(w)
  BY <1>1, <1>3, Nones DEF Handling, Acting
<1>5. /\ Cardinality(Acting(w)') = Cardinality(Acting(w)) - 1
      /\ Cardinality(Acting(w)) >= 1
  <2>1. Cardinality(Acting(w)) # 0
    BY <1>4, Counts, FS_EmptySet
  <2>2. Cardinality(Acting(w)') = Cardinality(Acting(w)) - 1
    BY <1>4, Counts, FS_RemoveElement
  <2> QED BY <2>1, <2>2, Counts
<1>6. strong[w] - 1 \in Nat
  BY <1>2, <1>5, Counts
<1>7. /\ strong' \in [Works -> Nat] /\ strong'[w] = strong[w] - 1
      /\ \A v \in Works : v # w => strong'[v] = strong[v]
  BY <1>0, <1>1, <1>6 DEF TypeOK
<1>8. TypeOK'
  BY <1>0, <1>1, <1>3, <1>7 DEF TypeOK
<1>9. QueueInv'
  BY <1>0, <1>1, <1>3 DEF QueueInv
<1>10. StartInv'
  <2>1. \A x \in Queues : worker'[x] # "idle" => started[x] = "started"
    BY <1>0, <1>1, <1>3 DEF StartInv
  <2> QED BY <1>0, <1>1, <2>1 DEF StartInv, Sorted
<1>11. CurrentQueueKnown'
  BY <1>0, <1>3 DEF CurrentQueueKnown
<1>12. ASSUME NEW v \in Works PROVE Covered(v)'
  <2>1. (Queued(v)' <=> Queued(v)) /\ Leaking(v)' = Leaking(v)
    BY <1>1 DEF Queued, Leaking
  <2>2. CASE v # w
    <3>1. Handling(v)' = Handling(v) /\ Acting(v)' = Acting(v)
      BY <1>1, <1>3, <2>2, Nones DEF Handling, Acting
    <3> QED BY <1>1, <1>7, <2>1, <2>2, <3>1, CoverKept DEF WorkInv
  <2>3. CASE v = w
    <3>1. Count(Queued(w)') = Count(Queued(w))
      BY <2>1, <2>3 DEF Count
    <3>2. strong'[w] = arcs[w] + raw[w] + Cardinality(Acting(w)')
      BY <1>2, <1>5, <1>7, Counts
    <3> QED BY <1>1, <1>2, <1>4, <2>1, <2>3, <3>1, <3>2 DEF Covered
  <2> QED BY <2>2, <2>3
<1> QED BY <1>8, <1>9, <1>10, <1>11, <1>12 DEF WorkInv

\* Every step preserves the invariant.
LEMMA NextInv == WorkInv /\ [WorkNext]_workVars => WorkInv'
<1> SUFFICES ASSUME WorkInv, [WorkNext]_workVars PROVE WorkInv'
  OBVIOUS
<1>1. ASSUME NEW q \in Queues, RegisterQueue(q) \/ StartQueue(q) \/ WorkerStep(q)
      PROVE  WorkInv'
  BY <1>1, StartQueueInv, KWorkRunInv, FromRawInv, GetCurrentWorkqInv,
     HandlerReturnsInv DEF WorkerStep
<1>2. ASSUME NEW w \in Works, Clone(w) \/ DropArc(w) PROVE WorkInv'
  BY <1>2, ArcsInv
<1>3. ASSUME NEW c \in Clients,
             KWorkSubmit(c) \/ \E w \in Works, q \in Queues : Leak(c, w, q)
      PROVE  WorkInv'
  BY <1>3, KWorkSubmitInv, LeakInv
<1>4. CASE UNCHANGED workVars
  <2>1. UNCHANGED <<arcs, strong, raw, leaked, queue, running, worker, tls, started,
                    current>>
    BY <1>4 DEF workVars
  <2>2. TypeOK' /\ QueueInv' /\ StartInv' /\ CurrentQueueKnown'
    BY <2>1 DEF WorkInv, TypeOK, QueueInv, StartInv, Sorted, CurrentQueueKnown
  <2>3. ASSUME NEW v \in Works PROVE Covered(v)'
    <3>1. /\ (Queued(v)' <=> Queued(v)) /\ Handling(v)' = Handling(v)
          /\ Acting(v)' = Acting(v) /\ Leaking(v)' = Leaking(v)
      BY <2>1 DEF Queued, Handling, Acting, Leaking
    <3> QED BY <2>1, <3>1, CoverKept DEF WorkInv
  <2> QED BY <2>2, <2>3 DEF WorkInv
<1> QED BY <1>1, <1>2, <1>3, <1>4 DEF WorkNext

\* The invariant holds throughout.
LEMMA Invariance == WorkSpec => []WorkInv
BY InitInv, NextInv, PTL DEF WorkSpec

-----------------------------------------------------------------------------
\* The safety argument of submit and from_raw: however often items are
\* submitted, run, cloned and dropped, every raw pointer that the kernel will
\* hand back is backed by a reference, and the strong count is exact.
THEOREM ReferencesCover == WorkSpec => []RawRefsCover
<1>1. WorkInv => RawRefsCover
  BY CoveredIsRawRefsCover DEF WorkInv
<1> QED BY <1>1, Invariance, PTL

\* SimpleTls stays sorted, so its bisection finds the queue of every thread
\* that runs actions.
THEOREM QueueKnown == WorkSpec => []CurrentQueueKnown
<1>1. WorkInv => CurrentQueueKnown
  BY DEF WorkInv
<1> QED BY <1>1, Invariance, PTL
=============================================================================
