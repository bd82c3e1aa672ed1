--------------------------- MODULE Channel_proofs ---------------------------
(***************************************************************************)
(* Proofs about Channel, for any sets of senders, receivers and buffers    *)
(* and any number of messages: who may touch a buffer, what a call of recv *)
(* returns, and that the two queues of buffers are one queue of messages.  *)
(***************************************************************************)
EXTENDS Channel, FiniteSetTheorems, SequenceTheorems, TLAPS

-----------------------------------------------------------------------------
(* Queues of buffers as sets.                                              *)

\* No element is twice in the queue.
Distinct(q) == \A i, j \in 1..Len(q) : q[i] = q[j] => i = j

\* k_queue_append.
LEMMA AppendSet ==
    ASSUME NEW S, NEW q \in Seq(S), NEW x \in S
    PROVE  /\ Append(q, x) \in Seq(S)
           /\ Append(q, x) # <<>>
           /\ ToSet(Append(q, x)) = ToSet(q) \cup {x}
           /\ Distinct(q) /\ x \notin ToSet(q) => Distinct(Append(q, x))
<1>1. /\ Append(q, x) \in Seq(S) /\ Append(q, x) # <<>>
      /\ DOMAIN q = 1..Len(q) /\ Len(q) \in Nat
      /\ DOMAIN Append(q, x) = 1..Len(q)+1
      /\ Len(Append(q, x)) = Len(q) + 1
      /\ \A i \in 1..Len(q) : Append(q, x)[i] = q[i]
      /\ Append(q, x)[Len(q) + 1] = x
  OBVIOUS
<1>2. \A i : i \in 1..Len(q)+1 <=> i \in 1..Len(q) \/ i = Len(q) + 1
  BY <1>1
<1>3. ToSet(Append(q, x)) = ToSet(q) \cup {x}
  BY <1>1, <1>2 DEF ToSet
<1>4. ASSUME Distinct(q), x \notin ToSet(q) PROVE Distinct(Append(q, x))
  BY <1>1, <1>2, <1>4 DEF Distinct, ToSet
<1> QED BY <1>1, <1>3, <1>4

\* k_queue_get of a queue that is not empty.
LEMMA TailSet ==
    ASSUME NEW S, NEW q \in Seq(S), q # <<>>
    PROVE  /\ Tail(q) \in Seq(S)
           /\ Head(q) \in S
           /\ ToSet(q) = ToSet(Tail(q)) \cup {Head(q)}
           /\ Distinct(q) => Distinct(Tail(q)) /\ Head(q) \notin ToSet(Tail(q))
<1>1. /\ Tail(q) \in Seq(S) /\ Head(q) \in S /\ Head(q) = q[1]
      /\ DOMAIN q = 1..Len(q) /\ Len(q) \in Nat /\ Len(q) > 0
      /\ DOMAIN Tail(q) = 1..Len(q)-1
      /\ Len(Tail(q)) = Len(q) - 1
      /\ \A i \in 1..Len(q)-1 : Tail(q)[i] = q[i+1]
  OBVIOUS
<1>2. \A i \in 1..Len(q) : i = 1 \/ i - 1 \in 1..Len(q)-1
  BY <1>1
<1>3. \A i \in 1..Len(q)-1 : i + 1 \in 1..Len(q)
  BY <1>1
<1>4. ToSet(q) = ToSet(Tail(q)) \cup {Head(q)}
  <2>1. ASSUME NEW y \in ToSet(q) PROVE y \in ToSet(Tail(q)) \cup {Head(q)}
    <3>1. PICK i \in 1..Len(q) : y = q[i]
      BY <1>1, <2>1 DEF ToSet
    <3>2. CASE i = 1
      BY <1>1, <3>1, <3>2
    <3>3. CASE i # 1
      <4>1. i - 1 \in 1..Len(q)-1 /\ Tail(q)[i-1] = q[i]
        BY <1>1, <1>2, <3>1, <3>3
      <4> QED BY <1>1, <3>1, <4>1 DEF ToSet
    <3> QED BY <3>2, <3>3
  <2>2. ASSUME NEW y \in ToSet(Tail(q)) PROVE y \in ToSet(q)
    BY <1>1, <1>3, <2>2 DEF ToSet
  <2>3. Head(q) \in ToSet(q)
    BY <1>1 DEF ToSet
  <2> QED BY <2>1, <2>2, <2>3
<1>5. ASSUME Distinct(q) PROVE Distinct(Tail(q)) /\ Head(q) \notin ToSet(Tail(q))
  <2>1. Distinct(Tail(q))
    BY <1>1, <1>3, <1>5 DEF Distinct
  <2>2. Head(q) \notin ToSet(Tail(q))
    BY <1>1, <1>3, <1>5 DEF Distinct, ToSet
  <2> QED BY <2>1, <2>2
<1> QED BY <1>1, <1>4, <1>5

\* An empty queue holds no buffer.
LEMMA EmptyQueue ==
    ASSUME NEW q, q = <<>>
    PROVE  ToSet(q) = {} /\ Distinct(q)
<1>1. ToSet(q) = {}
  BY DEF ToSet
<1>2. Distinct(q)
  BY DEF Distinct
<1> QED BY <1>1, <1>2

\* The size of an interval.
LEMMA IntervalSize ==
    ASSUME NEW n \in Nat
    PROVE  IsFiniteSet(1..n) /\ Cardinality(1..n) = n
BY FS_Interval

\* Bounded::new puts every buffer into the free list once.
LEMMA NewFree ==
    ASSUME NEW q \in SetToSeqs(Bufs)
    PROVE  q \in Seq(Bufs) /\ Distinct(q) /\ ToSet(q) = Bufs
<1> DEFINE D == 1..Cardinality(Bufs)
<1>1. Cardinality(Bufs) \in Nat /\ IsFiniteSet(Bufs)
  BY ChannelAssumption, FS_CardinalityType
<1>2. q \in [D -> Bufs] /\ \A i, j \in D : i # j => q[i] # q[j]
  BY DEF SetToSeqs
<1>3. q \in Seq(Bufs) /\ Len(q) = Cardinality(Bufs)
  BY <1>1, <1>2
<1>4. Distinct(q)
  BY <1>2, <1>3 DEF Distinct
<1>5. IsFiniteSet(D) /\ Cardinality(D) = Cardinality(Bufs)
  BY <1>1, FS_Interval
<1>6. q \in Injection(D, Bufs)
  BY <1>2 DEF Injection, IsInjective
<1>7. q \in Surjection(D, Bufs)
  BY <1>1, <1>5, <1>6, FS_Injection
<1>8. ToSet(q) = Bufs
  BY <1>2, <1>7 DEF Surjection, ToSet
<1> QED BY <1>3, <1>4, <1>8

\* A queue without a duplicate that misses a buffer is shorter than the number
\* of buffers.
LEMMA QueueShorter ==
    ASSUME NEW q \in Seq(Bufs), Distinct(q), NEW b \in Bufs, b \notin ToSet(q)
    PROVE  Len(q) < Cardinality(Bufs)
<1> DEFINE D == 1..Len(q)
           T == Bufs \ {b}
<1>1. IsFiniteSet(Bufs)
  BY ChannelAssumption
<1>2. /\ IsFiniteSet(T) /\ Cardinality(T) = Cardinality(Bufs) - 1
      /\ Cardinality(Bufs) \in Nat
  BY <1>1, FS_RemoveElement, FS_CardinalityType
<1>3. Len(q) \in Nat /\ q \in [D -> T]
  <2>1. Len(q) \in Nat /\ q \in [D -> Bufs] /\ DOMAIN q = D
    OBVIOUS
  <2>2. \A i \in D : q[i] \in T
    BY <2>1 DEF ToSet
  <2> QED BY <2>1, <2>2
<1>4. q \in Injection(D, T)
  BY <1>3 DEF Injection, IsInjective, Distinct
<1>5. Cardinality(D) <= Cardinality(T)
  BY <1>2, <1>4, FS_Injection
<1>6. Cardinality(D) = Len(q)
  BY <1>3, IntervalSize
<1> QED BY <1>2, <1>3, <1>5, <1>6

-----------------------------------------------------------------------------
(* The inductive invariant.                                                *)

SendLabels == {"idle", "wait_free", "wait_free_timed", "write", "post", "panic"}

RecvLabels == {"idle", "wait_chan", "wait_chan_timed", "read", "return", "panic"}

\* The pcs of a thread that has a buffer.
Having == {"write", "post", "read", "return"}

TypeOK ==
    /\ bounded \in BOOLEAN
    /\ pc \in [Threads -> SendLabels \cup RecvLabels]
    /\ buf \in [Threads -> Bufs \cup {None}]
    /\ free \in Seq(Bufs)
    /\ chan \in Seq(Bufs)
    /\ data \in [Bufs -> Messages \cup {None}]
    /\ handles \in SUBSET Threads
    /\ senders \in Nat
    /\ receivers \in Nat
    /\ tried \in [Senders -> 0..MaxMsgs]
    /\ accepted \in SUBSET Messages
    /\ delivered \in Seq(Messages)
    /\ out \in [Receivers -> Messages \cup {None}]
    /\ returned \in SUBSET Messages

\* Each side runs its own calls, a thread has a buffer in the middle of a call
\* only, and nobody waits for a message while there is one.
CallInv ==
    /\ \A s \in Senders : pc[s] \in SendLabels
    /\ \A r \in Receivers : pc[r] \in RecvLabels
    /\ \A t \in Threads : buf[t] # None <=> pc[t] \in Having
    /\ chan # <<>> => \A r \in Receivers : pc[r] \notin {"wait_chan", "wait_chan_timed"}

\* A buffer is in one place, and those of a bounded channel are somewhere.
PlaceInv ==
    /\ Distinct(free)
    /\ Distinct(chan)
    /\ ToSet(free) \cap ToSet(chan) = {}
    /\ \A t \in Threads : buf[t] \notin ToSet(free) \cup ToSet(chan)
    /\ \A t, u \in Threads : buf[t] = buf[u] /\ buf[t] # None => t = u
    /\ bounded => \A b \in Bufs :
          b \in ToSet(free) \cup ToSet(chan) \/ \E t \in Threads : buf[t] = b

\* A message is in one place too: with its sender, in a buffer of chan, with
\* its receiver, or returned.
MsgInv ==
    /\ \A m \in accepted : m[2] <= tried[m[1]]
    /\ \A s \in Senders : pc[s] \in {"wait_free", "wait_free_timed", "write", "post"} =>
          Msg(s) \in Messages \ accepted
    /\ \A s \in Senders : pc[s] = "post" => data[buf[s]] = Msg(s)
    /\ ToSet(delivered) \subseteq accepted
    /\ returned \subseteq ToSet(delivered)
    /\ \A b \in ToSet(chan) :
          /\ data[b] \in accepted \ ToSet(delivered)
          /\ \A c \in ToSet(chan) : data[b] = data[c] => b = c

HandleInv == IsFiniteSet(handles) /\ HandlesCounted

ChannelInv == TypeOK /\ CallInv /\ PlaceInv /\ MsgInv /\ ReturnedOnce /\ HandleInv

-----------------------------------------------------------------------------
\* A thread is a sender or a receiver, and neither is None.
LEMMA ThreadFacts ==
    /\ \A s \in Senders : s \in Threads /\ s \notin Receivers
    /\ \A r \in Receivers : r \in Threads /\ r \notin Senders
    /\ None \notin Threads /\ None \notin Bufs /\ MaxMsgs \in Nat
BY ChannelAssumption DEF Threads

\* None is no buffer, so no queue holds it.
LEMMA NoneOut == \A q \in Seq(Bufs) : None \notin ToSet(q)
BY ThreadFacts DEF ToSet

\* The invariant holds when the channel has been created.
LEMMA InitInv == Init => ChannelInv
<1> SUFFICES ASSUME Init PROVE ChannelInv
  OBVIOUS
<1> USE ThreadFacts
<1>0. /\ free \in Seq(Bufs) /\ Distinct(free)
      /\ bounded => ToSet(free) = Bufs
      /\ ToSet(free) \subseteq Bufs
      /\ chan = <<>> /\ chan \in Seq(Bufs) /\ ToSet(chan) = {} /\ Distinct(chan)
      /\ delivered = <<>> /\ delivered \in Seq(Messages) /\ ToSet(delivered) = {}
  <2>1. CASE bounded
    BY <2>1, NewFree, EmptyQueue DEF Init, NewQueues
  <2>2. CASE ~bounded
    BY <2>2, EmptyQueue DEF Init, NewQueues
  <2> QED BY <2>1, <2>2
<1>1. PICK s0 \in Senders, r0 \in Receivers : First[1] = s0 /\ First[2] = r0
  BY ChannelAssumption
<1>2. TypeOK
  BY <1>0, <1>1 DEF Init, NewQueues, NewCounter, TypeOK, SendLabels
<1>3. CallInv
  BY <1>0 DEF Init, CallInv, SendLabels, RecvLabels, Having
<1>4. PlaceInv
  <2>1. \A t \in Threads : buf[t] = None
    BY DEF Init
  <2> QED BY <1>0, <2>1 DEF PlaceInv
<1>5. MsgInv /\ ReturnedOnce
  BY <1>0 DEF Init, MsgInv, ReturnedOnce
<1>6. HandleInv
  <2>1. handles \cap Senders = {s0} /\ handles \cap Receivers = {r0} /\ handles = {s0, r0}
    BY <1>1 DEF Init, NewCounter
  <2>2. IsFiniteSet({s0} \cup {r0}) /\ handles = {s0} \cup {r0}
    BY <2>1, FS_Singleton, FS_AddElement
  <2> QED BY <2>1, <2>2, FS_Singleton DEF Init, NewCounter, HandleInv, HandlesCounted
<1> QED BY <1>2, <1>3, <1>4, <1>5, <1>6 DEF ChannelInv

\* Calls of send and recv leave the handles alone, and only threads with a
\* handle make them.
LEMMA HandlesKept ==
    ASSUME TypeOK, HandleInv, UNCHANGED <<handles, senders, receivers>>,
           \A t \in Threads : pc'[t] = pc[t] \/ (t \in handles /\ pc'[t] # "panic")
    PROVE  HandleInv'
BY ThreadFacts DEF TypeOK, HandleInv, HandlesCounted

-----------------------------------------------------------------------------
(* The steps of senders and receivers.                                     *)

\* free.recv finds a buffer.
LEMMA SendTakeInv ==
    ASSUME ChannelInv, NEW s \in Senders, SendTake(s)
    PROVE  ChannelInv'
<1> USE ThreadFacts
<1>0. TypeOK /\ CallInv /\ PlaceInv /\ MsgInv /\ ReturnedOnce /\ HandleInv
  BY DEF ChannelInv
<1>a. /\ Tail(free) \in Seq(Bufs) /\ Head(free) \in Bufs
      /\ ToSet(free) = ToSet(Tail(free)) \cup {Head(free)}
      /\ Distinct(Tail(free)) /\ Head(free) \notin ToSet(Tail(free))
  BY <1>0, TailSet DEF SendTake, TypeOK, PlaceInv
<1>1. TypeOK'
  BY <1>0, <1>a DEF SendTake, MaySend, Trying, TypeOK, SendLabels, RecvLabels
<1>2. CallInv'
  BY <1>0, <1>a
     DEF SendTake, MaySend, Trying, TypeOK, CallInv, SendLabels, RecvLabels,
         Having
<1>3. PlaceInv'
  <2>1. /\ chan' = chan /\ bounded' = bounded /\ free' = Tail(free)
        /\ buf'[s] = Head(free) /\ buf[s] = None
        /\ \A t \in Threads \ {s} : buf'[t] = buf[t]
    BY <1>0 DEF SendTake, MaySend, TypeOK, CallInv, Having
  <2>2. \A t, u \in Threads : buf'[t] = buf'[u] /\ buf'[t] # None => t = u
    BY <1>0, <1>a, <2>1 DEF PlaceInv
  <2>3. bounded' => \A b \in Bufs :
          \/ b \in ToSet(free') \cup ToSet(chan')
          \/ \E t \in Threads : buf'[t] = b
    <3> SUFFICES ASSUME bounded, NEW b \in Bufs, b \notin ToSet(free') \cup ToSet(chan')
                 PROVE  \E t \in Threads : buf'[t] = b
      BY <2>1
    <3>1. CASE b = Head(free)
      BY <2>1, <3>1
    <3>2. CASE b # Head(free)
      <4>1. PICK t \in Threads : buf[t] = b
        BY <1>0, <1>a, <2>1, <3>2 DEF PlaceInv
      <4> QED BY <2>1, <4>1
    <3> QED BY <3>1, <3>2
  <2> QED BY <1>0, <1>a, <2>1, <2>2, <2>3 DEF PlaceInv
<1>4. MsgInv'
  BY <1>0, <1>a
     DEF SendTake, MaySend, Trying, TypeOK, CallInv, PlaceInv, MsgInv, Msg,
         Messages, Having
<1>5. ReturnedOnce'
  BY <1>0, <1>a
     DEF SendTake, MaySend, Trying, TypeOK, CallInv, PlaceInv, MsgInv,
         ReturnedOnce, Carried, Having
<1>6. HandleInv'
  BY <1>0, HandlesKept, <1>a
     DEF SendTake, MaySend, Trying, TypeOK, HandleInv, HandlesCounted
<1> QED BY <1>1, <1>2, <1>3, <1>4, <1>5, <1>6 DEF ChannelInv

\* try_send finds none.
LEMMA TrySendFailsInv ==
    ASSUME ChannelInv, NEW s \in Senders, TrySendFails(s)
    PROVE  ChannelInv'
<1> USE ThreadFacts
<1>0. TypeOK /\ CallInv /\ PlaceInv /\ MsgInv /\ ReturnedOnce /\ HandleInv
  BY DEF ChannelInv
<1>1. TypeOK'
  BY <1>0 DEF TrySendFails, MaySend, Trying, TypeOK, SendLabels, RecvLabels
<1>2. CallInv'
  BY <1>0
     DEF TrySendFails, MaySend, Trying, TypeOK, CallInv, SendLabels,
         RecvLabels, Having
<1>3. PlaceInv'
  BY <1>0 DEF TrySendFails, MaySend, Trying, TypeOK, CallInv, PlaceInv, Having
<1>4. MsgInv'
  BY <1>0
     DEF TrySendFails, MaySend, Trying, TypeOK, CallInv, PlaceInv, MsgInv,
         Msg, Messages, Having
<1>5. ReturnedOnce'
  BY <1>0
     DEF TrySendFails, MaySend, Trying, TypeOK, CallInv, PlaceInv, MsgInv,
         ReturnedOnce, Carried, Having
<1>6. HandleInv'
  BY <1>0, HandlesKept
     DEF TrySendFails, MaySend, Trying, TypeOK, HandleInv, HandlesCounted
<1> QED BY <1>1, <1>2, <1>3, <1>4, <1>5, <1>6 DEF ChannelInv

\* The sender waits for a buffer.
LEMMA SendWaitsInv ==
    ASSUME ChannelInv, NEW s \in Senders, NEW label \in {"wait_free", "wait_free_timed"},
           SendWaits(s, label)
    PROVE  ChannelInv'
<1> USE ThreadFacts
<1>0. TypeOK /\ CallInv /\ PlaceInv /\ MsgInv /\ ReturnedOnce /\ HandleInv
  BY DEF ChannelInv
<1>1. TypeOK'
  BY <1>0 DEF SendWaits, MaySend, Trying, TypeOK, SendLabels, RecvLabels
<1>2. CallInv'
  BY <1>0
     DEF SendWaits, MaySend, Trying, TypeOK, CallInv, SendLabels, RecvLabels,
         Having
<1>3. PlaceInv'
  BY <1>0 DEF SendWaits, MaySend, Trying, TypeOK, CallInv, PlaceInv, Having
<1>4. MsgInv'
  BY <1>0
     DEF SendWaits, MaySend, Trying, TypeOK, CallInv, PlaceInv, MsgInv, Msg,
         Messages, Having
<1>5. ReturnedOnce'
  BY <1>0
     DEF SendWaits, MaySend, Trying, TypeOK, CallInv, PlaceInv, MsgInv,
         ReturnedOnce, Carried, Having
<1>6. HandleInv'
  BY <1>0, HandlesKept DEF SendWaits, MaySend, Trying, TypeOK, HandleInv, HandlesCounted
<1> QED BY <1>1, <1>2, <1>3, <1>4, <1>5, <1>6 DEF ChannelInv

\* It gives up.
LEMMA SendTimesOutInv ==
    ASSUME ChannelInv, NEW s \in Senders, SendTimesOut(s)
    PROVE  ChannelInv'
<1> USE ThreadFacts
<1>0. TypeOK /\ CallInv /\ PlaceInv /\ MsgInv /\ ReturnedOnce /\ HandleInv
  BY DEF ChannelInv
<1>1. TypeOK'
  BY <1>0 DEF SendTimesOut, TypeOK, SendLabels, RecvLabels
<1>2. CallInv'
  BY <1>0 DEF SendTimesOut, TypeOK, CallInv, SendLabels, RecvLabels, Having
<1>3. PlaceInv'
  BY <1>0 DEF SendTimesOut, TypeOK, CallInv, PlaceInv, Having
<1>4. MsgInv'
  BY <1>0 DEF SendTimesOut, TypeOK, CallInv, PlaceInv, MsgInv, Msg, Messages, Having
<1>5. ReturnedOnce'
  BY <1>0
     DEF SendTimesOut, TypeOK, CallInv, PlaceInv, MsgInv, ReturnedOnce,
         Carried, Having
<1>6. HandleInv'
  BY <1>0, HandlesKept DEF SendTimesOut, TypeOK, HandleInv, HandlesCounted
<1> QED BY <1>1, <1>2, <1>3, <1>4, <1>5, <1>6 DEF ChannelInv

\* A Box for the message.
LEMMA SendAllocatesInv ==
    ASSUME ChannelInv, NEW s \in Senders, SendAllocates(s)
    PROVE  ChannelInv'
<1> USE ThreadFacts
<1>0. TypeOK /\ CallInv /\ PlaceInv /\ MsgInv /\ ReturnedOnce /\ HandleInv
  BY DEF ChannelInv
<1>1. TypeOK'
  BY <1>0 DEF SendAllocates, MaySend, Trying, InUse, TypeOK, SendLabels, RecvLabels
<1>2. CallInv'
  BY <1>0
     DEF SendAllocates, MaySend, Trying, InUse, TypeOK, CallInv, SendLabels,
         RecvLabels, Having
<1>3. PlaceInv'
  BY <1>0 DEF SendAllocates, MaySend, Trying, InUse, TypeOK, CallInv, PlaceInv, Having
<1>4. MsgInv'
  <2>1. /\ \A u \in Senders \ {s} : buf'[u] = buf[u] /\ pc'[u] = pc[u] /\ tried'[u] = tried[u]
        /\ tried[s] < MaxMsgs /\ tried'[s] = tried[s] + 1 /\ pc'[s] = "write"
        /\ UNCHANGED <<chan, data, accepted, delivered, returned>>
    BY <1>0 DEF SendAllocates, MaySend, Trying, TypeOK
  <2>2. \A m \in accepted' : m[2] <= tried'[m[1]]
    <3>1. \A u \in Senders : tried[u] \in Nat /\ tried'[u] \in Nat /\ tried[u] <= tried'[u]
      <4>1. \A u \in Senders : tried[u] \in 0..MaxMsgs
        BY <1>0 DEF TypeOK
      <4> QED BY <2>1, <4>1
    <3>2. \A m \in accepted : m[1] \in Senders /\ m[2] \in Nat
      BY <1>0 DEF TypeOK, Messages
    <3> QED BY <1>0, <2>1, <3>1, <3>2 DEF MsgInv
  <2>3. Msg(s)' \in Messages \ accepted'
    BY <1>0, <2>1 DEF TypeOK, MsgInv, Msg, Messages
  <2>4. \A u \in Senders \ {s} : Msg(u)' = Msg(u)
    BY <2>1 DEF Msg
  <2> QED BY <1>0, <2>1, <2>2, <2>3, <2>4 DEF MsgInv
<1>5. ReturnedOnce'
  BY <1>0
     DEF SendAllocates, MaySend, Trying, InUse, TypeOK, CallInv, PlaceInv,
         MsgInv, ReturnedOnce, Carried, Having
<1>6. HandleInv'
  BY <1>0, HandlesKept
     DEF SendAllocates, MaySend, Trying, InUse, TypeOK, HandleInv,
         HandlesCounted
<1> QED BY <1>1, <1>2, <1>3, <1>4, <1>5, <1>6 DEF ChannelInv

\* The message is written to the buffer, which nobody else looks at.
LEMMA WriteInv ==
    ASSUME ChannelInv, NEW s \in Senders, Write(s)
    PROVE  ChannelInv'
<1> USE ThreadFacts
<1>0. TypeOK /\ CallInv /\ PlaceInv /\ MsgInv /\ ReturnedOnce /\ HandleInv
  BY DEF ChannelInv
<1>1. TypeOK'
  BY <1>0 DEF Write, TypeOK, SendLabels, CallInv, Having, MsgInv
<1>2. CallInv'
  BY <1>0 DEF Write, TypeOK, CallInv, SendLabels, RecvLabels, Having
<1>3. PlaceInv'
  BY <1>0 DEF Write, TypeOK, CallInv, PlaceInv, Having
<1>4. MsgInv'
  BY <1>0 DEF Write, TypeOK, CallInv, PlaceInv, MsgInv, Msg, Messages, Having
<1>5. ReturnedOnce'
  BY <1>0 DEF Write, TypeOK, CallInv, PlaceInv, MsgInv, ReturnedOnce, Carried, Having
<1>6. HandleInv'
  BY <1>0, HandlesKept DEF Write, TypeOK, HandleInv, HandlesCounted
<1> QED BY <1>1, <1>2, <1>3, <1>4, <1>5, <1>6 DEF ChannelInv

\* chan.send gives the buffer to a receiver that waits.
LEMMA PostPassesInv ==
    ASSUME ChannelInv, NEW s \in Senders, NEW r \in WaitChan, pc[s] = "post",
           accepted' = accepted \cup {Msg(s)},
           buf' = [buf EXCEPT ![s] = None, ![r] = buf[s]],
           pc' = [pc EXCEPT ![s] = "idle", ![r] = "read"],
           delivered' = Append(delivered, data[buf[s]]),
           UNCHANGED <<chan, bounded, free, data, handles, senders, receivers,
                       tried, out, returned>>
    PROVE  ChannelInv'
<1> USE ThreadFacts
<1>0. TypeOK /\ CallInv /\ PlaceInv /\ MsgInv /\ ReturnedOnce /\ HandleInv
  BY DEF ChannelInv
<1>w. /\ r \in Receivers /\ r \in Threads /\ r # s
      /\ pc[r] \in {"wait_chan", "wait_chan_timed"}
  BY <1>0 DEF CallInv, WaitChan, SendLabels, Threads
<1>h. s \in handles /\ r \in handles
  BY <1>0, <1>w DEF HandleInv, HandlesCounted
<1>a. /\ buf[s] \in Bufs /\ buf[r] = None
      /\ data[buf[s]] = Msg(s) /\ Msg(s) \in Messages /\ Msg(s) \notin accepted
      /\ buf'[s] = None /\ buf'[r] = buf[s] /\ pc'[s] = "idle" /\ pc'[r] = "read"
      /\ \A t \in Threads : t # s /\ t # r => buf'[t] = buf[t] /\ pc'[t] = pc[t]
  BY <1>0, <1>w DEF TypeOK, CallInv, Having, MsgInv
<1>b. /\ delivered' \in Seq(Messages)
      /\ ToSet(delivered') = ToSet(delivered) \cup {Msg(s)}
  BY <1>0, <1>a, AppendSet DEF TypeOK
<1>c. chan = <<>>
  BY <1>0, <1>w DEF CallInv
<1>1. TypeOK'
  BY <1>0, <1>w, <1>a, <1>b DEF TypeOK, SendLabels, RecvLabels
<1>2. CallInv'
  BY <1>0, <1>w, <1>a, <1>c DEF CallInv, SendLabels, RecvLabels, Having, TypeOK
<1>3. PlaceInv'
  <2>1. \A t, u \in Threads : buf'[t] = buf'[u] /\ buf'[t] # None => t = u
    BY <1>0, <1>w, <1>a DEF PlaceInv
  <2>2. \A b \in Bufs : (\E t \in Threads : buf[t] = b) => \E t \in Threads : buf'[t] = b
    BY <1>w, <1>a
  <2>3. \A t \in Threads : buf'[t] \notin ToSet(free) \cup ToSet(chan)
    BY <1>0, <1>w, <1>a DEF PlaceInv
  <2> QED BY <1>0, <2>1, <2>2, <2>3 DEF PlaceInv
<1>4. MsgInv'
  <2>1. ToSet(chan) = {}
    BY <1>c, EmptyQueue
  <2>2. \A m \in accepted' : m[2] <= tried'[m[1]]
    BY <1>0 DEF TypeOK, MsgInv, Msg
  <2>3. \A u \in Senders \ {s} : Msg(u)' = Msg(u) /\ Msg(u) # Msg(s)
    BY DEF Msg
  <2>4. \A u \in Senders \ {s} : buf'[u] = buf[u] /\ pc'[u] = pc[u]
    BY <1>w, <1>a
  <2>5. ASSUME NEW u \in Senders,
               pc'[u] \in {"wait_free", "wait_free_timed", "write", "post"}
        PROVE  /\ Msg(u)' \in Messages \ accepted'
               /\ pc'[u] = "post" => data'[buf'[u]] = Msg(u)'
    <3>1. u # s
      BY <1>w, <1>a, <2>5
    <3>2. buf'[u] = buf[u] /\ pc'[u] = pc[u] /\ Msg(u)' = Msg(u) /\ Msg(u) # Msg(s)
      BY <2>3, <2>4, <3>1
    <3>3. /\ Msg(u) \in Messages \ accepted
          /\ pc[u] = "post" => data[buf[u]] = Msg(u)
      BY <1>0, <2>5, <3>2 DEF MsgInv
    <3>4. accepted' = accepted \cup {Msg(s)} /\ data' = data
      BY <1>0
    <3> QED BY <3>2, <3>3, <3>4
  <2> QED BY <1>0, <1>a, <1>b, <2>1, <2>2, <2>5 DEF MsgInv
<1>5. ReturnedOnce'
  <2>1. Carried(r)' = Msg(s)
    BY <1>w, <1>a DEF Carried
  <2>2. \A q \in Receivers : q # r => Carried(q)' = Carried(q) /\ pc'[q] = pc[q]
    BY <1>0, <1>w, <1>a DEF Carried, TypeOK
  <2>3. Msg(s) \notin ToSet(delivered) /\ Msg(s) \notin returned
    BY <1>0, <1>a DEF MsgInv
  <2>4. ASSUME NEW q \in Receivers, q # r, pc'[q] \in {"read", "return"}
        PROVE  /\ Carried(q)' \in ToSet(delivered) \ returned
               /\ \A p \in Receivers \ {q, r} :
                     pc'[p] \in {"read", "return"} => Carried(p)' # Carried(q)'
    BY <1>0, <2>2, <2>4 DEF ReturnedOnce
  <2>5. returned' = returned
    OBVIOUS
  <2> QED BY <1>b, <2>1, <2>3, <2>4, <2>5 DEF ReturnedOnce
<1>6. HandleInv'
  <2>1. \A t \in Threads : pc'[t] = pc[t] \/ (t \in handles /\ pc'[t] # "panic")
    <3> SUFFICES ASSUME NEW t \in Threads, pc'[t] # pc[t]
                 PROVE  t \in handles /\ pc'[t] # "panic"
      OBVIOUS
    <3>1. t = s \/ t = r
      BY <1>a
    <3> QED BY <1>w, <1>h, <1>a, <3>1
  <2> QED BY <1>0, <2>1, HandlesKept
<1> QED BY <1>1, <1>2, <1>3, <1>4, <1>5, <1>6 DEF ChannelInv

\* chan.send puts the buffer into the queue.
LEMMA PostQueuesInv ==
    ASSUME ChannelInv, NEW s \in Senders, pc[s] = "post", WaitChan = {},
           accepted' = accepted \cup {Msg(s)},
           buf' = [buf EXCEPT ![s] = None],
           pc' = [pc EXCEPT ![s] = "idle"],
           chan' = Append(chan, buf[s]),
           UNCHANGED <<delivered, bounded, free, data, handles, senders, receivers,
                       tried, out, returned>>
    PROVE  ChannelInv'
<1> USE ThreadFacts
<1>0. TypeOK /\ CallInv /\ PlaceInv /\ MsgInv /\ ReturnedOnce /\ HandleInv
  BY DEF ChannelInv
<1>a. /\ s \in handles
      /\ buf[s] \in Bufs
      /\ data[buf[s]] = Msg(s) /\ Msg(s) \in Messages /\ Msg(s) \notin accepted
      /\ buf'[s] = None /\ pc'[s] = "idle"
      /\ \A t \in Threads : t # s => buf'[t] = buf[t] /\ pc'[t] = pc[t]
      /\ \A r \in Receivers : pc[r] \notin {"wait_chan", "wait_chan_timed"}
  BY <1>0
     DEF TypeOK, CallInv, WaitChan, SendLabels, Having, MsgInv, HandleInv,
         HandlesCounted
<1>b. /\ chan' \in Seq(Bufs)
      /\ ToSet(chan') = ToSet(chan) \cup {buf[s]}
      /\ Distinct(chan')
  BY <1>0, <1>a, AppendSet DEF TypeOK, PlaceInv
<1>1. TypeOK'
  BY <1>0, <1>a, <1>b DEF TypeOK, SendLabels, RecvLabels
<1>2. CallInv'
  BY <1>0, <1>a DEF CallInv, SendLabels, RecvLabels, Having
<1>3. PlaceInv'
  <2>1. \A t, u \in Threads : buf'[t] = buf'[u] /\ buf'[t] # None => t = u
    BY <1>0, <1>a DEF PlaceInv
  <2>2. \A b \in Bufs : (\E t \in Threads : buf[t] = b)
                            => b = buf[s] \/ \E t \in Threads : buf'[t] = b
    BY <1>a
  <2>3. \A t \in Threads : buf'[t] \notin ToSet(free) \cup ToSet(chan')
    <3>1. \A t \in Threads \ {s} : buf[t] # buf[s]
      BY <1>0, <1>a DEF PlaceInv
    <3>2. None \notin ToSet(free) \cup ToSet(chan) \cup {buf[s]}
      BY <1>0, <1>a, NoneOut DEF TypeOK
    <3> QED BY <1>0, <1>a, <1>b, <3>1, <3>2 DEF PlaceInv
  <2> QED BY <1>0, <1>a, <1>b, <2>1, <2>2, <2>3 DEF PlaceInv
<1>4. MsgInv'
  <2>2. \A m \in accepted' : m[2] <= tried'[m[1]]
    BY <1>0 DEF TypeOK, MsgInv, Msg
  <2>3. \A u \in Senders \ {s} : Msg(u)' = Msg(u) /\ Msg(u) # Msg(s)
    BY DEF Msg
  <2>4. \A u \in Senders \ {s} : buf'[u] = buf[u] /\ pc'[u] = pc[u]
    BY <1>a
  <2> QED BY <1>0, <1>a, <1>b, <2>2, <2>3, <2>4 DEF MsgInv
<1>5. ReturnedOnce'
  <2>1. \A q \in Receivers : Carried(q)' = Carried(q) /\ pc'[q] = pc[q]
    BY <1>a DEF Carried
  <2> QED BY <1>0, <2>1 DEF ReturnedOnce
<1>6. HandleInv'
  <2>1. \A t \in Threads : pc'[t] = pc[t] \/ (t \in handles /\ pc'[t] # "panic")
    <3> SUFFICES ASSUME NEW t \in Threads, pc'[t] # pc[t]
                 PROVE  t \in handles /\ pc'[t] # "panic"
      OBVIOUS
    <3>1. t = s
      BY <1>a
    <3> QED BY <1>a, <3>1
  <2> QED BY <1>0, <2>1, HandlesKept
<1> QED BY <1>1, <1>2, <1>3, <1>4, <1>5, <1>6 DEF ChannelInv

\* A post queues the message, or passes it to a receiver that waits.
LEMMA PostInv ==
    ASSUME ChannelInv, NEW s \in Senders, Post(s)
    PROVE  ChannelInv'
<1>1. CASE WaitChan = {}
  BY <1>1, PostQueuesInv DEF Post
<1>2. CASE WaitChan # {}
  BY <1>2, PostPassesInv DEF Post
<1> QED BY <1>1, <1>2

\* chan.recv finds a message.
LEMMA RecvTakeInv ==
    ASSUME ChannelInv, NEW r \in Receivers, RecvTake(r)
    PROVE  ChannelInv'
<1> USE ThreadFacts
<1>0. TypeOK /\ CallInv /\ PlaceInv /\ MsgInv /\ ReturnedOnce /\ HandleInv
  BY DEF ChannelInv
<1>a. /\ chan # <<>> /\ chan' = Tail(chan) /\ r \in handles /\ pc[r] = "idle"
      /\ buf[r] = None /\ buf'[r] = Head(chan) /\ pc'[r] = "read"
      /\ \A t \in Threads : t # r => buf'[t] = buf[t] /\ pc'[t] = pc[t]
      /\ buf' = [buf EXCEPT ![r] = Head(chan)] /\ pc' = [pc EXCEPT ![r] = "read"]
      /\ delivered' = Append(delivered, data[Head(chan)])
      /\ UNCHANGED <<bounded, free, data, handles, senders, receivers, tried,
                     accepted, out, returned>>
  BY <1>0 DEF RecvTake, TypeOK, CallInv, Having
<1>b. /\ Tail(chan) \in Seq(Bufs) /\ Head(chan) \in Bufs
      /\ ToSet(chan) = ToSet(Tail(chan)) \cup {Head(chan)}
      /\ Distinct(Tail(chan)) /\ Head(chan) \notin ToSet(Tail(chan))
  BY <1>0, <1>a, TailSet DEF TypeOK, PlaceInv
<1> DEFINE m == data[Head(chan)]
<1>c. m \in accepted /\ m \notin ToSet(delivered) /\ m \in Messages
  BY <1>0, <1>b DEF MsgInv, TypeOK
<1>d. delivered' \in Seq(Messages) /\ ToSet(delivered') = ToSet(delivered) \cup {m}
  BY <1>0, <1>a, <1>c, AppendSet DEF TypeOK
<1> HIDE DEF m
<1>1. TypeOK'
  BY <1>0, <1>a, <1>b, <1>d DEF TypeOK, RecvLabels
<1>2. CallInv'
  BY <1>0, <1>a, <1>b DEF CallInv, SendLabels, RecvLabels, Having
<1>3. PlaceInv'
  <2>1. \A t, u \in Threads : buf'[t] = buf'[u] /\ buf'[t] # None => t = u
    BY <1>0, <1>a, <1>b DEF PlaceInv
  <2>2. ASSUME bounded, NEW b \in Bufs, b \notin ToSet(free) \cup ToSet(chan')
        PROVE  \E t \in Threads : buf'[t] = b
    <3>1. CASE b = Head(chan)
      BY <1>a, <3>1
    <3>2. CASE b # Head(chan)
      <4>1. PICK t \in Threads : buf[t] = b
        BY <1>0, <1>a, <1>b, <2>2, <3>2 DEF PlaceInv
      <4> QED BY <1>a, <4>1
    <3> QED BY <3>1, <3>2
  <2>3. \A t \in Threads : buf'[t] \notin ToSet(free) \cup ToSet(chan')
    BY <1>0, <1>a, <1>b DEF PlaceInv
  <2> QED BY <1>0, <1>a, <1>b, <2>1, <2>2, <2>3 DEF PlaceInv
<1>4. MsgInv'
  <2>1. \A u \in Senders : Msg(u)' = Msg(u) /\ buf'[u] = buf[u] /\ pc'[u] = pc[u]
    BY <1>a DEF Msg
  <2>2. \A b \in ToSet(chan') : data[b] # m
    BY <1>0, <1>a, <1>b DEF MsgInv, m
  <2> QED BY <1>0, <1>a, <1>b, <1>c, <1>d, <2>1, <2>2 DEF MsgInv
<1>5. ReturnedOnce'
  <2>1. Carried(r)' = m
    BY <1>a DEF Carried, m
  <2>2. \A q \in Receivers : q # r => Carried(q)' = Carried(q) /\ pc'[q] = pc[q]
    BY <1>a DEF Carried
  <2>3. m \notin returned
    BY <1>0, <1>c DEF MsgInv
  <2> QED BY <1>0, <1>a, <1>c, <1>d, <2>1, <2>2, <2>3 DEF ReturnedOnce
<1>6. HandleInv'
  <2>1. \A t \in Threads : pc'[t] = pc[t] \/ (t \in handles /\ pc'[t] # "panic")
    BY <1>a
  <2> QED BY <1>0, <1>a, <2>1, HandlesKept
<1> QED BY <1>1, <1>2, <1>3, <1>4, <1>5, <1>6 DEF ChannelInv

\* The receiver waits for a message.
LEMMA RecvWaitsInv ==
    ASSUME ChannelInv, NEW r \in Receivers, NEW label \in {"wait_chan", "wait_chan_timed"},
           RecvWaits(r, label)
    PROVE  ChannelInv'
<1> USE ThreadFacts
<1>0. TypeOK /\ CallInv /\ PlaceInv /\ MsgInv /\ ReturnedOnce /\ HandleInv
  BY DEF ChannelInv
<1>1. TypeOK'
  BY <1>0 DEF RecvWaits, TypeOK, SendLabels, RecvLabels
<1>2. CallInv'
  BY <1>0 DEF RecvWaits, TypeOK, CallInv, SendLabels, RecvLabels, Having
<1>3. PlaceInv'
  BY <1>0 DEF RecvWaits, TypeOK, CallInv, PlaceInv, Having
<1>4. MsgInv'
  BY <1>0 DEF RecvWaits, TypeOK, CallInv, PlaceInv, MsgInv, Msg, Messages, Having
<1>5. ReturnedOnce'
  BY <1>0
     DEF RecvWaits, TypeOK, CallInv, PlaceInv, MsgInv, ReturnedOnce, Carried,
         Having
<1>6. HandleInv'
  BY <1>0, HandlesKept DEF RecvWaits, TypeOK, HandleInv, HandlesCounted
<1> QED BY <1>1, <1>2, <1>3, <1>4, <1>5, <1>6 DEF ChannelInv

\* It gives up.
LEMMA RecvTimesOutInv ==
    ASSUME ChannelInv, NEW r \in Receivers, RecvTimesOut(r)
    PROVE  ChannelInv'
<1> USE ThreadFacts
<1>0. TypeOK /\ CallInv /\ PlaceInv /\ MsgInv /\ ReturnedOnce /\ HandleInv
  BY DEF ChannelInv
<1>1. TypeOK'
  BY <1>0 DEF RecvTimesOut, TypeOK, SendLabels, RecvLabels
<1>2. CallInv'
  BY <1>0 DEF RecvTimesOut, TypeOK, CallInv, SendLabels, RecvLabels, Having
<1>3. PlaceInv'
  BY <1>0 DEF RecvTimesOut, TypeOK, CallInv, PlaceInv, Having
<1>4. MsgInv'
  BY <1>0 DEF RecvTimesOut, TypeOK, CallInv, PlaceInv, MsgInv, Msg, Messages, Having
<1>5. ReturnedOnce'
  BY <1>0
     DEF RecvTimesOut, TypeOK, CallInv, PlaceInv, MsgInv, ReturnedOnce,
         Carried, Having
<1>6. HandleInv'
  BY <1>0, HandlesKept DEF RecvTimesOut, TypeOK, HandleInv, HandlesCounted
<1> QED BY <1>1, <1>2, <1>3, <1>4, <1>5, <1>6 DEF ChannelInv

\* The message is copied out of the buffer.
LEMMA ReadInv ==
    ASSUME ChannelInv, NEW r \in Receivers, Read(r)
    PROVE  ChannelInv'
<1> USE ThreadFacts
<1>0. TypeOK /\ CallInv /\ PlaceInv /\ MsgInv /\ ReturnedOnce /\ HandleInv
  BY DEF ChannelInv
<1>1. TypeOK'
  BY <1>0 DEF Read, TypeOK, RecvLabels, CallInv, Having
<1>2. CallInv'
  BY <1>0 DEF Read, TypeOK, CallInv, SendLabels, RecvLabels, Having
<1>3. PlaceInv'
  BY <1>0 DEF Read, TypeOK, CallInv, PlaceInv, Having
<1>4. MsgInv'
  BY <1>0 DEF Read, TypeOK, CallInv, PlaceInv, MsgInv, Msg, Messages, Having
<1>5. ReturnedOnce'
  BY <1>0 DEF Read, TypeOK, CallInv, PlaceInv, MsgInv, ReturnedOnce, Carried, Having
<1>6. HandleInv'
  BY <1>0, HandlesKept DEF Read, TypeOK, HandleInv, HandlesCounted
<1> QED BY <1>1, <1>2, <1>3, <1>4, <1>5, <1>6 DEF ChannelInv

\* What is returned left the queue, and no other call has it.
LEMMA ReturnMsg ==
    ASSUME ChannelInv, NEW r \in Receivers, pc[r] = "return",
           returned' = returned \cup {out[r]},
           out' = [out EXCEPT ![r] = None],
           UNCHANGED <<data, accepted, delivered>>,
           pc'[r] = "idle",
           \A q \in Receivers : q # r => pc'[q] = pc[q] /\ buf'[q] = buf[q]
    PROVE  /\ out' \in [Receivers -> Messages \cup {None}]
           /\ returned' \in SUBSET Messages
           /\ returned' \subseteq ToSet(delivered')
           /\ ReturnedOnce'
<1>0. TypeOK /\ MsgInv /\ ReturnedOnce
  BY DEF ChannelInv
<1>1. out[r] \in ToSet(delivered)
  BY <1>0 DEF ReturnedOnce, Carried
<1>2. out[r] \in Messages
  BY <1>0, <1>1 DEF TypeOK, MsgInv
<1>3. /\ out' \in [Receivers -> Messages \cup {None}]
      /\ \A q \in Receivers : q # r => out'[q] = out[q]
      /\ returned' \in SUBSET Messages
  BY <1>0, <1>2 DEF TypeOK
<1>4. returned' \subseteq ToSet(delivered')
  BY <1>0, <1>1 DEF MsgInv
<1>5. \A q \in Receivers : q # r => Carried(q)' = Carried(q) /\ pc'[q] = pc[q]
  BY <1>3 DEF Carried
<1>6. Carried(r) = out[r]
  BY DEF Carried
<1>7. ReturnedOnce'
  BY <1>0, <1>5, <1>6 DEF ReturnedOnce
<1> QED BY <1>3, <1>4, <1>7

\* free.send gives the buffer to a sender that waits.
LEMMA ReturnPassesInv ==
    ASSUME ChannelInv, NEW r \in Receivers, NEW s \in WaitFree, pc[r] = "return",
           returned' = returned \cup {out[r]},
           out' = [out EXCEPT ![r] = None],
           buf' = [buf EXCEPT ![r] = None, ![s] = buf[r]],
           pc' = [pc EXCEPT ![r] = "idle", ![s] = "write"],
           UNCHANGED <<free, bounded, chan, data, handles, senders, receivers,
                       tried, accepted, delivered>>
    PROVE  ChannelInv'
<1> USE ThreadFacts
<1>0. TypeOK /\ CallInv /\ PlaceInv /\ MsgInv /\ ReturnedOnce /\ HandleInv
  BY DEF ChannelInv
<1>w. /\ s \in Senders /\ s \in Threads /\ s # r
      /\ pc[s] \in {"wait_free", "wait_free_timed"}
  BY <1>0 DEF CallInv, WaitFree, RecvLabels, Threads
<1>h. s \in handles /\ r \in handles
  BY <1>0, <1>w DEF HandleInv, HandlesCounted
<1>a. /\ buf[r] \in Bufs /\ buf[s] = None
      /\ buf'[r] = None /\ buf'[s] = buf[r] /\ pc'[r] = "idle" /\ pc'[s] = "write"
      /\ \A t \in Threads : t # s /\ t # r => buf'[t] = buf[t] /\ pc'[t] = pc[t]
  BY <1>0, <1>w DEF TypeOK, CallInv, Having
<1>b. /\ out' \in [Receivers -> Messages \cup {None}] /\ returned' \in SUBSET Messages
      /\ returned' \subseteq ToSet(delivered') /\ ReturnedOnce'
  <2>1. \A q \in Receivers : q # r => pc'[q] = pc[q] /\ buf'[q] = buf[q]
    BY <1>w, <1>a
  <2> QED BY <1>a, <2>1, ReturnMsg
<1>1. TypeOK'
  BY <1>0, <1>w, <1>a, <1>b DEF TypeOK, SendLabels, RecvLabels
<1>2. CallInv'
  BY <1>0, <1>w, <1>a DEF CallInv, SendLabels, RecvLabels, Having, TypeOK
<1>3. PlaceInv'
  <2>1. \A t, u \in Threads : buf'[t] = buf'[u] /\ buf'[t] # None => t = u
    BY <1>0, <1>w, <1>a DEF PlaceInv
  <2>2. \A b \in Bufs : (\E t \in Threads : buf[t] = b) => \E t \in Threads : buf'[t] = b
    BY <1>w, <1>a
  <2>3. \A t \in Threads : buf'[t] \notin ToSet(free) \cup ToSet(chan)
    BY <1>0, <1>w, <1>a DEF PlaceInv
  <2> QED BY <1>0, <2>1, <2>2, <2>3 DEF PlaceInv
<1>4. MsgInv'
  <2>1. ASSUME NEW u \in Senders,
               pc'[u] \in {"wait_free", "wait_free_timed", "write", "post"}
        PROVE  /\ Msg(u)' \in Messages \ accepted'
               /\ pc'[u] = "post" => data'[buf'[u]] = Msg(u)'
    <3>1. Msg(u)' = Msg(u)
      BY DEF Msg
    <3>2. CASE u = s
      BY <1>0, <1>w, <1>a, <3>1, <3>2 DEF MsgInv
    <3>3. CASE u # s
      BY <1>0, <1>w, <1>a, <2>1, <3>1, <3>3 DEF MsgInv
    <3> QED BY <3>2, <3>3
  <2> QED BY <1>0, <1>b, <2>1 DEF MsgInv
<1>6. HandleInv'
  <2>1. \A t \in Threads : pc'[t] = pc[t] \/ (t \in handles /\ pc'[t] # "panic")
    BY <1>w, <1>h, <1>a
  <2> QED BY <1>0, <2>1, HandlesKept
<1> QED BY <1>1, <1>2, <1>3, <1>4, <1>b, <1>6 DEF ChannelInv

\* free.send of a bounded channel puts the buffer into the free list, and an
\* unbounded channel frees it.
LEMMA ReturnEndsInv ==
    ASSUME ChannelInv, NEW r \in Receivers, pc[r] = "return",
           \/ bounded /\ free' = Append(free, buf[r])
           \/ ~bounded /\ UNCHANGED free,
           returned' = returned \cup {out[r]},
           out' = [out EXCEPT ![r] = None],
           buf' = [buf EXCEPT ![r] = None],
           pc' = [pc EXCEPT ![r] = "idle"],
           UNCHANGED <<bounded, chan, data, handles, senders, receivers,
                       tried, accepted, delivered>>
    PROVE  ChannelInv'
<1> USE ThreadFacts
<1>0. TypeOK /\ CallInv /\ PlaceInv /\ MsgInv /\ ReturnedOnce /\ HandleInv
  BY DEF ChannelInv
<1>a. /\ r \in handles /\ buf[r] \in Bufs
      /\ buf'[r] = None /\ pc'[r] = "idle"
      /\ \A t \in Threads : t # r => buf'[t] = buf[t] /\ pc'[t] = pc[t]
  BY <1>0 DEF TypeOK, CallInv, Having, HandleInv, HandlesCounted
<1>b. /\ out' \in [Receivers -> Messages \cup {None}] /\ returned' \in SUBSET Messages
      /\ returned' \subseteq ToSet(delivered') /\ ReturnedOnce'
  <2>1. \A q \in Receivers : q # r => pc'[q] = pc[q] /\ buf'[q] = buf[q]
    BY <1>a
  <2> QED BY <1>a, <2>1, ReturnMsg
<1>c. /\ free' \in Seq(Bufs) /\ Distinct(free')
      /\ ToSet(free') \subseteq ToSet(free) \cup {buf[r]}
      /\ bounded => ToSet(free') = ToSet(free) \cup {buf[r]}
  <2>1. free \in Seq(Bufs) /\ Distinct(free) /\ buf[r] \notin ToSet(free)
    BY <1>0 DEF TypeOK, PlaceInv
  <2>2. CASE bounded
    <3>1. free' = Append(free, buf[r])
      BY <2>2, Zenon
    <3> QED BY <1>a, <2>1, <2>2, <3>1, AppendSet
  <2>3. CASE ~bounded
    BY <2>1, <2>3
  <2> QED BY <2>2, <2>3
<1>1. TypeOK'
  BY <1>0, <1>a, <1>b, <1>c DEF TypeOK, RecvLabels
<1>2. CallInv'
  BY <1>0, <1>a DEF CallInv, SendLabels, RecvLabels, Having
<1>3. PlaceInv'
  <2>1. \A t, u \in Threads : buf'[t] = buf'[u] /\ buf'[t] # None => t = u
    BY <1>0, <1>a DEF PlaceInv
  <2>2. \A b \in Bufs : (\E t \in Threads : buf[t] = b)
                            => b = buf[r] \/ \E t \in Threads : buf'[t] = b
    BY <1>a
  <2>3. \A t \in Threads : buf'[t] \notin ToSet(free') \cup ToSet(chan)
    <3>1. \A t \in Threads : t # r => buf[t] # buf[r]
      BY <1>0, <1>a DEF PlaceInv
    <3>2. None \notin ToSet(free') \cup ToSet(chan)
      BY <1>0, <1>c, NoneOut DEF TypeOK
    <3> QED BY <1>0, <1>a, <1>c, <3>1, <3>2 DEF PlaceInv
  <2> QED BY <1>0, <1>a, <1>c, <2>1, <2>2, <2>3 DEF PlaceInv
<1>4. MsgInv'
  <2>1. \A u \in Senders : Msg(u)' = Msg(u) /\ buf'[u] = buf[u] /\ pc'[u] = pc[u]
    BY <1>a DEF Msg
  <2> QED BY <1>0, <1>b, <2>1 DEF MsgInv
<1>6. HandleInv'
  <2>1. \A t \in Threads : pc'[t] = pc[t] \/ (t \in handles /\ pc'[t] # "panic")
    BY <1>a
  <2> QED BY <1>0, <2>1, HandlesKept
<1> QED BY <1>1, <1>2, <1>3, <1>4, <1>b, <1>6 DEF ChannelInv

\* The buffer goes back to the free queue, to a sender that waits, or is freed.
LEMMA ReturnInv ==
    ASSUME ChannelInv, NEW r \in Receivers, Return(r) \/ ReturnFreesBox(r)
    PROVE  ChannelInv'
<1>1. CASE ReturnFreesBox(r)
  BY <1>1, ReturnEndsInv DEF ReturnFreesBox
<1>2. CASE Return(r) /\ WaitFree = {}
  BY <1>2, ReturnEndsInv DEF Return
<1>3. CASE Return(r) /\ WaitFree # {}
  BY <1>3, ReturnPassesInv DEF Return
<1> QED BY <1>1, <1>2, <1>3

-----------------------------------------------------------------------------
(* Handles.                                                                *)

\* A step that touches nothing but the handles, and the pc of idle threads.
LEMMA HandleStepKeeps ==
    ASSUME TypeOK, CallInv, PlaceInv, MsgInv, ReturnedOnce,
           UNCHANGED <<bounded, buf, free, chan, data, tried, accepted, delivered,
                       out, returned>>,
           handles' \in SUBSET Threads, senders' \in Nat, receivers' \in Nat,
           NEW t \in Threads, pc[t] = "idle", NEW label \in {"idle", "panic"},
           pc' = [pc EXCEPT ![t] = label]
    PROVE  TypeOK' /\ CallInv' /\ PlaceInv' /\ MsgInv' /\ ReturnedOnce'
<1> USE ThreadFacts
<1>1. TypeOK'
  BY DEF TypeOK, SendLabels, RecvLabels
<1>2. CallInv'
  BY DEF TypeOK, CallInv, SendLabels, RecvLabels, Having
<1>3. PlaceInv'
  BY DEF PlaceInv
<1>4. MsgInv'
  BY DEF TypeOK, MsgInv, Msg
<1>5. ReturnedOnce'
  BY DEF TypeOK, ReturnedOnce, Carried
<1> QED BY <1>1, <1>2, <1>3, <1>4, <1>5

\* Adding a handle to one side, or taking one away, counts for that side only.
LEMMA SideCount ==
    ASSUME TypeOK, HandleInv, NEW t \in Threads,
           NEW Side \in {Senders, Receivers}, t \in Side
    PROVE  /\ IsFiniteSet(handles \cap Side) /\ Cardinality(handles \cap Side) \in Nat
           /\ t \notin handles =>
                /\ IsFiniteSet(handles \cup {t})
                /\ Cardinality((handles \cup {t}) \cap Side)
                     = Cardinality(handles \cap Side) + 1
           /\ t \in handles =>
                /\ IsFiniteSet(handles \ {t})
                /\ Cardinality((handles \ {t}) \cap Side)
                     = Cardinality(handles \cap Side) - 1
                /\ Cardinality(handles \cap Side) >= 1
                /\ Cardinality(handles \cap Side) = 1 <=> (handles \ {t}) \cap Side = {}
<1> DEFINE H == handles \cap Side
<1>1. IsFiniteSet(handles) /\ IsFiniteSet(H) /\ Cardinality(H) \in Nat
  BY FS_Intersection, FS_CardinalityType DEF HandleInv
<1>2. ASSUME t \notin handles
      PROVE  /\ IsFiniteSet(handles \cup {t})
             /\ Cardinality((handles \cup {t}) \cap Side) = Cardinality(H) + 1
  <2>1. (handles \cup {t}) \cap Side = H \cup {t} /\ t \notin H
    BY <1>2
  <2> QED BY <1>1, <2>1, FS_AddElement
<1>3. ASSUME t \in handles
      PROVE  /\ IsFiniteSet(handles \ {t})
             /\ Cardinality((handles \ {t}) \cap Side) = Cardinality(H) - 1
             /\ Cardinality(H) >= 1
             /\ Cardinality(H) = 1 <=> (handles \ {t}) \cap Side = {}
  <2>1. (handles \ {t}) \cap Side = H \ {t} /\ t \in H /\ H # {}
    BY <1>3
  <2>2. /\ IsFiniteSet(handles \ {t}) /\ IsFiniteSet(H \ {t})
        /\ Cardinality(H \ {t}) = Cardinality(H) - 1
    BY <1>1, <2>1, FS_RemoveElement
  <2>3. Cardinality(H) # 0
    BY <1>1, <2>1, FS_EmptySet
  <2>4. Cardinality(H \ {t}) = 0 <=> H \ {t} = {}
    BY <2>2, FS_EmptySet
  <2>5. Cardinality(H) >= 1 /\ (Cardinality(H) = 1 <=> H \ {t} = {})
    BY <1>1, <2>2, <2>3, <2>4
  <2> QED BY <2>1, <2>2, <2>5
<1> QED BY <1>1, <1>2, <1>3

\* A clone of a sender counts one more.
LEMMA CloneSenderInv ==
    ASSUME ChannelInv, NEW s \in Senders, NEW other \in Senders, CloneSender(s, other)
    PROVE  ChannelInv'
<1> USE ThreadFacts
<1>0. TypeOK /\ CallInv /\ PlaceInv /\ MsgInv /\ ReturnedOnce /\ HandleInv
  BY DEF ChannelInv
<1>1. /\ s \in handles /\ other \notin handles /\ pc[other] = "idle"
      /\ senders' = senders + 1 /\ handles' = handles \cup {other}
      /\ receivers' = receivers /\ pc' = pc
      /\ UNCHANGED <<bounded, buf, free, chan, data, tried, accepted, delivered,
                     out, returned>>
  BY DEF CloneSender, MayClone, AcquireSender
<1>2. TypeOK' /\ CallInv' /\ PlaceInv' /\ MsgInv' /\ ReturnedOnce'
  <2>1. pc' = [pc EXCEPT ![other] = "idle"]
    BY <1>0, <1>1 DEF TypeOK
  <2>2. handles' \in SUBSET Threads /\ senders' \in Nat /\ receivers' \in Nat
    BY <1>0, <1>1 DEF TypeOK
  <2> QED BY <1>0, <1>1, <2>1, <2>2, HandleStepKeeps
<1>3. /\ IsFiniteSet(handles') /\ handles' \cap Receivers = handles \cap Receivers
      /\ Cardinality(handles' \cap Senders) = Cardinality(handles \cap Senders) + 1
  BY <1>0, <1>1, SideCount
<1>4. HandleInv'
  BY <1>0, <1>1, <1>3 DEF HandleInv, HandlesCounted
<1> QED BY <1>2, <1>4 DEF ChannelInv

\* A clone of a receiver counts one more.
LEMMA CloneReceiverInv ==
    ASSUME ChannelInv, NEW r \in Receivers, NEW other \in Receivers, CloneReceiver(r, other)
    PROVE  ChannelInv'
<1> USE ThreadFacts
<1>0. TypeOK /\ CallInv /\ PlaceInv /\ MsgInv /\ ReturnedOnce /\ HandleInv
  BY DEF ChannelInv
<1>1. /\ r \in handles /\ other \notin handles /\ pc[other] = "idle"
      /\ receivers' = receivers + 1 /\ handles' = handles \cup {other}
      /\ senders' = senders /\ pc' = pc
      /\ UNCHANGED <<bounded, buf, free, chan, data, tried, accepted, delivered,
                     out, returned>>
  BY DEF CloneReceiver, MayClone, AcquireReceiver
<1>2. TypeOK' /\ CallInv' /\ PlaceInv' /\ MsgInv' /\ ReturnedOnce'
  <2>1. pc' = [pc EXCEPT ![other] = "idle"]
    BY <1>0, <1>1 DEF TypeOK
  <2>2. handles' \in SUBSET Threads /\ senders' \in Nat /\ receivers' \in Nat
    BY <1>0, <1>1 DEF TypeOK
  <2> QED BY <1>0, <1>1, <2>1, <2>2, HandleStepKeeps
<1>3. /\ IsFiniteSet(handles') /\ handles' \cap Senders = handles \cap Senders
      /\ Cardinality(handles' \cap Receivers) = Cardinality(handles \cap Receivers) + 1
  BY <1>0, <1>1, SideCount
<1>4. HandleInv'
  BY <1>0, <1>1, <1>3 DEF HandleInv, HandlesCounted
<1> QED BY <1>2, <1>4 DEF ChannelInv

\* The last handle of a side is the one whose Drop panics.
LEMMA DropSenderInv ==
    ASSUME ChannelInv, NEW s \in Senders, DropSender(s)
    PROVE  ChannelInv'
<1> USE ThreadFacts
<1>0. TypeOK /\ CallInv /\ PlaceInv /\ MsgInv /\ ReturnedOnce /\ HandleInv
  BY DEF ChannelInv
<1>1. /\ s \in handles /\ pc[s] = "idle"
      /\ senders' = senders - 1 /\ handles' = handles \ {s} /\ receivers' = receivers
      /\ pc' = [pc EXCEPT ![s] = IF senders = 1 THEN "panic" ELSE "idle"]
      /\ UNCHANGED <<bounded, buf, free, chan, data, tried, accepted, delivered,
                     out, returned>>
  BY DEF DropSender, ReleaseSender
<1>2. /\ IsFiniteSet(handles') /\ handles' \cap Receivers = handles \cap Receivers
      /\ senders = Cardinality(handles \cap Senders) /\ senders >= 1
      /\ Cardinality(handles' \cap Senders) = senders - 1
      /\ senders = 1 <=> handles' \cap Senders = {}
  BY <1>0, <1>1, SideCount DEF HandleInv, HandlesCounted
<1>3. TypeOK' /\ CallInv' /\ PlaceInv' /\ MsgInv' /\ ReturnedOnce'
  <2>1. handles' \in SUBSET Threads /\ senders' \in Nat /\ receivers' \in Nat
    BY <1>0, <1>1, <1>2 DEF TypeOK
  <2>2. CASE senders = 1
    BY <1>0, <1>1, <2>1, <2>2, HandleStepKeeps
  <2>3. CASE senders # 1
    BY <1>0, <1>1, <2>1, <2>3, HandleStepKeeps
  <2> QED BY <2>2, <2>3
<1>4. HandleInv'
  <2>1. /\ pc'[s] = IF senders = 1 THEN "panic" ELSE "idle"
        /\ \A t \in Threads : t # s => pc'[t] = pc[t]
    BY <1>0, <1>1 DEF TypeOK
  <2> QED BY <1>0, <1>1, <1>2, <2>1 DEF HandleInv, HandlesCounted
<1> QED BY <1>3, <1>4 DEF ChannelInv

\* A dropped receiver counts one less.
LEMMA DropReceiverInv ==
    ASSUME ChannelInv, NEW r \in Receivers, DropReceiver(r)
    PROVE  ChannelInv'
<1> USE ThreadFacts
<1>0. TypeOK /\ CallInv /\ PlaceInv /\ MsgInv /\ ReturnedOnce /\ HandleInv
  BY DEF ChannelInv
<1>1. /\ r \in handles /\ pc[r] = "idle"
      /\ receivers' = receivers - 1 /\ handles' = handles \ {r} /\ senders' = senders
      /\ pc' = [pc EXCEPT ![r] = IF receivers = 1 THEN "panic" ELSE "idle"]
      /\ UNCHANGED <<bounded, buf, free, chan, data, tried, accepted, delivered,
                     out, returned>>
  BY DEF DropReceiver, ReleaseReceiver
<1>2. /\ IsFiniteSet(handles') /\ handles' \cap Senders = handles \cap Senders
      /\ receivers = Cardinality(handles \cap Receivers) /\ receivers >= 1
      /\ Cardinality(handles' \cap Receivers) = receivers - 1
      /\ receivers = 1 <=> handles' \cap Receivers = {}
  BY <1>0, <1>1, SideCount DEF HandleInv, HandlesCounted
<1>3. TypeOK' /\ CallInv' /\ PlaceInv' /\ MsgInv' /\ ReturnedOnce'
  <2>1. handles' \in SUBSET Threads /\ senders' \in Nat /\ receivers' \in Nat
    BY <1>0, <1>1, <1>2 DEF TypeOK
  <2>2. CASE receivers = 1
    BY <1>0, <1>1, <2>1, <2>2, HandleStepKeeps
  <2>3. CASE receivers # 1
    BY <1>0, <1>1, <2>1, <2>3, HandleStepKeeps
  <2> QED BY <2>2, <2>3
<1>4. HandleInv'
  <2>1. /\ pc'[r] = IF receivers = 1 THEN "panic" ELSE "idle"
        /\ \A t \in Threads : t # r => pc'[t] = pc[t]
    BY <1>0, <1>1 DEF TypeOK
  <2> QED BY <1>0, <1>1, <1>2, <2>1 DEF HandleInv, HandlesCounted
<1> QED BY <1>3, <1>4 DEF ChannelInv

\* Every step of a channel preserves its invariant.
LEMMA NextInv == ChannelInv /\ [Next]_vars => ChannelInv'
<1> SUFFICES ASSUME ChannelInv, [Next]_vars PROVE ChannelInv'
  OBVIOUS
<1>1. ASSUME NEW s \in Senders, SenderStep(s) PROVE ChannelInv'
  BY <1>1, SendTakeInv, TrySendFailsInv, SendWaitsInv, SendTimesOutInv,
     SendAllocatesInv, WriteInv, PostInv DEF SenderStep
<1>2. ASSUME NEW r \in Receivers, ReceiverStep(r) PROVE ChannelInv'
  BY <1>2, RecvTakeInv, RecvWaitsInv, RecvTimesOutInv, ReadInv, ReturnInv
     DEF ReceiverStep
<1>3. CASE HandleStep
  BY <1>3, CloneSenderInv, CloneReceiverInv, DropSenderInv, DropReceiverInv
     DEF HandleStep
<1>4. CASE UNCHANGED vars
  <2>1. /\ pc' = pc /\ buf' = buf /\ free' = free /\ chan' = chan /\ data' = data
        /\ handles' = handles /\ senders' = senders /\ receivers' = receivers
        /\ tried' = tried /\ accepted' = accepted /\ delivered' = delivered
        /\ out' = out /\ returned' = returned /\ bounded' = bounded
    BY <1>4 DEF vars
  <2>2. TypeOK' /\ CallInv' /\ PlaceInv' /\ HandleInv'
    BY <2>1 DEF ChannelInv, TypeOK, CallInv, PlaceInv, HandleInv, HandlesCounted
  <2>3. MsgInv' /\ ReturnedOnce'
    BY <2>1 DEF ChannelInv, MsgInv, Msg, ReturnedOnce, Carried
  <2> QED BY <2>2, <2>3 DEF ChannelInv
<1> QED BY <1>1, <1>2, <1>3, <1>4 DEF Next

\* So the invariant holds throughout.
LEMMA Invariance == Spec => []ChannelInv
BY InitInv, NextInv, PTL DEF Spec

-----------------------------------------------------------------------------
(* What the invariant implies.                                             *)

\* What every recv returns, for any number of senders, receivers, buffers and
\* messages, with timeouts, clones and drops in any order.
THEOREM EachReturnedOnce == Spec => []ReturnedOnce
<1>1. ChannelInv => ReturnedOnce
  BY DEF ChannelInv
<1> QED BY <1>1, Invariance, PTL

\* Every buffer is in one place, so none is lost or used twice.
LEMMA PlaceConserved == ChannelInv => BufferConserved
<1> SUFFICES ASSUME ChannelInv, NEW b \in Bufs
             PROVE  LET Fs == {i \in DOMAIN free : free[i] = b}
                        Cs == {i \in DOMAIN chan : chan[i] = b}
                        Ts == {t \in Threads : buf[t] = b}
                    IN  \/ \E i \in Fs : Fs = {i} /\ Cs = {} /\ Ts = {}
                        \/ \E i \in Cs : Cs = {i} /\ Fs = {} /\ Ts = {}
                        \/ \E t \in Ts : Ts = {t} /\ Fs = {} /\ Cs = {}
                        \/ ~bounded /\ Fs = {} /\ Cs = {} /\ Ts = {}
  BY DEF BufferConserved
<1> DEFINE Fs == {i \in DOMAIN free : free[i] = b}
           Cs == {i \in DOMAIN chan : chan[i] = b}
           Ts == {t \in Threads : buf[t] = b}
<1>0. TypeOK /\ PlaceInv
  BY DEF ChannelInv
<1>1. DOMAIN free = 1..Len(free) /\ DOMAIN chan = 1..Len(chan)
  BY <1>0 DEF TypeOK
<1>2. /\ (b \in ToSet(free) <=> Fs # {}) /\ (b \in ToSet(chan) <=> Cs # {})
      /\ Ts # {} <=> \E t \in Threads : buf[t] = b
  BY DEF ToSet
<1>3. \A i, j \in Fs : i = j
  BY <1>0, <1>1 DEF PlaceInv, Distinct
<1>4. \A i, j \in Cs : i = j
  BY <1>0, <1>1 DEF PlaceInv, Distinct
<1>5. \A t, u \in Ts : t = u
  BY <1>0, ThreadFacts DEF PlaceInv
<1>6. /\ Fs # {} => Cs = {} /\ Ts = {}
      /\ Cs # {} => Ts = {}
  BY <1>0, <1>2 DEF PlaceInv
<1>7. Fs = {} /\ Cs = {} /\ Ts = {} => ~bounded
  BY <1>0, <1>2 DEF PlaceInv
<1> HIDE DEF Fs, Cs, Ts
<1>8. CASE Fs # {}
  <2>1. \E i \in Fs : Fs = {i}
    BY <1>3, <1>8
  <2> QED BY <1>6, <1>8, <2>1 DEF Fs, Cs, Ts
<1>9. CASE Fs = {} /\ Cs # {}
  <2>1. \E i \in Cs : Cs = {i}
    BY <1>4, <1>9
  <2> QED BY <1>6, <1>9, <2>1 DEF Fs, Cs, Ts
<1>10. CASE Fs = {} /\ Cs = {} /\ Ts # {}
  <2>1. \E t \in Ts : Ts = {t}
    BY <1>5, <1>10
  <2> QED BY <1>10, <2>1 DEF Fs, Cs, Ts
<1>11. CASE Fs = {} /\ Cs = {} /\ Ts = {}
  BY <1>7, <1>11 DEF Fs, Cs, Ts
<1> QED BY <1>8, <1>9, <1>10, <1>11

\* The handles are counted, and no buffer is lost or in two places.
THEOREM EverythingAccounted == Spec => []Accounted
<1>1. ChannelInv => Accounted
  BY PlaceConserved DEF ChannelInv, HandleInv, Accounted
<1> QED BY <1>1, Invariance, PTL

-----------------------------------------------------------------------------
(* The refinement of ChannelFifo.                                          *)

\* What the refinement mapping makes of chan and data.
Flight == [i \in DOMAIN chan |-> data[chan[i]]]

\* The messages in flight are a sequence of the length of chan.
LEMMA FlightSeq ==
    ASSUME TypeOK
    PROVE  /\ DOMAIN chan = 1..Len(chan) /\ Len(chan) \in Nat
           /\ DOMAIN Flight = 1..Len(chan) /\ Len(Flight) = Len(chan)
           /\ Flight \in Seq(Messages \cup {None})
           /\ Flight = <<>> <=> chan = <<>>
           /\ \A i \in 1..Len(chan) : Flight[i] = data[chan[i]]
<1>1. DOMAIN chan = 1..Len(chan) /\ Len(chan) \in Nat
  BY DEF TypeOK
<1>2. \A i \in 1..Len(chan) : chan[i] \in Bufs /\ data[chan[i]] \in Messages \cup {None}
  BY DEF TypeOK
<1>3. Flight \in [1..Len(chan) -> Messages \cup {None}]
  BY <1>1, <1>2 DEF Flight
<1>4. Flight \in Seq(Messages \cup {None}) /\ Len(Flight) = Len(chan)
  BY <1>1, <1>3
<1>5. Flight = <<>> <=> chan = <<>>
  BY <1>1, <1>4 DEF TypeOK
<1> QED BY <1>1, <1>3, <1>4, <1>5 DEF Flight

\* A step that leaves chan alone and writes to no buffer in it.
LEMMA FlightKept ==
    ASSUME TypeOK, chan' = chan, \A b \in ToSet(chan) : data'[b] = data[b]
    PROVE  Flight' = Flight
BY DEF Flight, ToSet

\* A post is a put of the abstract queue.
LEMMA PostIsPut ==
    ASSUME ChannelInv, NEW s \in Senders, Post(s)
    PROVE  Fifo!Next
<1>0. TypeOK /\ CallInv /\ PlaceInv /\ MsgInv
  BY DEF ChannelInv
<1>1. /\ pc[s] = "post" /\ buf[s] \in Bufs /\ buf[s] \notin ToSet(chan)
      /\ data[buf[s]] = Msg(s) /\ Msg(s) \in Messages /\ Msg(s) \notin accepted
      /\ accepted' = accepted \cup {Msg(s)} /\ data' = data
  BY <1>0, ThreadFacts DEF Post, TypeOK, CallInv, Having, PlaceInv, MsgInv
<1>2. CASE WaitChan # {}
  <2>1. chan' = chan /\ delivered' = Append(delivered, Msg(s))
    BY <1>1, <1>2 DEF Post
  <2>2. chan = <<>>
    BY <1>0, <1>2 DEF CallInv, WaitChan, SendLabels, Threads
  <2>3. Flight = <<>> /\ Flight' = Flight
    BY <1>0, <1>1, <2>1, <2>2, FlightSeq, FlightKept
  <2>4. Fifo!Pass(Msg(s))
    BY <1>1, <2>1, <2>3 DEF Fifo!Pass, Flight
  <2> QED BY <1>1, <2>4 DEF Fifo!Next
<1>3. CASE WaitChan = {}
  <2>1. chan' = Append(chan, buf[s]) /\ delivered' = delivered
    BY <1>3 DEF Post
  <2>2. Len(chan) < Cardinality(Bufs)
    BY <1>0, <1>1, QueueShorter DEF TypeOK, PlaceInv
  <2>3. Flight' = Append(Flight, Msg(s))
    <3>1. /\ DOMAIN chan' = 1..Len(chan)+1
          /\ \A i \in 1..Len(chan) : chan'[i] = chan[i]
          /\ chan'[Len(chan)+1] = buf[s]
      BY <1>0, <1>1, <2>1 DEF TypeOK
    <3>2. /\ DOMAIN Flight' = 1..Len(chan)+1
          /\ \A i \in 1..Len(chan) : Flight'[i] = Flight[i]
          /\ Flight'[Len(chan)+1] = Msg(s)
      BY <1>0, <1>1, <3>1, FlightSeq DEF Flight
    <3> DEFINE A == Append(Flight, Msg(s))
    <3>3. /\ A \in Seq(Messages \cup {None}) /\ Len(A) = Len(chan) + 1
          /\ \A i \in 1..Len(chan) : A[i] = Flight[i]
          /\ A[Len(chan)+1] = Msg(s)
      BY <1>0, <1>1, FlightSeq, AppendProperties
    <3> HIDE DEF A
    <3>4. /\ A = [i \in 1..Len(chan)+1 |-> A[i]]
          /\ Flight' = [i \in 1..Len(chan)+1 |-> Flight'[i]]
      BY <3>1, <3>3 DEF Flight
    <3>5. \A i \in 1..Len(chan)+1 : A[i] = Flight'[i]
      <4>1. \A i \in 1..Len(chan)+1 : i \in 1..Len(chan) \/ i = Len(chan) + 1
        BY <1>0, FlightSeq
      <4> QED BY <3>2, <3>3, <4>1
    <3> QED BY <3>4, <3>5 DEF A
  <2>4. PICK m \in Messages : m = Msg(s)
    BY <1>1
  <2>5. Fifo!Put(m)
    BY <1>0, <1>1, <2>1, <2>2, <2>3, <2>4, FlightSeq DEF Fifo!Put, Flight
  <2> QED BY <2>5, Zenon DEF Fifo!Next
<1> QED BY <1>2, <1>3

\* A take is a get of the abstract queue.
LEMMA TakeIsGet ==
    ASSUME ChannelInv, NEW r \in Receivers, RecvTake(r)
    PROVE  Fifo!Next
<1>0. TypeOK
  BY DEF ChannelInv
<1>1. /\ chan # <<>> /\ chan' = Tail(chan) /\ data' = data /\ accepted' = accepted
      /\ delivered' = Append(delivered, data[Head(chan)])
  BY DEF RecvTake
<1>2. Flight # <<>> /\ Head(Flight) = data[Head(chan)]
  BY <1>0, <1>1, FlightSeq DEF TypeOK
<1>3. Flight' = Tail(Flight)
  <2>1. /\ DOMAIN chan' = 1..Len(chan)-1
        /\ \A i \in 1..Len(chan)-1 : chan'[i] = chan[i+1]
    BY <1>0, <1>1 DEF TypeOK
  <2>2. \A i \in 1..Len(chan)-1 : i + 1 \in 1..Len(chan)
    BY <1>0, FlightSeq
  <2>3. /\ DOMAIN Flight' = 1..Len(chan)-1
        /\ \A i \in 1..Len(chan)-1 : Flight'[i] = Flight[i+1]
    BY <1>0, <1>1, <2>1, <2>2, FlightSeq DEF Flight
  <2>4. Tail(Flight) = [i \in 1..Len(chan)-1 |-> Flight[i+1]]
    <3> DEFINE T == Tail(Flight)
    <3>1. /\ T \in Seq(Messages \cup {None}) /\ Len(T) = Len(chan) - 1
          /\ \A i \in 1..Len(chan)-1 : T[i] = Flight[i+1]
      BY <1>0, <1>2, FlightSeq, HeadTailProperties
    <3> HIDE DEF T
    <3>2. T = [i \in 1..Len(chan)-1 |-> T[i]]
      BY <3>1
    <3> QED BY <3>1, <3>2 DEF T
  <2>5. Flight' = [i \in 1..Len(chan)-1 |-> Flight'[i]]
    BY <2>1 DEF Flight
  <2> QED BY <2>3, <2>4, <2>5
<1>4. Fifo!Get
  BY <1>1, <1>2, <1>3 DEF Fifo!Get, Flight
<1> QED BY <1>4 DEF Fifo!Next

\* Every other step leaves the queue of messages as it is.
LEMMA OthersStutter ==
    ASSUME ChannelInv, chan' = chan, accepted' = accepted, delivered' = delivered,
           \/ data' = data
           \/ \E s \in Senders : pc[s] = "write" /\ data' = [data EXCEPT ![buf[s]] = Msg(s)]
    PROVE  UNCHANGED Fifo!vars
<1>1. \A b \in ToSet(chan) : data'[b] = data[b]
  <2>1. ASSUME NEW s \in Senders, data' = [data EXCEPT ![buf[s]] = Msg(s)],
               NEW b \in ToSet(chan)
        PROVE  data'[b] = data[b]
    <3>1. b # buf[s]
      BY <2>1, ThreadFacts DEF ChannelInv, PlaceInv
    <3>2. b \in Bufs
      BY <2>1 DEF ChannelInv, TypeOK, ToSet
    <3> QED BY <2>1, <3>1, <3>2 DEF ChannelInv, TypeOK
  <2> QED BY <2>1
<1>2. Flight' = Flight
  BY <1>1, FlightKept DEF ChannelInv
<1> QED BY <1>2 DEF Fifo!vars, Flight

\* Over its two queues of buffers, a channel of any capacity is one queue of
\* messages, for any number of senders and receivers.
THEOREM ChannelIsFifo == Spec => IsFifo
<1>1. Init => Fifo!Init
  <2> SUFFICES ASSUME Init PROVE Fifo!Init
    OBVIOUS
  <2>1. chan = <<>> /\ accepted = {} /\ delivered = <<>>
    BY DEF Init, NewQueues
  <2>2. Flight = <<>>
    BY <2>1, InitInv, FlightSeq DEF ChannelInv
  <2> QED BY <2>1, <2>2 DEF Fifo!Init, Flight
<1>2. ChannelInv /\ [Next]_vars => [Fifo!Next]_Fifo!vars
  <2> SUFFICES ASSUME ChannelInv, [Next]_vars PROVE [Fifo!Next]_Fifo!vars
    OBVIOUS
  <2>1. ASSUME NEW s \in Senders, SenderStep(s) PROVE [Fifo!Next]_Fifo!vars
    <3>1. CASE Post(s)
      BY <3>1, PostIsPut
    <3>2. CASE Write(s)
      BY <3>2, OthersStutter DEF Write
    <3>3. CASE SendTake(s) \/ TrySendFails(s) \/ SendTimesOut(s) \/ SendAllocates(s)
      BY <3>3, OthersStutter DEF SendTake, TrySendFails, SendTimesOut, SendAllocates
    <3>4. CASE SendWaits(s, "wait_free") \/ SendWaits(s, "wait_free_timed")
      BY <3>4, OthersStutter DEF SendWaits
    <3> QED BY <2>1, <3>1, <3>2, <3>3, <3>4 DEF SenderStep
  <2>2. ASSUME NEW r \in Receivers, ReceiverStep(r) PROVE [Fifo!Next]_Fifo!vars
    <3>1. CASE RecvTake(r)
      BY <3>1, TakeIsGet
    <3>2. CASE RecvWaits(r, "wait_chan") \/ RecvWaits(r, "wait_chan_timed")
      BY <3>2, OthersStutter DEF RecvWaits
    <3>3. CASE RecvTimesOut(r) \/ Read(r) \/ Return(r) \/ ReturnFreesBox(r)
      BY <3>3, OthersStutter DEF RecvTimesOut, Read, Return, ReturnFreesBox
    <3> QED BY <2>2, <3>1, <3>2, <3>3 DEF ReceiverStep
  <2>3. CASE HandleStep
    BY <2>3, OthersStutter
       DEF HandleStep, CloneSender, CloneReceiver, DropSender, DropReceiver
  <2>4. CASE UNCHANGED vars
    BY <2>4, OthersStutter DEF vars
  <2> QED BY <2>1, <2>2, <2>3, <2>4 DEF Next
<1> QED BY <1>1, <1>2, Invariance, PTL DEF Spec, IsFifo, Fifo!Spec
=============================================================================
