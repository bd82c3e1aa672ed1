------------------------------- MODULE Channel -------------------------------
(***************************************************************************)
(* zephyr/src/sync/channel.rs and channel/counter.rs: channels over        *)
(* k_queue.                                                                *)
(*                                                                         *)
(* A bounded channel keeps its message buffers in two queues, `free` and   *)
(* `chan`; an unbounded one allocates a buffer (a Box) for every message.  *)
(* k_queue_append gives the element straight to a thread that waits in     *)
(* k_queue_get, if there is one, so a queue with waiting threads is empty. *)
(***************************************************************************)
EXTENDS SequencesExt

CONSTANTS Senders,    \* threads on the sending side
          Receivers,  \* threads on the receiving side
          Bufs,       \* the slots of Bounded, or the heap for messages
          First,      \* the sender and the receiver that get the first handles
          MaxMsgs,    \* bound on the messages each sender tries to send
          None

ASSUME ChannelAssumption ==
    /\ Senders \cap Receivers = {}
    /\ None \notin Senders \cup Receivers \cup Bufs
    /\ First \in Senders \X Receivers
    /\ IsFiniteSet(Bufs) /\ Bufs # {}
    /\ MaxMsgs \in Nat

VARIABLES
    bounded,    \* which flavor of channel, bounded or unbounded
    pc,         \* where each thread is in its call
    buf,        \* the buffer it holds
    free,       \* Bounded::free
    chan,       \* Bounded::chan, or the unbounded queue
    data,       \* the message in each buffer
    handles,    \* the threads that own a Sender or a Receiver
    senders,    \* Counter::senders
    receivers,  \* Counter::receivers
    tried,      \* how many messages each sender tried to send
    accepted,   \* the messages that were sent
    delivered,  \* the messages in the order recv took them
    out,        \* what each receiver's current call is about to return
    returned    \* the messages that calls of recv returned

vars == <<bounded, pc, buf, free, chan, data, handles, senders, receivers,
          tried, accepted, delivered, out, returned>>

Threads == Senders \cup Receivers

Messages == Senders \X (1..MaxMsgs)

\* The message a sender is busy with.
Msg(s) == <<s, tried[s]>>

\* The threads blocked in free.recv and in chan.recv.
WaitFree == {t \in Threads : pc[t] \in {"wait_free", "wait_free_timed"}}

WaitChan == {t \in Threads : pc[t] \in {"wait_chan", "wait_chan_timed"}}

\* Bounded::new puts every buffer into the free list, uninitialised.
NewQueues ==
    /\ bounded \in BOOLEAN
    /\ free \in IF bounded THEN SetToSeqs(Bufs) ELSE {<<>>}
    /\ chan = <<>>
    /\ data = [b \in Bufs |-> None]

\* counter::new counts one handle on each side.
NewCounter ==
    /\ handles = {First[1], First[2]}
    /\ senders = 1
    /\ receivers = 1

Init ==
    /\ NewQueues
    /\ NewCounter
    /\ pc = [t \in Threads |-> "idle"]
    /\ buf = [t \in Threads |-> None]
    /\ tried = [s \in Senders |-> 0]
    /\ accepted = {}
    /\ delivered = <<>>
    /\ out = [r \in Receivers |-> None]
    /\ returned = {}

-----------------------------------------------------------------------------
(* Sender: send_timeout with its three kinds of timeout.                   *)

MaySend(s) == pc[s] = "idle" /\ s \in handles /\ tried[s] < MaxMsgs

Trying(s) == tried' = [tried EXCEPT ![s] = @ + 1]

SendTake(s) ==
    /\ bounded
    /\ MaySend(s)
    /\ Trying(s)
    /\ free # <<>>
    /\ buf' = [buf EXCEPT ![s] = Head(free)]
    /\ free' = Tail(free)
    /\ pc' = [pc EXCEPT ![s] = "write"]
    /\ UNCHANGED <<bounded, chan, data, handles, senders, receivers, accepted,
                   delivered, out, returned>>

\* try_send (NoWait) with no free buffer returns Err(SendError(msg)).
TrySendFails(s) ==
    /\ bounded
    /\ MaySend(s)
    /\ Trying(s)
    /\ free = <<>>
    /\ UNCHANGED <<bounded, pc, buf, free, chan, data, handles, senders,
                   receivers, accepted, delivered, out, returned>>

SendWaits(s, label) ==
    /\ bounded
    /\ MaySend(s)
    /\ Trying(s)
    /\ free = <<>>
    /\ pc' = [pc EXCEPT ![s] = label]
    /\ UNCHANGED <<bounded, buf, free, chan, data, handles, senders,
                   receivers, accepted, delivered, out, returned>>

SendTimesOut(s) ==
    /\ pc[s] = "wait_free_timed"
    /\ pc' = [pc EXCEPT ![s] = "idle"]
    /\ UNCHANGED <<bounded, buf, free, chan, data, handles, senders,
                   receivers, tried, accepted, delivered, out, returned>>

\* The buffers some thread or queue holds.
InUse == ToSet(free) \cup ToSet(chan) \cup {buf[t] : t \in Threads}

\* Box::new for the message of an unbounded channel.
SendAllocates(s) ==
    /\ ~bounded
    /\ MaySend(s)
    /\ Trying(s)
    /\ \E b \in Bufs \ InUse : buf' = [buf EXCEPT ![s] = b]
    /\ pc' = [pc EXCEPT ![s] = "write"]
    /\ UNCHANGED <<bounded, free, chan, data, handles, senders, receivers,
                   accepted, delivered, out, returned>>

Write(s) ==
    /\ pc[s] = "write"
    /\ data' = [data EXCEPT ![buf[s]] = Msg(s)]
    /\ pc' = [pc EXCEPT ![s] = "post"]
    /\ UNCHANGED <<bounded, buf, free, chan, handles, senders, receivers,
                   tried, accepted, delivered, out, returned>>

\* chan.send: to a waiting receiver, or to the end of the queue.
Post(s) ==
    LET b == buf[s] IN
    /\ pc[s] = "post"
    /\ accepted' = accepted \cup {Msg(s)}
    /\ \/ \E r \in WaitChan :
             /\ buf' = [buf EXCEPT ![s] = None, ![r] = b]
             /\ pc' = [pc EXCEPT ![s] = "idle", ![r] = "read"]
             /\ delivered' = Append(delivered, data[b])
             /\ UNCHANGED chan
       \/ /\ WaitChan = {}
          /\ chan' = Append(chan, b)
          /\ buf' = [buf EXCEPT ![s] = None]
          /\ pc' = [pc EXCEPT ![s] = "idle"]
          /\ UNCHANGED delivered
    /\ UNCHANGED <<bounded, free, data, handles, senders, receivers, tried,
                   out, returned>>

-----------------------------------------------------------------------------
(* Receiver: recv_timeout.  A try_recv that finds nothing changes nothing. *)

\* Mutant: the newest message is received first.
RecvTakeLast(r) ==
    /\ pc[r] = "idle"
    /\ r \in handles
    /\ chan # <<>>
    /\ buf' = [buf EXCEPT ![r] = Last(chan)]
    /\ chan' = Front(chan)
    /\ delivered' = Append(delivered, data[Last(chan)])
    /\ pc' = [pc EXCEPT ![r] = "read"]
    /\ UNCHANGED <<bounded, free, data, handles, senders, receivers, tried,
                   accepted, out, returned>>

\* Mutant: the buffer goes back to the free list before it is read.
RecvTakeEarlyFree(r) ==
    /\ pc[r] = "idle"
    /\ r \in handles
    /\ chan # <<>>
    /\ buf' = [buf EXCEPT ![r] = Head(chan)]
    /\ chan' = Tail(chan)
    /\ free' = Append(free, Head(chan))
    /\ delivered' = Append(delivered, data[Head(chan)])
    /\ pc' = [pc EXCEPT ![r] = "read"]
    /\ UNCHANGED <<bounded, data, handles, senders, receivers, tried,
                   accepted, out, returned>>

RecvTake(r) ==
    /\ pc[r] = "idle"
    /\ r \in handles
    /\ chan # <<>>
    /\ buf' = [buf EXCEPT ![r] = Head(chan)]
    /\ chan' = Tail(chan)
    /\ delivered' = Append(delivered, data[Head(chan)])
    /\ pc' = [pc EXCEPT ![r] = "read"]
    /\ UNCHANGED <<bounded, free, data, handles, senders, receivers, tried,
                   accepted, out, returned>>

RecvWaits(r, label) ==
    /\ pc[r] = "idle"
    /\ r \in handles
    /\ chan = <<>>
    /\ pc' = [pc EXCEPT ![r] = label]
    /\ UNCHANGED <<bounded, buf, free, chan, data, handles, senders,
                   receivers, tried, accepted, delivered, out, returned>>

RecvTimesOut(r) ==
    /\ pc[r] = "wait_chan_timed"
    /\ pc' = [pc EXCEPT ![r] = "idle"]
    /\ UNCHANGED <<bounded, buf, free, chan, data, handles, senders,
                   receivers, tried, accepted, delivered, out, returned>>

\* Mutant: the message is read from a place all receivers share.
ReadShared(r) ==
    /\ pc[r] = "read"
    /\ out' = [out EXCEPT ![r] = Last(delivered)]
    /\ pc' = [pc EXCEPT ![r] = "return"]
    /\ UNCHANGED <<bounded, buf, free, chan, data, handles, senders,
                   receivers, tried, accepted, delivered, returned>>

Read(r) ==
    /\ pc[r] = "read"
    /\ out' = [out EXCEPT ![r] = data[buf[r]]]
    /\ pc' = [pc EXCEPT ![r] = "return"]
    /\ UNCHANGED <<bounded, buf, free, chan, data, handles, senders,
                   receivers, tried, accepted, delivered, returned>>

\* Mutant: a waiting sender is not given the buffer.
ReturnQueues(r) ==
    /\ bounded
    /\ pc[r] = "return"
    /\ returned' = returned \cup {out[r]}
    /\ out' = [out EXCEPT ![r] = None]
    /\ free' = Append(free, buf[r])
    /\ buf' = [buf EXCEPT ![r] = None]
    /\ pc' = [pc EXCEPT ![r] = "idle"]
    /\ UNCHANGED <<bounded, chan, data, handles, senders, receivers, tried,
                   accepted, delivered>>

\* free.send of a bounded channel, then Ok(msg.data).
Return(r) ==
    LET b == buf[r] IN
    /\ bounded
    /\ pc[r] = "return"
    /\ returned' = returned \cup {out[r]}
    /\ out' = [out EXCEPT ![r] = None]
    /\ \/ \E s \in WaitFree :
             /\ buf' = [buf EXCEPT ![r] = None, ![s] = b]
             /\ pc' = [pc EXCEPT ![r] = "idle", ![s] = "write"]
             /\ UNCHANGED free
       \/ /\ WaitFree = {}
          /\ free' = Append(free, b)
          /\ buf' = [buf EXCEPT ![r] = None]
          /\ pc' = [pc EXCEPT ![r] = "idle"]
    /\ UNCHANGED <<bounded, chan, data, handles, senders, receivers, tried,
                   accepted, delivered>>

\* The Box of an unbounded channel is freed.
ReturnFreesBox(r) ==
    /\ ~bounded
    /\ pc[r] = "return"
    /\ returned' = returned \cup {out[r]}
    /\ out' = [out EXCEPT ![r] = None]
    /\ buf' = [buf EXCEPT ![r] = None]
    /\ pc' = [pc EXCEPT ![r] = "idle"]
    /\ UNCHANGED <<bounded, free, chan, data, handles, senders, receivers,
                   tried, accepted, delivered>>

-----------------------------------------------------------------------------
(* Handles: Clone, and Drop with counter::release.                         *)

\* counter::Sender::acquire and counter::Receiver::acquire.
AcquireSender(other) ==
    /\ senders' = senders + 1
    /\ handles' = handles \cup {other}
    /\ UNCHANGED receivers

AcquireReceiver(other) ==
    /\ receivers' = receivers + 1
    /\ handles' = handles \cup {other}
    /\ UNCHANGED senders

\* A thread clones its handle and gives the clone to another one.
MayClone(t, other) ==
    /\ t \in handles /\ pc[t] = "idle"
    /\ other \notin handles /\ pc[other] = "idle"

CloneSender(s, other) ==
    /\ MayClone(s, other)
    /\ AcquireSender(other)
    /\ UNCHANGED <<bounded, pc, buf, free, chan, data, tried, accepted,
                   delivered, out, returned>>

CloneReceiver(r, other) ==
    /\ MayClone(r, other)
    /\ AcquireReceiver(other)
    /\ UNCHANGED <<bounded, pc, buf, free, chan, data, tried, accepted,
                   delivered, out, returned>>

\* counter::release runs the closure given to it when the last handle of this
\* side goes.  The closure panics, so the channel is never freed.
ReleaseSender(s) ==
    /\ senders' = senders - 1
    /\ pc' = [pc EXCEPT ![s] = IF senders = 1 THEN "panic" ELSE "idle"]
    /\ UNCHANGED receivers

ReleaseReceiver(r) ==
    /\ receivers' = receivers - 1
    /\ pc' = [pc EXCEPT ![r] = IF receivers = 1 THEN "panic" ELSE "idle"]
    /\ UNCHANGED senders

DropSender(s) ==
    /\ s \in handles /\ pc[s] = "idle"
    /\ handles' = handles \ {s}
    /\ ReleaseSender(s)
    /\ UNCHANGED <<bounded, buf, free, chan, data, tried, accepted, delivered,
                   out, returned>>

DropReceiver(r) ==
    /\ r \in handles /\ pc[r] = "idle"
    /\ handles' = handles \ {r}
    /\ ReleaseReceiver(r)
    /\ UNCHANGED <<bounded, buf, free, chan, data, tried, accepted, delivered,
                   out, returned>>

-----------------------------------------------------------------------------
SenderStep(s) ==
    \/ SendTake(s) \/ TrySendFails(s) \/ SendWaits(s, "wait_free")
    \/ SendWaits(s, "wait_free_timed") \/ SendTimesOut(s) \/ SendAllocates(s)
    \/ Write(s) \/ Post(s)

ReceiverStep(r) ==
    \/ RecvTake(r) \/ RecvWaits(r, "wait_chan")
    \/ RecvWaits(r, "wait_chan_timed") \/ RecvTimesOut(r) \/ Read(r)
    \/ Return(r) \/ ReturnFreesBox(r)

HandleStep ==
    \/ \E s, other \in Senders : CloneSender(s, other)
    \/ \E r, other \in Receivers : CloneReceiver(r, other)
    \/ \E s \in Senders : DropSender(s)
    \/ \E r \in Receivers : DropReceiver(r)

Next ==
    \/ \E s \in Senders : SenderStep(s)
    \/ \E r \in Receivers : ReceiverStep(r)
    \/ HandleStep

Spec == Init /\ [][Next]_vars

-----------------------------------------------------------------------------
(* Properties.                                                             *)

\* The counters count the handles of each side, through clones and drops in any
\* order, so the disconnect runs for the last handle of a side, only then, and
\* never while a call on that side is under way.  PanicsLast is what the
\* documentation says of the panic in it.
HandlesCounted ==
    /\ senders = Cardinality(handles \cap Senders)
    /\ receivers = Cardinality(handles \cap Receivers)
    /\ \A s \in Senders : pc[s] = "panic" => handles \cap Senders = {}
    /\ \A r \in Receivers : pc[r] = "panic" => handles \cap Receivers = {}
    /\ \A t \in Threads \ handles : pc[t] \in {"idle", "panic"}

\* The safety comment on Bounded: a buffer lives in one of the two queues or
\* with the one call of send or recv that took it, never in two places, and
\* none of a bounded channel's buffers is ever lost.
BufferConserved ==
    \A b \in Bufs :
        LET Fs == {i \in DOMAIN free : free[i] = b}
            Cs == {i \in DOMAIN chan : chan[i] = b}
            Ts == {t \in Threads : buf[t] = b}
        IN  \/ \E i \in Fs : Fs = {i} /\ Cs = {} /\ Ts = {}
            \/ \E i \in Cs : Cs = {i} /\ Fs = {} /\ Ts = {}
            \/ \E t \in Ts : Ts = {t} /\ Fs = {} /\ Cs = {}
            \/ ~bounded /\ Fs = {} /\ Cs = {} /\ Ts = {}

\* Through calls, timeouts, clones and drops in any order, what the channel
\* owns and what is counted for it stays accounted for.
Accounted == HandlesCounted /\ BufferConserved

\* "when all senders or receivers on a channel are dropped, operations on the
\* other end of the channel may just block" and "If all handles (both sender
\* and receiver) are dropped, the last drop will cause a panic" (channel.rs):
\* a drop that panics is the last one of both sides.
PanicsLast == \A t \in Threads : pc[t] = "panic" => handles = {}

Fifo == INSTANCE ChannelFifo
    WITH Cap <- Cardinality(Bufs),
         inflight <- [i \in DOMAIN chan |-> data[chan[i]]]

\* Over two queues of buffers, the channel is one queue of messages: nothing
\* is lost, duplicated or reordered between any senders and receivers, and
\* never more than its capacity is in flight.
IsFifo == Fifo!Spec

\* The message a receiver is about to return.
Carried(r) == IF pc[r] = "read" THEN data[buf[r]] ELSE out[r]

\* What recv returns is a message that left the queue, unchanged since, and no
\* other call returns it: the buffer is not reused before it is read.
ReturnedOnce ==
    \A r \in Receivers : pc[r] \in {"read", "return"} =>
        /\ Carried(r) \in ToSet(delivered) \ returned
        /\ \A q \in Receivers \ {r} :
              pc[q] \in {"read", "return"} => Carried(q) # Carried(r)

\* As long as the first receiver keeps its handle, and receives, a message
\* that was sent is received, and a sender that waits for a buffer gets one or
\* gives up.
EventuallyReceived ==
    [](First[2] \in handles) =>
        /\ \A m \in Messages : m \in accepted ~> m \in returned
        /\ \A s \in Senders : s \in WaitFree ~> s \notin WaitFree

=============================================================================
