----------------------------- MODULE ChannelFifo -----------------------------
(***************************************************************************)
(* What a channel promises: a queue of at most Cap messages, each sent     *)
(* once and received once, in the order they were sent.  A message may go  *)
(* straight to a receiver that already waits.                              *)
(***************************************************************************)
EXTENDS Naturals, Sequences

CONSTANTS Messages, Cap

VARIABLES inflight,   \* sent and not received
          accepted,   \* every message ever sent
          delivered   \* the messages received, in order

vars == <<inflight, accepted, delivered>>

Init ==
    /\ inflight = <<>>
    /\ accepted = {}
    /\ delivered = <<>>

Put(m) ==
    /\ m \notin accepted
    /\ Len(inflight) < Cap
    /\ accepted' = accepted \cup {m}
    /\ inflight' = Append(inflight, m)
    /\ UNCHANGED delivered

Get ==
    /\ inflight # <<>>
    /\ delivered' = Append(delivered, Head(inflight))
    /\ inflight' = Tail(inflight)
    /\ UNCHANGED accepted

Pass(m) ==
    /\ m \notin accepted
    /\ inflight = <<>>
    /\ accepted' = accepted \cup {m}
    /\ delivered' = Append(delivered, m)
    /\ UNCHANGED inflight

Next == Get \/ \E m \in Messages : Put(m) \/ Pass(m)

Spec == Init /\ [][Next]_vars
=============================================================================
