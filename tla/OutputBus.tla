----------------------------- MODULE OutputBus ------------------------------
(***************************************************************************)
(* A session's output bus (broker/src/output_bus.rs) with its replay ring  *)
(* (broker/src/ring_buffer.rs): the drainer publishes numbered chunks,     *)
(* subscribers atomically take a replay of the ring and a live receiver.   *)
(*                                                                         *)
(* publish, subscribe and close each run under the sender lock and are     *)
(* single actions.  A chunk is its seq and its size; a subscription's      *)
(* replay and its live broadcast receiver hold seqs.                       *)
(***************************************************************************)
EXTENDS Naturals, Sequences

CONSTANTS
    Subscribers,    \* forwarders, each with at most one subscription
    Sizes,          \* sizes of a PTY read
    RingCap,        \* DEFAULT_RING_CAPACITY
    RingBytes,      \* DEFAULT_RING_MAX_BYTES
    LiveCap,        \* DEFAULT_BROADCAST_CAPACITY
    LiveOnly,       \* the since_seq of a subscribe that omits it
    SeqMax          \* bound on published chunks

VARIABLES
    ring,           \* RingBuffer.chunks, oldest first
    last_seq,       \* OutputBus.last_seq, equal to the session's seq
    closed,         \* the sender has been dropped
    status,         \* "off", "on", "lagged" (told to resubscribe), "ended"
    since,          \* since_seq of the current subscription
    truncated,      \* its replay_truncated answer
    replay,         \* seqs of replayed chunks not yet consumed
    live,           \* seqs in its broadcast receiver
    overrun,        \* the receiver's next recv returns Lagged
    start,          \* history: the subscription promises all seqs above it
    got             \* history: seqs consumed, in order

bus == <<ring, last_seq, closed>>
subscription == <<status, since, truncated, replay, live, overrun, start, got>>
vars == <<ring, last_seq, closed, status, since, truncated, replay, live,
          overrun, start, got>>

Chunk == [seq : Nat \ {0}, bytes : Sizes]

ASSUME OutputBusAssumption ==
    /\ RingCap \in Nat \ {0}
    /\ RingBytes \in Nat \ {0}
    /\ LiveCap \in Nat \ {0}
    /\ SeqMax \in Nat
    /\ LiveOnly \notin Nat
    /\ Sizes \subseteq 1..RingBytes     \* reads are 8 KiB, the ring 8 MiB

-----------------------------------------------------------------------------
(* RingBuffer.retained_bytes of a sequence of chunks.                     *)
Retained(r) ==
    LET sum[i \in 0..Len(r)] == IF i = 0 THEN 0 ELSE sum[i - 1] + r[i].bytes
    IN  sum[Len(r)]

(* pop_front, k times.                                                    *)
Without(r, k) == SubSeq(r, k + 1, Len(r))

(* The negation of push's eviction condition.                             *)
HasRoom(r, size) ==
    r = <<>> \/ (Len(r) < RingCap /\ Retained(r) + size <= RingBytes)

(* push evicts exactly k chunks from the front of r.                      *)
Evicts(r, size, k) ==
    /\ HasRoom(Without(r, k), size)
    /\ \A j \in 0..(k - 1) : ~HasRoom(Without(r, j), size)

(* replay_since: the ring is in seq order, so the filter keeps a suffix.  *)
ReplayFrom(s) ==
    CHOOSE k \in 0..Len(ring) :
        /\ \A i \in 1..k : ring[i].seq <= s
        /\ \A i \in (k + 1)..Len(ring) : ring[i].seq > s
ReplaySince(s) ==
    LET k == ReplayFrom(s)
    IN  [i \in 1..(Len(ring) - k) |-> ring[i + k].seq]

(* replay_truncated: the chunk after s is no longer retained.             *)
Truncated(s) == ring # <<>> /\ ring[1].seq > s + 1

(* The receiver's backlog after a send; Overruns tells if it lagged.      *)
Deliver(x, n) ==
    IF Len(live[x]) < LiveCap
    THEN Append(live[x], n)
    ELSE live[x]

Overruns(x) == overrun[x] \/ Len(live[x]) >= LiveCap

-----------------------------------------------------------------------------
Init ==
    /\ ring = <<>>
    /\ last_seq = 0
    /\ closed = FALSE
    /\ status = [x \in Subscribers |-> "off"]
    /\ since = [x \in Subscribers |-> LiveOnly]
    /\ truncated = [x \in Subscribers |-> FALSE]
    /\ replay = [x \in Subscribers |-> <<>>]
    /\ live = [x \in Subscribers |-> <<>>]
    /\ overrun = [x \in Subscribers |-> FALSE]
    /\ start = [x \in Subscribers |-> 0]
    /\ got = [x \in Subscribers |-> <<>>]

(* Mutant of Publish: output that arrives after the close still counts.   *)
PublishAfterClose(size) ==
    /\ last_seq < SeqMax
    /\ \E k \in 0..Len(ring) :
          /\ Evicts(ring, size, k)
          /\ ring' = Append(Without(ring, k), [seq |-> last_seq + 1, bytes |-> size])
    /\ last_seq' = last_seq + 1
    /\ live' = [x \in Subscribers |-> IF status[x] = "on" THEN Deliver(x, last_seq + 1) ELSE live[x]]
    /\ overrun' = [x \in Subscribers |-> IF status[x] = "on" THEN Overruns(x) ELSE overrun[x]]
    /\ UNCHANGED <<closed, status, since, truncated, replay, start, got>>

(* The drainer numbers the chunk under the terminal lock and publishes it. *)
Publish(size) ==
    /\ ~closed
    /\ last_seq < SeqMax
    /\ \E k \in 0..Len(ring) :
          /\ Evicts(ring, size, k)
          /\ ring' = IF size > RingBytes
                     THEN Without(ring, k)
                     ELSE Append(Without(ring, k),
                                 [seq |-> last_seq + 1, bytes |-> size])
    /\ last_seq' = last_seq + 1
    /\ live' = [x \in Subscribers |->
                   IF status[x] = "on" THEN Deliver(x, last_seq + 1) ELSE live[x]]
    /\ overrun' = [x \in Subscribers |->
                   IF status[x] = "on" THEN Overruns(x) ELSE overrun[x]]
    /\ UNCHANGED <<closed, status, since, truncated, replay, start, got>>

(* subscribe(since_seq): replay and receiver are captured together.  A    *)
(* closed bus hands out an already closed receiver.                       *)
Subscribe(x, s) ==
    /\ status' = [status EXCEPT ![x] = "on"]
    /\ since' = [since EXCEPT ![x] = s]
    /\ replay' = [replay EXCEPT ![x] = IF s = LiveOnly THEN <<>> ELSE ReplaySince(s)]
    /\ truncated' = [truncated EXCEPT ![x] = s # LiveOnly /\ Truncated(s)]
    /\ live' = [live EXCEPT ![x] = <<>>]
    /\ overrun' = [overrun EXCEPT ![x] = FALSE]
    /\ start' = [start EXCEPT ![x] =
                    IF s = LiveOnly THEN last_seq
                    ELSE IF Truncated(s) THEN ring[1].seq - 1 ELSE s]
    /\ got' = [got EXCEPT ![x] = <<>>]
    /\ UNCHANGED bus

Close ==
    /\ ~closed
    /\ closed' = TRUE
    /\ UNCHANGED <<ring, last_seq, subscription>>

-----------------------------------------------------------------------------
(* What a forwarder does with its subscription: the replay first, ...     *)
TakeReplay(x) ==
    /\ status[x] = "on"
    /\ replay[x] # <<>>
    /\ got' = [got EXCEPT ![x] = Append(@, Head(replay[x]))]
    /\ replay' = [replay EXCEPT ![x] = Tail(@)]
    /\ UNCHANGED <<bus, status, since, truncated, live, overrun, start>>

(* ... then the receiver; Lagged ends the subscription.                   *)
TakeLive(x) ==
    /\ status[x] = "on"
    /\ replay[x] = <<>>
    /\ ~overrun[x]
    /\ live[x] # <<>>
    /\ got' = [got EXCEPT ![x] = Append(@, Head(live[x]))]
    /\ live' = [live EXCEPT ![x] = Tail(@)]
    /\ UNCHANGED <<bus, status, since, truncated, replay, overrun, start>>

Lag(x) ==
    /\ status[x] = "on"
    /\ replay[x] = <<>>
    /\ overrun[x]
    /\ status' = [status EXCEPT ![x] = "lagged"]
    /\ UNCHANGED <<bus, since, truncated, replay, live, overrun, start, got>>

(* recv returns Closed once the sender is gone and the backlog is empty.  *)
End(x) ==
    /\ status[x] = "on"
    /\ closed
    /\ replay[x] = <<>> /\ live[x] = <<>> /\ ~overrun[x]
    /\ status' = [status EXCEPT ![x] = "ended"]
    /\ UNCHANGED <<bus, since, truncated, replay, live, overrun, start, got>>

Next ==
    \/ \E size \in Sizes : Publish(size)
    \/ Close
    \/ \E x \in Subscribers :
          \/ \E s \in 0..last_seq \cup {LiveOnly} : Subscribe(x, s)
          \/ TakeReplay(x) \/ TakeLive(x) \/ Lag(x) \/ End(x)

Spec == Init /\ [][Next]_vars

-----------------------------------------------------------------------------
TypeOK ==
    /\ ring \in Seq(Chunk)
    /\ last_seq \in 0..SeqMax
    /\ closed \in BOOLEAN
    /\ status \in [Subscribers -> {"off", "on", "lagged", "ended"}]
    /\ since \in [Subscribers -> Nat \cup {LiveOnly}]
    /\ truncated \in [Subscribers -> BOOLEAN]
    /\ replay \in [Subscribers -> Seq(Nat)]
    /\ live \in [Subscribers -> Seq(Nat)]
    /\ overrun \in [Subscribers -> BOOLEAN]
    /\ start \in [Subscribers -> Nat]
    /\ got \in [Subscribers -> Seq(Nat)]

(* The ring is the unbroken run of chunks that ends at last_seq.          *)
RingContiguous ==
    /\ \A i \in 1..Len(ring) : ring[i].seq + (Len(ring) - i) = last_seq
    /\ last_seq > 0 => Len(ring) > 0

(* "either sees the chunk in its replay slice OR on its live receiver,    *)
(* never both and never neither": what a subscriber has consumed is the   *)
(* unbroken run of chunks that starts right after its since_seq, unless   *)
(* the answer said replay_truncated, and it said so only if a chunk was   *)
(* really gone.                                                           *)
StreamExact ==
    \A x \in Subscribers :
        /\ \A i \in 1..Len(got[x]) : got[x][i] = start[x] + i
        /\ since[x] # LiveOnly /\ status[x] # "off" =>
              IF truncated[x] THEN start[x] > since[x] ELSE start[x] = since[x]

(* A forwarder that saw the bus closed has consumed everything up to the  *)
(* final seq: neither close nor a subscription to a closed bus loses the  *)
(* tail.                                                                  *)
CompleteAtEnd ==
    \A x \in Subscribers :
        status[x] = "ended" => start[x] + Len(got[x]) = last_seq

(* The bus keeps the promise of SessionStream: with its ring, its bounded  *)
(* receivers and its cut between replay and live output, it still is a log *)
(* from which every reader gets the next chunk, or is told.                *)
Stream == INSTANCE SessionStream
    WITH Readers <- Subscribers, last <- last_seq, finished <- closed, state <- status,
         told <- truncated, from <- start, seen <- got
ImplementsStream == Stream!Spec
=============================================================================
