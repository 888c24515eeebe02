--------------------------- MODULE OutputBusProofs --------------------------
(***************************************************************************)
(* Proofs about OutputBus for every ring size, broadcast capacity, set of  *)
(* subscribers and number of chunks.                                       *)
(*                                                                         *)
(* The inductive invariant adds to the checked properties what is still    *)
(* queued: the seqs consumed, then those in the replay slice, then those   *)
(* in the receiver are one unbroken run that ends at last_seq.             *)
(***************************************************************************)
EXTENDS OutputBus, TLAPS

Queued(x) ==
    status[x] = "on" =>
        /\ \A i \in 1..Len(replay[x]) :
              replay[x][i] = start[x] + Len(got[x]) + i
        /\ ~overrun[x] =>
              /\ \A i \in 1..Len(live[x]) :
                    live[x][i] = start[x] + Len(got[x]) + Len(replay[x]) + i
              /\ start[x] + Len(got[x]) + Len(replay[x]) + Len(live[x]) = last_seq

Consumed(x) ==
    /\ \A i \in 1..Len(got[x]) : got[x][i] = start[x] + i
    /\ since[x] # LiveOnly /\ status[x] # "off" =>
          IF truncated[x] THEN start[x] > since[x] ELSE start[x] = since[x]

Ended(x) ==
    status[x] = "ended" => closed /\ start[x] + Len(got[x]) = last_seq

IInv ==
    /\ TypeOK
    /\ RingContiguous
    /\ \A x \in Subscribers : Queued(x) /\ Consumed(x) /\ Ended(x)

-----------------------------------------------------------------------------
(* What evicting k chunks leaves: the newer ones, in place.               *)
LEMMA WithoutIsSuffix ==
    ASSUME NEW S, NEW r \in Seq(S), NEW k \in 0..Len(r)
    PROVE  /\ Without(r, k) \in Seq(S)
           /\ Len(Without(r, k)) = Len(r) - k
           /\ \A i \in 1..(Len(r) - k) : Without(r, k)[i] = r[i + k]
  BY DEF Without

(* A contiguous ring has a unique cut at s, and the replay after it is    *)
(* the run of seqs that ends at last_seq.                                 *)
LEMMA ReplayIsRun ==
    ASSUME TypeOK, RingContiguous, NEW s \in 0..last_seq
    PROVE  /\ ReplaySince(s) \in Seq(Nat)
           /\ Truncated(s) =>
                 /\ ring[1].seq - 1 \in Nat
                 /\ ring[1].seq - 1 > s
                 /\ ring[1].seq - 1 + Len(ReplaySince(s)) = last_seq
                 /\ \A i \in 1..Len(ReplaySince(s)) :
                       ReplaySince(s)[i] = ring[1].seq - 1 + i
           /\ ~Truncated(s) =>
                 /\ s + Len(ReplaySince(s)) = last_seq
                 /\ \A i \in 1..Len(ReplaySince(s)) : ReplaySince(s)[i] = s + i
<1> DEFINE first == last_seq - Len(ring)
           P(k) == /\ \A i \in 1..k : ring[i].seq <= s
                   /\ \A i \in (k + 1)..Len(ring) : ring[i].seq > s
           cut == IF s < first THEN 0 ELSE s - first
<1>1. /\ Len(ring) \in Nat /\ last_seq \in Nat /\ s \in Nat
      /\ \A i \in 1..Len(ring) : ring[i].seq \in Nat \ {0} /\ ring[i].seq = first + i
  <2>1. Len(ring) \in Nat /\ last_seq \in Nat /\ s \in Nat  BY DEF TypeOK
  <2>2. ASSUME NEW i \in 1..Len(ring)
        PROVE  ring[i].seq \in Nat \ {0} /\ ring[i].seq = first + i
    <3>1. ring[i] \in Chunk  BY DEF TypeOK
    <3>2. ring[i].seq \in Nat \ {0}  BY <3>1 DEF Chunk
    <3>3. ring[i].seq + (Len(ring) - i) = last_seq  BY DEF RingContiguous
    <3> QED BY <2>1, <3>2, <3>3
  <2> QED BY <2>1, <2>2
<1>2. first \in Nat
  <2>1. CASE Len(ring) = 0  BY <1>1, <2>1
  <2>2. CASE Len(ring) > 0  BY <1>1, <2>2, 1 \in 1..Len(ring)
  <2> QED BY <1>1, <2>1, <2>2
<1>3. cut \in 0..Len(ring) /\ P(cut)
  <2>1. /\ cut \in 0..Len(ring)
        /\ \A i \in 1..cut : i \in 1..Len(ring) /\ first + i <= s
        /\ \A i \in (cut + 1)..Len(ring) : i \in 1..Len(ring) /\ first + i > s
    <3>1. CASE s < first  BY <1>1, <1>2, <3>1
    <3>2. CASE s >= first  BY <1>1, <1>2, <3>2
    <3> QED BY <1>1, <1>2, <3>1, <3>2
  <2> HIDE DEF cut, first
  <2> QED BY <1>1, <2>1
<1>4. ReplayFrom(s) \in 0..Len(ring) /\ P(ReplayFrom(s))
  BY <1>3 DEF ReplayFrom
<1>5. ReplayFrom(s) = cut
  <2> DEFINE k == ReplayFrom(s)
  <2>1. k \in 0..Len(ring) /\ P(k)  BY <1>4
  <2>5. cut \in 0..Len(ring) /\ P(cut)  BY <1>3
  <2> HIDE DEF k, cut
  <2>2. ASSUME k < cut PROVE FALSE
    <3>1. k + 1 \in 1..cut /\ k + 1 \in (k + 1)..Len(ring) /\ k + 1 \in 1..Len(ring)
      BY <1>1, <2>1, <2>2, <2>5
    <3>2. ring[k + 1].seq <= s /\ ring[k + 1].seq > s  BY <2>1, <2>5, <3>1
    <3> QED BY <1>1, <3>1, <3>2
  <2>3. ASSUME cut < k PROVE FALSE
    <3>1. cut + 1 \in 1..k /\ cut + 1 \in (cut + 1)..Len(ring) /\ cut + 1 \in 1..Len(ring)
      BY <1>1, <2>1, <2>3, <2>5
    <3>2. ring[cut + 1].seq <= s /\ ring[cut + 1].seq > s  BY <2>1, <2>5, <3>1
    <3> QED BY <1>1, <3>1, <3>2
  <2>4. k = cut  BY <1>1, <2>1, <2>2, <2>3, <2>5
  <2> QED BY <2>4 DEF k
<1>6. ReplaySince(s) = [i \in 1..(Len(ring) - cut) |-> ring[i + cut].seq]
  BY <1>5 DEF ReplaySince
<1>7. /\ Len(ring) - cut \in Nat
      /\ \A i \in 1..(Len(ring) - cut) :
            ring[i + cut].seq \in Nat /\ ring[i + cut].seq = first + cut + i
  BY <1>1, <1>2, <1>3
<1> DEFINE n == Len(ring) - cut
<1>8. /\ ReplaySince(s) \in Seq(Nat)
      /\ Len(ReplaySince(s)) = n
      /\ \A i \in 1..n : ReplaySince(s)[i] = first + cut + i
  BY <1>6, <1>7
<1>9. Truncated(s) <=> Len(ring) > 0 /\ first > s
  <2>1. ring # <<>> <=> Len(ring) > 0  BY DEF TypeOK
  <2>2. Len(ring) > 0 => ring[1].seq = first + 1  BY <1>1
  <2> QED BY <1>1, <1>2, <2>1, <2>2 DEF Truncated
<1>10. CASE Truncated(s)
  <2>1. ring[1].seq = first + 1 /\ cut = 0
    BY <1>1, <1>2, <1>9, <1>10, 1 \in 1..Len(ring)
  <2> QED BY <1>1, <1>2, <1>8, <1>9, <1>10, <2>1
<1>11. CASE ~Truncated(s)
  <2>1. first <= s
    <3>1. CASE Len(ring) > 0  BY <1>1, <1>2, <1>9, <1>11, <3>1
    <3>2. CASE Len(ring) = 0
      <4>1. last_seq = 0  BY <1>1, <3>2 DEF RingContiguous
      <4> QED BY <1>1, <3>2, <4>1
    <3> QED BY <1>1, <3>1, <3>2
  <2>2. cut = s - first  BY <1>1, <1>2, <2>1
  <2> QED BY <1>1, <1>2, <1>8, <1>11, <2>1, <2>2
<1> QED BY <1>8, <1>10, <1>11

-----------------------------------------------------------------------------
(* The empty bus with no subscription satisfies the invariant.            *)
LEMMA InitEstablishes == Init => IInv
<1> SUFFICES ASSUME Init PROVE IInv  OBVIOUS
<1>1. TypeOK
  <2>1. closed \in BOOLEAN /\ truncated \in [Subscribers -> BOOLEAN]
        /\ overrun \in [Subscribers -> BOOLEAN]
    BY Zenon DEF Init
  <2> QED BY <2>1, OutputBusAssumption DEF Init, TypeOK
<1>2. RingContiguous  BY DEF Init, RingContiguous
<1>3. \A x \in Subscribers : Queued(x) /\ Consumed(x) /\ Ended(x)
  <2> TAKE x \in Subscribers
  <2>1. /\ status[x] = "off" /\ got[x] = <<>>  BY DEF Init
  <2> QED BY <2>1 DEF Queued, Consumed, Ended
<1> QED BY <1>1, <1>2, <1>3 DEF IInv

(* A step that leaves the bus and x's subscription alone keeps what the   *)
(* invariant says of x.                                                   *)
LEMMA SubscriberUntouched ==
    ASSUME NEW x \in Subscribers,
           Queued(x) /\ Consumed(x) /\ Ended(x),
           last_seq' = last_seq, closed' = closed,
           status'[x] = status[x], since'[x] = since[x],
           truncated'[x] = truncated[x], replay'[x] = replay[x],
           live'[x] = live[x], overrun'[x] = overrun[x],
           start'[x] = start[x], got'[x] = got[x]
    PROVE  Queued(x)' /\ Consumed(x)' /\ Ended(x)'
  BY DEF Queued, Consumed, Ended

(* The new chunk extends the ring's run and every live run by one.        *)
LEMMA PublishStep ==
    ASSUME IInv, NEW size \in Sizes, Publish(size)
    PROVE  IInv'
<1>0. TypeOK /\ RingContiguous /\ \A x \in Subscribers : Queued(x) /\ Consumed(x) /\ Ended(x)
  BY DEF IInv
<1>1. PICK k \in 0..Len(ring) :
         ring' = Append(Without(ring, k), [seq |-> last_seq + 1, bytes |-> size])
  <2>1. ~(size > RingBytes)  BY OutputBusAssumption
  <2> QED BY <2>1 DEF Publish
<1> DEFINE rest == Without(ring, k)
<1>2. /\ last_seq \in Nat /\ last_seq < SeqMax /\ last_seq' = last_seq + 1
      /\ ring \in Seq(Chunk) /\ Len(ring) \in Nat /\ SeqMax \in Nat
  BY <1>0, OutputBusAssumption DEF Publish, TypeOK
<1>3. /\ rest \in Seq(Chunk) /\ Len(rest) = Len(ring) - k /\ Len(rest) \in Nat
      /\ \A i \in 1..Len(rest) : rest[i] = ring[i + k]
  <2>1. /\ rest \in Seq(Chunk) /\ Len(rest) = Len(ring) - k
        /\ \A i \in 1..(Len(ring) - k) : rest[i] = ring[i + k]
    BY <1>2, WithoutIsSuffix
  <2> QED BY <1>2, <2>1
<1> HIDE DEF rest
<1>4. ring' = Append(rest, [seq |-> last_seq + 1, bytes |-> size])
  BY <1>1 DEF rest
<1>5. [seq |-> last_seq + 1, bytes |-> size] \in Chunk
  BY <1>2 DEF Chunk
<1>6. /\ ring' \in Seq(Chunk) /\ Len(ring') = Len(rest) + 1
      /\ \A i \in 1..Len(rest) : ring'[i] = rest[i]
      /\ ring'[Len(rest) + 1].seq = last_seq + 1
  <2> DEFINE c == [seq |-> last_seq + 1, bytes |-> size]
  <2>1. c \in Chunk /\ c.seq = last_seq + 1  BY <1>5
  <2>2. ring' = Append(rest, c)  BY <1>4
  <2> HIDE DEF c
  <2> QED BY <1>3, <2>1, <2>2
<1>7. RingContiguous'
  <2>1. ASSUME NEW i \in 1..Len(ring')
        PROVE  ring'[i].seq + (Len(ring') - i) = last_seq'
    <3>1. CASE i = Len(rest) + 1  BY <1>2, <1>3, <1>6, <3>1
    <3>2. CASE i \in 1..Len(rest)
      <4>1. /\ i + k \in 1..Len(ring) /\ ring'[i] = ring[i + k]
        BY <1>2, <1>3, <1>6, <3>2
      <4>2. ring[i + k].seq + (Len(ring) - (i + k)) = last_seq
        BY <1>0, <4>1 DEF RingContiguous
      <4>3. ring[i + k].seq \in Nat
        <5>1. ring[i + k] \in Chunk  BY <1>2, <4>1
        <5> QED BY <5>1 DEF Chunk
      <4>4. \A q \in Nat, m \in Nat, z \in Nat :
               q + (m - (i + k)) = z => q + (((m - k) + 1) - i) = z + 1
        BY <3>2
      <4>5. ring[i + k].seq + (((Len(ring) - k) + 1) - i) = last_seq + 1
        BY <1>2, <4>2, <4>3, <4>4
      <4> QED BY <1>2, <1>3, <1>6, <4>1, <4>5
    <3> QED BY <1>3, <1>6, <3>1, <3>2
  <2> QED BY <1>3, <1>6, <2>1 DEF RingContiguous
<1>8. ASSUME NEW x \in Subscribers
      PROVE  /\ live'[x] \in Seq(Nat)
             /\ Queued(x)' /\ Consumed(x)' /\ Ended(x)'
  <2>1. /\ status'[x] = status[x] /\ since'[x] = since[x] /\ truncated'[x] = truncated[x]
        /\ replay'[x] = replay[x] /\ start'[x] = start[x] /\ got'[x] = got[x]
        /\ closed = FALSE /\ closed' = FALSE
    BY <1>0 DEF Publish, TypeOK
  <2>2. Consumed(x)' /\ Ended(x)'  BY <1>0, <2>1 DEF Consumed, Ended
  <2>3. CASE status[x] # "on"
    BY <1>0, <2>1, <2>2, <2>3 DEF Publish, TypeOK, Queued
  <2>4. CASE status[x] = "on"
    <3>1. /\ live[x] \in Seq(Nat) /\ Len(live[x]) \in Nat /\ start[x] \in Nat
          /\ Len(got[x]) \in Nat /\ Len(replay[x]) \in Nat
      BY <1>0 DEF TypeOK
    <3>2. live'[x] = Deliver(x, last_seq + 1) /\ overrun'[x] = Overruns(x)
      BY <2>4 DEF Publish
    <3>3. CASE overrun'[x]
      <4>1. live'[x] \in Seq(Nat)  BY <1>2, <3>1, <3>2 DEF Deliver
      <4>2. \A i \in 1..Len(replay'[x]) :
                replay'[x][i] = start'[x] + Len(got'[x]) + i
        BY <1>0, <2>1, <2>4 DEF Queued
      <4>3. Queued(x)'  BY <3>3, <4>2 DEF Queued
      <4> QED BY <2>2, <4>1, <4>3
    <3>4. CASE ~overrun'[x]
      <4>0. ~overrun[x] /\ ~(Len(live[x]) >= LiveCap)  BY <3>2, <3>4 DEF Overruns
      <4>1. ~overrun[x] /\ live'[x] = Append(live[x], last_seq + 1)
        BY <3>1, <3>2, <4>0, OutputBusAssumption DEF Deliver
      <4>2. /\ live'[x] \in Seq(Nat) /\ Len(live'[x]) = Len(live[x]) + 1
            /\ \A i \in 1..Len(live[x]) : live'[x][i] = live[x][i]
            /\ live'[x][Len(live[x]) + 1] = last_seq + 1
        BY <1>2, <3>1, <4>1
      <4> DEFINE base == start[x] + Len(got[x]) + Len(replay[x])
      <4>3. /\ base \in Nat /\ base + Len(live[x]) = last_seq
            /\ \A i \in 1..Len(live[x]) : live[x][i] = base + i
        BY <1>0, <2>4, <3>1, <4>1 DEF Queued
      <4> HIDE DEF base
      <4>4. ASSUME NEW i \in 1..Len(live'[x])
            PROVE  live'[x][i] = base + i
        <5>1. CASE i = Len(live[x]) + 1  BY <1>2, <3>1, <4>2, <4>3, <5>1
        <5>2. CASE i \in 1..Len(live[x])  BY <4>2, <4>3, <5>2
        <5> QED BY <3>1, <4>2, <5>1, <5>2
      <4>5. base + Len(live'[x]) = last_seq'
        <5>1. \A b \in Nat, n \in Nat : b + (n + 1) = (b + n) + 1  OBVIOUS
        <5>2. base + (Len(live[x]) + 1) = (base + Len(live[x])) + 1
          BY <3>1, <4>3, <5>1
        <5> QED BY <1>2, <4>2, <4>3, <5>2
      <4>6. \A i \in 1..Len(replay'[x]) :
                replay'[x][i] = start'[x] + Len(got'[x]) + i
        BY <1>0, <2>1, <2>4 DEF Queued
      <4> QED BY <2>1, <2>2, <4>2, <4>4, <4>5, <4>6 DEF Queued, base
    <3> QED BY <3>3, <3>4
  <2> QED BY <2>3, <2>4
<1>9. TypeOK'
  <2>1. last_seq' \in 0..SeqMax  BY <1>2
  <2>2. live' \in [Subscribers -> Seq(Nat)]
    <3>1. live' = [x \in Subscribers |-> live'[x]]  BY DEF Publish
    <3> QED BY <1>8, <3>1
  <2>3. overrun' \in [Subscribers -> BOOLEAN]
    <3>1. \A x \in Subscribers : Overruns(x) \in BOOLEAN /\ overrun[x] \in BOOLEAN
      BY <1>0 DEF Overruns, TypeOK
    <3> QED BY <3>1 DEF Publish
  <2> QED BY <1>0, <1>6, <2>1, <2>2, <2>3 DEF Publish, TypeOK
<1> QED BY <1>7, <1>8, <1>9 DEF IInv

(* The answer to subscribe starts a run at start[x].                      *)
LEMMA SubscribeStep ==
    ASSUME IInv, NEW x \in Subscribers, NEW s \in 0..last_seq \cup {LiveOnly},
           Subscribe(x, s)
    PROVE  IInv'
<1>0. TypeOK /\ RingContiguous /\ \A y \in Subscribers : Queued(y) /\ Consumed(y) /\ Ended(y)
  BY DEF IInv
<1>1. /\ ring' = ring /\ last_seq' = last_seq /\ closed' = closed
      /\ last_seq \in Nat
  BY <1>0 DEF Subscribe, bus, TypeOK
<1> DEFINE rep == IF s = LiveOnly THEN <<>> ELSE ReplaySince(s)
           base == IF s = LiveOnly THEN last_seq
                   ELSE IF Truncated(s) THEN ring[1].seq - 1 ELSE s
           tr == s # LiveOnly /\ Truncated(s)
<1>2. /\ rep \in Seq(Nat) /\ base \in Nat /\ tr \in BOOLEAN
      /\ base + Len(rep) = last_seq
      /\ \A i \in 1..Len(rep) : rep[i] = base + i
      /\ s # LiveOnly => IF tr THEN base > s ELSE base = s
  <2>1. CASE s = LiveOnly
    <3>1. rep = <<>> /\ base = last_seq /\ tr = FALSE  BY <2>1
    <3> QED BY <1>1, <2>1, <3>1
  <2>2. CASE s # LiveOnly
    <3>1. s \in 0..last_seq  BY <2>2
    <3>2. rep = ReplaySince(s) /\ base = IF Truncated(s) THEN ring[1].seq - 1 ELSE s
      BY <2>2
    <3>5. tr \in BOOLEAN /\ (tr <=> Truncated(s))  BY <2>2, Zenon
    <3> HIDE DEF rep, base, tr
    <3>3. CASE Truncated(s)  BY <1>0, <1>1, <2>2, <3>1, <3>2, <3>3, <3>5, ReplayIsRun
    <3>4. CASE ~Truncated(s)  BY <1>0, <1>1, <2>2, <3>1, <3>2, <3>4, <3>5, ReplayIsRun
    <3> QED BY <3>3, <3>4
  <2> QED BY <2>1, <2>2
<1>3. /\ status' = [status EXCEPT ![x] = "on"]
      /\ since' = [since EXCEPT ![x] = s]
      /\ replay' = [replay EXCEPT ![x] = rep]
      /\ truncated' = [truncated EXCEPT ![x] = tr]
      /\ live' = [live EXCEPT ![x] = <<>>]
      /\ overrun' = [overrun EXCEPT ![x] = FALSE]
      /\ start' = [start EXCEPT ![x] = base]
      /\ got' = [got EXCEPT ![x] = <<>>]
  BY DEF Subscribe
<1> HIDE DEF rep, base, tr
<1>4. TypeOK'
  <2>1. overrun' \in [Subscribers -> BOOLEAN] /\ truncated' \in [Subscribers -> BOOLEAN]
    BY <1>0, <1>2, <1>3 DEF TypeOK
  <2>2. s \in Nat \cup {LiveOnly}  BY <1>1
  <2>3. /\ status' \in [Subscribers -> {"off", "on", "lagged", "ended"}]
        /\ since' \in [Subscribers -> Nat \cup {LiveOnly}]
        /\ replay' \in [Subscribers -> Seq(Nat)]
        /\ live' \in [Subscribers -> Seq(Nat)]
        /\ start' \in [Subscribers -> Nat]
        /\ got' \in [Subscribers -> Seq(Nat)]
    BY <1>0, <1>2, <1>3, <2>2 DEF TypeOK
  <2> QED BY <1>0, <1>1, <2>1, <2>3 DEF TypeOK
<1>5. RingContiguous'  BY <1>0, <1>1 DEF RingContiguous
<1>6. Queued(x)' /\ Consumed(x)' /\ Ended(x)'
  <2>1. /\ status'[x] = "on" /\ since'[x] = s /\ replay'[x] = rep
        /\ truncated'[x] = tr /\ live'[x] = <<>> /\ start'[x] = base /\ got'[x] = <<>>
    BY <1>0, <1>3 DEF TypeOK
  <2>2. Len(rep) \in Nat /\ base + 0 = base /\ base + Len(rep) + 0 = base + Len(rep)
    BY <1>2
  <2>3. Consumed(x)' /\ Ended(x)'  BY <1>2, <2>1 DEF Consumed, Ended
  <2>4. Queued(x)'  BY <1>1, <1>2, <2>1, <2>2 DEF Queued
  <2> QED BY <2>3, <2>4
<1>7. ASSUME NEW y \in Subscribers, y # x
      PROVE  Queued(y)' /\ Consumed(y)' /\ Ended(y)'
  <2>1. /\ status'[y] = status[y] /\ since'[y] = since[y] /\ replay'[y] = replay[y]
        /\ truncated'[y] = truncated[y] /\ live'[y] = live[y]
        /\ overrun'[y] = overrun[y] /\ start'[y] = start[y] /\ got'[y] = got[y]
    BY <1>0, <1>3, <1>7 DEF TypeOK
  <2> QED BY <1>0, <1>1, <2>1, SubscriberUntouched
<1> QED BY <1>4, <1>5, <1>6, <1>7 DEF IInv

(* Closing the bus changes no subscription.                               *)
LEMMA CloseStep == ASSUME IInv, Close PROVE IInv'
<1>1. TypeOK' /\ RingContiguous'
  BY DEF IInv, Close, TypeOK, RingContiguous, subscription
<1>2. ASSUME NEW y \in Subscribers PROVE Queued(y)' /\ Consumed(y)' /\ Ended(y)'
  BY DEF IInv, Close, subscription, Queued, Consumed, Ended
<1> QED BY <1>1, <1>2 DEF IInv

(* Consuming the head of the replay slice moves it to the consumed run.   *)
LEMMA TakeReplayStep ==
    ASSUME IInv, NEW x \in Subscribers, TakeReplay(x)
    PROVE  IInv'
<1>0. TypeOK /\ RingContiguous /\ \A y \in Subscribers : Queued(y) /\ Consumed(y) /\ Ended(y)
  BY DEF IInv
<1>1. /\ status[x] = "on" /\ replay[x] # <<>>
      /\ got' = [got EXCEPT ![x] = Append(got[x], Head(replay[x]))]
      /\ replay' = [replay EXCEPT ![x] = Tail(replay[x])]
      /\ ring' = ring /\ last_seq' = last_seq /\ closed' = closed /\ status' = status
      /\ since' = since /\ truncated' = truncated /\ live' = live
      /\ overrun' = overrun /\ start' = start
  BY DEF TakeReplay, bus
<1> DEFINE g == got[x]  r == replay[x]  b == start[x]
<1>2. /\ g \in Seq(Nat) /\ r \in Seq(Nat) /\ b \in Nat /\ r # <<>>
      /\ got'[x] = Append(g, Head(r)) /\ replay'[x] = Tail(r)
      /\ \A i \in 1..Len(g) : g[i] = b + i
      /\ \A i \in 1..Len(r) : r[i] = b + Len(g) + i
  BY <1>0, <1>1 DEF TypeOK, Queued, Consumed
<1>3. ~overrun[x] =>
         /\ \A i \in 1..Len(live[x]) : live[x][i] = b + Len(g) + Len(r) + i
         /\ b + Len(g) + Len(r) + Len(live[x]) = last_seq
  BY <1>0, <1>1 DEF Queued
<1> HIDE DEF g, r, b
<1>4. /\ Len(g) \in Nat /\ Len(r) \in Nat \ {0} /\ Head(r) = r[1] /\ Head(r) \in Nat
      /\ Tail(r) \in Seq(Nat) /\ Len(Tail(r)) = Len(r) - 1
      /\ \A i \in 1..(Len(r) - 1) : Tail(r)[i] = r[i + 1]
      /\ Append(g, Head(r)) \in Seq(Nat) /\ Len(Append(g, Head(r))) = Len(g) + 1
      /\ \A i \in 1..Len(g) : Append(g, Head(r))[i] = g[i]
      /\ Append(g, Head(r))[Len(g) + 1] = Head(r)
  BY <1>2
<1>5. \A i \in 1..(Len(g) + 1) : Append(g, Head(r))[i] = b + i
  <2> TAKE i \in 1..(Len(g) + 1)
  <2>1. CASE i = Len(g) + 1
    <3>1. Head(r) = b + Len(g) + 1  BY <1>2, <1>4
    <3> QED BY <1>2, <1>4, <2>1, <3>1
  <2>2. CASE i \in 1..Len(g)  BY <1>2, <1>4, <2>2
  <2> QED BY <1>4, <2>1, <2>2
<1>6. \A i \in 1..(Len(r) - 1) : Tail(r)[i] = b + (Len(g) + 1) + i
  <2> TAKE i \in 1..(Len(r) - 1)
  <2>1. i + 1 \in 1..Len(r)  BY <1>4
  <2>2. Tail(r)[i] = b + Len(g) + (i + 1)  BY <1>2, <1>4, <2>1
  <2> QED BY <1>2, <1>4, <2>2
<1>7. b + (Len(g) + 1) + (Len(r) - 1) = b + Len(g) + Len(r)
  BY <1>2, <1>4
<1>8. /\ Len(got'[x]) = Len(g) + 1 /\ Len(replay'[x]) = Len(r) - 1 /\ start'[x] = b
      /\ \A i \in 1..(Len(g) + 1) : got'[x][i] = b + i
      /\ \A i \in 1..(Len(r) - 1) : replay'[x][i] = b + (Len(g) + 1) + i
  BY <1>1, <1>2, <1>4, <1>5, <1>6 DEF b
<1>9. Queued(x)' /\ Consumed(x)' /\ Ended(x)'
  <2>1. Consumed(x)'  BY <1>0, <1>1, <1>8 DEF Consumed, b
  <2>2. Ended(x)'  BY <1>1 DEF Ended
  <2>3. Queued(x)'  BY <1>1, <1>3, <1>7, <1>8 DEF Queued
  <2> QED BY <2>1, <2>2, <2>3
<1>10. TypeOK' /\ RingContiguous'
  BY <1>0, <1>1, <1>2, <1>4 DEF TypeOK, RingContiguous, g, r
<1>11. ASSUME NEW y \in Subscribers, y # x
       PROVE  Queued(y)' /\ Consumed(y)' /\ Ended(y)'
  <2>1. replay'[y] = replay[y] /\ got'[y] = got[y]
    BY <1>0, <1>1, <1>11 DEF TypeOK
  <2> QED BY <1>0, <1>1, <2>1, SubscriberUntouched
<1> QED BY <1>9, <1>10, <1>11 DEF IInv

(* Consuming the head of the receiver does the same once the replay is    *)
(* empty.                                                                 *)
LEMMA TakeLiveStep ==
    ASSUME IInv, NEW x \in Subscribers, TakeLive(x)
    PROVE  IInv'
<1>0. TypeOK /\ RingContiguous /\ \A y \in Subscribers : Queued(y) /\ Consumed(y) /\ Ended(y)
  BY DEF IInv
<1>1. /\ status[x] = "on" /\ replay[x] = <<>> /\ live[x] # <<>> /\ ~overrun[x]
      /\ got' = [got EXCEPT ![x] = Append(got[x], Head(live[x]))]
      /\ live' = [live EXCEPT ![x] = Tail(live[x])]
      /\ ring' = ring /\ last_seq' = last_seq /\ closed' = closed /\ status' = status
      /\ since' = since /\ truncated' = truncated /\ replay' = replay
      /\ overrun' = overrun /\ start' = start
  BY DEF TakeLive, bus
<1> DEFINE g == got[x]  r == live[x]  b == start[x]
<1>2. /\ g \in Seq(Nat) /\ r \in Seq(Nat) /\ b \in Nat /\ r # <<>> /\ last_seq \in Nat
      /\ got'[x] = Append(g, Head(r)) /\ live'[x] = Tail(r)
      /\ \A i \in 1..Len(g) : g[i] = b + i
  BY <1>0, <1>1 DEF TypeOK, Consumed
<1>3. /\ \A i \in 1..Len(r) : r[i] = b + Len(g) + Len(replay[x]) + i
      /\ b + Len(g) + Len(replay[x]) + Len(r) = last_seq
  BY <1>0, <1>1 DEF Queued
<1>12. Len(replay[x]) = 0  BY <1>1
<1> HIDE DEF g, r, b
<1>4. /\ Len(g) \in Nat /\ Len(r) \in Nat \ {0} /\ Head(r) = r[1] /\ Head(r) \in Nat
      /\ Tail(r) \in Seq(Nat) /\ Len(Tail(r)) = Len(r) - 1
      /\ \A i \in 1..(Len(r) - 1) : Tail(r)[i] = r[i + 1]
      /\ Append(g, Head(r)) \in Seq(Nat) /\ Len(Append(g, Head(r))) = Len(g) + 1
      /\ \A i \in 1..Len(g) : Append(g, Head(r))[i] = g[i]
      /\ Append(g, Head(r))[Len(g) + 1] = Head(r)
  BY <1>2
<1>13. /\ \A i \in 1..Len(r) : r[i] = b + Len(g) + i
       /\ b + Len(g) + Len(r) = last_seq
  BY <1>2, <1>3, <1>4, <1>12
<1>5. \A i \in 1..(Len(g) + 1) : Append(g, Head(r))[i] = b + i
  <2> TAKE i \in 1..(Len(g) + 1)
  <2>1. CASE i = Len(g) + 1
    <3>1. Head(r) = b + Len(g) + 1  BY <1>4, <1>13
    <3> QED BY <1>2, <1>4, <2>1, <3>1
  <2>2. CASE i \in 1..Len(g)  BY <1>2, <1>4, <2>2
  <2> QED BY <1>4, <2>1, <2>2
<1>6. \A i \in 1..(Len(r) - 1) : Tail(r)[i] = b + (Len(g) + 1) + 0 + i
  <2> TAKE i \in 1..(Len(r) - 1)
  <2>1. i + 1 \in 1..Len(r)  BY <1>4
  <2>2. Tail(r)[i] = b + Len(g) + (i + 1)  BY <1>4, <1>13, <2>1
  <2> QED BY <1>2, <1>4, <2>2
<1>7. b + (Len(g) + 1) + 0 + (Len(r) - 1) = last_seq
  <2>1. \A p \in Nat, q \in Nat, n \in Nat \ {0} : p + (q + 1) + 0 + (n - 1) = p + q + n
    OBVIOUS
  <2>2. b + (Len(g) + 1) + 0 + (Len(r) - 1) = b + Len(g) + Len(r)
    BY <1>2, <1>4, <2>1
  <2> QED BY <1>13, <2>2
<1>8. /\ Len(got'[x]) = Len(g) + 1 /\ Len(live'[x]) = Len(r) - 1 /\ start'[x] = b
      /\ replay'[x] = <<>> /\ Len(replay'[x]) = 0
      /\ \A i \in 1..(Len(g) + 1) : got'[x][i] = b + i
      /\ \A i \in 1..(Len(r) - 1) : live'[x][i] = b + (Len(g) + 1) + 0 + i
  BY <1>1, <1>2, <1>4, <1>5, <1>6 DEF b
<1>9. Queued(x)' /\ Consumed(x)' /\ Ended(x)'
  <2>1. Consumed(x)'  BY <1>0, <1>1, <1>8 DEF Consumed, b
  <2>2. Ended(x)'  BY <1>1 DEF Ended
  <2>3. Queued(x)'
    <3>1. \A i \in 1..Len(replay'[x]) : replay'[x][i] = start'[x] + Len(got'[x]) + i
      BY <1>8
    <3>2. \A i \in 1..Len(live'[x]) :
             live'[x][i] = start'[x] + Len(got'[x]) + Len(replay'[x]) + i
      BY <1>8
    <3>3. start'[x] + Len(got'[x]) + Len(replay'[x]) + Len(live'[x]) = last_seq'
      BY <1>1, <1>7, <1>8
    <3> QED BY <3>1, <3>2, <3>3 DEF Queued
  <2> QED BY <2>1, <2>2, <2>3
<1>10. TypeOK' /\ RingContiguous'
  BY <1>0, <1>1, <1>2, <1>4 DEF TypeOK, RingContiguous, g, r
<1>11. ASSUME NEW y \in Subscribers, y # x
       PROVE  Queued(y)' /\ Consumed(y)' /\ Ended(y)'
  <2>1. live'[y] = live[y] /\ got'[y] = got[y]
    BY <1>0, <1>1, <1>11 DEF TypeOK
  <2> QED BY <1>0, <1>1, <2>1, SubscriberUntouched
<1> QED BY <1>9, <1>10, <1>11 DEF IInv

(* A lagged subscription keeps what it consumed.                          *)
LEMMA LagStep ==
    ASSUME IInv, NEW x \in Subscribers, Lag(x)
    PROVE  IInv'
<1>0. TypeOK /\ RingContiguous /\ \A y \in Subscribers : Queued(y) /\ Consumed(y) /\ Ended(y)
  BY DEF IInv
<1>1. TypeOK' /\ RingContiguous'
  BY <1>0 DEF Lag, TypeOK, RingContiguous, bus
<1>2. Queued(x)' /\ Consumed(x)' /\ Ended(x)'
  <2>1. status'[x] = "lagged" /\ status[x] = "on"  BY <1>0 DEF Lag, TypeOK
  <2> QED BY <1>0, <2>1 DEF Lag, Queued, Consumed, Ended
<1>3. ASSUME NEW y \in Subscribers, y # x
      PROVE  Queued(y)' /\ Consumed(y)' /\ Ended(y)'
  <2>1. status'[y] = status[y]  BY <1>0, <1>3 DEF Lag, TypeOK
  <2> QED BY <1>0, <2>1, SubscriberUntouched DEF Lag, bus
<1> QED BY <1>1, <1>2, <1>3 DEF IInv

(* With nothing left to consume, the consumed run ends at last_seq.       *)
LEMMA EndStep ==
    ASSUME IInv, NEW x \in Subscribers, End(x)
    PROVE  IInv'
<1>0. TypeOK /\ RingContiguous /\ \A y \in Subscribers : Queued(y) /\ Consumed(y) /\ Ended(y)
  BY DEF IInv
<1>1. TypeOK' /\ RingContiguous'
  BY <1>0 DEF End, TypeOK, RingContiguous, bus
<1>2. Queued(x)' /\ Consumed(x)' /\ Ended(x)'
  <2>1. status'[x] = "ended" /\ status[x] = "on"  BY <1>0 DEF End, TypeOK
  <2>2. start[x] + Len(got[x]) + Len(replay[x]) + Len(live[x]) = last_seq
    BY <1>0 DEF End, Queued
  <2>3. Len(replay[x]) = 0 /\ Len(live[x]) = 0 /\ Len(got[x]) \in Nat /\ start[x] \in Nat
    BY <1>0 DEF End, TypeOK
  <2>4. start[x] + Len(got[x]) = last_seq  BY <2>2, <2>3
  <2> QED BY <1>0, <2>1, <2>4 DEF End, Queued, Consumed, Ended, bus
<1>3. ASSUME NEW y \in Subscribers, y # x
      PROVE  Queued(y)' /\ Consumed(y)' /\ Ended(y)'
  <2>1. status'[y] = status[y]  BY <1>0, <1>3 DEF End, TypeOK
  <2> QED BY <1>0, <2>1, SubscriberUntouched DEF End, bus
<1> QED BY <1>1, <1>2, <1>3 DEF IInv

-----------------------------------------------------------------------------
(* Every reachable state of the bus satisfies the inductive invariant.    *)
THEOREM OutputBusInvariant == Spec => []IInv
<1>1. ASSUME IInv, [Next]_vars PROVE IInv'
  <2>1. CASE UNCHANGED vars
    BY <1>1, <2>1 DEF IInv, vars, TypeOK, RingContiguous, Queued, Consumed, Ended
  <2>2. ASSUME NEW size \in Sizes, Publish(size) PROVE IInv'
    BY <1>1, <2>2, PublishStep
  <2>3. CASE Close  BY <1>1, <2>3, CloseStep
  <2>4. ASSUME NEW x \in Subscribers, NEW s \in 0..last_seq \cup {LiveOnly},
               Subscribe(x, s)
        PROVE  IInv'
    BY <1>1, <2>4, SubscribeStep
  <2>5. ASSUME NEW x \in Subscribers, TakeReplay(x) \/ TakeLive(x) \/ Lag(x) \/ End(x)
        PROVE  IInv'
    BY <1>1, <2>5, TakeReplayStep, TakeLiveStep, LagStep, EndStep
  <2> QED BY <1>1, <2>1, <2>2, <2>3, <2>4, <2>5 DEF Next
<1> QED BY InitEstablishes, <1>1, PTL DEF Spec

(* The variables keep their types in every reachable state.               *)
THEOREM OutputBusTypeCorrect == Spec => []TypeOK
<1>1. IInv => TypeOK  BY DEF IInv
<1> QED BY OutputBusInvariant, <1>1, PTL

(* The ring always is the unbroken run of chunks that ends at last_seq.   *)
THEOREM RingIsContiguous == Spec => []RingContiguous
<1>1. IInv => RingContiguous  BY DEF IInv
<1> QED BY OutputBusInvariant, <1>1, PTL

(* For every capacity and any interleaving of publish, subscribe and      *)
(* close, a subscriber consumes the unbroken run after its since_seq, or  *)
(* was told that the replay is truncated.                                 *)
THEOREM StreamsAreExact == Spec => []StreamExact
<1>1. IInv => StreamExact  BY DEF IInv, StreamExact, Consumed
<1> QED BY OutputBusInvariant, <1>1, PTL

(* A forwarder that saw the bus closed has consumed up to the final seq.  *)
THEOREM StreamsEndComplete == Spec => []CompleteAtEnd
<1>1. IInv => CompleteAtEnd  BY DEF IInv, CompleteAtEnd, Ended
<1> QED BY OutputBusInvariant, <1>1, PTL
=============================================================================
