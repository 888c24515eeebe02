------------------------- MODULE OutputBusRefinement -------------------------
(***************************************************************************)
(* OutputBus implements SessionStream, for every ring size, broadcast      *)
(* capacity, set of subscribers and number of chunks.                      *)
(*                                                                         *)
(* A publish is a write, whatever it evicts and whomever it overruns;      *)
(* taking a chunk from the replay and taking one from the receiver both    *)
(* are reading the next chunk.  That needs the invariant of                *)
(* OutputBusProofs, and that an overrun receiver really is behind.         *)
(***************************************************************************)
EXTENDS OutputBusProofs

(* Nobody is told to resubscribe without having missed a chunk.            *)
Behind ==
    \A x \in Subscribers :
        status[x] = "on" /\ overrun[x] => start[x] + Len(got[x]) + Len(replay[x]) < last_seq

(* Positions are numbers.                                                  *)
LEMMA Positions ==
    ASSUME IInv
    PROVE  /\ last_seq \in Nat
           /\ \A x \in Subscribers :
                /\ start[x] \in Nat /\ Len(got[x]) \in Nat /\ Len(replay[x]) \in Nat
                /\ Len(live[x]) \in Nat
                /\ got[x] \in Seq(Nat) /\ replay[x] \in Seq(Nat) /\ live[x] \in Seq(Nat)
  BY DEF IInv, TypeOK

(* Four parts of a sum, the last of them not empty.                        *)
LEMMA PartsBelow ==
    ASSUME NEW a \in Nat, NEW b \in Nat, NEW c \in Nat, NEW d \in Nat, NEW n \in Nat,
           a + b + c + d = n, d >= 1
    PROVE  a + b + c < n + 1
  OBVIOUS

(* A publish overruns a receiver only if LiveCap chunks wait in it.        *)
LEMMA PublishBehind ==
    ASSUME IInv, Behind, NEW size \in Sizes, Publish(size)
    PROVE  Behind'
<1> SUFFICES ASSUME NEW x \in Subscribers, status'[x] = "on", overrun'[x]
             PROVE  start'[x] + Len(got'[x]) + Len(replay'[x]) < last_seq'
  BY DEF Behind
<1>1. /\ last_seq' = last_seq + 1
      /\ status' = status /\ start' = start /\ got' = got /\ replay' = replay
      /\ overrun'[x] = Overruns(x)
  BY DEF Publish
<1>2. overrun[x] \/ Len(live[x]) >= LiveCap  BY <1>1 DEF Overruns
<1>3. CASE overrun[x]  BY <1>1, <1>3, Positions DEF Behind
<1>4. CASE ~overrun[x]
  <2>1. start[x] + Len(got[x]) + Len(replay[x]) + Len(live[x]) = last_seq
    BY <1>1, <1>4 DEF IInv, Queued
  <2>2. Len(live[x]) >= 1  BY <1>2, <1>4, Positions, OutputBusAssumption
  <2>3. /\ last_seq \in Nat /\ start[x] \in Nat /\ Len(got[x]) \in Nat
        /\ Len(replay[x]) \in Nat /\ Len(live[x]) \in Nat
    BY Positions
  <2>4. start[x] + Len(got[x]) + Len(replay[x]) < last_seq + 1  BY <2>1, <2>2, <2>3, PartsBelow
  <2> QED BY <1>1, <2>4
<1> QED BY <1>3, <1>4

(* No other step makes an overrun receiver catch up.                       *)
LEMMA SubscribeBehind ==
    ASSUME IInv, Behind, NEW x \in Subscribers, NEW s \in 0..last_seq \cup {LiveOnly},
           Subscribe(x, s)
    PROVE  Behind'
<1> SUFFICES ASSUME NEW y \in Subscribers, status'[y] = "on", overrun'[y]
             PROVE  start'[y] + Len(got'[y]) + Len(replay'[y]) < last_seq'
  BY DEF Behind
<1>1. overrun' = [overrun EXCEPT ![x] = FALSE] /\ last_seq' = last_seq
  BY DEF Subscribe, bus
<1>2. y # x  BY <1>1 DEF IInv, TypeOK
<1>3. /\ status'[y] = status[y] /\ overrun'[y] = overrun[y] /\ start'[y] = start[y]
      /\ got'[y] = got[y] /\ replay'[y] = replay[y]
  BY <1>2 DEF Subscribe, IInv, TypeOK
<1> QED BY <1>1, <1>3 DEF Behind

(* Consuming a replayed chunk moves it, it does not skip one.              *)
LEMMA ConsumeBehind ==
    ASSUME IInv, Behind, NEW x \in Subscribers,
           TakeReplay(x) \/ TakeLive(x) \/ Lag(x) \/ End(x)
    PROVE  Behind'
<1> SUFFICES ASSUME NEW y \in Subscribers, status'[y] = "on", overrun'[y]
             PROVE  start'[y] + Len(got'[y]) + Len(replay'[y]) < last_seq'
  BY DEF Behind
<1>0. last_seq' = last_seq /\ overrun' = overrun /\ start' = start
  BY DEF TakeReplay, TakeLive, Lag, End, bus
<1>1. CASE TakeReplay(x)
  <2>1. /\ status' = status /\ replay[x] # <<>>
        /\ got' = [got EXCEPT ![x] = Append(got[x], Head(replay[x]))]
        /\ replay' = [replay EXCEPT ![x] = Tail(replay[x])]
    BY <1>1 DEF TakeReplay
  <2>2. CASE y = x
    <3>1. got'[x] = Append(got[x], Head(replay[x])) /\ replay'[x] = Tail(replay[x])
      BY <2>1 DEF IInv, TypeOK
    <3>2. Len(got'[x]) = Len(got[x]) + 1 /\ Len(replay'[x]) = Len(replay[x]) - 1
      <4>1. got[x] \in Seq(Nat) /\ replay[x] \in Seq(Nat) /\ replay[x] # <<>>
        BY <2>1, Positions
      <4> QED BY <3>1, <4>1
    <3>3. start[x] + Len(got[x]) + Len(replay[x]) < last_seq
      BY <1>0, <2>1, <2>2 DEF Behind
    <3>4. start[x] + (Len(got[x]) + 1) + (Len(replay[x]) - 1) < last_seq
      BY <3>3, Positions
    <3> QED BY <1>0, <2>2, <3>2, <3>4
  <2>3. CASE y # x
    <3>1. got'[y] = got[y] /\ replay'[y] = replay[y]  BY <2>1, <2>3 DEF IInv, TypeOK
    <3> QED BY <1>0, <2>1, <3>1 DEF Behind
  <2> QED BY <2>2, <2>3
<1>2. CASE TakeLive(x)
  <2>1. /\ status' = status /\ replay' = replay /\ ~overrun[x]
        /\ got' = [got EXCEPT ![x] = Append(got[x], Head(live[x]))]
    BY <1>2 DEF TakeLive
  <2>2. y # x  BY <1>0, <2>1
  <2>3. got'[y] = got[y]  BY <2>1, <2>2 DEF IInv, TypeOK
  <2> QED BY <1>0, <2>1, <2>3 DEF Behind
<1>3. CASE Lag(x) \/ End(x)
  <2>1. got' = got /\ replay' = replay  BY <1>3 DEF Lag, End
  <2>2. status'[y] = "on" => status[y] = "on"  BY <1>3 DEF Lag, End, IInv, TypeOK
  <2> QED BY <1>0, <2>1, <2>2 DEF Behind
<1> QED BY <1>1, <1>2, <1>3

(* A receiver whose next recv returns Lagged has missed a chunk, always.   *)
THEOREM LaggedIsBehind == Spec => []Behind
<1>1. Init => Behind  BY DEF Init, Behind
<1>2. ASSUME IInv, Behind, [Next]_vars PROVE Behind'
  <2>1. CASE UNCHANGED vars  BY <1>2, <2>1 DEF Behind, vars
  <2>2. ASSUME NEW size \in Sizes, Publish(size) PROVE Behind'
    BY <1>2, <2>2, PublishBehind
  <2>3. CASE Close  BY <1>2, <2>3 DEF Behind, Close, subscription
  <2>4. ASSUME NEW x \in Subscribers, NEW s \in 0..last_seq \cup {LiveOnly}, Subscribe(x, s)
        PROVE  Behind'
    BY <1>2, <2>4, SubscribeBehind
  <2>5. ASSUME NEW x \in Subscribers, TakeReplay(x) \/ TakeLive(x) \/ Lag(x) \/ End(x)
        PROVE  Behind'
    BY <1>2, <2>5, ConsumeBehind
  <2> QED BY <1>2, <2>1, <2>2, <2>3, <2>4, <2>5 DEF Next
<1> QED BY <1>1, <1>2, OutputBusInvariant, PTL DEF Spec

-----------------------------------------------------------------------------
(* Each action of the bus is the action of the stream that it looks like.  *)
LEMMA PublishWrites ==
    ASSUME NEW size \in Sizes, Publish(size) PROVE Stream!Write
  BY DEF Publish, Stream!Write

(* Dropping the sender is the end of the log.                              *)
LEMMA CloseFinishes == ASSUME Close PROVE Stream!Finish
  BY DEF Close, subscription, Stream!Finish

(* The replay begins where the reader asked, or replay_truncated is TRUE.  *)
LEMMA SubscribeOpens ==
    ASSUME IInv, NEW x \in Subscribers, NEW s \in 0..last_seq \cup {LiveOnly}, Subscribe(x, s)
    PROVE  Stream!Open(x, s)
<1> DEFINE t == s # LiveOnly /\ Truncated(s)
           f == IF s = LiveOnly THEN last_seq
                ELSE IF Truncated(s) THEN ring[1].seq - 1 ELSE s
<1>1. /\ truncated' = [truncated EXCEPT ![x] = t]
      /\ start' = [start EXCEPT ![x] = f]
  BY DEF Subscribe
<1>2. t \in BOOLEAN  BY Zenon
<1>3. f \in 0..last_seq /\ (IF s = LiveOnly THEN ~t /\ f = last_seq ELSE IF t THEN f > s ELSE f = s)
  <2>1. CASE s = LiveOnly  BY <2>1, Positions
  <2>2. CASE s # LiveOnly
    <3>1. s \in 0..last_seq  BY <2>2
    <3>2. Truncated(s) =>
             /\ ring[1].seq - 1 \in Nat /\ ring[1].seq - 1 > s
             /\ ring[1].seq - 1 + Len(ReplaySince(s)) = last_seq
             /\ Len(ReplaySince(s)) \in Nat
      BY <3>1, ReplayIsRun DEF IInv
    <3> QED BY <2>2, <3>1, <3>2, Positions
  <2> QED BY <2>1, <2>2
<1>4. \E u \in BOOLEAN, g \in 0..last_seq :
          /\ IF s = LiveOnly THEN ~u /\ g = last_seq ELSE IF u THEN g > s ELSE g = s
          /\ truncated' = [truncated EXCEPT ![x] = u]
          /\ start' = [start EXCEPT ![x] = g]
  <2> HIDE DEF t, f
  <2> QED BY <1>1, <1>2, <1>3
<1> QED BY <1>4 DEF Subscribe, bus, Stream!Open

(* What comes off the replay or the receiver is the next chunk.            *)
LEMMA TakeReplayReads ==
    ASSUME IInv, Behind, NEW x \in Subscribers, TakeReplay(x) PROVE Stream!Read(x)
<1>1. /\ status[x] = "on" /\ Len(replay[x]) > 0
      /\ Head(replay[x]) = replay[x][1]
  BY Positions DEF TakeReplay
<1>2. Head(replay[x]) = start[x] + Len(got[x]) + 1
  BY <1>1, Positions DEF IInv, Queued
<1>3. start[x] + Len(got[x]) < last_seq
  <2>1. CASE overrun[x]  BY <1>1, <2>1, Positions DEF Behind
  <2>2. CASE ~overrun[x]
    <3>1. start[x] + Len(got[x]) + Len(replay[x]) + Len(live[x]) = last_seq
      BY <1>1, <2>2 DEF IInv, Queued
    <3>2. start[x] \in Nat /\ Len(got[x]) \in Nat /\ Len(replay[x]) \in Nat
          /\ Len(live[x]) \in Nat /\ last_seq \in Nat
      BY Positions
    <3> QED BY <1>1, <3>1, <3>2
  <2> QED BY <2>1, <2>2
<1> QED BY <1>1, <1>2, <1>3 DEF TakeReplay, bus, Stream!Read, Stream!At

(* The receiver's first chunk follows the replay's last one.               *)
LEMMA TakeLiveReads ==
    ASSUME IInv, NEW x \in Subscribers, TakeLive(x) PROVE Stream!Read(x)
<1>1. /\ status[x] = "on" /\ ~overrun[x] /\ Len(replay[x]) = 0 /\ Len(live[x]) > 0
      /\ Head(live[x]) = live[x][1]
  BY Positions DEF TakeLive
<1>2. /\ live[x][1] = start[x] + Len(got[x]) + Len(replay[x]) + 1
      /\ start[x] + Len(got[x]) + Len(replay[x]) + Len(live[x]) = last_seq
  BY <1>1, Positions DEF IInv, Queued
<1>3. Head(live[x]) = start[x] + Len(got[x]) + 1 /\ start[x] + Len(got[x]) < last_seq
  BY <1>1, <1>2, Positions
<1> QED BY <1>1, <1>3 DEF TakeLive, bus, Stream!Read, Stream!At

(* Lagged is reported only to a subscriber that has chunks to fetch.       *)
LEMMA LagLags ==
    ASSUME IInv, Behind, NEW x \in Subscribers, Lag(x) PROVE Stream!Lag(x)
<1>1. status[x] = "on" /\ overrun[x] /\ Len(replay[x]) = 0  BY Positions DEF Lag
<1>2. start[x] + Len(got[x]) < last_seq  BY <1>1, Positions DEF Behind
<1> QED BY <1>1, <1>2 DEF Lag, bus, Stream!Lag, Stream!At

(* Closed is reported only to a subscriber that has everything.            *)
LEMMA EndEnds ==
    ASSUME IInv, NEW x \in Subscribers, End(x) PROVE Stream!End(x)
<1>1. status[x] = "on" /\ ~overrun[x] /\ Len(replay[x]) = 0 /\ Len(live[x]) = 0
  BY Positions DEF End
<1>2. start[x] + Len(got[x]) = last_seq
  BY <1>1, Positions DEF IInv, Queued
<1> QED BY <1>1, <1>2 DEF End, bus, Stream!End, Stream!At

(* The bus is a stream: every behaviour of it, for all capacities, is one  *)
(* in which readers get the next chunk, the end after everything, or are   *)
(* told.                                                                   *)
THEOREM BusImplementsStream == Spec => ImplementsStream
<1>1. Init => Stream!Init  BY DEF Init, Stream!Init
<1>2. ASSUME IInv, Behind, [Next]_vars PROVE [Stream!Next]_(Stream!vars)
  <2>1. CASE UNCHANGED vars  BY <2>1 DEF vars, Stream!vars
  <2>2. ASSUME NEW size \in Sizes, Publish(size) PROVE Stream!Next
    BY <2>2, PublishWrites DEF Stream!Next
  <2>3. CASE Close  BY <2>3, CloseFinishes DEF Stream!Next
  <2>4. ASSUME NEW x \in Subscribers, NEW s \in 0..last_seq \cup {LiveOnly}, Subscribe(x, s)
        PROVE  Stream!Next
    BY <1>2, <2>4, SubscribeOpens DEF Stream!Next
  <2>5. ASSUME NEW x \in Subscribers, TakeReplay(x) \/ TakeLive(x) \/ Lag(x) \/ End(x)
        PROVE  Stream!Next
    BY <1>2, <2>5, TakeReplayReads, TakeLiveReads, LagLags, EndEnds DEF Stream!Next
  <2> QED BY <1>2, <2>1, <2>2, <2>3, <2>4, <2>5 DEF Next
<1> QED BY <1>1, <1>2, OutputBusInvariant, LaggedIsBehind, PTL DEF Spec, ImplementsStream, Stream!Spec
=============================================================================
