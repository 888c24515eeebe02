----------------------------- MODULE ViewerFlow -----------------------------
(***************************************************************************)
(* Terminal output between the server and one browser viewer: coalescing,  *)
(* the credit window, the exit drain (src/server/websocket.ts,             *)
(* src/output-coalescing.ts) and the browser's cumulative acknowledgements *)
(* (public/pty-socket-client.ts), over one WebSocket, which keeps order    *)
(* and loses nothing while it is open.                                     *)
(*                                                                         *)
(* A byte is its position in the stream; the prefill of the attach is its  *)
(* first bytes.  Whether output was idle for COALESCE_IDLE_MS is a choice, *)
(* and a timer fires at any time after it was armed.                       *)
(***************************************************************************)
EXTENDS Naturals, Sequences, SequencesExt

CONSTANTS
    Window,         \* VIEWER_WINDOW_BYTES
    MaxPending,     \* MAX_VIEWER_PENDING_BYTES
    CoalesceMax,    \* COALESCE_MAX_BYTES
    SmallChunk,     \* COALESCE_SMALL_CHUNK_BYTES
    AckEvery,       \* ACK_EVERY_BYTES
    RetryMax,       \* ACK_RETRY_MAX_ATTEMPTS
    ChunkMax,       \* bound on the bytes of one broker frame
    ByteMax         \* bound on the bytes of the session

VARIABLES
    made,       \* bytes the session has put out, those in the prefill included
    entry,      \* the server's PtyEntry: alive, exitDraining, why it ended
    pump,       \* subscribeWithCoalescing: pending bytes, timer; outputFlow
    down, up,   \* the two directions of the socket
    page        \* the browser

vars == <<made, entry, pump, down, up, page>>

Run(a, z) == [i \in 1..(z + 1 - a) |-> a + i - 1]
Take(s, n) == SubSeq(s, 1, n)
Drop(s, n) == SubSeq(s, n + 1, Len(s))

(* The prefill is sent, and counted, before the subscription starts.  A    *)
(* browser that does not offer output-ack has no window.                   *)
Init ==
    \E enabled \in BOOLEAN, prefill \in 0..1 :
        /\ made = prefill
        /\ entry = [alive |-> TRUE, draining |-> FALSE, end |-> "none"]
        /\ pump = [enabled |-> enabled, sent |-> IF enabled THEN prefill ELSE 0, acked |-> 0,
                   buf |-> <<>>, timer |-> FALSE]
        /\ down = IF prefill = 0 THEN <<>> ELSE <<Run(1, prefill)>>
        /\ up = <<>>
        /\ page = [open |-> TRUE, got |-> <<>>, acked |-> 0, timer |-> FALSE,
                   retry |-> FALSE, retries |-> 0]

-----------------------------------------------------------------------------
(* The server.  Its steps are functions of s = [entry, pump, down].        *)

Server == [entry |-> entry, pump |-> pump, down |-> down]
Become(s) == entry' = s.entry /\ pump' = s.pump /\ down' = s.down

Close == <<>>   \* the close frame, behind everything sent

availableBytes(p) == IF p.enabled THEN Window - (p.sent - p.acked) ELSE ByteMax

(* teardownPty and finishExit end the entry, close the viewer and drop     *)
(* what is pending (cancelOutput).                                         *)
End(s, why) ==
    [s EXCEPT !.entry.alive = FALSE, !.entry.end = why, !.down = Append(@, Close),
              !.pump.buf = <<>>, !.pump.timer = FALSE]

bufferOutput(s, b) ==
    IF Len(s.pump.buf) + Len(b) > MaxPending THEN End(s, "slow")
    ELSE [s EXCEPT !.pump.buf = @ \o b]

(* Frames of at most CoalesceMax bytes.                                    *)
Frames(b) ==
    [i \in 1..((Len(b) + CoalesceMax - 1) \div CoalesceMax) |->
        SubSeq(b, (i - 1) * CoalesceMax + 1, IF i * CoalesceMax < Len(b) THEN i * CoalesceMax ELSE Len(b))]

(* As much as the credit allows is sent, the rest is pending again.        *)
sendOutputBuffer(s, b) ==
    LET n == IF availableBytes(s.pump) < Len(b) THEN availableBytes(s.pump) ELSE Len(b)
        t == [s EXCEPT !.down = @ \o Frames(Take(b, n)),
                       !.pump.sent = IF s.pump.enabled THEN @ + n ELSE @]
    IN  IF n < Len(b) THEN bufferOutput(t, Drop(b, n)) ELSE t

flushCoalesce(s) ==
    LET t == [s EXCEPT !.pump.timer = FALSE]
        u == sendOutputBuffer([t EXCEPT !.pump.buf = <<>>], t.pump.buf)
    IN  IF s.pump.buf = <<>> THEN t
        ELSE IF u.entry.alive /\ u.entry.draining /\ u.pump.buf = <<>> THEN End(u, "exit")
        ELSE u

decideOutputCoalescing(p, n, idle) ==
    CASE p.enabled /\ availableBytes(p) = 0 -> "buffer_until_ack"
      [] p.enabled /\ availableBytes(p) # 0 /\ Len(p.buf) + n > availableBytes(p) -> "flush_then_send"
      [] OTHER -> IF n >= CoalesceMax THEN "flush_then_send"
                  ELSE IF Len(p.buf) + n >= CoalesceMax THEN "flush_then_buffer"
                  ELSE IF p.buf = <<>> /\ n <= SmallChunk /\ idle THEN "send_now"
                  ELSE "buffer"

handleOutput(s, b, idle) ==
    LET d == decideOutputCoalescing(s.pump, Len(b), idle)
        t == IF d \in {"flush_then_buffer", "flush_then_send"} THEN flushCoalesce(s) ELSE s
        u == bufferOutput(t, b)
    IN  IF ~t.entry.alive THEN t
        ELSE IF d \in {"send_now", "flush_then_send"}
             THEN IF t.pump.buf # <<>> THEN u ELSE sendOutputBuffer(t, b)
        ELSE IF u.entry.alive /\ d # "buffer_until_ack" THEN [u EXCEPT !.pump.timer = TRUE] ELSE u

SessionOutput(n, idle) ==
    /\ entry.alive /\ ~entry.draining /\ page.open
    /\ made + n <= ByteMax
    /\ made' = made + n
    /\ Become(handleOutput(Server, Run(made + 1, made + n), idle))
    /\ UNCHANGED <<up, page>>

CoalesceTimer ==
    /\ pump.timer
    /\ Become(flushCoalesce(Server))
    /\ UNCHANGED <<made, up, page>>

(* Mutant: pending output waits for the next timer even if the window was  *)
(* full.                                                                   *)
ackNeverFlushes(s, n) ==
    IF ~s.entry.alive \/ ~s.pump.enabled \/ n <= s.pump.acked \/ n > s.pump.sent THEN s
    ELSE [s EXCEPT !.pump.acked = n]

(* The ack message: counts only if it adds credit; reopening a full window *)
(* sends what is pending.                                                  *)
ack(s, n) ==
    IF ~s.entry.alive \/ ~s.pump.enabled \/ n <= s.pump.acked \/ n > s.pump.sent THEN s
    ELSE LET t == [s EXCEPT !.pump.acked = n]
         IN  IF s.pump.sent - s.pump.acked = Window THEN flushCoalesce(t) ELSE t

ReceiveAck ==
    /\ up # <<>>
    /\ up' = Tail(up)
    /\ Become(ack(Server, Head(up)))
    /\ UNCHANGED <<made, page>>

(* Mutant: the viewer is closed at once.                                   *)
exitedAtOnce(s) == End([s EXCEPT !.entry.draining = TRUE], "exit")

(* The lifecycle event: the source stops, pending output is still sent.    *)
exited(s) ==
    LET t == [s EXCEPT !.entry.draining = TRUE]
    IN  IF t.pump.buf = <<>> THEN End(t, "exit") ELSE flushCoalesce(t)

SessionExits ==
    /\ entry.alive /\ ~entry.draining
    /\ Become(exited(Server))
    /\ UNCHANGED <<made, up, page>>

(* EXIT_DRAIN_TIMEOUT_MS after the exit the rest is given up.              *)
ExitDrainTimer ==
    /\ entry.alive /\ entry.draining
    /\ Become(End(Server, "drain timeout"))
    /\ UNCHANGED <<made, up, page>>

-----------------------------------------------------------------------------
(* The browser.                                                            *)

Acks == [p |-> page, up |-> up]

(* Received bytes may all be unacknowledged at the server, whatever was    *)
(* sent: a nearly full window is acknowledged again after a while.         *)
sendOutputAck(x, retry) ==
    LET p == [x.p EXCEPT !.timer = FALSE, !.retry = IF retry THEN FALSE ELSE @]
        received == Len(p.got)
        unacked == IF received < Window THEN received ELSE Window
        q == [p EXCEPT !.acked = received, !.retries = IF retry THEN @ + 1 ELSE @]
        again == unacked >= Window - AckEvery /\ q.retries < RetryMax
    IN  IF ~retry /\ received = p.acked THEN [x EXCEPT !.p = p]
        ELSE [p  |-> [q EXCEPT !.retry = @ \/ again], up |-> Append(x.up, received)]

receiveOutputBytes(x, b) ==
    LET p == [x.p EXCEPT !.got = @ \o b, !.retry = FALSE, !.retries = 0]
    IN  IF Len(p.got) - p.acked >= AckEvery THEN sendOutputAck([x EXCEPT !.p = p], FALSE)
        ELSE [x EXCEPT !.p = [p EXCEPT !.timer = TRUE]]

Acked(x) == page' = x.p /\ up' = x.up

ReceiveOutput ==
    /\ page.open /\ down # <<>> /\ Head(down) # Close
    /\ down' = Tail(down)
    /\ IF pump.enabled THEN Acked(receiveOutputBytes(Acks, Head(down)))
       ELSE page' = [page EXCEPT !.got = @ \o Head(down)] /\ UNCHANGED up
    /\ UNCHANGED <<made, entry, pump>>

AckTimer ==
    /\ page.open /\ page.timer
    /\ Acked(sendOutputAck(Acks, FALSE))
    /\ UNCHANGED <<made, entry, pump, down>>

AckRetryTimer ==
    /\ page.open /\ page.retry
    /\ Acked(sendOutputAck(Acks, TRUE))
    /\ UNCHANGED <<made, entry, pump, down>>

(* The page's half of a close: resetOutputAck, onDisconnected.             *)
ReceiveClose ==
    /\ page.open /\ down # <<>> /\ Head(down) = Close
    /\ page' = [page EXCEPT !.open = FALSE, !.timer = FALSE, !.retry = FALSE]
    /\ up' = <<>>
    /\ UNCHANGED <<made, entry, pump, down>>

(* The page goes away or the connection breaks: detach.                    *)
Detach ==
    /\ page.open
    /\ page' = [page EXCEPT !.open = FALSE, !.timer = FALSE, !.retry = FALSE]
    /\ up' = <<>> /\ down' = <<>>
    /\ entry' = [entry EXCEPT !.alive = FALSE, !.end = IF @ = "none" THEN "detached" ELSE @]
    /\ pump' = [pump EXCEPT !.buf = <<>>, !.timer = FALSE]
    /\ UNCHANGED made

Next ==
    \/ \E n \in 1..ChunkMax, idle \in BOOLEAN : SessionOutput(n, idle)
    \/ CoalesceTimer \/ ReceiveAck \/ SessionExits \/ ExitDrainTimer
    \/ ReceiveOutput \/ AckTimer \/ AckRetryTimer \/ ReceiveClose \/ Detach

Spec == Init /\ [][Next]_vars

(* Timers fire and an open socket delivers; nothing makes a session put    *)
(* out more, exit, or a page leave.                                        *)
FairSpec ==
    /\ Spec
    /\ WF_vars(CoalesceTimer) /\ WF_vars(ReceiveAck) /\ WF_vars(ReceiveOutput)
    /\ WF_vars(AckTimer) /\ WF_vars(ExitDrainTimer) /\ WF_vars(ReceiveClose)

-----------------------------------------------------------------------------
InFlight == FoldLeft(LAMBDA b, f : b \o f, <<>>, down)

(* The viewer gets the session's bytes in order and without a gap: what it *)
(* has, what is on the wire and what is pending make up everything put     *)
(* out, and after an exit that was drained in time nothing is missing.     *)
OutputExact ==
    /\ entry.alive => page.got \o InFlight \o pump.buf = Run(1, made)
    /\ entry.end = "exit" /\ page.open => page.got \o InFlight = Run(1, made)
    /\ page.got = Run(1, Len(page.got))

(* Output never stalls: a byte put out reaches the viewer, unless its      *)
(* connection ends, and a drain after the exit ends.                       *)
FlowResumes ==
    []<>(~page.open \/ (Len(page.got) = made /\ ~entry.draining))
=============================================================================
