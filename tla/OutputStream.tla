---------------------------- MODULE OutputStream ----------------------------
(***************************************************************************)
(* One session's output on its way from the output bus to a browser        *)
(* viewer: the forwarder and the two outgoing queues of the broker         *)
(* connection (broker/src/server.rs), the broker client of the server      *)
(* (src/broker/client.ts), and the attach lease and shared subscription of *)
(* the server's backend (src/server/broker-backend.ts).                    *)
(*                                                                         *)
(* A chunk is its seq, a frame a run of chunks.  The ring keeps the last   *)
(* RingCap chunks (OutputBus shows that replay plus receiver is exact), so *)
(* a subscription is its cursor.  Other sessions share the connection, so  *)
(* the writer's control burst may end at any time: either queue may be     *)
(* served next.                                                            *)
(***************************************************************************)
EXTENDS Naturals, Sequences, SequencesExt

CONSTANTS
    Limits,         \* the limits a behaviour may start with: DEFAULT_BROADCAST_CAPACITY,
                    \* bounds on published chunks, attaches, broken connections and
                    \* request timeouts, and whether other server code observes the
                    \* session's output
    RingCap,        \* DEFAULT_RING_CAPACITY
    FrameMax,       \* OUTPUT_FRAME_COALESCE_MAX_BYTES, in chunks
    PendMax,        \* OUTPUT_FORWARD_BUFFER_MAX_BYTES, in chunks
    OutCap,         \* capacity of the connection's output queue
    BufMax,         \* PENDING_OUTPUT_MAX_BYTES_PER_SESSION, in chunks
    None            \* an absent value

VARIABLES
    seq, closed, exited,    \* session: last seq, bus closed, exit announced
    gone,                   \* the registry has forgotten the session
    up,                     \* the connection is established
    cap, fwd, ctl, out,     \* broker: captured cut, forwarder, both queues
    wire,                   \* frames written and not yet read
    srv,                    \* the server: client, backend and viewer (Server)
    attaches, drops, timeouts, lim

session == <<seq, closed, exited, gone>>
broker == <<cap, fwd, ctl, out, wire>>
bounds == <<attaches, drops, timeouts, lim>>
vars == <<seq, closed, exited, gone, up, cap, fwd, ctl, out, wire, srv,
          attaches, drops, timeouts, lim>>

(* srv.req is the socket to the broker; active, aseq, own, buf and held    *)
(* are the client's activeSubscriptions, activeSubscriptionSeq,            *)
(* snapshotSubscriptionOwners, pendingOutput and pendingExitEvents; cut is *)
(* the snapshot subscribe in flight or its answer, wasActive and hadSeq    *)
(* its group's prior state, stale the answers of timed out ones to come;   *)
(* late and refused are subscribe answers that report a truncated replay   *)
(* or an error, until the code that awaits them runs;                      *)
(* refs is the backend's subscriberRefs; view holds the chunks the viewer  *)
(* was sent after its snapshot at snap, last its lastDeliveredSeq.         *)
(* emitted and reported remember that an exit was raised, or a truncation  *)
(* or failed subscribe,                                                    *)
(* blind that a drop was handled while a cut was being requested.          *)
NoCut == [t |-> "none"]
NewServer ==
    [req |-> <<>>, active |-> FALSE, aseq |-> None, own |-> FALSE, buf |-> <<>>,
     held |-> None, cut |-> NoCut, wasActive |-> FALSE, hadSeq |-> FALSE,
     stale |-> 0, late |-> FALSE, refused |-> FALSE,
     refs |-> {}, subWait |-> FALSE,
     vs |-> "idle", snap |-> 0, last |-> 0, view |-> <<>>,
     emitted |-> FALSE, reported |-> FALSE, blind |-> FALSE]

Chunks(f) == [i \in 1..(f.hi - f.lo + 1) |-> f.lo + i - 1]
Frame(n) == [t |-> "frame", lo |-> n, hi |-> n]
NoForwarder == [st |-> "none", pend |-> <<>>, next |-> 0]
Size(p) == FoldLeft(LAMBDA n, f : n + f.hi - f.lo + 1, 0, p)

-----------------------------------------------------------------------------
(* The session: numbers and publishes chunks, closes the bus, then        *)
(* announces its exit with the final seq to every connection that is up.  *)

Init ==
    /\ seq = 0 /\ closed = FALSE /\ exited = FALSE /\ gone = FALSE
    /\ up = TRUE /\ cap = None /\ fwd = NoForwarder
    /\ ctl = <<>> /\ out = <<>> /\ wire = <<>>
    /\ srv = NewServer
    /\ attaches = 0 /\ drops = 0 /\ timeouts = 0 /\ lim \in Limits

Publish ==
    /\ ~closed /\ seq < lim.seq
    /\ seq' = seq + 1
    /\ UNCHANGED <<closed, exited, gone, up, broker, srv, bounds>>

CloseBus ==
    /\ ~closed
    /\ closed' = TRUE
    /\ UNCHANGED <<seq, exited, gone, up, broker, srv, bounds>>

SessionExits ==
    /\ closed /\ ~exited
    /\ exited' = TRUE
    /\ ctl' = IF up THEN Append(ctl, [t |-> "exit", final |-> seq]) ELSE ctl
    /\ UNCHANGED <<seq, closed, gone, up, cap, fwd, out, wire, srv, bounds>>

(* Its tombstone is reaped (Registry).                                    *)
Forget ==
    /\ exited /\ ~gone
    /\ gone' = TRUE
    /\ UNCHANGED <<seq, closed, exited, up, broker, srv, bounds>>

-----------------------------------------------------------------------------
(* The broker's side of the connection.                                   *)

(* enqueue_output_chunk: merge into the last frame while it has room.     *)
Enqueue(p, n) ==
    IF p # <<>> /\ p[Len(p)].hi + 1 = n /\ n - p[Len(p)].lo < FrameMax
    THEN [p EXCEPT ![Len(p)].hi = n]
    ELSE Append(p, Frame(n))

(* The forwarder's local queue once the replay s+1..n is enqueued.        *)
Replayed(s, n) ==
    LET q[i \in 0..(n - s)] == IF i = 0 THEN <<>> ELSE Enqueue(q[i - 1], s + i)
    IN  q[n - s]

Earliest == IF seq > RingCap THEN seq - RingCap + 1 ELSE 1
Truncated(s) == seq > 0 /\ Earliest > s + 1

(* A subscription since s, held back until its response is written.       *)
Waiting(s) ==
    [st |-> "barrier", next |-> seq + 1,
     pend |-> IF s = None THEN <<>>
              ELSE Replayed(IF Truncated(s) THEN Earliest - 1 ELSE s, seq)]

(* establish_attach_cut, first half: snapshot and subscription under the  *)
(* terminal lock.                                                         *)
CaptureCut ==
    /\ up /\ srv.req # <<>> /\ Head(srv.req).t = "cut" /\ cap = None /\ ~gone
    /\ cap' = [at |-> seq]
    /\ UNCHANGED <<session, up, fwd, ctl, out, wire, srv, bounds>>

(* Second half: replace the previous forwarder and queue the response.    *)
InstallCut ==
    /\ up /\ cap # None
    /\ fwd' = [st |-> "barrier", pend |-> <<>>, next |-> cap.at + 1]
    /\ ctl' = Append(ctl, [t |-> "cut", ok |-> TRUE, at |-> cap.at])
    /\ cap' = None
    /\ srv' = [srv EXCEPT !.req = Tail(@)]
    /\ UNCHANGED <<session, up, out, wire, bounds>>

(* No session, no snapshot permit, or a failed snapshot: nothing changes. *)
RefuseCut ==
    /\ up /\ srv.req # <<>> /\ Head(srv.req).t = "cut"
    /\ ctl' = Append(ctl, [t |-> "cut", ok |-> FALSE, at |-> 0])
    /\ cap' = None
    /\ srv' = [srv EXCEPT !.req = Tail(@)]
    /\ UNCHANGED <<session, up, fwd, out, wire, bounds>>

(* handle_subscribe.                                                      *)
HandleSubscribe ==
    /\ up /\ srv.req # <<>> /\ Head(srv.req).t = "sub" /\ ~gone
    /\ LET s == Head(srv.req).since IN
          /\ fwd' = Waiting(s)
          /\ ctl' = Append(ctl, [t |-> "sub", ok |-> TRUE, by |-> Head(srv.req).by,
                                truncated |-> s # None /\ Truncated(s)])
    /\ srv' = [srv EXCEPT !.req = Tail(@)]
    /\ UNCHANGED <<session, up, cap, out, wire, bounds>>

RefuseSubscribe ==
    /\ up /\ srv.req # <<>> /\ Head(srv.req).t = "sub" /\ gone
    /\ ctl' = Append(ctl, [t |-> "sub", ok |-> FALSE, by |-> Head(srv.req).by,
                          truncated |-> FALSE])
    /\ srv' = [srv EXCEPT !.req = Tail(@)]
    /\ UNCHANGED <<session, up, cap, fwd, out, wire, bounds>>

(* handle_unsubscribe; nobody reads its response.                         *)
HandleUnsubscribe ==
    /\ up /\ srv.req # <<>> /\ Head(srv.req).t = "unsub"
    /\ fwd' = NoForwarder
    /\ srv' = [srv EXCEPT !.req = Tail(@)]
    /\ UNCHANGED <<session, up, cap, ctl, out, wire, bounds>>

(* forward_output: receive from the bus, ...                              *)
Receive ==
    /\ up /\ fwd.st = "on" /\ Size(fwd.pend) < PendMax
    /\ fwd.next <= seq /\ seq - fwd.next < lim.live
    /\ fwd' = [fwd EXCEPT !.pend = Enqueue(@, fwd.next), !.next = @ + 1]
    /\ UNCHANGED <<session, up, cap, ctl, out, wire, srv, bounds>>

(* ... pass a frame to the connection's output queue, ...                 *)
Push ==
    /\ up /\ fwd.st = "on" /\ fwd.pend # <<>> /\ Len(out) < OutCap
    /\ out' = Append(out, Head(fwd.pend))
    /\ fwd' = [fwd EXCEPT !.pend = Tail(@)]
    /\ UNCHANGED <<session, up, cap, ctl, wire, srv, bounds>>

(* ... or, lagged, end with a barrier behind the queued output.           *)
Lag ==
    /\ up /\ fwd.st = "on" /\ Size(fwd.pend) < PendMax
    /\ seq - fwd.next >= lim.live /\ fwd.next <= seq
    /\ Len(out) < OutCap
    /\ out' = Append(out, [t |-> "dropped"])
    /\ fwd' = NoForwarder
    /\ UNCHANGED <<session, up, cap, ctl, wire, srv, bounds>>

(* connection_writer: a written subscription response starts the          *)
(* forwarder that waits for it, the one of the newest such response.      *)
IsStart(m) == m.t \in {"sub", "cut"} /\ m.ok
WriteControl ==
    /\ up /\ ctl # <<>>
    /\ wire' = Append(wire, Head(ctl))
    /\ ctl' = Tail(ctl)
    /\ fwd' = IF /\ fwd.st = "barrier" /\ IsStart(Head(ctl))
                 /\ ~\E i \in 2..Len(ctl) : IsStart(ctl[i])
              THEN [fwd EXCEPT !.st = "on"]
              ELSE fwd
    /\ UNCHANGED <<session, up, cap, out, srv, bounds>>

WriteOutput ==
    /\ up /\ out # <<>>
    /\ wire' = Append(wire, Head(out))
    /\ out' = Tail(out)
    /\ UNCHANGED <<session, up, cap, fwd, ctl, srv, bounds>>

Broker ==
    \/ CaptureCut \/ InstallCut \/ RefuseCut
    \/ HandleSubscribe \/ RefuseSubscribe \/ HandleUnsubscribe
    \/ Receive \/ Push \/ Lag \/ WriteControl \/ WriteOutput

-----------------------------------------------------------------------------
(* The server.  Each operator is a method, as a function of its state.    *)

Send(s, m) == IF up THEN [s EXCEPT !.req = Append(@, m)] ELSE s

clearSubscriptionState(s) ==
    [s EXCEPT !.own = FALSE, !.active = FALSE, !.aseq = None, !.buf = <<>>]

unsubscribe(s) ==
    IF s.active THEN Send(clearSubscriptionState(s), [t |-> "unsub"]) ELSE s

(* The unsubscribe of a registration; the last one detaches the session.  *)
Release(s, who) ==
    LET rest == s.refs \ {who} IN
    IF who \notin s.refs THEN s
    ELSE IF rest = {} THEN unsubscribe([s EXCEPT !.refs = {}])
    ELSE [s EXCEPT !.refs = rest]

(* teardownPty of the viewer's entry.                                     *)
CloseViewer(s, why) == Release([s EXCEPT !.vs = why], "viewer")

(* onReplayTruncated: only a viewer with a lifecycle callback hears it.   *)
handleReplayTruncated(s) ==
    LET t == [s EXCEPT !.reported = TRUE]
    IN  IF s.vs = "on" THEN CloseViewer(t, "failed") ELSE t

(* onEvent, for session_exited.                                           *)
emitEvent(s) ==
    LET t == [s EXCEPT !.emitted = TRUE]
    IN  IF s.vs = "on" THEN CloseViewer(t, "exited") ELSE t

releaseExitIfComplete(s) ==
    LET delivered == IF s.aseq = None THEN 0 ELSE s.aseq IN
    IF s.held # None /\ delivered >= s.held
    THEN emitEvent([s EXCEPT !.held = None])
    ELSE s

(* The viewer's output callback: frames up to lastDeliveredSeq are known. *)
Deliver(s, f) ==
    IF "viewer" \in s.refs /\ f.hi > s.last
    THEN [s EXCEPT !.last = f.hi, !.view = @ \o Chunks(f)]
    ELSE s

(* Output without a subscriber waits for one, up to a limit.              *)
BufferOutput(s, f) ==
    IF Size(Append(s.buf, f)) <= BufMax
    THEN [s EXCEPT !.buf = Append(@, f)]
    ELSE handleReplayTruncated(clearSubscriptionState(s))

OnFrame(s, f) ==
    LET seen == IF s.active /\ (s.aseq = None \/ f.hi > s.aseq)
                THEN [s EXCEPT !.aseq = f.hi] ELSE s
        passed == IF s.refs # {} THEN Deliver(seen, f)
                  ELSE IF s.active THEN BufferOutput(seen, f) ELSE seen
    IN  releaseExitIfComplete(passed)

(* Mutants: a dropped subscription is renewed without a cursor; or not    *)
(* renewed at all.                                                        *)
OnDroppedLive(s) ==
    IF s.active
    THEN Send([s EXCEPT !.blind = @ \/ s.cut # NoCut],
              [t |-> "sub", since |-> None, by |-> "client"])
    ELSE s
OnDroppedIgnored(s) == s

OnDropped(s) ==
    IF s.active
    THEN Send([s EXCEPT !.blind = @ \/ s.cut # NoCut],
              [t |-> "sub", since |-> s.aseq, by |-> "client"])
    ELSE s

(* Mutant: the exit is passed on at once, not held for its final seq.     *)
OnExitNow(s, final) == emitEvent(s)

OnExit(s, final) ==
    IF s.active THEN releaseExitIfComplete([s EXCEPT !.held = final]) ELSE emitEvent(s)

(* Mutant: a late answer is taken for that of the request now in flight.  *)
OnCutAny(s, m) ==
    IF s.cut.t = "sent" THEN [s EXCEPT !.cut = m] ELSE [s EXCEPT !.stale = @ - 1]

(* A response settles its promise; the code that awaits it runs when the  *)
(* frames read together with it have been dispatched (Settled).           *)
OnCut(s, m) ==
    IF s.stale > 0 THEN [s EXCEPT !.stale = @ - 1] ELSE [s EXCEPT !.cut = m]

OnSubscribed(s, m) ==
    [s EXCEPT !.late = @ \/ m.truncated, !.refused = @ \/ ~m.ok,
              !.subWait = @ /\ m.by # "observer"]

Dispatched(s, m) ==
    CASE m.t = "frame" -> OnFrame(s, m)
      [] m.t = "dropped" -> OnDropped(s)
      [] m.t = "exit" -> OnExit(s, m.final)
      [] m.t = "cut" -> OnCut(s, m)
      [] m.t = "sub" -> OnSubscribed(s, m)

(* atomicSnapshotSubscribe after its request was answered.                *)
CutSucceeds(s, at) ==
    [s EXCEPT !.cut = NoCut,
              !.aseq = IF @ # None /\ @ > at THEN @ ELSE at,
              !.vs = "leased", !.snap = at, !.last = at, !.view = <<>>]

CutRefused(s) ==
    LET t == [s EXCEPT !.cut = NoCut, !.vs = "failed"] IN
    IF ~s.own THEN t
    ELSE [t EXCEPT !.own = FALSE,
                   !.active = @ /\ s.wasActive,
                   !.aseq = IF s.hadSeq THEN @ ELSE None]

CutFails(s) ==
    LET t == [s EXCEPT !.cut = NoCut, !.vs = "failed"]
    IN  IF s.own THEN clearSubscriptionState(t) ELSE t

(* A subscribe failed: the client forgets the subscription, and           *)
(* failOutputSubscribers ends every registration and detaches.            *)
SubscribeFails(s) ==
    LET t == [clearSubscriptionState(s) EXCEPT !.refused = FALSE, !.reported = TRUE] IN
    IF s.refs = {} THEN t
    ELSE Send([t EXCEPT !.refs = {}, !.subWait = FALSE,
                        !.vs = IF "viewer" \in s.refs THEN "failed" ELSE @],
              [t |-> "unsub"])

(* The microtasks that the dispatched responses queued.                   *)
SettledLate(s) ==
    IF s.late THEN handleReplayTruncated([s EXCEPT !.late = FALSE]) ELSE s

SettledCut(s) ==
    IF s.cut.t # "cut" THEN s
    ELSE IF s.cut.ok THEN CutSucceeds(s, s.cut.at) ELSE CutRefused(s)

Settled(s) ==
    LET t == SettledCut(SettledLate(s)) IN IF t.refused THEN SubscribeFails(t) ELSE t

(* handleData: the frames of one read are dispatched one by one before    *)
(* any code that awaits a response among them continues.                  *)
Read(n) ==
    /\ up /\ n <= Len(wire)
    /\ srv' = Settled(FoldLeft(Dispatched, srv, SubSeq(wire, 1, n)))
    /\ wire' = SubSeq(wire, n + 1, Len(wire))
    /\ UNCHANGED <<session, up, cap, fwd, ctl, out, bounds>>

ReadSome == \E n \in 1..Len(wire) : Read(n)

(* beginSessionAttach up to its snapshot subscribe request.               *)
Attach ==
    /\ up /\ srv.vs \in {"idle", "failed"} /\ ~srv.emitted
    /\ attaches < lim.attach
    /\ srv' = Send([srv EXCEPT !.vs = "cutting", !.cut = [t |-> "sent"], !.own = TRUE,
                               !.wasActive = srv.active, !.active = TRUE,
                               !.hadSeq = srv.active \/ srv.aseq # None,
                               !.reported = FALSE, !.blind = FALSE],
                   [t |-> "cut"])
    /\ attaches' = attaches + 1
    /\ UNCHANGED <<session, up, broker, drops, timeouts, lim>>

(* The prefill has been sent: the lease's activate adopts the stream,     *)
(* which flushes the buffered output, and the lifecycle callback is set.  *)
Activate ==
    /\ srv.vs = "leased"
    /\ srv' = FoldLeft(Deliver,
                       [srv EXCEPT !.refs = @ \cup {"viewer"}, !.vs = "on", !.buf = <<>>],
                       srv.buf)
    /\ UNCHANGED <<session, up, broker, bounds>>

(* Mutant: a cancelled lease leaves the broker's subscription in place.   *)
CancelLeaseLocal ==
    /\ srv.vs = "leased"
    /\ srv' = clearSubscriptionState([srv EXCEPT !.vs = "idle"])
    /\ UNCHANGED <<session, up, broker, bounds>>

(* The viewer went away before activation: the lease is cancelled.        *)
CancelLease ==
    /\ srv.vs = "leased"
    /\ LET s == [srv EXCEPT !.vs = "idle"]
       IN  srv' = IF s.own THEN Send(clearSubscriptionState(s), [t |-> "unsub"]) ELSE s
    /\ UNCHANGED <<session, up, broker, bounds>>

Detach ==
    /\ srv.vs = "on"
    /\ srv' = CloseViewer(srv, "idle")
    /\ UNCHANGED <<session, up, broker, bounds>>

(* registerOutputSubscriber without since_seq (observed input, wait): the *)
(* first registration subscribes, a later one only attaches its callback. *)
Observe ==
    /\ lim.observers /\ up /\ "observer" \notin srv.refs
    /\ srv' = IF srv.refs # {}
              THEN [srv EXCEPT !.refs = @ \cup {"observer"}]
              ELSE Send([srv EXCEPT !.refs = {"observer"}, !.buf = <<>>, !.own = FALSE,
                                    !.active = TRUE, !.subWait = TRUE],
                        [t |-> "sub", since |-> None, by |-> "observer"])
    /\ UNCHANGED <<session, up, broker, bounds>>

(* The observer is done; it waits for its subscription to be ready first. *)
Unobserve ==
    /\ "observer" \in srv.refs /\ ~srv.subWait
    /\ srv' = Release(srv, "observer")
    /\ UNCHANGED <<session, up, broker, bounds>>

(* The snapshot subscribe request times out; its answer may still come.   *)
CutTimesOut ==
    /\ srv.cut.t = "sent" /\ timeouts < lim.timeout
    /\ srv' = CutFails([srv EXCEPT !.stale = @ + 1])
    /\ timeouts' = timeouts + 1
    /\ UNCHANGED <<session, up, broker, attaches, drops, lim>>

(* The connection breaks: everything under way on it is lost, and the     *)
(* requests in flight are rejected (handleClose, failPending).            *)
Disconnect ==
    /\ up /\ drops < lim.drop
    /\ up' = FALSE /\ drops' = drops + 1
    /\ cap' = None /\ fwd' = NoForwarder /\ ctl' = <<>> /\ out' = <<>> /\ wire' = <<>>
    /\ LET s == IF srv.cut.t = "sent" THEN CutFails(srv) ELSE srv
           t == IF s.subWait THEN SubscribeFails(s) ELSE s
       IN  srv' = [t EXCEPT !.req = <<>>, !.stale = 0]
    /\ UNCHANGED <<session, attaches, timeouts, lim>>

(* handleConnect: every active session is resubscribed from its cursor.   *)
Reconnect ==
    /\ ~up
    /\ up' = TRUE
    /\ srv' = IF srv.active
              THEN [srv EXCEPT !.req = <<[t |-> "sub", since |-> srv.aseq,
                                          by |-> "client"]>>]
              ELSE srv
    /\ UNCHANGED <<session, broker, bounds>>

(* The broker stayed away past the grace period.                          *)
BrokerUnavailable ==
    /\ ~up /\ srv.vs = "on"
    /\ srv' = CloseViewer(srv, "failed")
    /\ UNCHANGED <<session, up, broker, bounds>>

Next ==
    \/ Publish \/ CloseBus \/ SessionExits \/ Forget
    \/ Broker
    \/ ReadSome
    \/ Attach \/ Activate \/ CancelLease \/ Detach \/ Observe \/ Unobserve
    \/ CutTimesOut \/ Disconnect \/ Reconnect \/ BrokerUnavailable

Spec == Init /\ [][Next]_vars

(* The tasks of both processes keep running and the connection is retried *)
(* until it is up; sessions and browsers may do nothing for ever.         *)
FairSpec ==
    /\ Spec
    /\ WF_vars(CaptureCut \/ InstallCut) /\ WF_vars(HandleSubscribe \/ RefuseSubscribe)
    /\ WF_vars(HandleUnsubscribe)
    /\ WF_vars(Receive \/ Lag) /\ SF_vars(Push)
    /\ WF_vars(WriteControl) /\ SF_vars(WriteOutput)
    /\ WF_vars(ReadSome) /\ WF_vars(Activate) /\ WF_vars(Reconnect)

-----------------------------------------------------------------------------
Contiguous(s) == \A i \in 1..Len(s.view) : s.view[i] = s.snap + i

(* "no output can be duplicated or lost": what a viewer is sent after its *)
(* snapshot is the unbroken run of later chunks, across coalescing, lag,  *)
(* reconnects and reattaching, unless a truncation was reported, the      *)
(* subscription was dropped before the client knew its snapshot's seq, or *)
(* a snapshot subscribe timed out and left its forwarder behind.          *)
ViewExact ==
    srv.vs \in {"on", "exited"} /\ ~srv.reported /\ ~srv.blind /\ timeouts = 0 =>
        Contiguous(srv)

(* After a timeout, too, a viewer that is alone misses nothing: the       *)
(* forwarder left behind and the late answer may repeat chunks, never     *)
(* skip one.                                                              *)
NothingLost ==
    ~lim.observers /\ srv.vs \in {"on", "exited"} /\ ~srv.reported /\ ~srv.blind =>
        (srv.snap + 1)..srv.last \subseteq ToSet(srv.view)

(* A viewer that is alone is told of the exit only when it has all output *)
(* up to the final seq, although the event overtakes queued output.       *)
ExitAfterOutput ==
    ~lim.observers /\ srv.vs = "exited" /\ ~srv.reported /\ ~srv.blind => srv.last = seq

(* Once nothing is under way, a session that nobody subscribes to has no  *)
(* forwarder left on the connection, unless a snapshot subscribe timed    *)
(* out.                                                                   *)
NoOrphanForwarder ==
    /\ timeouts = 0 /\ up /\ srv.req = <<>> /\ srv.cut = NoCut /\ ctl = <<>> /\ wire = <<>>
    /\ ~srv.active
    => fwd.st = "none"

(* An attached viewer eventually has all output, or is closed.            *)
CatchesUp ==
    []<>(\/ srv.vs # "on" \/ srv.snap + Len(srv.view) = seq
         \/ srv.reported \/ srv.blind)

-----------------------------------------------------------------------------
(* "Close the viewer with 4001 so the client distinguishes a remote-side  *)
(* session death": a viewer does not stay attached once its session's     *)
(* exit was raised.                                                       *)
AttachedHearsExit == srv.vs = "on" => ~srv.emitted

(* "That ordering barrier makes replay from the client's last delivered   *)
(* seq safe": a dropped subscription is resumed without losing a chunk.   *)
DropIsResumed == srv.vs = "on" /\ ~srv.reported => Contiguous(srv)
=============================================================================
