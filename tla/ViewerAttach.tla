---------------------------- MODULE ViewerAttach ----------------------------
(***************************************************************************)
(* The attach of one browser viewer: the handshake, the settling of the    *)
(* geometry, the prefill, the input gate and the ordered resizes, between  *)
(* public/pty-socket-client.ts (with public/ordered-resize.ts) and         *)
(* src/server/websocket.ts, over one WebSocket that keeps order.           *)
(*                                                                         *)
(* A geometry is a member of Sizes.  Waits for layout and for quiet output *)
(* end at any time, which is why layout_stable, a hint that ends them      *)
(* early, is left out.  A close by either side ends the connection at      *)
(* once.                                                                   *)
(***************************************************************************)
EXTENDS Naturals, Sequences, SequencesExt

CONSTANTS
    Sizes,          \* geometries
    Scenes,         \* the situations a behaviour may start in: the prefill mode asked
                    \* for (none, viewport, full), whether the session is taken and
                    \* known to the server, the broker's and the page's size, and
                    \* bounds on layout changes, input and output frames
    None            \* no size, no request

VARIABLES
    pg,             \* the page: PtySocketClient
    sv,             \* the server: the closure of setupNewPtyEntry
    wd, wu,         \* the socket, down to the page and up to the server
    be,             \* the backend: its size and the resize calls under way
    hist            \* what was typed, written, put out and shown

vars == <<pg, sv, wd, wu, be, hist>>

Req(id, size) == [id |-> id, size |-> size]     \* id 0: not ordered
Msg(t) == [t |-> t]
Sized(t, id, size) == [t |-> t, id |-> id, size |-> size]
Bytes(n) == [t |-> "bin", n |-> n]

NewPage(size) ==
    [open |-> TRUE, want |-> size, local |-> size, hasAttached |-> FALSE, usesProposed |-> FALSE,
     awaitAck |-> FALSE, ackTimer |-> FALSE, ordered |-> FALSE, barrier |-> FALSE, deferred |-> <<>>,
     awaitPrefill |-> FALSE, lastSent |-> None, pend |-> None, nextId |-> 0, prop |-> None,
     debounce |-> FALSE, paint |-> 0, conflict |-> FALSE]

NewEntry(mode, taken, known) ==
    [mode |-> mode, taken |-> taken, dims |-> None, known |-> known, refreshed |-> FALSE,
     pc |-> "idle", spawning |-> FALSE, finalizing |-> FALSE, request |-> None, current |-> None,
     sentFinal |-> FALSE, ackPending |-> None, requested |-> None, applied |-> None,
     hasApplied |-> FALSE, attached |-> FALSE, gate |-> FALSE, pending |-> <<>>, timer |-> None]

(* A page may find the session taken: the server then holds the socket as  *)
(* the pending viewer of the other entry.  The broker's size is whatever   *)
(* the previous viewer left.                                               *)
Init ==
    \E c \in Scenes :
        /\ pg = NewPage(c.size)
        /\ sv = NewEntry(c.mode, c.taken, c.known)
        /\ wd = IF c.taken THEN <<Msg("viewer_conflict")>> ELSE <<>>
        /\ wu = <<>>
        /\ be = [size |-> c.was, calls |-> <<>>]
        /\ hist = [typed |-> 0, written |-> <<>>, made |-> 0, shown |-> <<>>, layouts |-> 0, max |-> c]

-----------------------------------------------------------------------------
(* The page.  Its steps are functions of x = [p, up, shown].               *)

Page == [p |-> pg, up |-> wu, shown |-> hist.shown]
PageBecomes(x) == pg' = x.p /\ wu' = x.up /\ hist' = [hist EXCEPT !.shown = x.shown]

clearQueued(p) == [p EXCEPT !.prop = None, !.debounce = FALSE]

cancelResizeLifecycle(p) ==
    [clearQueued(p) EXCEPT !.paint = 0, !.pend = None, !.ordered = FALSE,
                           !.barrier = FALSE, !.deferred = <<>>]

useProposed(p) == p.ordered \/ (p.usesProposed /\ p.awaitAck)

(* fitTerminal changes the local geometry unless a resize has to be        *)
(* acknowledged first.                                                     *)
fitted(p) == IF useProposed(p) THEN p ELSE [p EXCEPT !.local = p.want]

sendAttachHandshake(x) ==
    LET p == cancelResizeLifecycle(x.p)
        q == [p EXCEPT !.usesProposed = p.hasAttached,
                       !.local = IF p.hasAttached THEN @ ELSE p.want]
    IN  [x EXCEPT !.p = [q EXCEPT !.hasAttached = TRUE, !.lastSent = q.want, !.awaitAck = TRUE,
                                  !.ackTimer = TRUE, !.awaitPrefill = sv.mode # "none"],
                  !.up = Append(@, Sized("attach", 0, q.want))]

(* One ordered request is under way at a time; it raises the barrier.      *)
flushQueuedResize(x) ==
    LET p == x.p
        q == clearQueued(p)
        id == IF p.ordered THEN p.nextId + 1 ELSE 0
    IN  IF p.prop = None THEN x
        ELSE IF ~p.prop.ready \/ p.pend # None THEN x
        ELSE IF ~(p.prop.force \/ p.prop.size # p.lastSent) THEN [x EXCEPT !.p = q]
        ELSE [x EXCEPT !.up = Append(@, Sized("resize", id, p.prop.size)),
                       !.p = [q EXCEPT !.lastSent = p.prop.size,
                                       !.nextId = IF p.ordered THEN id ELSE @,
                                       !.pend = IF p.ordered THEN Req(id, p.prop.size) ELSE @,
                                       !.barrier = @ \/ p.ordered]]

queueResize(x, size, force, immediate) ==
    LET p == x.p
        f == force \/ (p.prop # None /\ p.prop.force)
        ready == immediate \/ (p.prop # None /\ p.prop.ready)
        q == [p EXCEPT !.prop = [size |-> size, force |-> f, ready |-> ready]]
    IN  IF ~f /\ size = p.lastSent THEN [x EXCEPT !.p = clearQueued(p)]
        ELSE IF ready THEN flushQueuedResize([x EXCEPT !.p = q])
        ELSE [x EXCEPT !.p = [q EXCEPT !.debounce = TRUE]]

sendFitResize(x) == LET p == fitted(x.p) IN queueResize([x EXCEPT !.p = p], p.want, FALSE, FALSE)

Open ==
    /\ pg.open /\ ~pg.hasAttached
    /\ PageBecomes(sendAttachHandshake(Page))
    /\ UNCHANGED <<sv, wd, be>>

AttachAckTimer ==
    /\ pg.open /\ pg.ackTimer
    /\ PageBecomes(IF pg.awaitAck
                   THEN sendFitResize([Page EXCEPT !.p.ackTimer = FALSE, !.p.awaitAck = FALSE,
                                                   !.p.lastSent = None])
                   ELSE [Page EXCEPT !.p.ackTimer = FALSE])
    /\ UNCHANGED <<sv, wd, be>>

(* sendLayoutStable, two animation frames after the attach_ack.            *)
AfterPaint ==
    /\ pg.open /\ pg.paint > 0
    /\ LET p == fitted([pg EXCEPT !.paint = @ - 1])
           x == [Page EXCEPT !.p = p]
       IN  PageBecomes(IF p.ordered \/ p.want # p.lastSent
                       THEN queueResize(x, p.want, p.ordered, TRUE) ELSE x)
    /\ UNCHANGED <<sv, wd, be>>

LayoutChanges(size) ==
    /\ pg.open /\ pg.hasAttached /\ hist.layouts < hist.max.layouts /\ size # pg.want
    /\ LET x == sendFitResize([Page EXCEPT !.p.want = size])
       IN  pg' = x.p /\ wu' = x.up /\ hist' = [hist EXCEPT !.layouts = @ + 1]
    /\ UNCHANGED <<sv, wd, be>>

ResizeDebounce ==
    /\ pg.open /\ pg.debounce
    /\ LET p == [pg EXCEPT !.debounce = FALSE]
       IN  PageBecomes(IF p.prop = None THEN [Page EXCEPT !.p = p]
                       ELSE flushQueuedResize([Page EXCEPT !.p = [p EXCEPT !.prop.ready = TRUE]]))
    /\ UNCHANGED <<sv, wd, be>>

TakeControl ==
    /\ pg.open /\ pg.conflict
    /\ PageBecomes([Page EXCEPT !.p.conflict = FALSE, !.up = Append(@, Msg("take_control"))])
    /\ UNCHANGED <<sv, wd, be>>

Type ==
    /\ pg.open /\ pg.hasAttached /\ hist.typed < hist.max.inputs
    /\ wu' = Append(wu, [t |-> "input", n |-> hist.typed + 1])
    /\ hist' = [hist EXCEPT !.typed = @ + 1]
    /\ UNCHANGED <<pg, sv, wd, be>>

(* A frame that no barrier holds back.                                     *)
Show(x, m) ==
    CASE m.t = "bin" -> [x EXCEPT !.shown = Append(@, m.n)]
      [] m.t = "prefill_done" -> [x EXCEPT !.p.awaitPrefill = FALSE]
      [] m.t = "prefill_viewport" -> [x EXCEPT !.p.awaitPrefill = TRUE]
      [] m.t = "pty_ready" -> x

Held(p, m) == p.barrier /\ m.t \in {"bin", "prefill_viewport", "prefill_done", "pty_ready"}

(* Mutant: the acknowledged geometry is committed but the held frames are  *)
(* forgotten.                                                              *)
resizeAckForgets(x, m) ==
    IF ~x.p.ordered \/ x.p.pend = None THEN x
    ELSE IF m.id # x.p.pend.id THEN x
    ELSE flushQueuedResize([x EXCEPT !.p = [x.p EXCEPT !.pend = None, !.lastSent = m.size,
                                                      !.local = m.size, !.barrier = FALSE,
                                                      !.deferred = <<>>]])

(* handleResizeAck with OrderedResizeTracker.acknowledge: only the answer  *)
(* to the request under way counts; held frames are replayed before the    *)
(* next request leaves.                                                    *)
resizeAck(x, m) ==
    LET y == [x EXCEPT !.p = [x.p EXCEPT !.pend = None, !.lastSent = m.size, !.local = m.size,
                                         !.barrier = FALSE, !.deferred = <<>>]]
    IN  IF ~x.p.ordered \/ x.p.pend = None THEN x
        ELSE IF m.id # x.p.pend.id THEN x
        ELSE flushQueuedResize(FoldLeft(Show, y, x.p.deferred))

handleTextFrame(x, m) ==
    CASE m.t = "attach_ack" ->
           [x EXCEPT !.p = [x.p EXCEPT !.ordered = TRUE, !.barrier = TRUE, !.awaitAck = FALSE,
                                       !.ackTimer = FALSE, !.paint = @ + 1]]
      [] m.t = "resize_ack" -> resizeAck(x, m)
      [] m.t = "viewer_conflict" ->
           [x EXCEPT !.p = [x.p EXCEPT !.awaitAck = FALSE, !.ackTimer = FALSE,
                                       !.awaitPrefill = FALSE, !.conflict = TRUE]]
      [] m.t = "control_granted" -> sendAttachHandshake(x)
      [] OTHER -> Show(x, m)

PageReceives ==
    /\ pg.open /\ pg.hasAttached /\ wd # <<>>
    /\ wd' = Tail(wd)
    /\ PageBecomes(IF Held(pg, Head(wd)) THEN [Page EXCEPT !.p.deferred = Append(@, Head(wd))]
                   ELSE handleTextFrame(Page, Head(wd)))
    /\ UNCHANGED <<sv, be>>

-----------------------------------------------------------------------------
(* The server.  Its steps are functions of y = [s, down, calls, written].  *)

Server == [s |-> sv, down |-> wd, calls |-> be.calls, written |-> hist.written]
ServerBecomes(y) ==
    /\ sv' = y.s /\ wd' = y.down
    /\ be' = [be EXCEPT !.calls = y.calls]
    /\ hist' = [hist EXCEPT !.written = y.written]

Send(y, m) == [y EXCEPT !.down = Append(@, m)]

(* backend.resize: the broker takes a connection's requests in order.      *)
Call(y, by, r) == [y EXCEPT !.calls = Append(@, [by |-> by, id |-> r.id, size |-> r.size])]

applyAttachResize(y, size, pc) ==
    Call([y EXCEPT !.s = [y.s EXCEPT !.applied = size, !.pc = pc]], "attach", Req(0, size))

(* After isSessionAlive.  Without a prefill the finalizer owns the         *)
(* geometry before the subscription starts.                                *)
beginAttach(y, size) ==
    CASE y.s.mode = "none" ->
           [y EXCEPT !.s = [y.s EXCEPT !.finalizing = TRUE, !.request = Req(0, y.s.requested),
                                       !.applied = y.s.requested, !.hasApplied = FALSE,
                                       !.attached = TRUE, !.pc = "subscribe"]]
      [] y.s.mode = "viewport" -> [y EXCEPT !.s.pc = "wait"]
      [] y.s.mode = "full" -> applyAttachResize(y, size, "resizing")

attachStreamingBackend(y, size) ==
    LET z == [y EXCEPT !.s.requested = size]
    IN  IF y.s.attached \/ y.s.spawning THEN z
        ELSE IF y.s.known THEN beginAttach([z EXCEPT !.s.spawning = TRUE], size)
        ELSE [z EXCEPT !.s = [z.s EXCEPT !.spawning = TRUE, !.pc = "list", !.applied = size]]

attach(y, size) ==
    LET z == Send([y EXCEPT !.s.requested = size], Msg("attach_ack"))
    IN  IF ~y.s.attached /\ ~y.s.finalizing
        THEN attachStreamingBackend([z EXCEPT !.s.gate = TRUE], size)
        ELSE IF y.s.finalizing THEN z
        ELSE IF y.s.mode = "none" THEN Send(z, Msg("pty_ready"))
        ELSE Send(Send(z, Msg("pty_ready")), Msg("prefill_done"))

resize(y, r) ==
    LET z == [y EXCEPT !.s.requested = r.size]
    IN  IF y.s.finalizing THEN [z EXCEPT !.s.request = r]
        ELSE IF y.s.attached THEN [z EXCEPT !.s.timer = r]
        ELSE attachStreamingBackend([z EXCEPT !.s.ackPending = IF r.id # 0 THEN r ELSE @], r.size)

input(y, n) ==
    IF y.s.gate THEN [y EXCEPT !.s.pending = Append(@, n)] ELSE [y EXCEPT !.written = Append(@, n)]

(* The socket is the pending viewer of another entry: an attach is only    *)
(* noted, and take_control replaces that entry.                            *)
pendingMessage(y, m) ==
    CASE m.t = "attach" -> Send([y EXCEPT !.s.dims = m.size], Msg("attach_ack"))
      [] m.t = "take_control" /\ y.s.dims # None ->
           LET z == [y EXCEPT !.s = [y.s EXCEPT !.taken = FALSE, !.gate = TRUE]]
           IN  Send(attachStreamingBackend(Send(z, Msg("attach_ack")), y.s.dims), Msg("control_granted"))
      [] OTHER -> y

message(y, m) ==
    CASE m.t = "attach" -> attach(y, m.size)
      [] m.t = "resize" -> resize(y, Req(m.id, m.size))
      [] m.t = "input" -> input(y, m.n)
      [] OTHER -> y

(* A binary frame from a pending viewer closes it.                         *)
ServerReceives ==
    /\ pg.open /\ wu # <<>>
    /\ ~(sv.taken /\ Head(wu).t = "input")
    /\ wu' = Tail(wu)
    /\ ServerBecomes(IF sv.taken THEN pendingMessage(Server, Head(wu)) ELSE message(Server, Head(wu)))
    /\ UNCHANGED pg

(* The await of backend.list() ends and the session is known.              *)
Listed ==
    /\ pg.open /\ sv.pc = "list"
    /\ ServerBecomes(beginAttach([Server EXCEPT !.s.refreshed = TRUE], sv.applied))
    /\ UNCHANGED <<pg, wu>>

(* waitForResizeSettle takes the newest request of its last check.         *)
ResizeSettled ==
    /\ pg.open /\ sv.pc = "wait"
    /\ ServerBecomes(applyAttachResize(Server, sv.requested, "resizing"))
    /\ UNCHANGED <<pg, wu>>

(* The quiescence loop applies a changed request, or ends.                 *)
SettleTick ==
    /\ pg.open /\ sv.pc = "settling"
    /\ ServerBecomes(IF sv.requested # sv.applied
                     THEN applyAttachResize(Server, sv.requested, "resizing")
                     ELSE [Server EXCEPT !.s.pc = "unobserve"])
    /\ UNCHANGED <<pg, wu>>

(* Mutant: requests that arrive while the observer detaches are not handed *)
(* to the finalizer.                                                       *)
claimNothing(s) == [s EXCEPT !.finalizing = TRUE, !.request = None, !.pc = "snapshot"]

claimFinalizer(s) ==
    [s EXCEPT !.finalizing = TRUE, !.pc = "snapshot",
              !.request = IF s.ackPending # None THEN s.ackPending
                          ELSE IF s.requested # s.applied THEN Req(0, s.requested) ELSE None]

(* observe.closed resolves.                                                *)
Unobserved ==
    /\ pg.open /\ sv.pc = "unobserve"
    /\ ServerBecomes([Server EXCEPT !.s = claimFinalizer(sv)])
    /\ UNCHANGED <<pg, wu>>

(* beginSessionAttach answers; the prefill and prefill_done are sent, and  *)
(* the lease is activated.                                                 *)
SnapshotTaken ==
    /\ pg.open /\ sv.pc = "snapshot"
    /\ LET y == [Server EXCEPT !.s = [sv EXCEPT !.attached = TRUE, !.hasApplied = TRUE, !.pc = "subscribe"]]
           z == IF sv.mode = "viewport" THEN Send(y, Msg("prefill_viewport")) ELSE y
       IN  ServerBecomes(Send(z, Msg("prefill_done")))
    /\ UNCHANGED <<pg, wu>>

(* pty_ready, then attachLease.cancel() is awaited.                        *)
attachDone(y) ==
    Send([y EXCEPT !.s = [y.s EXCEPT !.finalizing = FALSE, !.pc = "cancel"]], Msg("pty_ready"))

acknowledgeAttachedResize(y) ==
    IF y.s.ackPending = None THEN y
    ELSE IF y.s.ackPending.size # y.s.applied THEN y
    ELSE Send([y EXCEPT !.s.ackPending = None], Sized("resize_ack", y.s.ackPending.id, y.s.ackPending.size))

(* One pass of finalizeAttachResizes: up to the next await, or to the end. *)
acknowledgeFinal(y, r) ==
    LET z == IF r.id # 0 THEN Send([y EXCEPT !.s.sentFinal = TRUE], Sized("resize_ack", r.id, r.size)) ELSE y
    IN  attachDone(IF z.s.sentFinal THEN z ELSE acknowledgeAttachedResize(z))

finalizeAttachResizes(y) ==
    LET r == y.s.request
        z == [y EXCEPT !.s = [y.s EXCEPT !.request = None, !.ackPending = None, !.current = r]]
    IN  IF r = None THEN attachDone(acknowledgeAttachedResize(y))
        ELSE IF ~y.s.hasApplied \/ y.s.applied # r.size THEN applyAttachResize(z, r.size, "finalResize")
        ELSE acknowledgeFinal(z, r)

(* The subscription is live: gated input is written first.                 *)
Subscribed ==
    /\ pg.open /\ sv.pc = "subscribe"
    /\ ServerBecomes(finalizeAttachResizes(
         [Server EXCEPT !.s = [sv EXCEPT !.gate = FALSE, !.pending = <<>>, !.sentFinal = FALSE],
                        !.written = @ \o sv.pending]))
    /\ UNCHANGED <<pg, wu>>

(* The finally block, after attachLease.cancel().                          *)
AttachEnds ==
    /\ pg.open /\ sv.pc = "cancel"
    /\ ServerBecomes([Server EXCEPT !.s = [sv EXCEPT !.pc = "idle", !.spawning = FALSE,
                                                     !.finalizing = FALSE, !.request = None]])
    /\ UNCHANGED <<pg, wu>>

ResizeTimer ==
    /\ pg.open /\ sv.timer # None
    /\ ServerBecomes(Call([Server EXCEPT !.s.timer = None], "timer", sv.timer))
    /\ UNCHANGED <<pg, wu>>

(* The oldest resize call is answered, and what awaits it runs on: the     *)
(* settling loop decides again at once, the finalizer prefers a newer      *)
(* request, a debounced request is acknowledged.                           *)
resized(y, c, quiet) ==
    CASE c.by = "timer" -> IF c.id = 0 THEN y ELSE Send(y, Sized("resize_ack", c.id, c.size))
      [] c.by = "attach" /\ y.s.pc = "resizing" ->
           [y EXCEPT !.s.pc = IF quiet THEN "unobserve" ELSE "settling"]
      [] c.by = "attach" /\ y.s.pc = "finalResize" ->
           LET z == [y EXCEPT !.s.hasApplied = TRUE]
           IN  IF y.s.request # None THEN finalizeAttachResizes(z) ELSE acknowledgeFinal(z, y.s.current)

Resized(quiet) ==
    /\ pg.open /\ be.calls # <<>>
    /\ quiet => sv.pc = "resizing" /\ Head(be.calls).by = "attach"
    /\ LET c == Head(be.calls)
           y == resized([Server EXCEPT !.calls = Tail(@)], c, quiet)
       IN  /\ sv' = y.s /\ wd' = y.down
           /\ be' = [size |-> c.size, calls |-> y.calls]
           /\ hist' = [hist EXCEPT !.written = y.written]
    /\ UNCHANGED <<pg, wu>>

SessionOutput ==
    /\ pg.open /\ sv.attached /\ hist.made < hist.max.outputs
    /\ wd' = Append(wd, Bytes(hist.made + 1))
    /\ hist' = [hist EXCEPT !.made = @ + 1]
    /\ UNCHANGED <<pg, sv, wu, be>>

(* A failed resize, subscription or write, the prefill deadline, an exit,  *)
(* or the page's own close: detach and resetAttachLifecycle.  A later      *)
(* connection is a new page and a new entry.                               *)
ConnectionEnds ==
    /\ pg.open
    /\ pg' = [NewPage(pg.want) EXCEPT !.open = FALSE]
    /\ sv' = NewEntry(sv.mode, FALSE, TRUE)
    /\ wd' = <<>> /\ wu' = <<>>
    /\ be' = [be EXCEPT !.calls = <<>>]
    /\ UNCHANGED hist

Next ==
    \/ Open \/ AttachAckTimer \/ AfterPaint \/ ResizeDebounce \/ TakeControl \/ Type \/ PageReceives
    \/ \E size \in Sizes : LayoutChanges(size)
    \/ ServerReceives \/ Listed \/ ResizeSettled \/ SettleTick \/ Unobserved \/ SnapshotTaken
    \/ Subscribed \/ AttachEnds \/ ResizeTimer \/ SessionOutput \/ ConnectionEnds
    \/ \E quiet \in BOOLEAN : Resized(quiet)

Spec == Init /\ [][Next]_vars

-----------------------------------------------------------------------------
(* Nothing is under way on either side.                                    *)
Quiet ==
    /\ pg.open /\ pg.hasAttached /\ ~sv.taken
    /\ wd = <<>> /\ wu = <<>> /\ be.calls = <<>>
    /\ pg.paint = 0 /\ pg.prop = None /\ ~pg.ackTimer
    /\ sv.timer = None /\ sv.pc = "idle" /\ sv.attached

(* When the page, the server and the broker have nothing left to do, the   *)
(* broker and the page's terminal have the size the page's layout asks     *)
(* for, and no barrier holds output back: no ordered resize went without   *)
(* its acknowledgement.  (Except after a prefill-less attach that had to   *)
(* refresh the session list.)                                              *)
SizesAgree ==
    Quiet /\ ~(sv.mode = "none" /\ sv.refreshed) =>
        be.size = pg.want /\ pg.local = pg.want /\ pg.pend = None /\ ~pg.barrier

(* Input typed after the attach reaches the session in order and once,     *)
(* whether the gate held it back or not; output is shown in order, whether *)
(* the barrier held it back or not.                                        *)
InputAndOutputKept ==
    /\ \A i \in 1..Len(hist.written) : hist.written[i] = i
    /\ \A i \in 1..Len(hist.shown) : hist.shown[i] = i
    /\ Quiet => Len(hist.written) = hist.typed
    /\ Quiet /\ ~pg.barrier => Len(hist.shown) = hist.made
=============================================================================
