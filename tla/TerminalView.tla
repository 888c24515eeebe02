---------------------------- MODULE TerminalView ----------------------------
(***************************************************************************)
(* The terminal of the page's single view: its canvas, its socket client   *)
(* and its place in the pool of recently used terminals                    *)
(* (public/pty-terminal-controller, terminal-hydration, terminal-pool,     *)
(* terminal-resize-lifecycle, reconnector and pty-socket-client,           *)
(* src/terminal-connection-lifecycle, and the handlers of public/app).     *)
(* Every attach streams a prefill that repaints the whole screen; the page *)
(* hides the canvas while it does ("hydration") and reveals it in an       *)
(* animation frame, once the prefill is complete and the terminal has      *)
(* flushed it.  A terminal that the user switches away from is parked:     *)
(* out of the document, its socket still open.                             *)
(*                                                                         *)
(* Writes flush together, in the next frame (ghostty-web calls back from   *)
(* requestAnimationFrame), so the count of unflushed writes is abstracted  *)
(* to whether there are any.  Nothing counts here: connections, conflicts, *)
(* resizes and switches of session come as often as they like.             *)
(***************************************************************************)
EXTENDS Naturals, Sequences

VARIABLE view

(* The terminal as initTerminal leaves it: Ghostty still loads, the socket *)
(* already connects (mountAndConnectTerminal), the canvas is hidden.       *)
Fresh ==
    [mounted |-> FALSE,
     \* the pool entry; asked is the timer of scheduleTakeControlFallback
     place |-> "shown", load |-> "loading", overlay |-> FALSE, asked |-> FALSE,
     displaced |-> FALSE, auto |-> FALSE,
     \* TerminalResizeLifecycle: its timer, and what is left for resume()
     rehydrate |-> FALSE, deferred |-> FALSE,
     \* PtySocketClient and its Reconnector
     sock |-> "connecting", take |-> FALSE, hasConnected |-> FALSE, hasAttached |-> FALSE,
     retry |-> FALSE, blocked |-> FALSE, awaiting |-> FALSE, wire |-> <<>>,
     \* TerminalConnectionLifecycle, and the writes without a callback yet
     replacement |-> FALSE, unflushed |-> FALSE, inflight |-> FALSE,
     \* InitialHydrationController: age is the time since start(), in steps
     \* of minPendingMs and maxPendingMs; recent, a write within silenceMs
     started |-> FALSE, complete |-> FALSE, pending |-> FALSE,
     fallback |-> FALSE, settle |-> FALSE, age |-> 0, recent |-> FALSE,
     \* the canvas: revealed, to be revealed, and written by this attach
     visible |-> FALSE, reveal |-> FALSE, wrote |-> FALSE]

(* dispose(): nothing of an evicted terminal is left.                      *)
Gone == [Fresh EXCEPT !.place = "gone", !.sock = "none"]

Init == view = Fresh
-----------------------------------------------------------------------------
(* The hydration controller.                                               *)
start(v) == [v EXCEPT !.pending = TRUE, !.age = 0, !.settle = FALSE, !.fallback = TRUE,
                      !.load = "loading"]

activateReplacementHydration(v) == [start(v) EXCEPT !.visible = FALSE]

scheduleFinish(v) == IF v.pending THEN [v EXCEPT !.settle = TRUE] ELSE v

finish(v) ==
    IF ~v.pending THEN v
    ELSE IF v.age = 0 \/ (v.recent /\ v.age < 2) THEN [v EXCEPT !.settle = TRUE]
    ELSE IF ~v.complete THEN [v EXCEPT !.settle = FALSE]
    ELSE IF v.unflushed /\ v.age < 2 THEN [v EXCEPT !.settle = TRUE]
    ELSE [v EXCEPT !.pending = FALSE, !.fallback = FALSE, !.settle = FALSE, !.reveal = TRUE]

cancel(v) == [v EXCEPT !.pending = FALSE, !.fallback = FALSE, !.settle = FALSE]

(* A write under hydration counts until it is flushed.  A parked terminal  *)
(* does not render: its writes call back at once.                          *)
writeTermData(v) ==
    LET w == [v EXCEPT !.recent = TRUE, !.wrote = TRUE]
    IN  IF ~v.pending THEN w
        ELSE IF v.place = "parked" THEN scheduleFinish(w)
        ELSE [w EXCEPT !.unflushed = TRUE, !.inflight = TRUE]

(* The first byte that replaces a retained frame hides it.                 *)
onBinaryData(v) ==
    writeTermData(IF v.replacement
                  THEN activateReplacementHydration([v EXCEPT !.replacement = FALSE])
                  ELSE v)

beginReplacementPrefill(v, hideImmediately) ==
    LET w == [v EXCEPT !.unflushed = FALSE, !.replacement = ~hideImmediately]
    IN  IF hideImmediately THEN activateReplacementHydration(w) ELSE w

(* Mutant: the reveal waits for the next write.                            *)
onPrefillDoneSilent(v) ==
    LET w == IF v.replacement
             THEN activateReplacementHydration([v EXCEPT !.replacement = FALSE])
             ELSE v
    IN  [w EXCEPT !.complete = TRUE]

onPrefillDone(v) ==
    LET w == IF v.replacement
             THEN activateReplacementHydration([v EXCEPT !.replacement = FALSE])
             ELSE v
    IN  scheduleFinish([w EXCEPT !.complete = TRUE])
-----------------------------------------------------------------------------
(* The socket client.                                                      *)

(* What the server sends on an attach: a prefill in pieces, which may      *)
(* stall, and output after it; or that another device holds the session.   *)
Prefills == {<<"done">>, <<"bytes", "bytes", "done", "bytes">>, <<"bytes">>}
Answers(v) == Prefills \cup (IF v.take THEN {} ELSE {<<"conflict">>})

(* Mutant: the prefill of the attach before counts.                        *)
sendAttachHandshakeStale(v, answer) ==
    IF v.sock # "open" \/ ~v.mounted THEN v
    ELSE LET w == IF v.started THEN v ELSE [start(v) EXCEPT !.started = TRUE]
         IN  [w EXCEPT !.hasAttached = TRUE, !.take = FALSE,
                       !.awaiting = TRUE, !.wire = @ \o answer, !.wrote = FALSE]

sendAttachHandshake(v, answer) ==
    IF v.sock # "open" \/ ~v.mounted THEN v
    ELSE LET w == IF v.started THEN v ELSE [start(v) EXCEPT !.started = TRUE]
         IN  [w EXCEPT !.complete = FALSE, !.hasAttached = TRUE, !.take = FALSE,
                       !.awaiting = TRUE, !.wire = @ \o answer, !.wrote = FALSE]

resetAttachLifecycle(v) == [v EXCEPT !.awaiting = FALSE, !.wire = <<>>]

shouldReconnect(v) == v.place = "shown" /\ v.mounted

(* The retry may find its two minutes spent.                               *)
scheduleReconnect(v, spent) ==
    IF v.retry \/ v.blocked \/ ~shouldReconnect(v) THEN v
    ELSE IF spent THEN [v EXCEPT !.blocked = TRUE, !.load = "failed"]
    ELSE [v EXCEPT !.retry = TRUE, !.load = "loading"]

(* The client's connect(): a socket that is there or on its way stays.     *)
connectSocket(v) ==
    [v EXCEPT !.retry = FALSE, !.sock = IF @ = "none" THEN "connecting" ELSE @]

(* The client's reconnect(), for a socket that may be dead.                *)
reconnect(v, takeControl) ==
    [resetAttachLifecycle(v) EXCEPT !.retry = FALSE, !.blocked = FALSE, !.take = takeControl,
                                    !.sock = "connecting"]

(* The controller's connect(): a new client, and a new epoch of writes.    *)
connect(v, takeControl) ==
    IF v.sock = "open" THEN v
    ELSE LET w == [resetAttachLifecycle(v) EXCEPT
                      !.retry = FALSE, !.blocked = FALSE, !.take = takeControl,
                      !.sock = "connecting", !.hasConnected = FALSE, !.hasAttached = FALSE,
                      !.unflushed = FALSE, !.inflight = FALSE]
         IN  IF v.started \/ ~v.mounted THEN w ELSE [start(w) EXCEPT !.started = TRUE]

(* Whether the socket that opened replaces what the canvas shows, and how: *)
(* a reconnect retains the old frame, a new client hides it at once.       *)
onOpen(v, wasReconnect) ==
    LET rehydrates == wasReconnect \/ v.started
        w == [v EXCEPT !.unflushed = @ /\ ~rehydrates]
        x == IF ~rehydrates \/ ~v.mounted THEN w
             ELSE IF wasReconnect THEN beginReplacementPrefill(w, FALSE)
             ELSE activateReplacementHydration(w)
    IN  [x EXCEPT !.auto = FALSE, !.displaced = FALSE, !.load = "loading",
                  !.overlay = @ /\ v.place # "shown", !.asked = @ /\ v.place # "shown"]
-----------------------------------------------------------------------------
(* mount() has created the terminal, and tells the socket client.          *)
Mount ==
    /\ view.place = "shown" /\ ~view.mounted
    /\ \E answer \in Answers(view) :
         LET v == [view EXCEPT !.mounted = TRUE, !.visible = FALSE, !.load = "loading"]
         IN  view' = IF v.hasAttached \/ v.blocked THEN v
                     ELSE IF v.sock = "none" THEN connectSocket(v)
                     ELSE sendAttachHandshake(v, answer)

(* sock.onopen.                                                            *)
Open ==
    /\ view.sock = "connecting"
    /\ \E answer \in Answers(view) :
         LET v == [view EXCEPT !.sock = "open", !.hasConnected = TRUE]
         IN  view' = onOpen(sendAttachHandshake(v, answer), view.hasConnected)

(* What a viewer_conflict comes to: a parked terminal has no place to show *)
(* it, one that was told to take control asks for it, any other says so.   *)
handleViewerConflict(v) ==
    LET w == [v EXCEPT !.awaiting = FALSE, !.load = "conflict"]
    IN  IF v.place = "parked" THEN Gone
        ELSE IF v.auto THEN [w EXCEPT !.auto = FALSE, !.wire = Append(@, "granted")]
        ELSE [cancel(w) EXCEPT !.overlay = TRUE, !.asked = FALSE, !.visible = TRUE]

handleControlGranted(v, answer) ==
    [beginReplacementPrefill(sendAttachHandshake(v, answer), TRUE) EXCEPT
        !.overlay = FALSE, !.asked = FALSE, !.displaced = FALSE, !.auto = FALSE]

(* sock.onmessage.                                                         *)
Deliver ==
    /\ view.sock = "open" /\ view.wire # <<>>
    /\ LET v == [view EXCEPT !.wire = Tail(@)]
       IN  CASE Head(view.wire) = "bytes" -> view' = onBinaryData(v)
             [] Head(view.wire) = "done" -> view' = onPrefillDone([v EXCEPT !.awaiting = FALSE])
             [] Head(view.wire) = "conflict" -> view' = handleViewerConflict(v)
             [] Head(view.wire) = "granted" ->
                  \E answer \in Answers(v) : view' = handleControlGranted(v, answer)

(* sock.onclose: for good, because another device took over or the session *)
(* ended, or to be retried.                                                *)
Closed(kind, spent) ==
    LET v == [resetAttachLifecycle(view) EXCEPT
                 !.sock = "none", !.blocked = @ \/ kind # "reconnect"]
        w == [v EXCEPT !.overlay = FALSE, !.asked = FALSE]
    IN  IF v.place = "parked" THEN (IF kind = "reconnect" THEN v ELSE Gone)
        ELSE CASE kind = "displaced" -> [cancel(w) EXCEPT !.displaced = TRUE, !.load = "conflict",
                                                         !.overlay = TRUE, !.visible = TRUE]
               [] kind = "ended" -> [w EXCEPT !.load = "failed"]
               [] kind = "reconnect" -> scheduleReconnect(w, spent)

Close ==
    /\ view.sock = "open"
    /\ \E kind \in {"reconnect", "displaced", "ended"}, spent \in BOOLEAN :
         view' = Closed(kind, spent)

(* A prefill that does not complete in time closes the socket.             *)
PrefillTimeout ==
    /\ view.sock = "open" /\ view.awaiting
    /\ \E spent \in BOOLEAN : view' = Closed("reconnect", spent)

(* The socket is refused, its ticket is, or the machine has no route.      *)
ConnectFails ==
    /\ view.sock = "connecting"
    /\ LET v == [view EXCEPT !.sock = "none"]
       IN  \E spent \in BOOLEAN :
             \/ view' = Closed("reconnect", spent)
             \/ view' = scheduleReconnect(v, spent)
             \/ view' = IF v.place = "parked" THEN Gone
                        ELSE [v EXCEPT !.blocked = TRUE, !.load = "failed"]

RetryTimer ==
    /\ view.retry
    /\ LET v == [view EXCEPT !.retry = FALSE]
       IN  view' = IF shouldReconnect(v) THEN connectSocket(v) ELSE v
-----------------------------------------------------------------------------
(* Time: the two timers of the hydration, its ages, and the frames that    *)
(* flush writes and reveal the canvas.                                     *)
SettleTimer == view.settle /\ view' = finish([view EXCEPT !.settle = FALSE])

FallbackTimer ==
    view.fallback /\ view.age > 0 /\ view' = finish([view EXCEPT !.fallback = FALSE])

Age == view.pending /\ view.age < 2 /\ view' = [view EXCEPT !.age = @ + 1]

Quiet == view.recent /\ view' = [view EXCEPT !.recent = FALSE]

Flush ==
    /\ view.inflight
    /\ view' = scheduleFinish([view EXCEPT !.inflight = FALSE, !.unflushed = FALSE])

Reveal ==
    /\ view.reveal
    /\ LET v == [view EXCEPT !.reveal = FALSE]
       IN  view' = IF v.pending THEN v ELSE [v EXCEPT !.visible = TRUE, !.load = "live"]
-----------------------------------------------------------------------------
(* The user and the page.                                                  *)

scheduleResizeRehydrate(v) ==
    IF v.place = "parked" THEN [v EXCEPT !.deferred = TRUE]
    ELSE [v EXCEPT !.rehydrate = @ \/ v.sock = "open"]

(* A resize was committed; also of a parked terminal, whose last request   *)
(* is answered late.                                                       *)
LayoutChange == view.sock = "open" /\ view.mounted /\ view' = scheduleResizeRehydrate(view)

(* A terminal whose user reads the scrollback is attached again.           *)
RehydrateTimer ==
    /\ view.rehydrate
    /\ LET v == [view EXCEPT !.rehydrate = FALSE]
       IN  view' = v \/ (v.sock = "open" /\ view' = reconnect(v, FALSE))

canParkTerminal(v) == v.mounted /\ ~v.displaced /\ v.load \in {"loading", "live"}

(* Mutant: the timer of a resize keeps running.                            *)
LeaveUnsuspended ==
    /\ view.place = "shown"
    /\ \/ canParkTerminal(view) /\ view' = [view EXCEPT !.place = "parked", !.visible = FALSE]
       \/ view' = Gone

(* The user opens another session (parkTerminalForSwitch), or leaves the   *)
(* terminal view, which keeps nothing (destroyTerminal).                   *)
Leave ==
    /\ view.place = "shown"
    /\ \/ /\ canParkTerminal(view)
          /\ view' = [view EXCEPT !.place = "parked", !.visible = FALSE, !.rehydrate = FALSE,
                                  !.deferred = @ \/ view.rehydrate]
       \/ view' = Gone

(* showPooledTerminal.                                                     *)
Show ==
    /\ view.place = "parked"
    /\ LET v == [view EXCEPT !.place = "shown", !.deferred = FALSE]
           w == IF view.deferred THEN scheduleResizeRehydrate(v) ELSE v
       IN  view' = connect([w EXCEPT !.visible = ~w.pending], FALSE)

(* The time of a parked terminal is over, the page was hidden or the pool  *)
(* is full.                                                                *)
Evict == view.place = "parked" /\ view' = Gone

(* The page returns after a minute, or a phone's probe fails.              *)
Foreground == view.place = "shown" /\ view.mounted /\ view' = reconnect(view, FALSE)

RetryConnection == view.place = "shown" /\ view.mounted /\ view' = connect(view, FALSE)

(* The button of the overlay: over the open socket, with a fallback after  *)
(* three seconds, or with a new one.                                       *)
TakeControl ==
    /\ view.place = "shown" /\ view.overlay
    /\ IF view.sock = "open"
       THEN view.wire = <<>> /\ view' = [view EXCEPT !.asked = TRUE, !.wire = <<"granted">>]
       ELSE view' = reconnect([view EXCEPT !.auto = TRUE], TRUE)

TakeControlFallback ==
    /\ view.asked
    /\ LET v == [view EXCEPT !.asked = FALSE, !.auto = TRUE]
       IN  view' = IF view.place # "shown" \/ ~view.overlay THEN [view EXCEPT !.asked = FALSE]
                   ELSE IF v.sock = "open" THEN reconnect(v, TRUE)
                   ELSE connect(v, TRUE)

Next ==
    \/ Mount \/ Open \/ Deliver \/ Close \/ PrefillTimeout \/ ConnectFails \/ RetryTimer
    \/ SettleTimer \/ FallbackTimer \/ Age \/ Quiet \/ Flush \/ Reveal
    \/ LayoutChange \/ RehydrateTimer \/ Leave \/ Show \/ Evict
    \/ Foreground \/ RetryConnection \/ TakeControl \/ TakeControlFallback

(* Timers, frames and the socket's messages come.                          *)
Spec ==
    /\ Init /\ [][Next]_view
    /\ WF_view(Deliver) /\ WF_view(SettleTimer) /\ WF_view(FallbackTimer)
    /\ WF_view(Age) /\ WF_view(Quiet) /\ WF_view(Flush) /\ WF_view(Reveal)
-----------------------------------------------------------------------------
(* The user never sees a prefill being painted: a canvas that shows what   *)
(* the current attach wrote shows all of its prefill.  The old frame may   *)
(* stay until the first byte, and a revealed canvas is hidden again when   *)
(* control is granted or a new client attaches.                            *)
NoProgressivePaint ==
    ~(view.place = "shown" /\ view.sock = "open" /\ view.visible /\ view.wrote /\ view.awaiting)

(* A terminal that stays shown and connected, and has its prefill, is      *)
(* revealed: no order of writes, flushes, timers, parking and late resizes *)
(* leaves it hidden.                                                       *)
Presented ==
    view.place = "shown" /\ view.mounted /\ view.sock = "open" /\ view.complete => view.visible
Reveals == []<>Presented

(* A terminal that is shown has a socket, opens one, will retry or has     *)
(* given up for a reason the user sees; a parked one starts no connection  *)
(* ("Parked entries reconnect when shown, never in the background").       *)
ConnectsWhenShownStep ==
    /\ view'.place = "shown" /\ view'.mounted /\ view'.sock = "none"
         => view'.retry \/ view'.blocked
    /\ view.place = "parked" /\ view'.place = "parked" /\ view'.sock = "connecting"
         => view.sock = "connecting"
ConnectsWhenShown == [][ConnectsWhenShownStep]_view
=============================================================================
