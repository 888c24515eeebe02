---------------------------- MODULE ViewerControl ----------------------------
(***************************************************************************)
(* Who owns a session's terminal: entries, pending viewers, take-over and  *)
(* teardown (src/server/websocket.ts), for one session and several         *)
(* browser viewers.                                                        *)
(*                                                                         *)
(* A socket sets up at most one PtyEntry, so an entry is named by its      *)
(* viewer.  close() on a socket is followed by its close event; no message *)
(* of it is handled in between.                                            *)
(***************************************************************************)
EXTENDS Naturals

CONSTANTS Viewers, None

VARIABLES
    current,    \* activePtySessions.get(session)
    ent,        \* each viewer's PtyEntry, phase being how far its attach is
    sock,       \* each viewer's socket
    waits,      \* the entry whose pending viewer a socket became
    stranded    \* an entry ended without its pending viewer being told, or took
                \* another one out of activePtySessions

vars == <<current, ent, sock, waits, stranded>>

NoEntry == [alive |-> FALSE, viewer |-> FALSE, pending |-> None, phase |-> "none"]

Init ==
    /\ current = None
    /\ ent = [v \in Viewers |-> NoEntry]
    /\ sock = [v \in Viewers |-> "new"]
    /\ waits = [v \in Viewers |-> None]
    /\ stranded = FALSE

-----------------------------------------------------------------------------
(* Steps are functions of x = [cur, ent, sock].                            *)

Now == [cur |-> current, ent |-> ent, sock |-> sock]
Become(x) == current' = x.cur /\ ent' = x.ent /\ sock' = x.sock

CloseWs(x, v) ==
    IF v = None THEN x
    ELSE [x EXCEPT !.sock[v] = IF @ = "open" THEN "closing" ELSE @]

CloseViewer(x, e) == IF x.ent[e].viewer THEN CloseWs([x EXCEPT !.ent[e].viewer = FALSE], e) ELSE x
ClosePending(x, e) == [CloseWs(x, x.ent[e].pending) EXCEPT !.ent[e].pending = None]

(* An entry dies: its subscriptions are released, and every continuation   *)
(* of its attach but the one of the list refresh checks entryStillCurrent. *)
Ended(n) == [n EXCEPT !.alive = FALSE, !.phase = IF @ = "list" THEN @ ELSE "none"]
Dies(x, e) == [x EXCEPT !.ent[e] = Ended(@)]

(* Mutant: the pending viewer is not told.                                 *)
teardownPtyQuietly(x) ==
    IF x.cur = None THEN x
    ELSE [CloseViewer(Dies(x, x.cur), x.cur) EXCEPT !.cur = None]

teardownPty(x) ==
    IF x.cur = None THEN x
    ELSE [ClosePending(CloseViewer(Dies(x, x.cur), x.cur), x.cur) EXCEPT !.cur = None]

(* Without a backend the entry is forgotten before it has a handler.       *)
setupNewPtyEntry(x, v, backend) ==
    IF ~backend THEN [CloseWs(x, v) EXCEPT !.cur = None]
    ELSE [x EXCEPT !.cur = v,
                   !.ent[v] = [alive |-> TRUE, viewer |-> TRUE, pending |-> None, phase |-> "new"]]

entryStillCurrent(x, e) == x.ent[e].alive /\ x.cur = e /\ x.ent[e].viewer

(* startPtyAttach up to its first await: a session the server does not     *)
(* know is looked up first.                                                *)
beginAttach(x, e, known) ==
    [x EXCEPT !.ent[e].phase = IF @ # "new" THEN @ ELSE IF known THEN "attaching" ELSE "list"]

-----------------------------------------------------------------------------
(* handlePtyWs.  The owner is not disturbed: a second viewer is pending.   *)
Connect(v, reset, backend) ==
    /\ sock[v] = "new"
    /\ LET x == [Now EXCEPT !.sock[v] = "open"]
           y == IF reset /\ x.cur # None THEN teardownPty(x) ELSE x
       IN  IF y.cur = None
           THEN Become(setupNewPtyEntry(y, v, backend)) /\ UNCHANGED waits
           ELSE /\ Become([ClosePending(y, y.cur) EXCEPT !.ent[y.cur].pending = v])
                /\ waits' = [waits EXCEPT ![v] = y.cur]
    /\ UNCHANGED stranded

(* The owner's attach message.                                             *)
Attach(v, known) ==
    /\ sock[v] = "open" /\ ent[v].alive /\ ent[v].phase = "new"
    /\ Become(beginAttach(Now, v, known))
    /\ UNCHANGED <<waits, stranded>>

(* performImmediateTakeover: the entry the pending viewer waited for ends, *)
(* and whatever activePtySessions holds is replaced.                       *)
performImmediateTakeover(x, v, e, backend) ==
    setupNewPtyEntry(ClosePending(Dies(CloseViewer(x, e), e), e), v, backend)

(* cleanupPending leaves no other pending viewer behind.                   *)
cleanupPending(x, v, e) ==
    IF x.ent[e].pending = v THEN [x EXCEPT !.ent[e].pending = None] ELSE ClosePending(x, e)

(* take_control after an attach, or an attach with takeControl: the        *)
(* dimensions are known, so the attach starts at once.                     *)
TakeControl(v, known, backend) ==
    /\ sock[v] = "open" /\ waits[v] # None
    /\ LET e == waits[v]
           x == performImmediateTakeover(cleanupPending(Now, v, e), v, e, backend)
       IN  Become(beginAttach(x, v, known))
    /\ waits' = [waits EXCEPT ![v] = None]
    /\ UNCHANGED stranded

(* attachStreamingBackend, after the session list was refreshed, or could  *)
(* not be.  A session that is not found ends the entry, whoever is current *)
(* by then.                                                                *)
Listed(v, found) ==
    /\ ent[v].phase = "list"
    /\ IF found
       THEN /\ Become([Now EXCEPT !.ent[v].phase = IF entryStillCurrent(Now, v) THEN "attaching" ELSE "none"])
            /\ UNCHANGED stranded
       ELSE /\ Become([CloseViewer(Dies(Now, v), v) EXCEPT !.cur = None])
            /\ stranded' = (stranded \/ ent[v].pending # None \/ current \notin {v, None})
    /\ UNCHANGED waits

(* The snapshot is sent and the subscription activated; if the session has *)
(* vanished by then, onSessionData returns null.                           *)
Subscribe(v, found) ==
    /\ ent[v].phase = "attaching" /\ entryStillCurrent(Now, v)
    /\ IF found
       THEN Become([Now EXCEPT !.ent[v].phase = "live"]) /\ UNCHANGED stranded
       ELSE /\ Become([CloseViewer(Dies(Now, v), v) EXCEPT !.cur = None])
            /\ stranded' = (stranded \/ ent[v].pending # None)
    /\ UNCHANGED waits

(* A step of the attach fails: the socket is closed, its close event tears *)
(* the entry down.                                                         *)
AttachFails(v) ==
    /\ ent[v].phase = "attaching" /\ entryStillCurrent(Now, v)
    /\ Become([CloseWs(Now, v) EXCEPT !.ent[v].phase = "none"])
    /\ UNCHANGED <<waits, stranded>>

(* The exit is announced; what is buffered may still have to drain.        *)
Exited(v) ==
    /\ ent[v].alive /\ ent[v].phase = "live"
    /\ Become([Now EXCEPT !.ent[v].phase = "draining"])
    /\ UNCHANGED <<waits, stranded>>

finishExit(v) ==
    /\ ent[v].alive /\ ent[v].phase = "draining"
    /\ LET x == IF current = v THEN [Now EXCEPT !.cur = None] ELSE Now
       IN  Become(ClosePending(CloseViewer(Dies(x, v), v), v))
    /\ UNCHANGED <<waits, stranded>>

(* replay_truncated, a failed subscription, a slow viewer, and the broker  *)
(* being unavailable (which closes the pending viewer first) close the     *)
(* viewer and tear down the session's entry.                               *)
ViewerFails(v) ==
    /\ ent[v].alive /\ ent[v].phase = "live"
    /\ Become(teardownPty(CloseWs(Now, v)))
    /\ UNCHANGED <<waits, stranded>>

BrokerUnavailable(v) ==
    /\ ent[v].alive /\ ent[v].phase = "live"
    /\ Become(teardownPty(CloseWs(ClosePending(Now, v), v)))
    /\ UNCHANGED <<waits, stranded>>

(* Mutant: the entry is not checked.                                       *)
detachAny(x, v) == teardownPty([x EXCEPT !.ent[v].viewer = FALSE])

detach(x, v) ==
    IF entryStillCurrent(x, v) THEN teardownPty([x EXCEPT !.ent[v].viewer = FALSE]) ELSE x

cleanup(x, v, e) == IF x.ent[e].pending = v THEN [x EXCEPT !.ent[e].pending = None] ELSE x

(* The close event, of a socket the server closed or the browser left.     *)
CloseEvent(v) ==
    /\ sock[v] \in {"open", "closing"}
    /\ LET x == [Now EXCEPT !.sock[v] = "gone"]
       IN  Become(IF waits[v] # None THEN cleanup(x, v, waits[v]) ELSE detach(x, v))
    /\ waits' = [waits EXCEPT ![v] = None]
    /\ UNCHANGED stranded

(* POST /api/kill tears the terminal down before the session is killed.    *)
KillRoute ==
    /\ Become(teardownPty(Now))
    /\ UNCHANGED <<waits, stranded>>

Next ==
    \/ \E v \in Viewers, known, reset, backend \in BOOLEAN :
         Connect(v, reset, backend) \/ Attach(v, known) \/ TakeControl(v, known, backend)
    \/ \E v \in Viewers, found \in BOOLEAN : Listed(v, found) \/ Subscribe(v, found)
    \/ \E v \in Viewers : \/ AttachFails(v) \/ Exited(v) \/ finishExit(v)
                          \/ ViewerFails(v) \/ BrokerUnavailable(v) \/ CloseEvent(v)
    \/ KillRoute

Spec == Init /\ [][Next]_vars

-----------------------------------------------------------------------------
(* "After every `await`, the entry may have been torn down, replaced by a   *)
(* takeover, or had its viewer displaced": the server allows one viewer    *)
(* per session, whose live entry is the one activePtySessions holds.       *)
OneEntry == \A v \in Viewers : ent[v].alive => current = v

(* Unless an attach found the session gone while another viewer waited or  *)
(* had taken over: the session has one live entry, the current one;        *)
(* whoever waits for the terminal is the pending viewer of that entry; a   *)
(* viewer that is gone leaves no entry, hence no subscription, behind.     *)
OneOwner ==
    ~stranded =>
        /\ OneEntry
        /\ \A v \in Viewers :
             /\ sock[v] = "open" /\ waits[v] # None => current = waits[v] /\ ent[current].pending = v
             /\ sock[v] = "gone" => ~ent[v].alive

(* A viewer that leaves, displaced or not, ends no entry but its own.      *)
LeaverEndsOwnEntryStep ==
    \A v, w \in Viewers :
        v # w /\ sock[v] # "gone" /\ sock'[v] = "gone" /\ ent[w].alive => ent'[w].alive
LeaverEndsOwnEntry == [][LeaverEndsOwnEntryStep]_vars
=============================================================================
