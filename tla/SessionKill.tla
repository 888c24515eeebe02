---------------------------- MODULE SessionKill ----------------------------
(***************************************************************************)
(* Why a session ended: the kill requests of one session and its exit      *)
(* event, as BrokerBackend (src/src/server/broker-backend.ts) settles them.*)
(* Several callers may kill a session at once.  The broker answers one     *)
(* connection's requests in order, but its session_exited takes another    *)
(* queue and may pass an answer; an answer may come too late, or be lost   *)
(* with the connection.  The exit is told once, when no request is         *)
(* outstanding.                                                            *)
(***************************************************************************)
EXTENDS Integers, Sequences, FiniteSets

CONSTANTS
    Callers     \* calls of killSessionById, each at most once

VARIABLES
    session,    \* "live", "ended" (the broker does not know yet) or "dead"
    signalled,  \* a kill reached the live session
    requests,   \* kill requests on their way to the broker
    answers,    \* [caller, status] on their way back
    event,      \* session_exited: "none", "sent", "heard" or "lost"
    call,       \* [Callers -> "idle" | "waiting" | "ok" | "gone" | "failed"]
    cached,     \* idToInfo has the session's name
    entry,      \* killRequests.get(id), or NoEntry
    told,       \* the session_exited events given to listeners
    missed,     \* history: a caller gave up a request that could have succeeded
    knew        \* history: callers that found the name cached

vars == <<session, signalled, requests, answers, event, call, cached, entry, told, missed, knew>>

NoEntry == [there |-> FALSE, inFlight |-> 0, succeeded |-> FALSE, exit |-> "none", name |-> FALSE]

-----------------------------------------------------------------------------
(* The broker: Session::kill answers ok when a signal was sent, and        *)
(* session_not_alive when there is no process or its end was noted; the    *)
(* end is announced once.                                                  *)
BrokerKill ==
    /\ requests # <<>>
    /\ \E status \in CASE session = "live"  -> {"ok", "failed"}
                        [] session = "ended" -> {"ok", "gone", "failed"}
                        [] session = "dead"  -> {"gone"} :
          /\ answers' = Append(answers, [caller |-> Head(requests), status |-> status])
          /\ signalled' = (signalled \/ status = "ok")
    /\ requests' = Tail(requests)
    /\ UNCHANGED <<session, event, call, cached, entry, told, missed, knew>>

SessionEnds ==
    /\ \/ session = "live" /\ session' = "ended" /\ UNCHANGED event
       \/ session = "ended" /\ session' = "dead" /\ event' = "sent"
    /\ UNCHANGED <<signalled, requests, answers, call, cached, entry, told, missed, knew>>

-----------------------------------------------------------------------------
(* emitSessionExited: the name is the cached one or the one of the kill.   *)
Tell(killed, name) == told' = Append(told, [killed |-> killed, name |-> name])

(* killSessionById up to its await.                                        *)
Kill(c) ==
    /\ call[c] = "idle" /\ call' = [call EXCEPT ![c] = "waiting"]
    /\ entry' = [entry EXCEPT !.there = TRUE, !.inFlight = @ + 1, !.name = @ \/ cached]
    /\ knew' = IF cached THEN knew \cup {c} ELSE knew
    /\ requests' = Append(requests, c)
    /\ UNCHANGED <<session, signalled, answers, event, cached, told, missed>>

(* Mutant: an outstanding request does not hold the exit back.             *)
SettleEarly(e) ==
    IF e.exit # "none"
    THEN Tell(e.succeeded, e.exit = "named" \/ e.name) /\ entry' = NoEntry
    ELSE entry' = (IF e.succeeded \/ e.inFlight > 0 THEN e ELSE NoEntry) /\ UNCHANGED told

(* settleKillRequest.                                                      *)
SettleKillRequest(e) ==
    IF e.inFlight = 0 /\ e.exit # "none"
    THEN Tell(e.succeeded, e.exit = "named" \/ e.name) /\ entry' = NoEntry
    ELSE entry' = (IF e.inFlight = 0 /\ ~e.succeeded THEN NoEntry ELSE e) /\ UNCHANGED told

(* killSessionById after its await: the request settles, and after an      *)
(* answer that says the session is gone its name is dropped.               *)
Settled(c, status) ==
    /\ call' = [call EXCEPT ![c] = status]
    /\ SettleKillRequest([entry EXCEPT !.inFlight = @ - 1, !.succeeded = @ \/ status = "ok"])
    /\ cached' = (cached /\ status = "failed")

Answered ==
    /\ answers # <<>> /\ answers' = Tail(answers)
    /\ LET a == Head(answers) IN
       IF call[a.caller] = "waiting"
       THEN Settled(a.caller, a.status)
       ELSE UNCHANGED <<call, cached, entry, told>>
    /\ UNCHANGED <<session, signalled, requests, event, missed, knew>>

(* The client's request timer, and its answer to a lost connection: what   *)
(* was on the way is lost too, and so is the event.  The broker may still  *)
(* be carrying out one request.                                            *)
TimesOut(c) ==
    /\ call[c] = "waiting" /\ Settled(c, "failed")
    /\ missed' = TRUE
    /\ UNCHANGED <<session, signalled, requests, answers, event, knew>>

Disconnect ==
    /\ requests # <<>> \/ answers # <<>> \/ event = "sent"
    /\ \E n \in {0, 1} : n <= Len(requests) /\ requests' = SubSeq(requests, 1, n)
    /\ answers' = <<>>
    /\ event' = IF event = "sent" THEN "lost" ELSE event
    /\ call' = [c \in Callers |-> IF call[c] = "waiting" THEN "failed" ELSE call[c]]
    /\ missed' = (missed \/ \E c \in Callers : call[c] = "waiting")
    /\ IF entry.there /\ entry.inFlight > 0
       THEN SettleKillRequest([entry EXCEPT !.inFlight = 0])
       ELSE UNCHANGED <<entry, told>>
    /\ UNCHANGED <<session, signalled, cached, knew>>

(* ingestEvent, session_exited, and publishSessionExited.                  *)
Heard ==
    /\ event = "sent" /\ event' = "heard"
    /\ IF entry.there /\ entry.inFlight > 0
       THEN /\ entry' = [entry EXCEPT !.exit = IF cached THEN "named" ELSE "unnamed"]
            /\ UNCHANGED told
       ELSE /\ entry' = NoEntry
            /\ Tell(entry.succeeded, cached \/ entry.name)
    /\ UNCHANGED <<session, signalled, requests, answers, call, cached, missed, knew>>

(* listSessionFacts learns the name of a live session, and drops a dead    *)
(* one's.                                                                  *)
Listed ==
    /\ cached # (session # "dead") /\ cached' = ~cached
    /\ UNCHANGED <<session, signalled, requests, answers, event, call, entry, told, missed, knew>>

Init ==
    /\ session = "live" /\ signalled = FALSE
    /\ requests = <<>> /\ answers = <<>> /\ event = "none"
    /\ call = [c \in Callers |-> "idle"]
    /\ cached \in BOOLEAN
    /\ entry = NoEntry /\ told = <<>> /\ missed = FALSE /\ knew = {}

Next ==
    \/ BrokerKill \/ SessionEnds \/ Answered \/ Disconnect \/ Heard \/ Listed
    \/ \E c \in Callers : Kill(c) \/ TimesOut(c)

Spec == Init /\ [][Next]_vars

-----------------------------------------------------------------------------
(* An exit the server heard of is told once, as soon as no kill is         *)
(* outstanding.  It is told as killed only if a kill reached the session,  *)
(* as an exit only if none did or a caller gave its request up, and with   *)
(* the name if a kill that succeeded knew it (killRequests).               *)
ExitToldRight ==
    /\ Len(told) <= 1
    /\ (event = "heard" /\ \A c \in Callers : call[c] # "waiting") => told # <<>>
    /\ told # <<>> =>
          /\ event = "heard"
          /\ told[1].killed => signalled
          /\ (~told[1].killed /\ signalled) => missed
          /\ (told[1].killed /\ \E c \in knew : call[c] = "ok") => told[1].name
=============================================================================
