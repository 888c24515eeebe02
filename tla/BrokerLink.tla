---------------------------- MODULE BrokerLink -----------------------------
(***************************************************************************)
(* The server's link to the broker: BrokerSupervisor                       *)
(* (src/src/server/broker-supervisor.ts) and the connection of its         *)
(* BrokerClient (src/src/broker/client.ts).  The client reconnects by      *)
(* itself and asks every new connection for its version; the start-up      *)
(* probe and the watchdog ask again, each over several awaits, and close   *)
(* the client they probed when it does not answer.  The daemon may stop,   *)
(* be replaced by another version, or accept connections and not answer.   *)
(*                                                                         *)
(* A closed client has no listeners left and its requests are rejected, so *)
(* only the current client has state.                                      *)
(***************************************************************************)
EXTENDS Integers, FiniteSets

CONSTANTS
    Kinds,          \* versions of the daemon; "pre_hello" and "incompatible" are two
    Breaker,        \* requestTimeoutCircuitBreakerThreshold
    ChangeMax       \* bound: changes of the daemon

VARIABLES
    daemon,     \* [state, kind, run]: "up", "wedged", "down" (stale socket), "absent"
    client,     \* the current client; state "none" when there is no current client
    sup,        \* _brokerAvailable and brokerVersion
    probe       \* [Probes -> [at, own, fresh]]

vars == <<daemon, client, sup, probe>>

(* Clients and connection generations are only ever compared with the      *)
(* current ones.  A probe's "own" says that the client it captured is      *)
(* still the current one; "fresh", of a probe or of the handshake of a     *)
(* connection, that connectionGeneration has not moved since it was read.  *)
Probes == {"startup", "watchdog"}
Answering == {"up", "wedged"}
NoClient == [state |-> "none", run |-> 0, kind |-> "none", timeouts |-> 0, fresh |-> FALSE]
NewClient == [NoClient EXCEPT !.state = "connecting"]
NoProbe == [at |-> "idle", own |-> FALSE, fresh |-> FALSE]
NewProbe == [at |-> "connecting", own |-> TRUE, fresh |-> FALSE]
NotReady == [available |-> FALSE, version |-> "none"]

(* brokerVersion: a daemon that predates hello has none.                   *)
VersionOf(kind) == IF kind = "pre_hello" THEN "none" ELSE kind

Stale(ps) == [p \in Probes |-> [ps[p] EXCEPT !.fresh = FALSE]]
Disowned(ps) == [p \in Probes |-> [ps[p] EXCEPT !.own = FALSE, !.fresh = FALSE]]
Ended(p) == [probe EXCEPT ![p] = NoProbe]

-----------------------------------------------------------------------------
(* The daemon stops, or another one is started.                            *)
DaemonChanges ==
    /\ daemon.run < ChangeMax
    /\ \/ \E s \in {"down", "absent"} :
             daemon.state \in Answering
             /\ daemon' = [daemon EXCEPT !.state = s, !.run = @ + 1]
       \/ \E s \in Answering, k \in Kinds :
             daemon' = [state |-> s, kind |-> k, run |-> daemon.run + 1]
    /\ UNCHANGED <<client, sup, probe>>

(* A daemon stops answering, or answers again, with its connections open.  *)
DaemonStalls ==
    /\ daemon.state \in Answering
    /\ daemon' = [daemon EXCEPT !.state = IF @ = "up" THEN "wedged" ELSE "up"]
    /\ UNCHANGED <<client, sup, probe>>

(* The connection ends at the daemon's side when its run is over.          *)
Connected == client.state = "connected"
Lost == client.state \in {"verifying", "connected"} /\ client.run # daemon.run
Reachable == client.run = daemon.run /\ daemon.state = "up" /\ client.timeouts < Breaker

-----------------------------------------------------------------------------
(* handleClose and onDisconnect.  scheduleReconnect is the state "idle".   *)
HandleClose ==
    /\ client' = [client EXCEPT !.state = "idle", !.fresh = FALSE]
    /\ IF client.state = "connecting"
       THEN UNCHANGED <<sup, probe>>
       ELSE sup' = NotReady /\ probe' = Stale(probe)

(* teardownBrokerClient, by the probe that ends with it.                   *)
Teardown(p) ==
    /\ client' = NoClient
    /\ sup' = NotReady
    /\ probe' = Disowned(Ended(p))

(* handleConnect up to the await of verifyConnection.                      *)
HandleConnect ==
    /\ client.state = "connecting" /\ daemon.state \in Answering
    /\ client' = [client EXCEPT !.state = "verifying", !.run = daemon.run, !.kind = daemon.kind,
                                !.timeouts = 0, !.fresh = TRUE]
    /\ probe' = Stale(probe)
    /\ UNCHANGED <<daemon, sup>>

Refused ==
    /\ client.state = "connecting" /\ daemon.state \notin Answering
    /\ HandleClose
    /\ UNCHANGED daemon

Reconnect ==
    /\ client.state = "idle"
    /\ client' = [client EXCEPT !.state = "connecting"]
    /\ UNCHANGED <<daemon, sup, probe>>

(* negotiateHandshake answers verifyConnection; onConnect.                 *)
Verified ==
    /\ client.state = "verifying" /\ Reachable
    /\ IF daemon.kind # "incompatible" /\ client.fresh
       THEN /\ client' = [client EXCEPT !.state = "connected"]
            /\ sup' = [available |-> TRUE, version |-> VersionOf(daemon.kind)]
            /\ UNCHANGED probe
       ELSE HandleClose
    /\ UNCHANGED daemon

(* The handshake's timer, the loss of the connection, and the breaker that *)
(* closes it after several requests in a row were not answered.            *)
Closes ==
    /\ \/ client.state = "verifying" /\ ~Reachable
       \/ Lost
       \/ Connected /\ client.timeouts = Breaker
    /\ HandleClose
    /\ UNCHANGED daemon

RequestTimesOut ==
    /\ Connected /\ ~Lost /\ daemon.state = "wedged" /\ client.timeouts < Breaker
    /\ client' = [client EXCEPT !.timeouts = @ + 1]
    /\ UNCHANGED <<daemon, sup, probe>>

RequestAnswered ==
    /\ Connected /\ Reachable /\ client.timeouts \in 1..(Breaker - 1)
    /\ client' = [client EXCEPT !.timeouts = 0]
    /\ UNCHANGED <<daemon, sup, probe>>

-----------------------------------------------------------------------------
(* verifyBrokerHandshake, from await to await.  The wait for the           *)
(* connection succeeds, or its deadline passes: not while a daemon that    *)
(* answers is being connected to (BROKER_CONNECT_TIMEOUT_MS is longer than *)
(* a handshake takes), but while the client waits to reconnect.            *)
ProbeConnected(p) ==
    /\ probe[p].at = "connecting" /\ probe[p].own /\ Connected
    /\ probe' = [probe EXCEPT ![p].at = "hello", ![p].fresh = TRUE]
    /\ UNCHANGED <<daemon, client, sup>>

ProbeDeadline(p) ==
    /\ probe[p].at = "connecting"
    /\ probe[p].own =>
          /\ ~Connected
          /\ ~(Reachable /\ client.state = "verifying")
          /\ ~(daemon.state = "up" /\ client.state = "connecting")
    /\ IF probe[p].own THEN Teardown(p) ELSE probe' = Ended(p) /\ UNCHANGED <<client, sup>>
    /\ UNCHANGED daemon

(* negotiateHandshake answers the probe, or its request is rejected: the   *)
(* timer, the loss of the connection, a closed client.                     *)
Current(p) == probe[p].own /\ probe[p].fresh /\ Connected

ProbeAnswered(p) ==
    /\ probe[p].at = "hello" /\ Current(p) /\ Reachable
    /\ IF daemon.kind = "incompatible"
       THEN Teardown(p)
       ELSE /\ sup' = [available |-> TRUE, version |-> VersionOf(daemon.kind)]
            /\ probe' = Ended(p) /\ UNCHANGED client
    /\ UNCHANGED daemon

ProbeRejected(p) ==
    /\ probe[p].at = "hello" /\ ~(Current(p) /\ Reachable)
    /\ IF Current(p) THEN Teardown(p) ELSE probe' = Ended(p) /\ UNCHANGED <<client, sup>>
    /\ UNCHANGED daemon

(* watchdogTick: a client torn down before is started again.               *)
WatchdogTickNoStart ==
    /\ ~sup.available /\ probe["watchdog"].at = "idle" /\ daemon.state # "absent"
    /\ client.state # "none"
    /\ probe' = [probe EXCEPT !["watchdog"] = NewProbe]
    /\ UNCHANGED <<daemon, client, sup>>

WatchdogTick ==
    /\ ~sup.available /\ probe["watchdog"].at = "idle" /\ daemon.state # "absent"
    /\ client' = IF client.state = "none" THEN NewClient ELSE client
    /\ probe' = [probe EXCEPT !["watchdog"] = NewProbe]
    /\ UNCHANGED <<daemon, sup>>

(* The constructor, with a socket file present, and the start-up probe.    *)
Init ==
    /\ \E s \in {"up", "wedged", "down"}, k \in Kinds :
          daemon = [state |-> s, kind |-> k, run |-> 0]
    /\ client = NewClient
    /\ sup = [available |-> TRUE, version |-> "none"]
    /\ probe = [p \in Probes |-> IF p = "startup" THEN NewProbe ELSE NoProbe]

ProbeStep(p) == ProbeConnected(p) \/ ProbeDeadline(p) \/ ProbeAnswered(p) \/ ProbeRejected(p)

Next ==
    \/ DaemonChanges \/ DaemonStalls
    \/ HandleConnect \/ Refused \/ Reconnect \/ Verified \/ Closes
    \/ RequestTimesOut \/ RequestAnswered
    \/ \E p \in Probes : ProbeStep(p)
    \/ WatchdogTick

(* Sockets and timers fire; the daemon need not do anything, and requests  *)
(* need not be made.                                                       *)
Spec ==
    /\ Init /\ [][Next]_vars
    /\ WF_vars(HandleConnect) /\ WF_vars(Refused) /\ WF_vars(Reconnect)
    /\ WF_vars(Verified) /\ WF_vars(Closes)
    /\ \A p \in Probes : WF_vars(ProbeStep(p))
    /\ WF_vars(WatchdogTick)

-----------------------------------------------------------------------------
(* isBrokerReady.                                                          *)
Ready == sup.available /\ Connected

(* A daemon that stays up and compatible is found again, whatever happened *)
(* to it before ("the 8-hour zombie state").                               *)
Recovers == []<>(daemon.state # "up" \/ daemon.kind = "incompatible" \/ Ready)
=============================================================================
