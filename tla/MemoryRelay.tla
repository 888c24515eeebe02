---------------------------- MODULE MemoryRelay -----------------------------
(***************************************************************************)
(* The volatile relay (src/task-relay/memory-store.ts) as its gateway      *)
(* (src/task-relay/volatile-gateway.ts) drives it: agents register         *)
(* endpoints under leases, send envelopes to each other's mailboxes or to  *)
(* a peer relay, and acknowledge what they receive; a timer expires        *)
(* receipts and registrations through an index of due times.               *)
(*                                                                         *)
(* The store is synchronous: a method is one step, and the record `st`     *)
(* holds its maps.  Every payload weighs one unit, so a byte limit is an   *)
(* item limit.  An endpoint id, random in the code, is the session and     *)
(* the generation it was issued to with a number that makes it unique.     *)
(***************************************************************************)
EXTENDS Integers, FiniteSets

CONSTANTS
    Sessions, Generations,  \* broker sessions, generations of their agents
    Endpoints,              \* endpoint ids, see SessionOf and GenerationOf
    Ids,                    \* envelope ids
    Peers,                  \* an origin and epoch of another relay
    Envelopes,              \* what agents and peers may send
    ActiveItems, MailboxItems, PeerItems, Receipts,
    Registrations, Routes,  \* limits of the store
    LeaseMs, RetryMs, DeadlineMs, ReceiptMs, ClockSkewMs,
    MaxAttempts,            \* MAX_FORWARD_ATTEMPTS
    MaterialGap,            \* MATERIAL_MAINTENANCE_GAP_MS
    MaintenanceLimit,       \* keys one maintenance call takes
    TimeMax, TokenMax,      \* bounds on the clock and on forward attempts
    None

VARIABLES
    st,         \* the MemoryRelayStore
    now,        \* the clock
    todo,       \* keys the running maintenance call may still take
    last,       \* lastMaintenance of the gateway
    inflight,   \* attempts whose fetch is pending
    sent,       \* envelopes posted to a peer, delivered late or never
    peerHas,    \* envelopes the peers have accepted
    placed,     \* history: envelopes ever put in a mailbox
    left        \* history: endpoints that disconnected and did not return

world == <<inflight, sent, peerHas>>
vars == <<st, now, todo, last, inflight, sent, peerHas, placed, left>>

SessionOf(e) == e[1]
GenerationOf(e) == e[2]
Roles == {"source", "target"}
Address == Endpoints \cup Peers

Envelope == [id : Ids, source : Address, target : Address, created : Nat]

Final == {"acknowledged", "forwarded", "unconfirmed"}
Receipt == [envelope : Envelopes,
            state : {"mailbox", "forwarding"} \cup Final,
            attempts : Nat, next : Nat, token : Nat,
            deadline : Int, expires : Int]

NotIndexed == -1    \* no entry in the expiry index
NoToken == 0

ASSUME RelayAssumption ==
    /\ Endpoints \subseteq Sessions \X Generations \X Nat
    /\ Envelopes \subseteq Envelope
    /\ TimeMax \in Nat /\ TokenMax \in Nat
    /\ LeaseMs \in Nat /\ RetryMs \in Nat /\ MaxAttempts \in Nat
    /\ DeadlineMs \in Nat /\ ClockSkewMs \in Nat /\ ReceiptMs \in Nat
    /\ MaterialGap \in Nat \ {0} /\ MaintenanceLimit \in Nat \ {0}
    /\ Peers \cap Endpoints = {}
    /\ None \notin Receipt /\ None \notin Endpoints

(* receiptMs is 900 s, deadlineMs 120 s and clockSkewMs 30 s: a receipt    *)
(* outlives the time in which its envelope may be admitted.                *)
ASSUME ReceiptOutlivesEnvelope == ReceiptMs >= DeadlineMs + 2 * ClockSkewMs

-----------------------------------------------------------------------------
Held(s) == {i \in Ids : s.rc[i] # None}

(* #activeRegistration.                                                    *)
Active(s, e) ==
    /\ e \in s.reg
    /\ s.sessions[SessionOf(e)] = e
    /\ s.lease[e] > now

(* The references that the receipts D hold on endpoint e.                  *)
RefsIn(s, D, e) ==
    {p \in D \X Roles : s.rc[p[1]] # None /\ s.rc[p[1]].envelope[p[2]] = e}

(* #forget, for every receipt in D: an endpoint that loses its last        *)
(* reference is due at the end of its lease.                               *)
Forget(s, D) ==
    LET drop == [e \in Endpoints |-> Cardinality(RefsIn(s, D, e))]
    IN [s EXCEPT
        !.rc = [i \in Ids |-> IF i \in D THEN None ELSE s.rc[i]],
        !.rdue = [i \in Ids |-> IF i \in D THEN NotIndexed ELSE s.rdue[i]],
        !.refs = [e \in Endpoints |-> IF e \in s.reg THEN s.refs[e] - drop[e]
                                                     ELSE s.refs[e]],
        !.gdue = [e \in Endpoints |->
                    IF e \in s.reg /\ drop[e] > 0 /\ s.refs[e] = drop[e]
                    THEN s.lease[e] ELSE s.gdue[e]]]

(* Mutant of Release: a forwarded payload keeps its place at the peer.     *)
ReleaseKeepingRoute(s, D) ==
    LET gone == D \cap s.payloads
        mailed == {i \in gone : s.rc[i].state = "mailbox"}
    IN [s EXCEPT
        !.payloads = s.payloads \ D,
        !.bytes = @ - Cardinality(gone),
        !.mailbox = [e \in Endpoints |-> s.mailbox[e] \
                        {i \in mailed : s.rc[i].envelope.target = e}]]

(* #releasePayload, for every receipt in D.                                *)
Release(s, D) ==
    LET gone == D \cap s.payloads
        mailed == {i \in gone : s.rc[i].state = "mailbox"}
        To(S, a) == {i \in S : s.rc[i].envelope.target = a}
    IN [s EXCEPT
        !.payloads = s.payloads \ D,
        !.bytes = @ - Cardinality(gone),
        !.mailbox = [e \in Endpoints |-> s.mailbox[e] \ To(mailed, e)],
        !.items = [p \in Peers |->
                      s.items[p] - Cardinality(To(gone \ mailed, p))]]

(* #terminal.                                                              *)
Terminal(s, i, state) ==
    [Release(s, {i}) EXCEPT
        !.rc[i].state = state,
        !.rc[i].token = NoToken,
        !.rc[i].expires = now + ReceiptMs,
        !.rdue[i] = now + ReceiptMs]

(* #receipt: a lookup forgets an expired receipt.                          *)
LookUp(s, i) ==
    IF s.rc[i] # None /\ s.rc[i].state \in Final /\ s.rc[i].expires <= now
    THEN Forget(s, {i}) ELSE s

(* Mutant of InWindow: an old envelope is admitted.                        *)
InWindowOpenEnded(env) == env.created <= now + ClockSkewMs

(* The clock test of #admit.                                               *)
InWindow(env) ==
    /\ env.created <= now + ClockSkewMs
    /\ now < env.created + DeadlineMs + ClockSkewMs

(* The limits #admit tests.                                                *)
HasRoom(s, env) ==
    /\ Cardinality(s.payloads) < ActiveItems /\ s.bytes < ActiveItems
    /\ Cardinality(Held(s)) < Receipts
    /\ env.target \in Endpoints => Cardinality(s.mailbox[env.target]) < MailboxItems
    /\ env.target \in Peers => s.items[env.target] < PeerItems

(* #admit with the mailbox or route entry its two callers add.             *)
Admit(s, env) ==
    LET i == env.id
        mail == env.target \in Endpoints
        window == env.created + DeadlineMs + ClockSkewMs
        limit == IF now + DeadlineMs < window THEN now + DeadlineMs ELSE window
        Adds(e) == Cardinality({r \in Roles : env[r] = e})
    IN [s EXCEPT
        !.rc[i] = [envelope |-> env,
                   state |-> IF mail THEN "mailbox" ELSE "forwarding",
                   attempts |-> 0, next |-> now, token |-> NoToken,
                   deadline |-> limit, expires |-> NotIndexed],
        !.payloads = s.payloads \cup {i},
        !.bytes = @ + 1,
        !.refs = [e \in Endpoints |-> s.refs[e] + Adds(e)],
        !.gdue = [e \in Endpoints |-> IF Adds(e) > 0 THEN NotIndexed
                                                     ELSE s.gdue[e]],
        !.rdue[i] = IF mail THEN NotIndexed ELSE limit,
        !.mailbox = [e \in Endpoints |-> IF e = env.target
                        THEN s.mailbox[e] \cup {i} ELSE s.mailbox[e]],
        !.items = [p \in Peers |-> IF p = env.target THEN s.items[p] + 1
                                                     ELSE s.items[p]]]

(* Mutant of Doomed: accepted mail of a sender is dropped with it.         *)
DoomedWithSender(s, e) ==
    {i \in Held(s) : \E r \in Roles : s.rc[i].envelope[r] = e}

(* The receipts that #retire discards: what endpoint e would receive, and  *)
(* what it sent unless another endpoint has it in its mailbox.             *)
Doomed(s, e) ==
    {i \in Held(s) : \/ s.rc[i].envelope.target = e
                     \/ /\ s.rc[i].envelope.source = e
                        /\ s.rc[i].state # "mailbox"}

(* The record of an endpoint is deleted, with its lease and its count.     *)
Unregister(s, e) ==
    [s EXCEPT !.reg = @ \ {e}, !.touched = @ \ {e},
              !.lease[e] = 0, !.refs[e] = 0, !.gdue[e] = NotIndexed]

(* #retire.                                                                *)
Retire(s, e) ==
    LET D == Doomed(s, e)
    IN  Unregister(Forget(Release(s, D), D), e)

(* An entry of `registrations` is issued or renewed.                       *)
Renew(s, e) ==
    [s EXCEPT !.reg = s.reg \cup {e},
              !.used = s.used \cup {e},
              !.sessions[SessionOf(e)] = e,
              !.lease[e] = now + LeaseMs,
              !.touched = s.touched \cup {e},
              !.gdue[e] = IF s.refs[e] = 0 THEN now + LeaseMs ELSE @]

-----------------------------------------------------------------------------
Idle == todo = 0

Init ==
    /\ st = [reg |-> {}, used |-> {}, touched |-> {}, routes |-> {},
             sessions |-> [s \in Sessions |-> None],
             lease |-> [e \in Endpoints |-> 0],
             refs |-> [e \in Endpoints |-> 0],
             mailbox |-> [e \in Endpoints |-> {}],
             gdue |-> [e \in Endpoints |-> NotIndexed],
             rc |-> [i \in Ids |-> None],
             rdue |-> [i \in Ids |-> NotIndexed],
             payloads |-> {}, bytes |-> 0,
             items |-> [p \in Peers |-> 0], tokens |-> 0]
    /\ now = 0 /\ todo = 0 /\ last = 0
    /\ inflight = {} /\ sent = {} /\ peerHas = {}
    /\ placed = {} /\ left = {}

(* register: the same generation renews its endpoint, another one replaces *)
(* it by an endpoint with a new id.                                        *)
Register(s, g) ==
    LET prior == st.sessions[s]
        renews == prior # None /\ GenerationOf(prior) = g
    IN  /\ Idle
        /\ \/ renews /\ st' = Renew(st, prior) /\ left' = left \ {prior}
           \/ /\ ~renews
              /\ prior = None => Cardinality(st.reg) < Registrations
              /\ \E e \in Endpoints \ st.used :
                    /\ SessionOf(e) = s /\ GenerationOf(e) = g
                    /\ st' = Renew(IF prior = None THEN st ELSE Retire(st, prior), e)
              /\ left' = left \ {prior}
        /\ UNCHANGED <<now, todo, last, world, placed>>

(* disconnect: the lease ends now.                                         *)
Disconnect(e) ==
    /\ Idle /\ Active(st, e)
    /\ st' = [st EXCEPT !.lease[e] = now,
                        !.touched = @ \cup {e},
                        !.gdue[e] = IF st.refs[e] = 0 THEN now ELSE @]
    /\ left' = left \cup {e}
    /\ UNCHANGED <<now, todo, last, world, placed>>

(* peerRoute: the alias of a peer, made once.                             *)
RouteTo(s, p) ==
    IF Cardinality(s.routes) < Routes THEN [s EXCEPT !.routes = @ \cup {p}]
                                      ELSE s

(* resolvePeer.                                                            *)
ResolvePeer(p) ==
    /\ Idle
    /\ st' = RouteTo(st, p)
    /\ UNCHANGED <<now, todo, last, world, placed, left>>

(* accept.  A known id is a duplicate or a conflict; a rejected envelope   *)
(* may still have expired a receipt.                                       *)
Accepts(s0, env) ==
    LET s == LookUp(s0, env.id)
        new == s.rc[env.id] = None /\ InWindow(env) /\ HasRoom(s, env)
    IN  /\ st' = IF new THEN Admit(s, env) ELSE s
        /\ placed' = IF new THEN placed \cup {env} ELSE placed
        /\ UNCHANGED <<now, todo, last, world, left>>

(* An agent sends to an endpoint of this relay.                            *)
Send(env) ==
    /\ Idle
    /\ env.source \in Endpoints /\ env.target \in Endpoints
    /\ Active(st, env.source) /\ Active(st, env.target)
    /\ Accepts(st, env)

(* #receivePeer: a peer forwards an envelope to an endpoint of this relay. *)
ReceivePeer(env) ==
    /\ Idle
    /\ env.source \in Peers /\ env.target \in Endpoints
    /\ Active(st, env.target)
    /\ env.source \in RouteTo(st, env.source).routes
    /\ Accepts(RouteTo(st, env.source), env)

(* acknowledge.                                                            *)
Acknowledge(e, i) ==
    LET s == LookUp(st, i)
        mine == /\ s.rc[i] # None
                /\ s.rc[i].envelope.target = e
                /\ s.rc[i].state = "mailbox"
    IN  /\ Idle /\ Active(st, e)
        /\ st' = IF mine THEN Terminal(s, i, "acknowledged") ELSE s
        /\ UNCHANGED <<now, todo, last, world, placed, left>>

(* The receipt beginForward works on, admitted if there is none.           *)
Queued(env) ==
    LET s == LookUp(st, env.id)
    IN  IF s.rc[env.id] = None /\ InWindow(env) /\ HasRoom(s, env)
        THEN Admit(s, env) ELSE s

CanForward(env) ==
    /\ Idle
    /\ env.source \in Endpoints /\ env.target \in Peers
    /\ Active(st, env.source) /\ env.target \in st.routes

(* The receipt may be tried again: no attempt is pending, its cool-down is *)
(* over and its deadline is not.                                           *)
MayAttempt(r) ==
    /\ r.state = "forwarding" /\ r.token = NoToken
    /\ now < r.deadline /\ now >= r.next

(* beginForward that starts an attempt; #attempt posts the envelope.       *)
BeginForward(env) ==
    LET s == Queued(env)
        i == env.id
    IN  /\ CanForward(env)
        /\ st.tokens < TokenMax
        /\ s.rc[i] # None /\ s.rc[i].envelope = env /\ MayAttempt(s.rc[i])
        /\ st' = [s EXCEPT !.rc[i].attempts = @ + 1,
                           !.rc[i].next = now + RetryMs,
                           !.rc[i].token = st.tokens + 1,
                           !.tokens = st.tokens + 1,
                           !.rdue[i] = NotIndexed]
        /\ inflight' = inflight \cup {[envelope |-> env, token |-> st.tokens + 1]}
        /\ sent' = sent \cup {env}
        /\ UNCHANGED <<now, todo, last, peerHas, placed, left>>

(* beginForward that reports a state, past the deadline an unconfirmed one.*)
ReportForward(env) ==
    LET s == Queued(env)
        i == env.id
        same == s.rc[i] # None /\ s.rc[i].envelope = env
    IN  /\ CanForward(env)
        /\ same => ~MayAttempt(s.rc[i])
        /\ st' = IF /\ same
                    /\ s.rc[i].state = "forwarding" /\ s.rc[i].token = NoToken
                    /\ now >= s.rc[i].deadline
                 THEN Terminal(s, i, "unconfirmed") ELSE s
        /\ UNCHANGED <<now, todo, last, world, placed, left>>

(* A peer handles a posted envelope, however late.                         *)
PeerAccepts(env) ==
    /\ Idle /\ env \in sent
    /\ peerHas' = peerHas \cup {env}
    /\ UNCHANGED <<st, now, todo, last, inflight, sent, placed, left>>

(* Mutant of Settles: a reply settles whatever is forwarded under its id.  *)
SettlesAnyToken(s, a) ==
    LET r == s.rc[a.envelope.id]
    IN  r # None /\ r.state = "forwarding"

(* finishForward's test that the attempt is the current one.               *)
Settles(s, a) ==
    LET r == s.rc[a.envelope.id]
    IN  r # None /\ r.state = "forwarding" /\ r.token = a.token

(* Mutant of Finish: a failed attempt is not indexed again.                *)
FinishUnindexed(s, a, outcome) ==
    LET i == a.envelope.id
    IN  IF ~Settles(s, a) THEN s
        ELSE IF outcome = "confirmed" THEN Terminal(s, i, "forwarded")
        ELSE [s EXCEPT !.rc[i].token = NoToken]

(* finishForward.                                                          *)
Finish(s, a, outcome) ==
    LET i == a.envelope.id
    IN  IF ~Settles(s, a) THEN s
        ELSE IF outcome = "confirmed" THEN Terminal(s, i, "forwarded")
        ELSE IF \/ outcome = "rejected"
                \/ s.rc[i].attempts >= MaxAttempts
                \/ now >= s.rc[i].deadline
             THEN Terminal(s, i, "unconfirmed")
             ELSE [s EXCEPT !.rc[i].token = NoToken,
                            !.rdue[i] = s.rc[i].deadline]

(* forwardStatus.                                                          *)
Observe(s, i) ==
    LET u == LookUp(s, i)
    IN  IF /\ u.rc[i] # None /\ u.rc[i].state = "forwarding"
           /\ u.rc[i].token = NoToken /\ now >= u.rc[i].deadline
        THEN Terminal(u, i, "unconfirmed") ELSE u

(* The end of #attempt: the peer's answer, or none within the time limit.  *)
FinishAttempt(a, outcome) ==
    /\ Idle
    /\ outcome = "confirmed" => a.envelope \in peerHas
    /\ st' = Observe(Finish(st, a, outcome), a.envelope.id)
    /\ inflight' = inflight \ {a}
    /\ UNCHANGED <<now, todo, last, sent, peerHas, placed, left>>

(* compensateLiveRegistrationLeases: leases that were live at the previous *)
(* maintenance and not changed since are extended by the gap.              *)
Compensate(s) ==
    LET moved == {e \in s.reg \ s.touched : s.lease[e] > last}
        lease == [e \in Endpoints |-> IF e \in moved THEN s.lease[e] + now - last
                                                     ELSE s.lease[e]]
    IN  IF now - last < MaterialGap THEN s
        ELSE [s EXCEPT !.lease = lease,
                       !.gdue = [e \in Endpoints |->
                           IF e \in moved /\ s.refs[e] = 0 THEN lease[e]
                                                           ELSE s.gdue[e]]]

(* The gateway's maintenance: compensation, then the store's maintenance,  *)
(* whose loop takes the steps TakeRegistration and TakeReceipt.            *)
Maintenance ==
    /\ Idle
    /\ st' = [Compensate(st) EXCEPT !.touched = {}]
    /\ last' = now
    /\ todo' = MaintenanceLimit
    /\ UNCHANGED <<now, world, placed, left>>

(* The due times in the index that have come.                              *)
Due == {st.gdue[e] : e \in Endpoints} \cup {st.rdue[i] : i \in Ids}
TakesDue(at) ==
    /\ todo > 0
    /\ at # NotIndexed /\ at <= now
    /\ \A t \in Due : t # NotIndexed => at <= t
    /\ todo' = todo - 1
    /\ UNCHANGED <<now, last, world, placed, left>>

(* maintenance takes a registration's key.                                 *)
TakeRegistration(e) ==
    /\ TakesDue(st.gdue[e])
    /\ st' = IF e \notin st.reg \/ st.refs[e] # 0
             THEN [st EXCEPT !.gdue[e] = NotIndexed]
             ELSE [Unregister(st, e) EXCEPT
                     !.sessions[SessionOf(e)] = IF @ = e THEN None ELSE @]

(* maintenance takes a receipt's key.                                      *)
TakeReceipt(i) ==
    /\ TakesDue(st.rdue[i])
    /\ st' = IF st.rc[i] = None THEN [st EXCEPT !.rdue[i] = NotIndexed]
             ELSE IF st.rc[i].state = "forwarding"
                  THEN Terminal(st, i, "unconfirmed")
                  ELSE Forget(st, {i})

(* Nothing is due: maintenance returns.                                    *)
MaintenanceEnds ==
    /\ todo > 0
    /\ \A t \in Due : t = NotIndexed \/ t > now
    /\ todo' = 0
    /\ UNCHANGED <<st, now, last, world, placed, left>>

Tick ==
    /\ Idle /\ now < TimeMax
    /\ now' = now + 1
    /\ UNCHANGED <<st, todo, last, world, placed, left>>

FetchEnds ==
    \E a \in inflight, outcome \in {"confirmed", "retryable", "rejected"} :
        FinishAttempt(a, outcome)

MaintenanceStep ==
    \/ \E e \in Endpoints : TakeRegistration(e)
    \/ \E i \in Ids : TakeReceipt(i)
    \/ MaintenanceEnds

Next ==
    \/ \E s \in Sessions, g \in Generations : Register(s, g)
    \/ \E e \in st.reg : Disconnect(e)
    \/ \E p \in Peers : ResolvePeer(p)
    \/ \E env \in Envelopes : Send(env)
    \/ \E env \in Envelopes : ReceivePeer(env)
    \/ \E e \in st.reg, i \in Ids : Acknowledge(e, i)
    \/ \E env \in Envelopes : BeginForward(env)
    \/ \E env \in Envelopes : ReportForward(env)
    \/ \E env \in sent : PeerAccepts(env)
    \/ FetchEnds
    \/ Maintenance \/ MaintenanceStep
    \/ Tick

Spec == Init /\ [][Next]_vars

(* The clock runs, the timer fires and its call runs to the end, and a     *)
(* fetch ends within its time limit.  No agent and no peer has to act.     *)
FairSpec ==
    /\ Spec
    /\ WF_vars(Maintenance) /\ WF_vars(MaintenanceStep)
    /\ SF_vars(Tick) /\ SF_vars(FetchEnds)

-----------------------------------------------------------------------------
InState(S) == {i \in Held(st) : st.rc[i].state \in S}
AddressedTo(a) == {i \in Held(st) : st.rc[i].envelope.target = a}

(* Whatever path a receipt takes to its end, the payload, the mailbox      *)
(* place and the place at the peer it was admitted with are given back:    *)
(* the counters of the store equal what its receipts still hold.           *)
CapacityReturned ==
    /\ st.payloads = InState({"mailbox", "forwarding"})
    /\ st.bytes = Cardinality(st.payloads)
    /\ \A i \in InState({"mailbox"}) : st.rc[i].envelope.target \in st.reg
    /\ \A e \in st.reg : st.mailbox[e] = InState({"mailbox"}) \cap AddressedTo(e)
    /\ \A p \in Peers :
          st.items[p] = Cardinality(InState({"forwarding"}) \cap AddressedTo(p))

(* An endpoint that disconnected stays disconnected, until its generation  *)
(* registers again: no compensation for a timer gap revives it.            *)
LeftStaysLeft == \A e \in left : st.lease[e] <= now

(* The bookkeeping agrees with the receipts: capacity is given back; a     *)
(* registration counts the receipts that name it (too few, and it expires  *)
(* under its mail; too many, and it stays); an endpoint that left holds no *)
(* lease; and the expiry index holds exactly what maintenance has to look  *)
(* at, each at the time it is due.                                         *)
StoreExact ==
    /\ CapacityReturned /\ LeftStaysLeft
    /\ \A e \in st.reg : st.refs[e] = Cardinality(RefsIn(st, Ids, e))
    /\ \A e \in Endpoints :
          st.gdue[e] = IF e \in st.reg /\ st.refs[e] = 0 THEN st.lease[e]
                                                        ELSE NotIndexed
    /\ \A i \in Ids :
          st.rdue[i] = IF i \in InState(Final) THEN st.rc[i].expires
                       ELSE IF i \in InState({"forwarding"}) /\ st.rc[i].token = NoToken
                            THEN st.rc[i].deadline
                            ELSE NotIndexed

(* A forward is confirmed only if the peer has that very envelope: the     *)
(* late answer to an attempt of an earlier envelope with the same id       *)
(* confirms nothing.                                                       *)
ForwardedIsAccepted ==
    \A i \in InState({"forwarded"}) : st.rc[i].envelope \in peerHas

(* An envelope is put in a mailbox once: a repeated send is recognised for *)
(* as long as the envelope is young enough to be admitted.                 *)
Mailed(s) == {s.rc[i].envelope : i \in {k \in Held(s) : s.rc[k].state = "mailbox"}}
DeliveredOnce ==
    [][ (Mailed(st') \ Mailed(st)) \cap placed = {} ]_vars

(* Mail that was accepted stays in its mailbox until it is acknowledged or *)
(* its receiver is replaced: not the clock and not the end of its sender   *)
(* removes it.                                                             *)
AcceptedMailKept ==
    [][ \A i \in InState({"mailbox"}) :
            \/ st.rc[i].envelope.target \notin st'.reg
            \/ /\ st'.rc[i] # None
               /\ st'.rc[i].envelope = st.rc[i].envelope
               /\ st'.rc[i].state \in {"mailbox", "acknowledged"} ]_vars

(* Nothing stays overdue: a forward ends, confirmed or not, whatever the   *)
(* peer does, and finished receipts and registrations without references   *)
(* are removed when they have expired.                                     *)
Overdue ==
    \/ \E i \in InState({"forwarding"}) : st.rc[i].deadline <= now
    \/ \E i \in InState(Final) : st.rc[i].expires <= now
    \/ \E e \in st.reg : st.refs[e] = 0 /\ st.lease[e] <= now
NothingOverdue == []<>~Overdue
=============================================================================
