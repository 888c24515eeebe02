------------------------------ MODULE TaskPeer ------------------------------
(***************************************************************************)
(* A durable task between two machines (src/tasks/gateway.ts, with the     *)
(* ledgers of store.ts and the sweeps of lifecycle.ts).                    *)
(*                                                                         *)
(* The sender's machine keeps the canonical ledger S, the receiver's the   *)
(* replica R.  Each gateway serves requests of its own sessions (ha, hb)   *)
(* and posts of the other gateway (inA, inB).  A request is a program: the *)
(* sequence of the durable steps it has still to take, each one an action, *)
(* so that requests, incoming posts and crashes interleave between any two *)
(* ledger appends.  Every request sweeps first: it redelivers outbox       *)
(* intents, times the task out, purges retained payloads; the first        *)
(* request after a start also runs the start-up recovery.                  *)
(*                                                                         *)
(* One task is followed from its send to the purge of its ledgers.  The    *)
(* sender's outbox is keyed by the sequence of the event, the receiver's   *)
(* by the number of the intent; ids are <<"a", seq>> for an event the      *)
(* sender's gateway makes and <<"b", k>> for the receiver's k-th intent.   *)
(***************************************************************************)
EXTENDS TaskState, FiniteSets, SequencesExt

CONSTANTS SenderSlots,      \* requests the sender's gateway serves at once
          Askers,           \* the slots among them whose sessions send, write, cancel and acknowledge
          Pollers,          \* the slots among them whose sessions poll
          ReceiverSlots,    \* requests the receiver's gateway serves at once
          ParentMessages,   \* message types the parent sends
          ReceiverMessages, \* message types the receiver sends
          Endings,          \* terminal types the receiver reports
          MaxAttempts,      \* posts of one outbox event (4 in the code)
          ParentMax,        \* messages and cancellations the parent asks for
          IntentMax,        \* events the receiver asks for
          EventMax,         \* bound on canonical events, never met (LedgersReload)
          LateMax,          \* posts given up by their caller that are still under way
          FaultMax          \* assignments refused, posts lost or given up, crashes of either gateway

ASSUME PeerAssumption ==
    /\ Askers \cup Pollers = SenderSlots /\ MaxAttempts \in Nat \ {0} /\ ParentMax \in Nat /\ IntentMax \in Nat /\ EventMax \in Nat
    /\ LateMax \in Nat /\ FaultMax \in Nat
    /\ ParentMessages \subseteq {"QUESTION", "ANSWER", "INFORMATION"}
    /\ ReceiverMessages \subseteq {"QUESTION", "ANSWER", "INFORMATION"}
    /\ Endings \subseteq {"COMPLETED", "FAILED", "CANCELLED"}

VARIABLES
    S,       \* the canonical ledger: state, parent inbox, outbox
    R,       \* the replica: receipt, state, receiver inbox, outbox, acknowledgements
    ha, hb,  \* the program of each request slot of the two gateways
    inA, inB,\* the incoming post each gateway is handling, or None
    net,     \* posts under way
    boot,    \* start-up recovery of each gateway
    clock,   \* which deadlines have passed
    faults

vars == <<S, R, ha, hb, inA, inB, net, boot, clock, faults>>

Seqs == 1..EventMax
InternalTypes == {"CREATED", "RECEIVED", "RECEIPT_CONFIRMED", "PARENT_ACK_PENDING", "PARENT_ACKNOWLEDGED"}

(* Which events go to the inbox of the parent and of the receiver. *)
parentSees(e) == e.type \notin InternalTypes /\ destinationFor(e) = "parent"
receiverSees(e) ==
    /\ e.type \notin InternalTypes \/ e.type = "CREATED"
    /\ destinationFor(e) = "receiver" \/ e.type = "TIMED_OUT"

(* The answer to a post: none yet, a failure, or the sequence of the event (Ok from the replica). *)
Failed == 0
Ok == 1

Idle == <<>>
Step(do, x) == [do |-> do, x |-> x]
Steps(names) == [i \in DOMAIN names |-> Step(names[i], None)]
Doing(h, p, do) == h[p] # Idle /\ Head(h[p]).do = do
Arg(h, p) == Head(h[p]).x
Rest(h, p) == Tail(h[p])
Then(h, p, program) == [h EXCEPT ![p] = program]

Init ==
    /\ S = [open |-> FALSE, gone |-> FALSE, st |-> createTaskState, inbox |-> {},
            intents |-> {}, attempts |-> [n \in Seqs |-> 0], delivered |-> {}, exhausted |-> {}]
    /\ R = [open |-> FALSE, gone |-> FALSE, st |-> createTaskState, inbox |-> {}, receipt |-> FALSE,
            intents |-> <<>>, attempts |-> <<>>, delivered |-> {}, exhausted |-> {},
            acks |-> {}, cleanup |-> FALSE]
    /\ ha = [p \in SenderSlots |-> Idle]
    /\ hb = [p \in ReceiverSlots |-> Idle]
    /\ inA = None /\ inB = None
    /\ net = {}
    /\ boot = [a |-> "yes", b |-> "yes"]
    /\ clock = [expired |-> FALSE, orphaned |-> FALSE, aged |-> FALSE]
    /\ faults = 0
-----------------------------------------------------------------------------
(* An input the sender's gateway makes, and the ledger after committing one. *)
Input(type, actor, ref) ==
    [id |-> <<"a", Len(S.st.events) + 1>>, type |-> type, actor |-> actor, ref |-> ref]
Accepts(input) == acceptSenderEvent(S.st, input) \in {"accepted", "late-terminal"}
Committed(input) == [S EXCEPT !.st = applyCanonicalTaskEvent(@, canonicalEvent(@, input))]

(* What follows a commit of the n-th event in appendBoth: the parent's inbox record. *)
Inboxed(input, n) ==
    IF parentSees(canonicalEvent(S.st, input)) THEN <<Step("inbox", n)>> ELSE <<>>

(* A step that commits an input and goes on with the program, or ends the request. *)
CommitThen(p, input, program, otherwise) ==
    IF Accepts(input)
    THEN /\ S' = Committed(input)
         /\ ha' = Then(ha, p, Inboxed(input, Len(S.st.events) + 1) \o program)
    ELSE /\ S' = S
         /\ ha' = Then(ha, p, otherwise)

(* forwardSenderEvent(n) from the event at first; a failure ends a strict caller, a lax one ignores it. *)
Forward(n, first, strict) == <<Step("forward", [target |-> n, at |-> first, strict |-> strict])>>

(* Intents to redeliver, a deadline to enforce, a payload to drop. *)
NextSeq == Len(S.st.events) + 1
Live == S.open /\ ~S.gone
Redeliveries(due) ==
    [i \in 1..Cardinality(due) |-> Step("deliver", [e |-> SetToSortSeq(due, <)[i], sweep |-> TRUE])]
Undelivereds == IF Live THEN S.intents \ (S.delivered \cup S.exhausted) ELSE {}
OverdueConfirmed ==   \* mutant: only a confirmed task expires
    Live /\ clock.expired /\ S.st.status \notin TerminalTypes /\ Has(S.st, "RECEIPT_CONFIRMED")
Overdue == Live /\ clock.expired /\ S.st.status \notin TerminalTypes
Retired == S.st.status \in TerminalTypes /\ S.st.acked # None /\ clock.aged

(* expireOverdue reads the state, and commits the time-out in a later step; then payloads are cleaned. *)
SweepThen(p, program) ==
    /\ ha' = Then(ha, p, (IF Overdue THEN Steps(<<"timeout">>) ELSE <<>>) \o program)
    /\ S' = IF Retired THEN [S EXCEPT !.gone = TRUE] ELSE S

(* The outbox is redelivered before. *)
ReconcileThen(p, program) ==
    IF Undelivereds = {} THEN SweepThen(p, program)
    ELSE ha' = Then(ha, p, Redeliveries(Undelivereds) \o Steps(<<"sweep">>) \o program) /\ S' = S

(* A request arrives at the sender's gateway: it sweeps, then does what was asked. *)
BeginRequest(p, body) ==
    /\ ha[p] = Idle
    /\ boot.a # "running"
    /\ IF boot.a = "no"
       THEN /\ ha' = Then(ha, p, Steps(<<"recover", "booted">>) \o body)
            /\ boot' = [boot EXCEPT !.a = "running"] /\ S' = S
       ELSE boot' = boot /\ ReconcileThen(p, body)
    /\ UNCHANGED <<R, hb, inA, inB, net, clock, faults>>

(* The parent learns the task's id from the answer to its send or from its inbox. *)
Told == Has(S.st, "RECEIPT_CONFIRMED") \/ S.inbox # {}
Wanted == Live /\ Told /\ Cardinality({i \in DOMAIN S.st.events : S.st.events[i].actor = "parent"}) <= ParentMax
MessageRefs(st, type) == IF type = "ANSWER" THEN IdsOf(st) ELSE {None}

Access(p) == S.open /\ BeginRequest(p, <<>>)
AskSend(p) == ~S.open /\ (\A q \in SenderSlots : ha[q] = Idle) /\ BeginRequest(p, Steps(<<"send">>))
AskMessage(p) ==
    \E type \in ParentMessages : \E ref \in MessageRefs(S.st, type) :
        Wanted /\ BeginRequest(p, <<Step("message", [type |-> type, ref |-> ref])>>)
AskCancel(p) == Wanted /\ BeginRequest(p, Steps(<<"cancel">>))
AskAcknowledge(p) == Told /\ S.st.status \in TerminalTypes /\ BeginRequest(p, Steps(<<"acknowledge">>))
-----------------------------------------------------------------------------
(* The sweep and the start-up recovery at the sender. *)
senderStill == UNCHANGED <<R, hb, inA, inB, net, boot, clock, faults>>

Sweep(p) == Doing(ha, p, "sweep") /\ SweepThen(p, Rest(ha, p)) /\ senderStill

TimeOut(p) ==
    /\ Doing(ha, p, "timeout")
    /\ LET input == Input("TIMED_OUT", "sender", None)
       IN  IF acceptSenderEvent(S.st, input) = "accepted"
           THEN /\ S' = Committed(input)
                /\ ha' = Then(ha, p, <<Step("inbox", NextSeq)>> \o Forward(NextSeq, 3, FALSE) \o Rest(ha, p))
           ELSE /\ S' = IF Accepts(input) THEN Committed(input) ELSE S
                /\ ha' = Then(ha, p, Rest(ha, p))
    /\ senderStill

(* The start-up recovery ends what is overdue or was interrupted before its dispatch, *)
(* redelivers the outbox, then announces what it has ended; the request's own sweep   *)
(* follows.                                                                           *)
Recover(p) ==
    /\ Doing(ha, p, "recover")
    /\ LET interrupted == Live /\ S.st.status = "PENDING_DELIVERY" /\ Has(S.st, "CREATED")
           input == Input(IF Overdue THEN "TIMED_OUT" ELSE "FAILED", "sender", None)
       IN  IF Overdue \/ interrupted
           THEN /\ S' = Committed(input)
                /\ ha' = Then(ha, p, Redeliveries(Undelivereds) \o <<Step("inbox", NextSeq)>>
                                     \o Forward(NextSeq, 3, FALSE) \o Rest(ha, p))
           ELSE /\ S' = IF Retired THEN [S EXCEPT !.gone = TRUE] ELSE S
                /\ ha' = Then(ha, p, Redeliveries(Undelivereds) \o Rest(ha, p))
    /\ senderStill

Inbox(p) ==
    /\ Doing(ha, p, "inbox")
    /\ S' = [S EXCEPT !.inbox = @ \cup {S.st.events[Arg(ha, p)].id}]
    /\ ha' = Then(ha, p, Rest(ha, p)) /\ senderStill

Booted(p) ==
    /\ Doing(ha, p, "booted")
    /\ ReconcileThen(p, Rest(ha, p))
    /\ boot' = [boot EXCEPT !.a = "yes"]
    /\ UNCHANGED <<R, hb, inA, inB, net, clock, faults>>
-----------------------------------------------------------------------------
(* The requests of the parent. *)
Send(p) ==
    /\ Doing(ha, p, "send")
    /\ S' = [S EXCEPT !.open = TRUE]
    /\ ha' = Then(ha, p, Steps(<<"create">>)) /\ senderStill

(* The created event is committed, then the assignment is posted once. *)
Create(p) ==
    /\ Doing(ha, p, "create")
    /\ IF Accepts(Input("CREATED", "parent", None))
       THEN /\ S' = Committed(Input("CREATED", "parent", None))
            /\ ha' = Then(ha, p, <<Step("assign", [reply |-> None])>>)
            /\ net' = net \cup {[to |-> "b", e |-> 0, by |-> p]}
       ELSE S' = S /\ ha' = Then(ha, p, Idle) /\ net' = net
    /\ UNCHANGED <<R, hb, inA, inB, boot, clock, faults>>

Assigned(p) ==
    /\ Doing(ha, p, "assign") /\ Arg(ha, p).reply = Ok
    /\ CommitThen(p, Input("RECEIVED", "receiver", None), Steps(<<"confirm">>), Idle)
    /\ senderStill

Unassigned(p) ==
    /\ Doing(ha, p, "assign") /\ Arg(ha, p).reply = Failed
    /\ CommitThen(p, Input("FAILED", "sender", None), Idle, Idle)
    /\ senderStill

Confirm(p) ==
    /\ Doing(ha, p, "confirm")
    /\ CommitThen(p, Input("RECEIPT_CONFIRMED", "sender", None), Forward(NextSeq, NextSeq, FALSE), Idle)
    /\ senderStill

Message(p) ==
    /\ Doing(ha, p, "message")
    /\ IF S.gone THEN S' = S /\ ha' = Then(ha, p, Idle)
       ELSE CommitThen(p, Input(Arg(ha, p).type, "parent", Arg(ha, p).ref), Forward(NextSeq, 3, TRUE), Idle)
    /\ senderStill

Cancel(p) ==
    /\ Doing(ha, p, "cancel")
    /\ IF S.gone THEN S' = S /\ ha' = Then(ha, p, Idle)
       ELSE CommitThen(p, Input("CANCEL_REQUESTED", "parent", None), Forward(NextSeq, 3, TRUE), Idle)
    /\ senderStill

Acknowledge(p) ==
    /\ Doing(ha, p, "acknowledge")
    /\ ha' = Then(ha, p, IF S.gone THEN Idle
                         ELSE Steps(IF S.st.pending = None THEN <<"pend", "settle">> ELSE <<"settle">>))
    /\ S' = S /\ senderStill

AckPending(p) ==
    /\ Doing(ha, p, "pend")
    /\ CommitThen(p, Input("PARENT_ACK_PENDING", "sender", None), Rest(ha, p), Idle)
    /\ senderStill

(* Mutant: the acknowledgement goes on although the pending one was not delivered. *)
AckSettleAnyway(p) ==
    /\ Doing(ha, p, "settle")
    /\ ha' = Then(ha, p, IF S.st.acked # None THEN Forward(EventWith(S.st, S.st.acked).seq, 3, TRUE)
                         ELSE Forward(EventWith(S.st, S.st.pending).seq, 3, FALSE) \o Steps(<<"ack">>))
    /\ S' = S /\ senderStill

(* The pending acknowledgement is forwarded first, or the final one again. *)
AckSettle(p) ==
    /\ Doing(ha, p, "settle")
    /\ ha' = Then(ha, p, IF S.st.acked # None THEN Forward(EventWith(S.st, S.st.acked).seq, 3, TRUE)
                         ELSE Forward(EventWith(S.st, S.st.pending).seq, 3, TRUE) \o Steps(<<"ack">>))
    /\ S' = S /\ senderStill

Ack(p) ==
    /\ Doing(ha, p, "ack")
    /\ CommitThen(p, Input("PARENT_ACKNOWLEDGED", "sender", S.st.pending), Forward(NextSeq, 3, TRUE), Idle)
    /\ senderStill
-----------------------------------------------------------------------------
(* The outbox of the sender. *)
Failing(p) ==   \* the delivery at the head of p's program has failed
    IF Arg(ha, p).sweep THEN Rest(ha, p)
    ELSE IF Head(Rest(ha, p)).x.strict THEN Idle ELSE Tail(Rest(ha, p))

LockedBy(h, e) == {q \in DOMAIN h : \E do \in {"post", "giveUp", "diagnose"} : Doing(h, q, do) /\ Arg(h, q).e = e}

(* Intents are recorded up to the first event of the range still to be delivered. *)
ForwardNext(p) ==
    /\ Doing(ha, p, "forward")
    /\ LET x == Arg(ha, p)
           open == {i \in x.at..x.target : i \notin S.delivered /\ (i \notin S.exhausted \/ i = x.target)}
           i == CHOOSE j \in open : \A k \in open : j <= k
       IN  IF S.gone THEN S' = S /\ ha' = Then(ha, p, Idle)
           ELSE IF open = {} THEN /\ S' = [S EXCEPT !.intents = @ \cup (x.at..x.target)]
                                  /\ ha' = Then(ha, p, Rest(ha, p))
           ELSE /\ S' = [S EXCEPT !.intents = @ \cup (x.at..i)]
                /\ ha' = Then(ha, p, IF i \in S.exhausted THEN IF x.strict THEN Idle ELSE Rest(ha, p)
                                     ELSE <<Step("deliver", [e |-> i, sweep |-> FALSE]),
                                            Step("forward", [x EXCEPT !.at = i + 1])>> \o Rest(ha, p))
    /\ senderStill

(* One attempt: its record is durable before the post leaves. *)
Attempt(p, e, sweep, n) ==
    /\ S' = [S EXCEPT !.attempts[e] = IF @ < n THEN n ELSE @]
    /\ ha' = Then(ha, p, <<Step("post", [e |-> e, sweep |-> sweep, n |-> n, reply |-> None])>> \o Rest(ha, p))
    /\ net' = net \cup {[to |-> "b", e |-> e, by |-> p]}
    /\ UNCHANGED <<R, hb, inA, inB, boot, clock, faults>>

Deliver(p) ==
    /\ Doing(ha, p, "deliver")
    /\ LET e == Arg(ha, p).e
       IN  /\ LockedBy(ha, e) = {}
           /\ \/ /\ S.gone \/ e \in S.delivered \cup S.exhausted
                 /\ ha' = Then(ha, p, IF ~S.gone /\ e \in S.delivered THEN Rest(ha, p) ELSE Failing(p))
                 /\ S' = S /\ senderStill
              \/ /\ ~S.gone /\ e \notin S.delivered \cup S.exhausted
                 /\ IF S.attempts[e] >= MaxAttempts
                    THEN /\ ha' = Then(ha, p, <<Step("giveUp", Arg(ha, p))>> \o Rest(ha, p))
                         /\ S' = S /\ senderStill
                    ELSE Attempt(p, e, Arg(ha, p).sweep, S.attempts[e] + 1)

Delivered(p) ==
    /\ Doing(ha, p, "post") /\ Arg(ha, p).reply = Ok
    /\ S' = [S EXCEPT !.delivered = @ \cup {Arg(ha, p).e}]
    /\ ha' = Then(ha, p, Rest(ha, p)) /\ senderStill

Undelivered(p) ==
    /\ Doing(ha, p, "post") /\ Arg(ha, p).reply = Failed
    /\ LET x == Arg(ha, p)
       IN  IF x.n < MaxAttempts THEN Attempt(p, x.e, x.sweep, x.n + 1)
           ELSE /\ ha' = Then(ha, p, <<Step("giveUp", [e |-> x.e, sweep |-> x.sweep])>> \o Rest(ha, p))
                /\ S' = S /\ senderStill

(* recordDeliveryFailure: a canonical event, then the diagnostic that ends the retries. *)
GiveUp(p) ==
    /\ Doing(ha, p, "giveUp")
    /\ IF Accepts(Input("DELIVERY_FAILED", "sender", None))
       THEN /\ S' = Committed(Input("DELIVERY_FAILED", "sender", None))
            /\ ha' = Then(ha, p, <<Step("diagnose", Arg(ha, p))>> \o Rest(ha, p))
       ELSE S' = S /\ ha' = Then(ha, p, Failing(p))
    /\ senderStill

Diagnose(p) ==
    /\ Doing(ha, p, "diagnose")
    /\ S' = [S EXCEPT !.exhausted = @ \cup {Arg(ha, p).e}]
    /\ ha' = Then(ha, p, Failing(p)) /\ senderStill

(* The caller of a post waits no longer than its time-out; the post may still arrive. *)
Abandoned(p) == {IF m.by = p THEN [m EXCEPT !.by = None] ELSE m : m \in net}
Late == {m \in net : m.by = None}
Orphan(slot, p) == IF slot # None /\ slot.by = p THEN [slot EXCEPT !.by = None] ELSE slot

SenderTimeout(p) ==
    /\ Doing(ha, p, "post") \/ Doing(ha, p, "assign")
    /\ Arg(ha, p).reply = None
    /\ ha' = [ha EXCEPT ![p][1].x.reply = Failed]
    /\ \/ net' = {m \in net : m.by # p}
       \/ Cardinality(Late) < LateMax /\ net' = Abandoned(p)
    /\ inB' = Orphan(inB, p)
    /\ faults < FaultMax /\ faults' = faults + 1
    /\ UNCHANGED <<S, R, hb, inA, boot, clock>>
-----------------------------------------------------------------------------
(* The receiver's gateway: requests of the receiving session. *)
receiverStill == UNCHANGED <<S, ha, inA, inB, net, boot, clock, faults>>
Held == R.open /\ ~R.gone
FirstId == <<"a", 1>>

Unmirrored == IF Held THEN {k \in DOMAIN R.intents : R.intents[k].id \notin IdsOf(R.st) /\ k \notin R.exhausted} ELSE {}

(* cleanRetainedPayloads reads the ledger, and purges it in a later step. *)
Purgeable ==
    /\ Held
    /\ IF R.receipt /\ R.st.events = <<>> THEN clock.orphaned
       ELSE R.st.status \in TerminalTypes /\ R.cleanup /\ clock.aged
Purging == IF Purgeable THEN Steps(<<"purge">>) ELSE <<>>

Reconciling == IF Unmirrored = {} THEN Purging ELSE Redeliveries(Unmirrored) \o Steps(<<"clean">>)

BeginReceiverRequest(p, body) ==
    /\ hb[p] = Idle
    /\ boot.b \in {"no", "yes"}
    /\ hb' = Then(hb, p, IF boot.b = "no"
                         THEN Purging \o Redeliveries(Unmirrored) \o Steps(<<"booted">>) \o body
                         ELSE Reconciling \o body)
    /\ boot' = IF boot.b = "no" THEN [boot EXCEPT !.b = "running"] ELSE boot
    /\ UNCHANGED <<S, R, ha, inA, inB, net, clock, faults>>

(* The session acts on a task once its inbox has shown it. *)
Known == Held /\ FirstId \in R.inbox /\ Len(R.intents) < IntentMax

ReceiverAccess(p) == Held /\ BeginReceiverRequest(p, <<>>)
AskReceiverMessage(p) ==
    \E type \in ReceiverMessages : \E ref \in MessageRefs(R.st, type) :
        Known /\ BeginReceiverRequest(p, <<Step("message", [type |-> type, ref |-> ref])>>)
AskComplete(p) == \E type \in Endings : Known /\ BeginReceiverRequest(p, <<Step("complete", type)>>)
AskDelivered(p) == \E id \in R.inbox : Known /\ BeginReceiverRequest(p, <<Step("delivered", id)>>)

(* A throw ends the request, and for good the gateway whose start-up it was. *)
Throw(p) ==
    /\ hb' = Then(hb, p, Idle)
    /\ boot' = IF \E i \in DOMAIN hb[p] : hb[p][i].do = "booted" THEN [boot EXCEPT !.b = "failed"] ELSE boot
    /\ UNCHANGED <<S, R, ha, inA, inB, net, clock, faults>>

ReceiverClean(p) ==
    /\ Doing(hb, p, "clean")
    /\ hb' = Then(hb, p, Purging \o Rest(hb, p))
    /\ R' = R /\ receiverStill

Purge(p) ==
    /\ Doing(hb, p, "purge")
    /\ R' = [R EXCEPT !.gone = TRUE]
    /\ hb' = Then(hb, p, Rest(hb, p)) /\ receiverStill

ReceiverBooted(p) ==
    /\ Doing(hb, p, "booted")
    /\ hb' = Then(hb, p, Reconciling \o Rest(hb, p))
    /\ boot' = [boot EXCEPT !.b = "yes"]
    /\ UNCHANGED <<S, R, ha, inA, inB, net, clock, faults>>

(* The intent of an action is durable before its first attempt. *)
Intend(p, type, ref, program) ==
    LET k == Len(R.intents) + 1
    IN  /\ R' = [R EXCEPT !.intents = Append(@, [id |-> <<"b", k>>, type |-> type, actor |-> "receiver", ref |-> ref]),
                          !.attempts = Append(@, 0)]
        /\ hb' = Then(hb, p, <<Step("deliver", [e |-> k, sweep |-> FALSE])>> \o program)
        /\ UNCHANGED <<S, ha, inA, inB, net, boot, clock, faults>>

Quit(p) == hb' = Then(hb, p, Idle) /\ R' = R /\ receiverStill

ReceiverMessage(p) ==
    /\ Doing(hb, p, "message")
    /\ IF Held THEN Intend(p, Arg(hb, p).type, Arg(hb, p).ref, Idle) ELSE Quit(p)

(* A completion the replica already holds is answered from it. *)
Complete(p) ==
    /\ Doing(hb, p, "complete")
    /\ IF ~Held \/ \E k \in DOMAIN R.intents : R.intents[k].type = Arg(hb, p) /\ R.intents[k].id \in IdsOf(R.st)
       THEN Quit(p) ELSE Intend(p, Arg(hb, p), None, Idle)

ReportDelivered(p) ==
    /\ Doing(hb, p, "delivered")
    /\ LET id == Arg(hb, p)
           prior == {k \in DOMAIN R.intents : R.intents[k].type \in {"DELIVERED", "MESSAGE_DELIVERED"} /\ R.intents[k].ref = id}
           program == <<Step("record", id)>>
       IN  IF ~Held \/ ~\E i \in DOMAIN R.st.events : R.st.events[i].id = id /\ destinationFor(R.st.events[i]) = "receiver"
           THEN Quit(p)
           ELSE IF prior = {} THEN Intend(p, IF id = FirstId THEN "DELIVERED" ELSE "MESSAGE_DELIVERED", id, program)
           ELSE /\ hb' = Then(hb, p, <<Step("deliver", [e |-> CHOOSE k \in prior : TRUE, sweep |-> FALSE])>> \o program)
                /\ R' = R /\ receiverStill

RecordDelivery(p) ==
    /\ Doing(hb, p, "record")
    /\ IF Held THEN /\ R' = [R EXCEPT !.acks = @ \cup {Arg(hb, p)}]
                    /\ hb' = Then(hb, p, Idle) /\ receiverStill
       ELSE Throw(p)
-----------------------------------------------------------------------------
(* The outbox of the receiver. *)
ReceiverFailing(p) == IF Arg(hb, p).sweep THEN Rest(hb, p) ELSE Idle

ReceiverAttempt(p, k, sweep, n) ==
    /\ R' = [R EXCEPT !.attempts[k] = IF @ < n THEN n ELSE @]
    /\ hb' = Then(hb, p, <<Step("post", [e |-> k, sweep |-> sweep, n |-> n, reply |-> None])>> \o Rest(hb, p))
    /\ net' = net \cup {[to |-> "a", e |-> k, by |-> p]}
    /\ UNCHANGED <<S, ha, inA, inB, boot, clock, faults>>

ReceiverGiveUp(p, x) ==
    /\ R' = [R EXCEPT !.exhausted = @ \cup {x.e}]
    /\ hb' = Then(hb, p, IF x.sweep THEN Rest(hb, p) ELSE Idle) /\ receiverStill

ReceiverDeliver(p) ==
    /\ Doing(hb, p, "deliver")
    /\ LET x == Arg(hb, p)
       IN  /\ LockedBy(hb, x.e) = {}
           /\ IF ~Held \/ x.e \in R.exhausted
              THEN hb' = Then(hb, p, ReceiverFailing(p)) /\ R' = R /\ receiverStill
              ELSE IF R.attempts[x.e] >= MaxAttempts THEN ReceiverGiveUp(p, x)
              ELSE ReceiverAttempt(p, x.e, x.sweep, R.attempts[x.e] + 1)

(* The answer carries the canonical event; the replica mirrors it in a later step. *)
ReceiverDelivered(p) ==
    /\ Doing(hb, p, "post") /\ Arg(hb, p).reply \notin {None, Failed}
    /\ IF Held
       THEN /\ R' = [R EXCEPT !.delivered = @ \cup {Arg(hb, p).e}]
            /\ hb' = Then(hb, p, <<Step("mirror", Arg(hb, p).reply)>> \o Rest(hb, p)) /\ receiverStill
       ELSE Throw(p)

ReceiverUndelivered(p) ==
    /\ Doing(hb, p, "post") /\ Arg(hb, p).reply = Failed
    /\ LET x == Arg(hb, p)
       IN  IF ~Held THEN Throw(p)
           ELSE IF x.n < MaxAttempts THEN ReceiverAttempt(p, x.e, x.sweep, x.n + 1)
           ELSE ReceiverGiveUp(p, x)

(* appendEvent: an event already held is reused, one out of sequence throws.  A late *)
(* terminal is addressed to the receiver, and goes to its inbox.                     *)
Mirror(p) ==
    /\ Doing(hb, p, "mirror")
    /\ LET e == S.st.events[Arg(hb, p)]
       IN  IF ~Held \/ (e.id \notin IdsOf(R.st) /\ ~appendable(R.st, e)) THEN Throw(p)
           ELSE /\ R' = IF e.id \in IdsOf(R.st) THEN R ELSE [R EXCEPT !.st = applyCanonicalTaskEvent(@, e)]
                /\ hb' = Then(hb, p, (IF receiverSees(e) THEN <<Step("show", e.id)>> ELSE <<>>) \o Rest(hb, p))
                /\ receiverStill

ReceiverShow(p) ==
    /\ Doing(hb, p, "show")
    /\ IF Held THEN /\ R' = [R EXCEPT !.inbox = @ \cup {Arg(hb, p)}]
                    /\ hb' = Then(hb, p, Rest(hb, p)) /\ receiverStill
       ELSE Throw(p)

ReceiverTimeout(p) ==
    /\ Doing(hb, p, "post") /\ Arg(hb, p).reply = None
    /\ hb' = [hb EXCEPT ![p][1].x.reply = Failed]
    /\ \/ net' = {m \in net : m.by # p}
       \/ Cardinality(Late) < LateMax /\ net' = Abandoned(p)
    /\ inA' = Orphan(inA, p)
    /\ faults < FaultMax /\ faults' = faults + 1
    /\ UNCHANGED <<S, R, ha, inB, boot, clock>>
-----------------------------------------------------------------------------
(* Incoming posts.  The caller gets the answer if it still waits for it. *)
Answer(h, by, reply) == IF by = None THEN h ELSE [h EXCEPT ![by][1].x.reply = reply]

(* acceptPeerEvent at the sender: commit, then the parent's inbox, then the answer. *)
SenderTakes(m) ==
    /\ m \in net /\ m.to = "a" /\ inA = None
    /\ net' = net \ {m}
    /\ LET input == R.intents[m.e]
           outcome == IF S.gone THEN "rejected" ELSE acceptSenderEvent(S.st, input)
       IN  /\ S' = IF outcome \in {"accepted", "late-terminal"} THEN Committed(input) ELSE S
           /\ IF outcome \in {"accepted", "late-terminal"} /\ parentSees(canonicalEvent(S.st, input))
              THEN inA' = [by |-> m.by, n |-> NextSeq] /\ hb' = hb
              ELSE /\ inA' = None
                   /\ hb' = Answer(hb, m.by, IF outcome = "rejected" THEN Failed
                                             ELSE IF outcome = "duplicate" THEN EventWith(S.st, input.id).seq ELSE NextSeq)
    /\ UNCHANGED <<R, ha, inB, boot, clock, faults>>

SenderInboxes ==
    /\ inA # None
    /\ S' = [S EXCEPT !.inbox = @ \cup {S.st.events[inA.n].id}]
    /\ hb' = Answer(hb, inA.by, inA.n)
    /\ inA' = None
    /\ UNCHANGED <<R, ha, inB, net, boot, clock, faults>>

(* Mutant: the inbox record comes before the event. *)
AppendsInboxFirst(e) ==
    IF receiverSees(e) THEN <<"inbox", "event">>
    ELSE CASE e.type = "RECEIPT_CONFIRMED" -> (IF R.st.events = <<>> THEN <<"created", "received">> ELSE <<>>) \o <<"event", "inboxCreated">>
           [] e.type = "PARENT_ACK_PENDING" -> <<"event", "ack">>
           [] e.type = "PARENT_ACKNOWLEDGED" -> <<"event", "cleanup">>
           [] OTHER -> <<"event">>

(* The appends acceptPeerEvent makes at the replica for an event, in order. *)
Appends(e) ==
    (IF e.type = "RECEIPT_CONFIRMED" /\ R.st.events = <<>> THEN <<"created", "received">> ELSE <<>>)
    \o <<"event">>
    \o (CASE e.type = "RECEIPT_CONFIRMED" -> <<"inboxCreated">>
          [] e.type = "PARENT_ACK_PENDING" -> <<"ack">>
          [] e.type = "PARENT_ACKNOWLEDGED" -> <<"cleanup">>
          [] receiverSees(e) -> <<"inbox">>
          [] OTHER -> <<>>)

(* A confirmation must be third and match the receipt; the target of an assignment may be refused. *)
ReceiverTakes(m) ==
    /\ m \in net /\ m.to = "b" /\ inB = None
    /\ net' = net \ {m}
    /\ LET refused == inB' = None /\ ha' = Answer(ha, m.by, Failed) /\ R' = R
           handled(e, todo) == inB' = [by |-> m.by, e |-> e, todo |-> todo] /\ ha' = ha
       IN  IF m.e = 0
           THEN \/ faults < FaultMax /\ faults' = faults + 1 /\ refused
                \/ faults' = faults /\ handled(0, <<"receipt">>) /\ R' = [R EXCEPT !.open = TRUE]
           ELSE LET e == S.st.events[m.e]
                IN  /\ faults' = faults
                    /\ IF ~Held \/ (e.type = "RECEIPT_CONFIRMED" /\ (m.e # 3 \/ ~R.receipt)) THEN refused
                       ELSE handled(m.e, Appends(e)) /\ R' = R
    /\ UNCHANGED <<S, hb, inA, boot, clock>>

(* One append of an incoming post; None if it throws. *)
Appended(do, n) ==
    LET e == S.st.events[IF do \in {"created", "inboxCreated"} THEN 1 ELSE IF do = "received" THEN 2 ELSE n]
    IN  CASE do = "receipt" -> [R EXCEPT !.receipt = TRUE]
          [] do \in {"created", "received", "event"} ->
                IF e.id \in IdsOf(R.st) THEN R
                ELSE IF appendable(R.st, e) THEN [R EXCEPT !.st = applyCanonicalTaskEvent(@, e)] ELSE None
          [] do \in {"inbox", "inboxCreated"} -> [R EXCEPT !.inbox = @ \cup {e.id}]
          [] do = "ack" -> [R EXCEPT !.acks = @ \cup {e.id}]
          [] do = "cleanup" -> IF e.ref \in R.acks THEN [R EXCEPT !.cleanup = TRUE] ELSE None

(* Mutant: a throwing append is answered as a success. *)
ReceiverAppendsOk ==
    /\ inB # None
    /\ LET next == IF Held THEN Appended(Head(inB.todo), inB.e) ELSE None
           last == next = None \/ Len(inB.todo) = 1
       IN  /\ R' = IF next = None THEN R ELSE next
           /\ inB' = IF last THEN None ELSE [inB EXCEPT !.todo = Tail(@)]
           /\ ha' = IF last THEN Answer(ha, inB.by, Ok) ELSE ha
    /\ UNCHANGED <<S, hb, inA, net, boot, clock, faults>>

ReceiverAppends ==
    /\ inB # None
    /\ LET next == IF Held THEN Appended(Head(inB.todo), inB.e) ELSE None
           last == next = None \/ Len(inB.todo) = 1
       IN  /\ R' = IF next = None THEN R ELSE next
           /\ inB' = IF last THEN None ELSE [inB EXCEPT !.todo = Tail(@)]
           /\ ha' = IF last THEN Answer(ha, inB.by, IF next = None THEN Failed ELSE Ok) ELSE ha
    /\ UNCHANGED <<S, hb, inA, net, boot, clock, faults>>
-----------------------------------------------------------------------------
(* Time and crashes.  A crash loses what is in memory; the ledgers are reloaded. *)
ExpireTask == S.open /\ ~clock.expired /\ clock' = [clock EXCEPT !.expired = TRUE]
OrphanReceipt == R.receipt /\ R.st.events = <<>> /\ ~clock.orphaned /\ clock' = [clock EXCEPT !.orphaned = TRUE]
AgePayloads == S.st.acked # None /\ ~clock.aged /\ clock' = [clock EXCEPT !.aged = TRUE]
TimePasses ==
    /\ ExpireTask \/ OrphanReceipt \/ AgePayloads
    /\ UNCHANGED <<S, R, ha, hb, inA, inB, net, boot, faults>>

Unawaited(slots) == {IF m.by \in slots THEN [m EXCEPT !.by = None] ELSE m : m \in net}
LeftBy(slot, slots) == IF slot # None /\ slot.by \in slots THEN [slot EXCEPT !.by = None] ELSE slot

SenderCrash ==
    /\ faults < FaultMax /\ S.open
    /\ faults' = faults + 1
    /\ ha' = [p \in SenderSlots |-> Idle]
    /\ hb' = IF inA = None THEN hb ELSE Answer(hb, inA.by, Failed)
    /\ inA' = None
    /\ inB' = LeftBy(inB, SenderSlots)
    /\ net' = Unawaited(SenderSlots)
    /\ boot' = [boot EXCEPT !.a = "no"]
    /\ UNCHANGED <<S, R, clock>>

ReceiverCrash ==
    /\ faults < FaultMax /\ R.open
    /\ faults' = faults + 1
    /\ hb' = [p \in ReceiverSlots |-> Idle]
    /\ ha' = IF inB = None THEN ha ELSE Answer(ha, inB.by, Failed)
    /\ inB' = None
    /\ inA' = LeftBy(inA, ReceiverSlots)
    /\ net' = Unawaited(ReceiverSlots)
    /\ boot' = [boot EXCEPT !.b = "no"]
    /\ UNCHANGED <<S, R, clock>>
-----------------------------------------------------------------------------
SenderRequest(p) ==
    \/ p \in Pollers /\ Access(p)
    \/ p \in Askers /\ (AskSend(p) \/ AskMessage(p) \/ AskCancel(p) \/ AskAcknowledge(p))
SenderStep(p) ==
    \/ Sweep(p) \/ TimeOut(p) \/ Recover(p) \/ Inbox(p) \/ Booted(p)
    \/ Send(p) \/ Create(p) \/ Assigned(p) \/ Unassigned(p) \/ Confirm(p) \/ Message(p) \/ Cancel(p)
    \/ Acknowledge(p) \/ AckPending(p) \/ AckSettle(p) \/ Ack(p)
    \/ ForwardNext(p) \/ Deliver(p) \/ Delivered(p) \/ Undelivered(p) \/ GiveUp(p) \/ Diagnose(p) \/ SenderTimeout(p)
ReceiverRequest(p) ==
    \/ ReceiverAccess(p) \/ AskReceiverMessage(p) \/ AskComplete(p) \/ AskDelivered(p)
ReceiverStep(p) ==
    \/ ReceiverClean(p) \/ Purge(p) \/ ReceiverBooted(p)
    \/ ReceiverMessage(p) \/ Complete(p) \/ ReportDelivered(p) \/ RecordDelivery(p)
    \/ ReceiverDeliver(p) \/ ReceiverDelivered(p) \/ ReceiverUndelivered(p) \/ Mirror(p) \/ ReceiverShow(p) \/ ReceiverTimeout(p)
Incoming ==
    \/ \E m \in net : SenderTakes(m) \/ ReceiverTakes(m)
    \/ SenderInboxes \/ ReceiverAppends

Next ==
    \/ \E p \in SenderSlots : SenderRequest(p) \/ SenderStep(p)
    \/ \E p \in ReceiverSlots : ReceiverRequest(p) \/ ReceiverStep(p)
    \/ Incoming \/ TimePasses \/ SenderCrash \/ ReceiverCrash

Spec == Init /\ [][Next]_vars

(* Sessions poll their gateway, its requests run on, deadlines pass.  A post is answered *)
(* or given up: the code's time-out always fires, FaultMax bounds how often it does here. *)
FairSpec ==
    /\ Spec
    /\ WF_vars(TimePasses)
    /\ WF_vars(\E m \in net : ReceiverTakes(m)) /\ WF_vars(ReceiverAppends)
    /\ \A p \in SenderSlots : WF_vars(SenderStep(p)) /\ WF_vars(Access(p))
-----------------------------------------------------------------------------
(* The replica is always a prefix of the sender's canonical history, whatever is lost,  *)
(* retried, late or interrupted (appendCanonicalTaskEvent's sequence check, the seeding *)
(* of a confirmed assignment, the mirroring of the sender's answers).                   *)
ReplicaPrefix == IsPrefix(R.st.events, S.st.events)

Reloads(st) ==
    /\ Cardinality(IdsOf(st)) = Len(st.events) /\ Len(st.events) < EventMax
    /\ rebuildTaskState(st.events) = st

(* Both ledgers reload after a crash at any point: no append repeats a record identity, *)
(* and the replay of the history gives the state the gateway goes on with (parseLedger  *)
(* would quarantine the ledger otherwise).  No log reaches EventMax, which so cuts off  *)
(* nothing.                                                                             *)
LedgersReload ==
    [][(S'.st # S.st => Reloads(S'.st)) /\ (R'.st # R.st => Reloads(R'.st))]_vars

(* The receiver's inbox shows only what its ledger holds, and nothing of a task whose   *)
(* receipt the sender has not confirmed (the order of appends in acceptPeerEvent).      *)
VisibleOnlyConfirmed ==
    R.inbox # {} => Has(R.st, "RECEIPT_CONFIRMED") /\ R.inbox \subseteq IdsOf(R.st)

(* A durable delivered mark is true on the other machine: the replica holds every event *)
(* the sender marks delivered, the sender every intent the receiver marks delivered.    *)
DeliveredHeld ==
    /\ \A n \in S.delivered : ~R.gone => n <= Len(R.st.events)
    /\ \A k \in R.delivered : R.intents[k].id \in IdsOf(S.st)

(* The parent's acknowledgement of a dispatched task has two phases: it is committed     *)
(* only after the receiver has recorded the pending one, and the receiver becomes        *)
(* eligible for cleanup only after the parent's acknowledgement is committed.            *)
TwoPhaseAck ==
    /\ S.st.acked # None /\ Has(S.st, "CREATED") => R.gone \/ S.st.pending \in R.acks
    /\ R.cleanup => S.st.acked # None

(* The first terminal event decides the task: no later step changes status or terminal. *)
TerminalStable ==
    [][S.st.terminal # None => S.st'.terminal = S.st.terminal /\ S.st'.status = S.st.status]_vars

(* Every task that was sent ends: the sender's sweeps time it out if nothing else does. *)
TaskEnds == (S.st.events # <<>>) ~> (S.st.status \in TerminalTypes)
=============================================================================
