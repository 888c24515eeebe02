----------------------------- MODULE TaskState -----------------------------
(***************************************************************************)
(* The rules of one durable task (src/tasks/domain.ts): which event a      *)
(* state admits, what it does to the state, what the sender's gateway      *)
(* makes of an input, and how a history is replayed.  Pure operators, used *)
(* by TaskPeer for both the canonical ledger and the replica.              *)
(*                                                                         *)
(* An event is [id, type, actor, seq, ref, orig]: ref is the one other     *)
(* event its payload names (the question answered, the event injected, the *)
(* pending acknowledgement), orig the type a late terminal arrived with.   *)
(* Text, addresses, times and completion results are left out: addresses   *)
(* are fixed by the actor, and no rule below reads the others.             *)
(***************************************************************************)
EXTENDS Naturals, Sequences, SequencesExt

CONSTANT None

(* The statuses that end a task; the event types that end it have their names. *)
TerminalTypes == {"COMPLETED", "FAILED", "CANCELLED", "TIMED_OUT"}

ActorsByEventType ==
    [CREATED             |-> {"parent"},
     RECEIVED            |-> {"receiver"},
     RECEIPT_CONFIRMED   |-> {"sender"},
     DELIVERED           |-> {"receiver"},
     QUESTION            |-> {"parent", "receiver"},
     ANSWER              |-> {"parent", "receiver"},
     INFORMATION         |-> {"parent", "receiver"},
     MESSAGE_DELIVERED   |-> {"receiver"},
     CANCEL_REQUESTED    |-> {"parent"},
     COMPLETED           |-> {"receiver"},
     FAILED              |-> {"receiver", "sender"},
     CANCELLED           |-> {"receiver"},
     TIMED_OUT           |-> {"sender"},
     PARENT_ACK_PENDING  |-> {"sender"},
     PARENT_ACKNOWLEDGED |-> {"sender"},
     DELIVERY_FAILED     |-> {"sender"},
     LATE_TERMINAL       |-> {"sender"}]

EventTypes == DOMAIN ActorsByEventType

(* Event types every status after the receipt admits, and every terminal one. *)
AlwaysAllowed == {"DELIVERED", "INFORMATION", "MESSAGE_DELIVERED", "DELIVERY_FAILED"}
AckTypes == {"PARENT_ACK_PENDING", "PARENT_ACKNOWLEDGED"}

AllowedEventTypes ==
    LET running == AlwaysAllowed \cup TerminalTypes
        ended   == AlwaysAllowed \cup AckTypes
    IN  [PENDING_DELIVERY     |-> {"CREATED", "RECEIVED", "CANCEL_REQUESTED", "FAILED", "TIMED_OUT"},
         RECEIVED             |-> running \cup AckTypes \cup {"RECEIPT_CONFIRMED", "QUESTION", "CANCEL_REQUESTED"},
         ACTIVE               |-> running \cup AckTypes \cup {"QUESTION", "ANSWER", "CANCEL_REQUESTED"},
         WAITING_FOR_PARENT   |-> running \cup {"ANSWER", "CANCEL_REQUESTED"},
         WAITING_FOR_RECEIVER |-> running \cup {"ANSWER", "CANCEL_REQUESTED"},
         CANCEL_REQUESTED     |-> running,
         COMPLETED            |-> ended,
         FAILED               |-> ended,
         CANCELLED            |-> ended,
         TIMED_OUT            |-> ended]

Statuses == DOMAIN AllowedEventTypes

createTaskState ==
    [status |-> "PENDING_DELIVERY", events |-> <<>>, question |-> None,
     terminal |-> None, pending |-> None, acked |-> None]

IdsOf(s) == {s.events[i].id : i \in DOMAIN s.events}
EventWith(s, id) == s.events[CHOOSE i \in DOMAIN s.events : s.events[i].id = id]
Has(s, type) == \E i \in DOMAIN s.events : s.events[i].type = type

(* The participant an event is addressed to. *)
destinationFor(e) ==
    IF e.actor = "receiver" \/ (e.actor = "sender" /\ e.type \in TerminalTypes)
    THEN "parent" ELSE "receiver"

(* The payload shape an event type demands, as far as the reference goes. *)
isCoherentEvent(e) ==
    /\ e.type \in {"ANSWER", "DELIVERED", "MESSAGE_DELIVERED", "PARENT_ACKNOWLEDGED"} => e.ref # None
    /\ e.type \in {"QUESTION", "INFORMATION"} => e.ref = None

nextStatusForEvent(s, e) ==
    CASE e.type \in {"RECEIVED", "RECEIPT_CONFIRMED"} -> "RECEIVED"
      [] e.type = "DELIVERED" /\ s.status = "RECEIVED" -> "ACTIVE"
      [] e.type = "QUESTION" -> IF e.actor = "receiver" THEN "WAITING_FOR_PARENT" ELSE "WAITING_FOR_RECEIVER"
      [] e.type = "ANSWER" -> "ACTIVE"
      [] e.type = "CANCEL_REQUESTED" -> IF s.status = "PENDING_DELIVERY" THEN "CANCELLED" ELSE "CANCEL_REQUESTED"
      [] e.type \in TerminalTypes -> e.type
      [] OTHER -> s.status

validateTransition(s, e) ==
    /\ e.type = "QUESTION" => s.question = None
    /\ e.type \in AllowedEventTypes[s.status]
    /\ e.type = "ANSWER" =>
         /\ e.ref = s.question
         /\ s.question \in IdsOf(s) => EventWith(s, s.question).actor # e.actor
    /\ e.type \in {"DELIVERED", "MESSAGE_DELIVERED"} =>
         \E i \in DOMAIN s.events : s.events[i].id = e.ref /\ destinationFor(s.events[i]) = "receiver"
    /\ e.type = "PARENT_ACK_PENDING" =>
         s.status \in TerminalTypes /\ s.pending = None /\ s.acked = None
    /\ e.type = "PARENT_ACKNOWLEDGED" =>
         s.pending # None /\ s.acked = None /\ e.ref = s.pending

(* Mutant: the last terminal wins. *)
applyCanonicalTaskEventLastWins(s, e) ==
    [status   |-> IF e.type = "LATE_TERMINAL" THEN e.orig ELSE nextStatusForEvent(s, e),
     events   |-> Append(s.events, e),
     question |-> CASE e.type = "QUESTION" -> e.id [] e.type = "ANSWER" -> None [] OTHER -> s.question,
     terminal |-> IF e.type \in TerminalTypes \cup {"LATE_TERMINAL"} THEN e.id ELSE s.terminal,
     pending  |-> IF e.type = "PARENT_ACK_PENDING" THEN e.id ELSE s.pending,
     acked    |-> IF e.type = "PARENT_ACKNOWLEDGED" THEN e.id ELSE s.acked]

applyCanonicalTaskEvent(s, e) ==
    LET status == IF e.type = "LATE_TERMINAL" THEN s.status ELSE nextStatusForEvent(s, e)
    IN  [status   |-> status,
         events   |-> Append(s.events, e),
         question |-> CASE e.type = "QUESTION" -> e.id [] e.type = "ANSWER" -> None [] OTHER -> s.question,
         terminal |-> IF e.type \in TerminalTypes \/ (e.type = "CANCEL_REQUESTED" /\ status = "CANCELLED")
                      THEN e.id ELSE s.terminal,
         pending  |-> IF e.type = "PARENT_ACK_PENDING" THEN e.id ELSE s.pending,
         acked    |-> IF e.type = "PARENT_ACKNOWLEDGED" THEN e.id ELSE s.acked]

(* Mutant: the sequence is not checked. *)
appendableAnySequence(s, e) ==
    IF e.type = "LATE_TERMINAL" THEN s.status \in TerminalTypes
    ELSE isCoherentEvent(e) /\ e.actor \in ActorsByEventType[e.type] /\ validateTransition(s, e)

(* appendCanonicalTaskEvent throws unless this holds, and applies the event otherwise. *)
appendable(s, e) ==
    /\ e.seq = Len(s.events) + 1
    /\ IF e.type = "LATE_TERMINAL"
       THEN s.status \in TerminalTypes
       ELSE /\ isCoherentEvent(e)
            /\ e.actor \in ActorsByEventType[e.type]
            /\ validateTransition(s, e)

(* The state replaying a history gives, None if the replay throws. *)
rebuildTaskState(events) ==
    LET replay(s, e) == IF s # None /\ appendable(s, e) THEN applyCanonicalTaskEvent(s, e) ELSE None
    IN  FoldLeft(replay, createTaskState, events)

(* A retried input repeats the caller's fields of the stored event. *)
duplicateMatchesInput(e, input) ==
    IF e.type = "LATE_TERMINAL" THEN e.orig = input.type
    ELSE e.type = input.type /\ e.actor = input.actor /\ e.ref = input.ref

(* Mutant: the transition is not validated. *)
acceptSenderEventUnchecked(s, input) ==
    IF ~isCoherentEvent(input) \/ input.actor \notin ActorsByEventType[input.type] THEN "rejected"
    ELSE IF input.id \in IdsOf(s)
         THEN IF duplicateMatchesInput(EventWith(s, input.id), input) THEN "duplicate" ELSE "rejected"
    ELSE IF input.type \in TerminalTypes /\ s.status \in TerminalTypes THEN "late-terminal"
    ELSE "accepted"

(* What the sender makes of an input [id, type, actor, ref] ... *)
acceptSenderEvent(s, input) ==
    IF ~isCoherentEvent(input) \/ input.actor \notin ActorsByEventType[input.type] THEN "rejected"
    ELSE IF input.id \in IdsOf(s)
         THEN IF duplicateMatchesInput(EventWith(s, input.id), input) THEN "duplicate" ELSE "rejected"
    ELSE IF input.type \in TerminalTypes /\ s.status \in TerminalTypes THEN "late-terminal"
    ELSE IF validateTransition(s, input) THEN "accepted" ELSE "rejected"

(* ... and the event it commits when the input is accepted or late. *)
canonicalEvent(s, input) ==
    LET late == acceptSenderEvent(s, input) = "late-terminal"
    IN  [id    |-> input.id,
         type  |-> IF late THEN "LATE_TERMINAL" ELSE input.type,
         actor |-> IF late THEN "sender" ELSE input.actor,
         seq   |-> Len(s.events) + 1,
         ref   |-> IF late THEN None ELSE input.ref,
         orig  |-> IF late THEN input.type ELSE None]
=============================================================================
