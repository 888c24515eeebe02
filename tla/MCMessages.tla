----------------------------- MODULE MCMessages -----------------------------
(***************************************************************************)
(* What reaches an agent and what reaches a person, checked side by side:  *)
(* relay mail (MemoryRelay), quiet alerts (QuietAlerts) and the files      *)
(* under the inbox of durable tasks (TaskStore).  A behaviour is one of    *)
(* the three, as `scene` says; the relay of the other scenes stays at its  *)
(* start, and the other variables keep the value Parked.                   *)
(*                                                                         *)
(* The mail is between a receiver a, a sender b that is replaced by a new  *)
(* generation, and a peer p.  One id is used for mail from b and from the  *)
(* peer, and for forwards by both generations of b.                        *)
(***************************************************************************)
EXTENDS MemoryRelay

CONSTANTS a, b, g, h, m, p, Parked

VARIABLES
    scene,
    agents, subs, generation, enrolled, policy, passes, newest, seen, episodes, opened,
    recipients, deliveries, recent, waiting, send, cast, spare, past,
    disk, seqFile, mem, uncertain, next, job, reader, acked, retired, up, failures, deaths

A == <<a, g, 1>>
B == <<b, g, 1>>
C == <<b, h, 1>>

MailEndpoints == {A, B, C}

From(id, source, target) ==
    [id |-> id, source |-> source, target |-> target, created |-> 1]

MailEnvelopes == {From(m, B, A), From(m, B, p), From(m, C, p), From(m, p, A)}

-----------------------------------------------------------------------------
(* Which sessions and devices there are at the start, the mode, how many   *)
(* episodes there may be, and the other events, each of which may happen   *)
(* once.                                                                   *)
Plan(sessions, devices, mode, changes, events) ==
    [agents |-> sessions, subs |-> devices, mode |-> mode,
     events |-> [k \in {"changed", "failed", "dash", "brief", "down", "cast", "enrol",
                        "leave", "mode", "kill", "exit"} |->
                   IF k = "changed" THEN changes ELSE IF k \in events THEN 1 ELSE 0]]

AlertPlans ==
    {Plan({"s"}, {"d"}, "quiet", 2, {"dash", "mode"}),
     Plan({"s", "t"}, {"d"}, "quiet", 2, {"mode"}),
     Plan({"s"}, {"d", "e"}, "quiet", 1, {"leave", "enrol"}),
     Plan({"s"}, {"d"}, "needs", 1, {"enrol", "brief", "leave"}),
     Plan({"s"}, {"d"}, "quiet", 1, {"kill", "exit", "dash"}),
     Plan({"s"}, {"d"}, "quiet", 1, {"down", "dash", "failed"}),
     Plan({"s"}, {}, "needs", 1, {"enrol", "brief", "mode"}),
     Plan({"s"}, {"d"}, "quiet", 1, {"enrol", "leave", "cast"})}

Alerts == INSTANCE QuietAlerts
    WITH Endpoints <- {"d", "e"}, Agents <- {"s", "t"}, MaxAttempts <- 2, EpisodeMax <- 2,
         Plans <- AlertPlans

(* A ledger "k" that gets an event and inbox records, and one that gets    *)
(* inbox records only.                                                     *)
Store == INSTANCE TaskStore
    WITH Keys <- {"k", "l"}, EventKeys <- {"k"}, InboxKeys <- {"k", "l"}, SeqMax <- 3,
         FaultMax <- 1, CrashMax <- 2, faults <- failures, crashes <- deaths

mailVars == vars
alertVars == <<agents, subs, generation, enrolled, policy, passes, newest, seen, episodes,
               opened, recipients, deliveries, recent, waiting, send, cast, spare, past>>
storeVars == <<disk, seqFile, mem, uncertain, next, job, reader, acked, retired, up, failures,
               deaths>>

NoAlerts ==
    /\ agents = Parked /\ subs = Parked /\ generation = Parked /\ enrolled = Parked
    /\ policy = Parked /\ passes = Parked /\ newest = Parked /\ seen = Parked
    /\ episodes = Parked /\ opened = Parked /\ recipients = Parked
    /\ deliveries = Parked /\ recent = Parked /\ waiting = Parked /\ send = Parked
    /\ cast = Parked /\ spare = Parked /\ past = Parked

NoStore ==
    /\ disk = Parked /\ seqFile = Parked /\ mem = Parked /\ uncertain = Parked
    /\ next = Parked /\ job = Parked /\ reader = Parked /\ acked = Parked
    /\ retired = Parked /\ up = Parked /\ failures = Parked /\ deaths = Parked

MessagesInit ==
    /\ Init
    /\ \/ scene = "mail" /\ NoAlerts /\ NoStore
       \/ scene = "alerts" /\ Alerts!Init /\ NoStore
       \/ scene = "store" /\ Store!Init /\ NoAlerts

MessagesNext ==
    /\ UNCHANGED scene
    /\ \/ scene = "mail" /\ Next /\ UNCHANGED <<alertVars, storeVars>>
       \/ scene = "alerts" /\ Alerts!Next /\ UNCHANGED <<mailVars, storeVars>>
       \/ scene = "store" /\ Store!Next /\ UNCHANGED <<mailVars, alertVars>>

MessagesSpec == MessagesInit /\ [][MessagesNext]_<<scene, mailVars, alertVars, storeVars>>

-----------------------------------------------------------------------------
(* An alert is posted only to those entitled to it, and its answer removes *)
(* only the enrolment that was asked (QuietAlerts).                        *)
OnlyEntitled == [][scene = "alerts" => Alerts!OnlyEntitledStep]_alertVars

(* A device takes an alert once, and a delivery that is over has reached   *)
(* every device still entitled (QuietAlerts).                              *)
AlertedOnce == scene = "alerts" => Alerts!AlertedOnce

(* What was acknowledged as appended is never lost (TaskStore).            *)
AppendedSurvives == scene = "store" => Store!AppendedSurvives

(* A reader of the inbox skips no acknowledged record (TaskStore).         *)
ReaderSkipsNothing == scene = "store" => Store!ReaderSkipsNothing
=============================================================================
