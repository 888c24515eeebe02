---------------------------- MODULE QuietAlerts ----------------------------
(***************************************************************************)
(* Quiet alerts: session-observation.ts watches sessions in passes, each   *)
(* quiet episode of a session emits one alert, and push.ts delivers it to  *)
(* the devices that were enrolled when it was emitted.  A notification     *)
(* pass ("note") delivers, a dashboard pass ("dash") only observes; both   *)
(* reduce the same episodes, and requests change the policy and the        *)
(* enrolments while a pass or a post is under way.                         *)
(*                                                                         *)
(* Time is abstract: an episode may be due at any pass, and `recent` (a    *)
(* push within PUSH_DEBOUNCE_MS) and `waiting` (before nextAttemptAtMs)    *)
(* end at any pass.  Screens are abstract: a pass sees a session changed,  *)
(* unchanged, dead, or fails to see it.  Alerts of other machines          *)
(* have keys of their own and are left out, and so are stored endpoints    *)
(* that are no push service.                                               *)
(***************************************************************************)
EXTENDS Naturals, FiniteSets

CONSTANTS Endpoints, Agents, None, MaxAttempts, EpisodeMax, Plans

VARIABLES
    agents,         \* what the broker has of a session: "live", "dead", "gone"
    subs,           \* the stored subscriptions
    generation,     \* subscriptionEnrollmentGenerations, 0 where there is none
    enrolled,       \* how often a device enrolled: the source of generations
    policy,         \* mode, epoch and needsInputEpoch
    passes,         \* the pass of each kind that is under way; `owns`: its list was the
                    \* latest, it holds latestAuthoritativeObservation
    newest,         \* the kind of pass that started last
    seen,           \* sessions in notificationFingerprints
    episodes,       \* quietAlertHistory
    opened,         \* number of episodes opened
    recipients,     \* quietAlertRecipientSnapshots
    deliveries,     \* quietAlertDeliveries
    recent,         \* sessions with a recent lastSessionPushTime
    waiting,        \* sessions whose next attempt is not due
    send,           \* the post of an alert under way
    cast,           \* the post of a message or test under way
    spare,          \* how many events of each kind may still happen
    past            \* history: who was entitled to an episode, was tried, took it;
                    \* and the episodes whose pass lost its fingerprints meanwhile

watched == <<agents, seen, episodes, opened>>
pushed == <<deliveries, recent, waiting, send>>
enrolment == <<subs, generation, enrolled, cast>>
vars == <<watched, pushed, enrolment, policy, passes, newest, recipients, spare, past>>

Idle == [phase |-> "idle", full |-> TRUE, epoch |-> 0, stale |-> FALSE, owns |-> FALSE,
         listed |-> {}, todo |-> {}, known |-> {}, dead |-> {}, fresh |-> {}, forgotten |-> {}, batch |-> {}]

Init ==
    /\ \E plan \in Plans :
          /\ agents = [s \in Agents |-> IF s \in plan.agents THEN "live" ELSE "gone"]
          /\ subs = plan.subs
          /\ policy = [mode |-> plan.mode, epoch |-> 0, needs |-> 0]
          /\ spare = plan.events
    /\ enrolled = [e \in Endpoints |-> IF e \in subs THEN 1 ELSE 0]
    /\ generation = enrolled
    /\ passes = [p \in {"note", "dash"} |-> Idle]
    /\ newest = "note"
    /\ seen = {} /\ opened = 0
    /\ episodes = [s \in Agents |-> None]
    /\ recipients = [s \in Agents |-> None]
    /\ deliveries = [s \in Agents |-> None]
    /\ recent = {} /\ waiting = {}
    /\ send = None /\ cast = None
    /\ past = [entitled |-> {}, unseen |-> {}, tried |-> [x \in (1..EpisodeMax) \X Endpoints |-> 0],
               took |-> [x \in (1..EpisodeMax) \X Endpoints |-> 0]]

(* An event of the surroundings: a request, new output or the end of a     *)
(* session, a pass other than the regular notification pass, a broker that *)
(* does not answer, a screen that cannot be read.  A plan bounds how many  *)
(* of each kind happen.                                                    *)
Event(kind) == spare[kind] > 0 /\ spare' = [spare EXCEPT ![kind] = @ - 1]

quietAlertPolicyEpoch(kind) == IF kind = "needs" THEN policy.needs ELSE policy.epoch

(* Whether the policy lets an alert of a kind be reported.                 *)
Admits(kind) == policy.mode = "quiet" \/ (policy.mode = "needs" /\ kind = "needs")

ownsObservationAuthority(p) == passes[p].owns /\ passes[p].epoch = policy.epoch

-----------------------------------------------------------------------------
(* A pass: it starts, its list comes back, each session is observed, the   *)
(* episodes are reduced, and a notification pass delivers.                 *)

Start(p, full) ==
    /\ passes[p].phase = "idle"
    /\ p = "dash" => full
    /\ IF p = "note" /\ full THEN UNCHANGED spare
       ELSE Event(IF p = "dash" THEN "dash" ELSE "brief")
    /\ passes' = [passes EXCEPT ![p] =
          [Idle EXCEPT !.phase = "list", !.full = full, !.epoch = policy.epoch]]
    /\ newest' = p
    /\ UNCHANGED <<watched, pushed, enrolment, policy, recipients, past>>

claimObservationAuthority(p) == passes[p].epoch = policy.epoch /\ ~passes[p].stale

(* A claim takes the authority over, and a pass that started earlier can   *)
(* no longer claim.                                                        *)
Claimed(p, as) ==
    [q \in {"note", "dash"} |->
        IF q = p THEN [as EXCEPT !.owns = as # Idle]
        ELSE [passes[q] EXCEPT !.owns = FALSE,
                               !.stale = @ \/ (newest = p /\ passes[q].phase = "list")]]

(* The list comes back.  Of the rest of the pass, observeSessionFact reads *)
(* the fingerprints at once and then waits.                                *)
Listed(p) ==
    LET present == {s \in Agents : agents[s] # "gone"} IN
    /\ passes[p].phase = "list"
    /\ IF claimObservationAuthority(p)
       THEN passes' = Claimed(p, [passes[p] EXCEPT
                  !.phase = "observe", !.listed = present, !.todo = present,
                  !.known = IF passes[p].full THEN {} ELSE seen,
                  !.dead = {s \in present : agents[s] = "dead"}])
       ELSE passes' = [passes EXCEPT ![p] = Idle]
    /\ UNCHANGED <<watched, pushed, enrolment, policy, newest, recipients, past, spare>>

(* observeUnavailableSessions: the broker did not answer.                  *)
Unavailable(p) ==
    /\ Event("down")
    /\ passes[p].phase = "list"
    /\ IF claimObservationAuthority(p)
       THEN /\ episodes' = [s \in Agents |-> None]
            /\ seen' = {}
            /\ recipients' = [s \in Agents |-> None]
            /\ passes' = Claimed(p, IF p = "dash" THEN Idle
                                    ELSE [passes[p] EXCEPT !.phase = "ready", !.listed = Agents])
       ELSE /\ passes' = [passes EXCEPT ![p] = Idle]
            /\ UNCHANGED <<episodes, seen, recipients>>
    /\ UNCHANGED <<agents, opened, pushed, enrolment, policy, newest, past>>

(* What observeSessionFact can find.  A pass for the program status takes  *)
(* no new picture, and a picture asked for before the session was          *)
(* forgotten does not count.                                               *)
Findings(ps, s) ==
    CASE s \in ps.dead -> {"dead"}
      [] ~ps.full -> IF s \in ps.known THEN {"same"} ELSE {"unknown"}
      [] s \in ps.forgotten -> {"same", "unknown"}
      [] OTHER -> {"same", "changed", "failed"}

observeSessionFact(p, s) ==
    /\ passes[p].phase = "observe" /\ s \in passes[p].todo
    /\ ownsObservationAuthority(p)
    /\ \E found \in Findings(passes[p], s) :
          LET fresh == found \in {"same", "changed"} IN
          /\ passes' = [passes EXCEPT ![p].todo = @ \ {s},
                                     ![p].fresh = IF fresh THEN @ \cup {s} ELSE @]
          /\ seen' = IF p = "dash" \/ ~passes[p].full THEN seen
                     ELSE IF fresh THEN seen \cup {s} ELSE seen \ {s}
          /\ \/ /\ found = "changed" /\ policy.mode # "disabled"
                /\ opened' = opened + 1
                /\ episodes' = [episodes EXCEPT ![s] =
                      [id |-> opened + 1, emitted |-> FALSE, kind |-> "none"]]
             \/ /\ found = "failed" \/ (found = "changed" /\ policy.mode = "disabled")
                /\ episodes' = [episodes EXCEPT ![s] = None]
                /\ UNCHANGED opened
             \/ /\ found \in {"same", "unknown", "dead"}
                /\ UNCHANGED <<episodes, opened>>
          /\ IF found \in {"changed", "failed"} THEN Event(found) ELSE UNCHANGED spare
    /\ UNCHANGED <<agents, pushed, enrolment, policy, newest, recipients, past>>

(* A pass that lost its authority ends without a trace.                    *)
Overtaken(p) ==
    /\ passes[p].phase = "observe" /\ ~ownsObservationAuthority(p)
    /\ passes' = [passes EXCEPT ![p] = Idle]
    /\ UNCHANGED <<watched, pushed, enrolment, policy, newest, recipients, past, spare>>

(* reduceQuietAlertPolicy for an observation that brings no new activity.  *)
reduceQuietAlertPolicy(episode, verdict) ==
    IF policy.mode = "disabled" \/ episode = None THEN None
    ELSE IF ~episode.emitted /\ verdict # "wait" /\ Admits(verdict)
    THEN [episode EXCEPT !.emitted = TRUE, !.kind = verdict]
    ELSE episode

(* Who is enrolled, with the generation of the enrolment.                  *)
registeredSubscriptionGenerations == [e \in subs |-> generation[e]]

(* reduceCollectedQuietAlerts and pruneSessionObservationState.  For each  *)
(* session the verdict says whether an alert is due and of which kind; one *)
(* that waits for a busy child is not due.                                 *)
Reduce(p) ==
    LET ps == passes[p]
        Pruned(s) == ps.full /\ s \notin ps.listed
        Reduced(verdict) == [s \in Agents |->
            IF s \in ps.fresh THEN reduceQuietAlertPolicy(episodes[s], verdict[s])
            ELSE IF s \in ps.dead \/ Pruned(s) THEN None
            ELSE episodes[s]]
        Alert(s, new) == [agent |-> s, id |-> new[s].id, kind |-> new[s].kind]
    IN
    /\ ps.phase = "observe" /\ ps.todo = {} /\ ownsObservationAuthority(p)
    /\ \E verdict \in [ps.fresh -> {"wait", "quiet", "needs"}] :
          LET new == Reduced(verdict)
              emitted == {s \in ps.fresh : new[s] # None /\ new[s].emitted}
              emits == {s \in emitted : ~episodes[s].emitted}
          IN
          /\ \A s \in ps.fresh : verdict[s] # "wait" => episodes[s] # None
          /\ episodes' = new
          /\ recipients' = [s \in Agents |->
                IF s \in emits
                THEN [id |-> new[s].id, kind |-> new[s].kind, epoch |-> policy.epoch,
                      to |-> registeredSubscriptionGenerations]
                ELSE IF Pruned(s) THEN None ELSE recipients[s]]
          /\ past' = [past EXCEPT
                !.entitled = @ \cup {<<new[s].id, e, enrolled[e]>> : s \in emits, e \in subs},
                !.unseen = @ \cup {new[s].id : s \in IF p = "note" THEN emits \ seen ELSE {}}]
          /\ seen' = IF p = "note" /\ ps.full THEN seen \cap ps.listed ELSE seen
          /\ passes' = [passes EXCEPT ![p] =
                IF p = "dash" THEN Idle
                ELSE [ps EXCEPT !.phase = "ready", !.known = {}, !.dead = {}, !.fresh = {},
                                !.forgotten = {},
                                !.batch = {Alert(s, new) : s \in
                                                {t \in emitted : Admits(new[t].kind)}}]]
    /\ UNCHANGED <<agents, opened, pushed, enrolment, policy, newest, spare>>

-----------------------------------------------------------------------------
(* checkSessionTransitions: the pass goes through its sessions and waits   *)
(* for each post.                                                          *)

(* The time is read here, once: any of the waits may be over by now.       *)
BeginDelivery ==
    /\ passes["note"].phase = "ready"
    /\ passes' = [passes EXCEPT !["note"] =
          IF ownsObservationAuthority("note") /\ subs # {}
          THEN [@ EXCEPT !.phase = "deliver", !.todo = passes["note"].listed]
          ELSE Idle]
    /\ recent' \in SUBSET recent /\ waiting' \in SUBSET waiting
    /\ UNCHANGED <<watched, deliveries, send, enrolment, policy, newest, recipients, past,
                   spare>>

(* Mutant: asks only whether the pass still runs.                          *)
canInitiateWhileRunning == passes["note"].phase = "deliver"

canInitiate == passes["note"].owns

(* The local policy fence of an alert.                                     *)
Fenced(kind) == passes["note"].epoch < quietAlertPolicyEpoch(kind)

recipientSnapshot(s, id) ==
    IF recipients[s] # None /\ recipients[s].id = id
       /\ recipients[s].epoch >= quietAlertPolicyEpoch(recipients[s].kind)
    THEN recipients[s].to ELSE None

(* A recipient that is still enrolled as it was.                           *)
StillEnrolled(e, to) == e \in subs /\ generation[e] = to[e]

Delivery(alert, attempts, pending) ==
    [id |-> alert.id, kind |-> alert.kind, attempts |-> attempts, pending |-> pending]

(* deliverQuietAlert up to its post.                                       *)
deliverQuietAlert(alert) ==
    LET s == alert.agent
        matching == deliveries[s] # None /\ deliveries[s].id = alert.id
        to == recipientSnapshot(s, alert.id)
        targets == {e \in IF matching THEN deliveries[s].pending ELSE DOMAIN to :
                       StillEnrolled(e, to)}
        attempts == IF matching THEN deliveries[s].attempts ELSE 0
    IN
    IF \/ Fenced(alert.kind) \/ ~canInitiate
       \/ matching /\ (deliveries[s].pending = {} \/ s \in waiting)
       \/ to = None
       \/ matching /\ s \in recent
    THEN UNCHANGED <<deliveries, waiting, send, past>>
    ELSE IF s \in recent
    THEN /\ deliveries' = [deliveries EXCEPT ![s] = Delivery(alert, 0, targets)]
         /\ waiting' = waiting \cup {s}
         /\ UNCHANGED <<send, past>>
    ELSE IF targets = {}
    THEN /\ deliveries' = [deliveries EXCEPT ![s] =
                Delivery(alert, IF matching THEN attempts ELSE 1, {})]
         /\ waiting' = waiting \ {s}
         /\ UNCHANGED <<send, past>>
    ELSE /\ deliveries' = [deliveries EXCEPT ![s] = Delivery(alert, attempts + 1, targets)]
         /\ waiting' = waiting \ {s}
         /\ send' = [alert |-> alert, own |-> deliveries'[s], to |-> [e \in targets |-> to[e]]]
         /\ past' = [past EXCEPT !.tried = [x \in DOMAIN @ |->
                IF x[1] = alert.id /\ x[2] \in targets THEN @[x] + 1 ELSE @[x]]]

(* One session of the loop: without an alert its delivery is dropped.      *)
checkSessionTransitions(s) ==
    LET alerts == {a \in passes["note"].batch : a.agent = s} IN
    /\ passes["note"].phase = "deliver" /\ send = None /\ s \in passes["note"].todo
    /\ IF ~canInitiate
       THEN /\ passes' = [passes EXCEPT !["note"] = Idle]
            /\ UNCHANGED <<deliveries, waiting, send, past>>
       ELSE /\ passes' = [passes EXCEPT !["note"].todo = @ \ {s}]
            /\ \/ \E a \in alerts : deliverQuietAlert(a)
               \/ /\ alerts = {}
                  /\ deliveries' = [deliveries EXCEPT ![s] =
                        IF passes["note"].epoch = policy.epoch THEN None ELSE @]
                  /\ UNCHANGED <<waiting, send, past>>
    /\ UNCHANGED <<watched, enrolment, policy, newest, recipients, recent, spare>>

EndDelivery ==
    LET ps == passes["note"] IN
    /\ ps.phase = "deliver" /\ send = None /\ ps.todo = {}
    /\ passes' = [passes EXCEPT !["note"] = Idle]
    /\ IF ownsObservationAuthority("note")
       THEN /\ deliveries' = [s \in Agents |-> IF s \in ps.listed THEN deliveries[s] ELSE None]
            /\ recent' = recent \cap ps.listed
            /\ recipients' = [s \in Agents |-> IF s \in ps.listed THEN recipients[s] ELSE None]
       ELSE UNCHANGED <<deliveries, recent, recipients>>
    /\ UNCHANGED <<watched, waiting, send, enrolment, policy, newest, past, spare>>

-----------------------------------------------------------------------------
(* The end of sendPushToSubscriptions: of the endpoints the push service   *)
(* calls gone, those still enrolled as they were addressed are removed.    *)
Expired(gone, to) == {e \in gone : StillEnrolled(e, to)}

Prune(expired) ==
    /\ subs' = subs \ expired
    /\ generation' = [e \in Endpoints |-> IF e \in expired THEN 0 ELSE generation[e]]

(* resetSessionTransitionTracking, when the last subscription has gone.    *)
Reset(expired) == expired # {} /\ subs \subseteq expired

(* Mutant: one failure makes every device of the attempt pending again.    *)
PendingAll(answer) ==
    IF \E e \in DOMAIN answer : answer[e] = "fail"
    THEN {e \in DOMAIN answer : StillEnrolled(e, send.to)} ELSE {}

(* The devices an attempt leaves for the next one.                         *)
Pending(answer) == {e \in DOMAIN answer : answer[e] = "fail" /\ StillEnrolled(e, send.to)}

(* The posts of an alert are answered and deliverQuietAlert goes on: the   *)
(* result counts only if the delivery is still the one that was begun.     *)
SendSettles ==
    /\ send # None
    /\ \E answer \in [DOMAIN send.to -> {"ok", "gone", "fail"}] :
          LET s == send.alert.agent
              With(a) == {e \in DOMAIN answer : answer[e] = a}
              expired == Expired(With("gone"), send.to)
          IN
          /\ Prune(expired)
          /\ past' = [past EXCEPT !.took = [x \in DOMAIN @ |->
                IF x[1] = send.alert.id /\ x[2] \in With("ok") THEN @[x] + 1 ELSE @[x]]]
          /\ IF Reset(expired)
             THEN /\ deliveries' = [a \in Agents |-> None]
                  /\ recent' = {} /\ waiting' = {}
             ELSE IF Fenced(send.alert.kind) \/ deliveries[s] # send.own
             THEN UNCHANGED <<deliveries, recent, waiting>>
             ELSE /\ recent' = IF With("ok") # {} THEN recent \cup {s} ELSE recent
                  /\ deliveries' = [deliveries EXCEPT ![s].pending =
                        IF send.own.attempts < MaxAttempts THEN Pending(answer) ELSE {}]
                  /\ waiting' = waiting \cup {s}
    /\ send' = None
    /\ UNCHANGED <<watched, enrolled, cast, policy, passes, newest, recipients, spare>>

(* sendPush to every device, or sendTestPush to one.                       *)
SendPush(chosen) ==
    /\ Event("cast")
    /\ cast = None /\ chosen \subseteq subs
    /\ cast' = [e \in chosen |-> generation[e]]
    /\ UNCHANGED <<watched, pushed, subs, generation, enrolled, policy, passes, newest,
                   recipients, past>>

SendPushSettles ==
    /\ cast # None
    /\ \E gone \in SUBSET DOMAIN cast :
          LET expired == Expired(gone, cast) IN
          /\ Prune(expired)
          /\ IF Reset(expired)
             THEN /\ deliveries' = [a \in Agents |-> None]
                  /\ recent' = {} /\ waiting' = {}
             ELSE UNCHANGED <<deliveries, recent, waiting>>
    /\ cast' = None
    /\ UNCHANGED <<watched, send, enrolled, policy, passes, newest, recipients, past, spare>>

-----------------------------------------------------------------------------
(* Requests, sessions and time.                                            *)

(* The first device to enrol starts from nothing.                          *)
addSubscription(e) ==
    /\ Event("enrol")
    /\ e \notin subs
    /\ subs' = subs \cup {e}
    /\ enrolled' = [enrolled EXCEPT ![e] = @ + 1]
    /\ generation' = [generation EXCEPT ![e] = enrolled'[e]]
    /\ IF subs = {}
       THEN /\ deliveries' = [s \in Agents |-> None]
            /\ recent' = {} /\ waiting' = {} /\ seen' = {}
       ELSE UNCHANGED <<deliveries, recent, waiting, seen>>
    /\ UNCHANGED <<agents, episodes, opened, send, cast, policy, passes, newest,
                   recipients, past>>

removeSubscription(e) ==
    /\ Event("leave")
    /\ Prune({e})
    /\ IF subs \subseteq {e}
       THEN /\ deliveries' = [s \in Agents |-> None]
            /\ recent' = {} /\ waiting' = {} /\ seen' = {}
       ELSE UNCHANGED <<deliveries, recent, waiting, seen>>
    /\ UNCHANGED <<agents, episodes, opened, send, enrolled, cast, policy, passes,
                   newest, recipients, past>>

(* A change of the mode in the settings.  A narrower mode retires the work *)
(* it no longer admits: all of it, or that of quiet alerts.                *)
SetMode(mode) ==
    LET narrows == mode = "disabled" \/ (mode = "needs" /\ policy.mode = "quiet")
        Retired(kind) == mode = "disabled" \/ kind = "quiet"
        dropped == {s \in Agents : deliveries[s] # None /\ Retired(deliveries[s].kind)}
    IN
    /\ Event("mode")
    /\ mode # policy.mode
    /\ IF narrows
       THEN /\ policy' = [mode |-> mode, epoch |-> policy.epoch + 1,
                          needs |-> IF mode = "needs" THEN policy.needs ELSE policy.epoch + 1]
            /\ episodes' = [s \in Agents |->
                  IF episodes[s] # None /\ Retired(episodes[s].kind) THEN None ELSE episodes[s]]
            /\ deliveries' = [s \in Agents |-> IF s \in dropped THEN None ELSE deliveries[s]]
            /\ recent' = IF mode = "disabled" THEN {} ELSE recent \ dropped
            /\ recipients' = [s \in Agents |->
                  IF recipients[s] # None /\ Retired(recipients[s].kind) THEN None ELSE recipients[s]]
       ELSE /\ policy' = [policy EXCEPT !.mode = mode]
            /\ UNCHANGED <<episodes, deliveries, recent, recipients>>
    /\ UNCHANGED <<agents, seen, opened, waiting, send, enrolment, passes, newest, past>>

(* A kill request; the child exits later, or not at all.                   *)
forgetSessionObservation(s) ==
    /\ Event("kill")
    /\ episodes' = [episodes EXCEPT ![s] = None]
    /\ seen' = seen \ {s}
    /\ recipients' = [recipients EXCEPT ![s] = None]
    /\ passes' = [p \in DOMAIN passes |->
          IF s \in passes[p].todo /\ passes[p].phase = "observe"
          THEN [passes[p] EXCEPT !.forgotten = @ \cup {s}] ELSE passes[p]]
    /\ UNCHANGED <<agents, opened, pushed, enrolment, policy, newest, past>>

(* A session exits, and the broker drops it later.                         *)
Exits(s) ==
    /\ Event("exit")
    /\ agents[s] # "gone"
    /\ agents' = [agents EXCEPT ![s] = IF @ = "live" THEN "dead" ELSE "gone"]
    /\ UNCHANGED <<seen, episodes, opened, pushed, enrolment, policy, passes, newest,
                   recipients, past>>

Next ==
    \/ \E p \in {"note", "dash"} :
          \/ \E full \in BOOLEAN : Start(p, full)
          \/ Listed(p) \/ Unavailable(p) \/ Overtaken(p) \/ Reduce(p)
          \/ \E s \in Agents : observeSessionFact(p, s)
    \/ BeginDelivery \/ EndDelivery \/ SendSettles
    \/ SendPush(subs) \/ SendPushSettles
    \/ \E e \in Endpoints : addSubscription(e) \/ removeSubscription(e)
    \/ \E mode \in {"quiet", "needs", "disabled"} : SetMode(mode)
    \/ \E s \in Agents : checkSessionTransitions(s) \/ forgetSessionObservation(s) \/ Exits(s)

Spec == Init /\ [][Next]_vars

-----------------------------------------------------------------------------
(* An alert is posted only while its episode is the session's current one  *)
(* and the policy admits it, and only to devices enrolled, without a break *)
(* since, when it was emitted; and an answer removes only the enrolment    *)
(* that was asked.  So a pass that was overtaken, a device that left and   *)
(* came back while a post was under way, or a mode switched off and on     *)
(* neither send nor undo anything that is not theirs.                      *)
OnlyEntitledStep ==
    /\ send = None /\ send' # None =>
          LET alert == send'.alert IN
          /\ Admits(alert.kind)
          /\ episodes[alert.agent] # None /\ episodes[alert.agent].id = alert.id
          /\ \A e \in DOMAIN send'.to : <<alert.id, e, enrolled[e]>> \in past.entitled
    /\ \A e \in subs \ subs' :
          /\ send # None /\ send' = None => send.to[e] = enrolled[e]
          /\ cast # None /\ cast' = None => cast[e] = enrolled[e]

OnlyEntitled == [][OnlyEntitledStep]_vars

(* A device takes an alert at most once and is tried MaxAttempts times at  *)
(* most; and a delivery that is over before that has reached every device  *)
(* that was entitled and still is.  Excepted are the episodes emitted by a *)
(* pass during which the last device left or the first one enrolled: its   *)
(* fingerprints are cleared, a pass for the program status that comes next *)
(* reports no alert and drops the delivery, and the alert is sent again.   *)
AlertedOnce ==
    /\ \A x \in DOMAIN past.took :
          x[1] \notin past.unseen => past.took[x] <= 1 /\ past.tried[x] <= MaxAttempts
    /\ \A s \in Agents :
          LET d == deliveries[s]
              r == recipients[s]
          IN d # None /\ r # None /\ d.id = r.id /\ d.pending = {} /\ d.attempts < MaxAttempts =>
                \A e \in DOMAIN r.to : StillEnrolled(e, r.to) => past.took[<<d.id, e>>] >= 1
=============================================================================
