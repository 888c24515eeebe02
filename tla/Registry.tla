------------------------------ MODULE Registry ------------------------------
(***************************************************************************)
(* The broker's session registry (broker/src/registry.rs): concurrent      *)
(* `create` calls that reserve a name, spawn a child outside the lock and  *)
(* commit; the exit reaper that consumes the lossy event broadcast; and    *)
(* the bounded set of tombstones an exited session leaves behind.          *)
(*                                                                         *)
(* A `create` call and the session it produces are both identified by the  *)
(* call.  The two UUIDs the code draws for it are Reservation(c) and       *)
(* SessionId(c).  Every action is one critical section of Inner's mutex or *)
(* one step outside it.                                                    *)
(***************************************************************************)
EXTENDS Naturals, Sequences

CONSTANTS
    Calls,          \* create calls, each of them the session it creates
    RequestNames,   \* names callers ask for; may collide with session-N
    Anonymous,      \* the request that carries no name
    Free,           \* names[n] = Free: no entry for n
    NoName,         \* nameOf[c] before c has resolved its name
    Other,          \* a broadcast event the exit reaper skips
    AnonMax,        \* bound on the N of session-N
    EventCap,       \* capacity of the event broadcast
    TombstoneMax    \* MAX_EXITED_TOMBSTONES

VARIABLES
    request,        \* the name each call asks for, or Anonymous
    pc,             \* progress of each create call
    nameOf,         \* the resolved name of a call
    names,          \* Inner.names
    next_anon,      \* Inner.next_anon
    sessions,       \* the keys of Inner.sessions
    tombstones,     \* Inner.tombstones, oldest expiry first
    due,            \* how many leading tombstones have expired
    child,          \* "none", "running", "dead" (alive = false), "announced"
    events,         \* broadcast backlog of the exit reaper
    lagged,         \* the reaper's next recv returns Lagged
    listed,         \* sweep: sessions still to be tested for alive()
    doomed          \* sweep: sessions found dead, still to be reaped

vars == <<request, pc, nameOf, names, next_anon, sessions, tombstones, due,
          child, events, lagged, listed, doomed>>

inner == <<names, next_anon, sessions, tombstones, due>>
reaper == <<events, lagged, listed, doomed>>

Anon(n) == <<"session", n>>
Name == RequestNames \cup {Anon(n) : n \in 1..AnonMax}
Reservation(c) == <<"reservation", c>>
SessionId(c) == <<"id", c>>
Owner == {Reservation(c) : c \in Calls} \cup {SessionId(c) : c \in Calls}

ASSUME RegistryAssumption ==
    /\ AnonMax \in Nat
    /\ EventCap \in Nat \ {0}
    /\ TombstoneMax \in Nat \ {0}
    /\ Free \notin Owner
    /\ NoName \notin Name
    /\ Other \notin Calls
    /\ Anonymous \notin RequestNames

-----------------------------------------------------------------------------
(* Helpers *)

InSeq(x, s) == \E i \in 1..Len(s) : s[i] = x

(* The newest TombstoneMax entries: eviction removes the oldest expiry.   *)
Capped(s) ==
    IF Len(s) > TombstoneMax
    THEN SubSeq(s, Len(s) - TombstoneMax + 1, Len(s))
    ELSE s

(* purge_expired_tombstones_at: drop what is due, then enforce the cap.   *)
Purged(s) == Capped(SubSeq(s, due + 1, Len(s)))

(* A send on the tokio broadcast: a full channel overwrites its oldest    *)
(* entry and a receiver that had not read it sees Lagged.                 *)
Send(e) ==
    IF Len(events) < EventCap
    THEN /\ events' = Append(events, e)
         /\ UNCHANGED lagged
    ELSE /\ events' = Append(Tail(events), e)
         /\ lagged' = TRUE

(* Mutant of Reap: the name is not released.                              *)
ReapKeepsName(c) ==
    IF c \in sessions
    THEN /\ sessions' = sessions \ {c}
         /\ tombstones' = Purged(Append(tombstones, c))
         /\ due' = 0
         /\ UNCHANGED names
    ELSE UNCHANGED <<sessions, names, tombstones, due>>

(* Registry::reap: a no-op for an id that is not registered.              *)
Reap(c) ==
    IF c \in sessions
    THEN /\ sessions' = sessions \ {c}
         /\ names' = IF names[nameOf[c]] = SessionId(c)
                     THEN [names EXCEPT ![nameOf[c]] = Free]
                     ELSE names
         /\ tombstones' = Purged(Append(tombstones, c))
         /\ due' = 0
    ELSE UNCHANGED <<sessions, names, tombstones, due>>

-----------------------------------------------------------------------------
Init ==
    /\ request \in [Calls -> RequestNames \cup {Anonymous}]
    /\ pc = [c \in Calls |-> "idle"]
    /\ nameOf = [c \in Calls |-> NoName]
    /\ names = [n \in Name |-> Free]
    /\ next_anon = 0
    /\ sessions = {}
    /\ tombstones = <<>>
    /\ due = 0
    /\ child = [c \in Calls |-> "none"]
    /\ events = <<>>
    /\ lagged = FALSE
    /\ listed = {}
    /\ doomed = {}

(* create, first critical section: purge, then resolve_name.              *)
Reserved(c, n) ==
    /\ pc' = [pc EXCEPT ![c] = "reserved"]
    /\ nameOf' = [nameOf EXCEPT ![c] = n]
    /\ names' = [names EXCEPT ![n] = Reservation(c)]

ReserveNamed(c) ==
    /\ pc[c] = "idle"
    /\ request[c] # Anonymous
    /\ \/ /\ names[request[c]] = Free
          /\ Reserved(c, request[c])
       \/ /\ names[request[c]] # Free           \* DuplicateName
          /\ pc' = [pc EXCEPT ![c] = "failed"]
          /\ UNCHANGED <<nameOf, names>>
    /\ tombstones' = Purged(tombstones)
    /\ due' = 0
    /\ UNCHANGED <<request, next_anon, sessions, child, reaper>>

ReserveAnonymous(c) ==
    /\ pc[c] = "idle"
    /\ request[c] = Anonymous
    /\ \E n \in (next_anon + 1)..AnonMax :
          /\ names[Anon(n)] = Free
          /\ \A m \in (next_anon + 1)..(n - 1) : names[Anon(m)] # Free
          /\ next_anon' = n
          /\ Reserved(c, Anon(n))
    /\ tombstones' = Purged(tombstones)
    /\ due' = 0
    /\ UNCHANGED <<request, sessions, child, reaper>>

(* Session::spawn runs without the lock.                                  *)
SpawnOk(c) ==
    /\ pc[c] = "reserved"
    /\ pc' = [pc EXCEPT ![c] = "spawned"]
    /\ child' = [child EXCEPT ![c] = "running"]
    /\ UNCHANGED <<request, nameOf, inner, reaper>>

SpawnFail(c) ==
    /\ pc[c] = "reserved"
    /\ pc' = [pc EXCEPT ![c] = "failed"]
    /\ names' = IF names[nameOf[c]] = Reservation(c)
                THEN [names EXCEPT ![nameOf[c]] = Free]
                ELSE names
    /\ UNCHANGED <<request, nameOf, next_anon, sessions, tombstones, due, child,
                   reaper>>

(* create, second critical section: the session becomes visible.          *)
Commit(c) ==
    /\ pc[c] = "spawned"
    /\ pc' = [pc EXCEPT ![c] = "committed"]
    /\ sessions' = sessions \cup {c}
    /\ names' = [names EXCEPT ![nameOf[c]] = SessionId(c)]
    /\ UNCHANGED <<request, nameOf, next_anon, tombstones, due, child, reaper>>

(* SessionStarted is sent after the lock is released.                     *)
PublishStarted(c) ==
    /\ pc[c] = "committed"
    /\ pc' = [pc EXCEPT ![c] = "published"]
    /\ Send(Other)
    /\ UNCHANGED <<request, nameOf, inner, child, listed, doomed>>

(* The child may have exited, and the reaper may have consumed its event, *)
(* before the commit: create reconciles through reap.                     *)
Reconcile(c) ==
    /\ pc[c] = "published"
    /\ pc' = [pc EXCEPT ![c] = "done"]
    /\ IF child[c] # "running"
       THEN Reap(c)
       ELSE UNCHANGED <<sessions, names, tombstones, due>>
    /\ UNCHANGED <<request, nameOf, next_anon, child, reaper>>

-----------------------------------------------------------------------------
(* The session's own threads: alive = false, then the event is sent.      *)
ChildExits(c) ==
    /\ child[c] = "running"
    /\ child' = [child EXCEPT ![c] = "dead"]
    /\ UNCHANGED <<request, pc, nameOf, inner, reaper>>

AnnounceExit(c) ==
    /\ child[c] = "dead"
    /\ child' = [child EXCEPT ![c] = "announced"]
    /\ Send(c)
    /\ UNCHANGED <<request, pc, nameOf, inner, listed, doomed>>

(* Any other event of a registered session (resize, program status).      *)
OtherEvent ==
    /\ sessions # {}
    /\ Send(Other)
    /\ UNCHANGED <<request, pc, nameOf, inner, child, listed, doomed>>

-----------------------------------------------------------------------------
(* spawn_exit_reaper: one task, so a sweep is not interrupted by recv.    *)
Receiving == listed = {} /\ doomed = {}

ReaperRecv ==
    /\ Receiving
    /\ ~lagged
    /\ events # <<>>
    /\ events' = Tail(events)
    /\ IF Head(events) \in Calls
       THEN Reap(Head(events))
       ELSE UNCHANGED <<sessions, names, tombstones, due>>
    /\ UNCHANGED <<request, pc, nameOf, next_anon, child, lagged, listed, doomed>>

(* Mutant of ReaperLagged: the task ends at Lagged as it does at Closed.  *)
ReaperStopsAtLag == FALSE /\ UNCHANGED vars

(* Lagged: list() takes the registered sessions under the lock ...        *)
ReaperLagged ==
    /\ Receiving
    /\ lagged
    /\ lagged' = FALSE
    /\ listed' = sessions
    /\ UNCHANGED <<request, pc, nameOf, inner, child, events, doomed>>

(* ... filter tests alive() one session at a time ...                     *)
SweepTest(c) ==
    /\ c \in listed
    /\ listed' = listed \ {c}
    /\ doomed' = IF child[c] # "running" THEN doomed \cup {c} ELSE doomed
    /\ UNCHANGED <<request, pc, nameOf, inner, child, events, lagged>>

(* ... and the dead ones are reaped.                                      *)
SweepReap(c) ==
    /\ listed = {}
    /\ c \in doomed
    /\ doomed' = doomed \ {c}
    /\ Reap(c)
    /\ UNCHANGED <<request, pc, nameOf, next_anon, child, events, lagged, listed>>

(* A tombstone's TTL runs out.                                            *)
TombstoneExpires ==
    /\ due < Len(tombstones)
    /\ due' = due + 1
    /\ UNCHANGED <<request, pc, nameOf, names, next_anon, sessions, tombstones,
                   child, reaper>>

(* The maintenance tick, and the purge at the head of every `get`.        *)
Purge ==
    /\ due > 0
    /\ tombstones' = Purged(tombstones)
    /\ due' = 0
    /\ UNCHANGED <<request, pc, nameOf, names, next_anon, sessions, child, reaper>>

-----------------------------------------------------------------------------
Create(c) ==
    \/ ReserveNamed(c) \/ ReserveAnonymous(c)
    \/ SpawnOk(c) \/ SpawnFail(c)
    \/ Commit(c) \/ PublishStarted(c) \/ Reconcile(c)

ReaperTask ==
    \/ ReaperRecv
    \/ ReaperLagged
    \/ \E c \in Calls : SweepTest(c) \/ SweepReap(c)

Next ==
    \/ \E c \in Calls : Create(c) \/ ChildExits(c) \/ AnnounceExit(c)
    \/ ReaperTask
    \/ OtherEvent
    \/ TombstoneExpires
    \/ Purge

Spec == Init /\ [][Next]_vars

(* Threads of create and of the sessions run to completion, the reaper    *)
(* task keeps polling, and the 1 s maintenance tick keeps purging.        *)
(* Nothing makes a child exit or a caller call create.                    *)
Fairness ==
    /\ \A c \in Calls :
          /\ WF_vars(SpawnOk(c) \/ SpawnFail(c))
          /\ WF_vars(Commit(c) \/ PublishStarted(c) \/ Reconcile(c))
          /\ WF_vars(AnnounceExit(c))
    /\ WF_vars(ReaperTask)
    /\ WF_vars(Purge)

FairSpec == Spec /\ Fairness

-----------------------------------------------------------------------------
(* Every variable has its type; tombstones never exceed their cap.        *)
TypeOK ==
    /\ request \in [Calls -> RequestNames \cup {Anonymous}]
    /\ pc \in [Calls -> {"idle", "reserved", "spawned", "committed",
                         "published", "done", "failed"}]
    /\ nameOf \in [Calls -> Name \cup {NoName}]
    /\ names \in [Name -> Owner \cup {Free}]
    /\ next_anon \in 0..AnonMax
    /\ sessions \subseteq Calls
    /\ tombstones \in Seq(Calls)
    /\ Len(tombstones) <= TombstoneMax
    /\ due \in 0..Len(tombstones)
    /\ child \in [Calls -> {"none", "running", "dead", "announced"}]
    /\ events \in Seq(Calls \cup {Other})
    /\ Len(events) <= EventCap
    /\ lagged \in BOOLEAN
    /\ listed \subseteq Calls
    /\ doomed \subseteq Calls

(* Names and owners agree whatever the interleaving of create, failed     *)
(* spawns and reaping: a call between reserve and commit holds its name   *)
(* (the debug_assert_eq in create), a registered session holds its name   *)
(* under its own id, and every entry of `names` belongs to one of those   *)
(* two, so no name is shared and none leaks when a spawn fails, a child   *)
(* exits before its commit or a reap is repeated.                         *)
NameOwnership ==
    /\ \A c \in Calls :
          /\ pc[c] \in {"reserved", "spawned"} =>
                /\ nameOf[c] \in Name
                /\ names[nameOf[c]] = Reservation(c)
          /\ c \in sessions =>
                /\ nameOf[c] \in Name
                /\ names[nameOf[c]] = SessionId(c)
    /\ \A n \in Name, c \in Calls :
          /\ names[n] = Reservation(c) =>
                pc[c] \in {"reserved", "spawned"} /\ nameOf[c] = n
          /\ names[n] = SessionId(c) => c \in sessions /\ nameOf[c] = n

(* No dead session is stranded in the registry: once its create call has  *)
(* returned and its single SessionExited has been sent, that event is     *)
(* still ahead of the reaper, or the reaper lagged and owes a sweep, or a *)
(* running sweep still covers the session.                                *)
DeadHasReaper ==
    \A c \in sessions :
        child[c] = "announced" /\ pc[c] = "done" =>
            InSeq(c, events) \/ lagged \/ c \in listed \cup doomed

(* reap never loses a session: one that leaves `sessions` is, in the same *)
(* step, the newest tombstone, so `get` still finds it after its exit.    *)
ReapedStaysReachable ==
    [][\A c \in Calls : c \in sessions /\ c \notin sessions' =>
          tombstones' # <<>> /\ tombstones'[Len(tombstones')] = c]_vars

(* A session id is never both registered and a tombstone, and has at most *)
(* one tombstone, although reap is called from the reaper, from a sweep   *)
(* and from create for the same exit.                                     *)
ReapedOnce ==
    /\ \A i \in 1..Len(tombstones) : tombstones[i] \notin sessions
    /\ \A i, j \in 1..Len(tombstones) : tombstones[i] = tombstones[j] => i = j

(* "a killed session-N's slot is not silently reused": two anonymous      *)
(* creates never get the same name, even when the first has been reaped.  *)
AnonymousNamesDistinct ==
    \A c, d \in Calls :
        /\ c # d
        /\ request[c] = Anonymous /\ request[d] = Anonymous
        /\ nameOf[c] # NoName /\ nameOf[d] # NoName
        => nameOf[c] # nameOf[d]

(* A registered session whose child has exited is eventually reaped and   *)
(* its name freed, even if its event was lost to lag or came before the   *)
(* commit; and an expired tombstone does not outlive the maintenance tick.*)
DeadEventuallyReaped ==
    []<>(due = 0 /\ \A c \in sessions : child[c] \notin {"dead", "announced"})
=============================================================================
