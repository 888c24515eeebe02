---------------------------- MODULE SessionStatus ----------------------------
(***************************************************************************)
(* The threads of a broker session that end it: the drainer that feeds the *)
(* emulator and publishes output, the reaper that waits for the child, and *)
(* the pacer that publishes program status (broker/src/session.rs), with   *)
(* the records they share (broker/src/program_status.rs).                  *)
(*                                                                         *)
(* A step that holds the terminal lock is one action.  A record is its id  *)
(* and state; `recs` lists them, the least recently updated first.         *)
(***************************************************************************)
EXTENDS Naturals, Sequences, SequencesExt

CONSTANTS
    Ids,            \* record ids; Root is the empty one, the parent of all
    Root,
    States,         \* reported states
    MaxRecords,
    Groups,         \* process groups that may own the foreground
    None,
    ChunkMax,       \* bound on the chunks read from the PTY
    SwitchMax       \* bound on the changes of the foreground group

VARIABLES
    term,           \* the emulator: seq, records and reporter group
    busClosed,
    publisher,      \* ProgramStatusPublisher and its pacing thread
    drainer,
    reaper,
    state,          \* inner.state.alive, and the session_exited events sent
    told,           \* the root of the last program_status_changed event
    child,          \* the child process: running or not
    foreground,     \* the terminal's foreground group
    made, switched

vars == <<term, busClosed, publisher, drainer, reaper, state, told, child, foreground, made, switched>>

Reports == [do : {"set"}, id : Ids, st : States] \cup [do : {"clear"}, id : Ids, st : {"idle"}]
           \cup [do : {"prompt"}, id : {Root}, st : {"idle"}] \cup [do : {"text"}, id : {Root}, st : {"idle"}]

Init ==
    /\ term = [seq |-> 0, recs |-> <<>>, group |-> None]
    /\ busClosed = FALSE
    /\ publisher = [root |-> None, dirty |-> FALSE, closed |-> FALSE, watching |-> FALSE,
                    pacer |-> "none", held |-> None]
    /\ drainer = [pc |-> "read", chunk |-> None]
    /\ reaper = [pc |-> "wait", final |-> 0]
    /\ state = [alive |-> TRUE, exits |-> <<>>]
    /\ told = None /\ child = TRUE
    /\ foreground \in Groups
    /\ made = 0 /\ switched = 0

-----------------------------------------------------------------------------
(* ProgramStatusRecords.                                                   *)

IdsOf(recs) == {recs[i].id : i \in DOMAIN recs}
StateOf(recs, id) == recs[CHOOSE i \in DOMAIN recs : recs[i].id = id].st
root(recs) == IF Root \in IdsOf(recs) THEN StateOf(recs, Root) ELSE None

drop_transient(recs) == SelectSeq(recs, LAMBDA r : r.st \in {"done", "error"})
clear(recs, id) == SelectSeq(recs, LAMBDA r : id # Root /\ r.id # id)

(* The root is never evicted through its own children.                     *)
evict_least_recently_updated(recs) ==
    LET others == {i \in DOMAIN recs : recs[i].id # Root}
    IN  IF others = {} THEN recs
        ELSE LET i == CHOOSE k \in others : \A j \in others : k <= j
             IN  RemoveAt(recs, i)

apply(recs, report) ==
    IF report.do = "clear" THEN clear(recs, report.id)
    ELSE LET new  == [id |-> report.id, st |-> report.st]
             kept == SelectSeq(recs, LAMBDA r : r.id # report.id)
             room == IF Len(kept) = Len(recs) /\ Len(recs) >= MaxRecords
                     THEN evict_least_recently_updated(recs) ELSE kept
         IN  Append(room, new)

(* try_feed: the records after a chunk that holds one report.              *)
feed(recs, report) ==
    CASE report.do = "text" -> recs
      [] report.do = "prompt" -> drop_transient(recs)
      [] OTHER -> apply(recs, report)

watched_group(t) ==
    IF \E i \in DOMAIN t.recs : t.recs[i].st \in {"working", "blocked"} THEN t.group ELSE None

(* The records changed: a report that leaves its record as it was changes  *)
(* nothing but the order.                                                  *)
Changed(old, new) == {old[i] : i \in DOMAIN old} # {new[i] : i \in DOMAIN new}

-----------------------------------------------------------------------------
(* ProgramStatusPublisher.update: what the publisher and the last event    *)
(* become.  Without a pacing thread the change is published at once.       *)
update(p, last, newRoot, spawned) ==
    LET q == [p EXCEPT !.root = newRoot]
    IN  IF p.closed THEN [pub |-> q, told |-> newRoot]
        ELSE IF p.pacer = "none" /\ ~spawned
        THEN [pub |-> [q EXCEPT !.dirty = FALSE], told |-> newRoot]
        ELSE [pub |-> [q EXCEPT !.dirty = TRUE, !.pacer = IF @ = "none" THEN "idle" ELSE @],
              told |-> last]

(* The drainer: read(2) returns a chunk.                                   *)
Read(report) ==
    /\ drainer.pc = "read" /\ ~busClosed /\ made < ChunkMax
    /\ drainer' = [pc |-> "got", chunk |-> report]
    /\ made' = made + 1
    /\ UNCHANGED <<term, busClosed, publisher, reaper, state, told, child, foreground, switched>>

(* The drainer under the terminal lock.                                    *)
Feed(spawned) ==
    /\ drainer.pc = "got"
    /\ IF busClosed
       THEN drainer' = [pc |-> "done", chunk |-> None] /\ UNCHANGED <<term, publisher, told>>
       ELSE LET recs == feed(term.recs, drainer.chunk)
                t    == [seq   |-> term.seq + 1,
                         recs  |-> recs,
                         group |-> IF drainer.chunk.do = "set" THEN foreground ELSE term.group]
                u    == IF Changed(term.recs, recs)
                        THEN update(publisher, told, root(recs), spawned)
                        ELSE [pub |-> publisher, told |-> told]
            IN  /\ term' = t
                /\ told' = u.told
                /\ publisher' = IF Changed(term.recs, recs) \/ drainer.chunk.do = "set"
                                THEN [u.pub EXCEPT !.watching = (watched_group(t) # None)]
                                ELSE u.pub
                /\ drainer' = [pc |-> "read", chunk |-> None]
    /\ UNCHANGED <<busClosed, reaper, state, child, foreground, made, switched>>

(* The emulator refuses the chunk, or read(2) fails: the output is closed  *)
(* before the session is marked.                                           *)
DrainFails ==
    /\ drainer.pc = "read" \/ (drainer.pc = "got" /\ ~busClosed)
    /\ busClosed' = TRUE
    /\ drainer' = [pc |-> "failed", chunk |-> None]
    /\ UNCHANGED <<term, publisher, reaper, state, told, child, foreground, made, switched>>

(* End of file, or the output was closed.                                  *)
DrainEnds ==
    /\ drainer.pc = "read" /\ (busClosed \/ ~child)
    /\ busClosed' = TRUE
    /\ drainer' = [pc |-> "done", chunk |-> None]
    /\ UNCHANGED <<term, publisher, reaper, state, told, child, foreground, made, switched>>

(* mark_pty_read_failed, and the kill of the child.                        *)
MarkFailed ==
    /\ drainer.pc = "failed"
    /\ state' = [alive |-> FALSE, exits |-> IF state.alive THEN Append(state.exits, term.seq) ELSE state.exits]
    /\ child' = FALSE
    /\ drainer' = [drainer EXCEPT !.pc = "done"]
    /\ UNCHANGED <<term, busClosed, publisher, reaper, told, foreground, made, switched>>

-----------------------------------------------------------------------------
(* reap.                                                                   *)

ChildExits ==
    /\ child /\ child' = FALSE
    /\ UNCHANGED <<term, busClosed, publisher, drainer, reaper, state, told, foreground, made, switched>>

Waited ==
    /\ reaper.pc = "wait" /\ ~child
    /\ reaper' = [reaper EXCEPT !.pc = "barrier"]
    /\ UNCHANGED <<term, busClosed, publisher, drainer, state, told, child, foreground, made, switched>>

(* Mutant: the drainer is not cut off.                                     *)
BarrierOpen ==
    /\ reaper.pc = "barrier"
    /\ reaper' = [pc |-> "drop", final |-> term.seq]
    /\ UNCHANGED <<term, busClosed, publisher, drainer, state, told, child, foreground, made, switched>>

(* The drainer closed the output, or the wait timed out and the reaper     *)
(* closes it under the terminal lock: something the child left behind may  *)
(* keep the PTY open.                                                      *)
Barrier ==
    /\ reaper.pc = "barrier"
    /\ busClosed' = TRUE
    /\ reaper' = [pc |-> "drop", final |-> term.seq]
    /\ UNCHANGED <<term, publisher, drainer, state, told, child, foreground, made, switched>>

DropTransient(spawned) ==
    /\ reaper.pc = "drop"
    /\ LET recs == drop_transient(term.recs)
           u    == IF Len(recs) # Len(term.recs) THEN update(publisher, told, root(recs), spawned)
                   ELSE [pub |-> publisher, told |-> told]
       IN  /\ term' = [term EXCEPT !.recs = recs]
           /\ publisher' = u.pub
           /\ told' = u.told
    /\ reaper' = [reaper EXCEPT !.pc = "close"]
    /\ UNCHANGED <<busClosed, drainer, state, child, foreground, made, switched>>

Close ==
    /\ reaper.pc = "close"
    /\ publisher' = [publisher EXCEPT !.closed = TRUE]
    /\ reaper' = [reaper EXCEPT !.pc = "join"]
    /\ UNCHANGED <<term, busClosed, drainer, state, told, child, foreground, made, switched>>

SessionExited ==
    /\ reaper.pc = "join" /\ publisher.pacer \in {"none", "done"}
    /\ state' = [alive |-> FALSE, exits |-> IF state.alive THEN Append(state.exits, reaper.final) ELSE state.exits]
    /\ reaper' = [reaper EXCEPT !.pc = "done"]
    /\ UNCHANGED <<term, busClosed, publisher, drainer, told, child, foreground, made, switched>>

-----------------------------------------------------------------------------
(* The pacing thread.                                                      *)

PacerStep(p) ==
    /\ publisher' = p
    /\ UNCHANGED <<term, busClosed, drainer, reaper, state, child, foreground, made, switched>>

(* A change, or the end.                                                   *)
PacerWakes ==
    /\ publisher.pacer = "idle" /\ (publisher.dirty \/ publisher.closed)
    /\ PacerStep(IF publisher.dirty
                 THEN [publisher EXCEPT !.dirty = FALSE, !.held = publisher.root, !.pacer = "sending"]
                 ELSE [publisher EXCEPT !.pacer = "done"])
    /\ UNCHANGED told

PacerSends ==
    /\ publisher.pacer = "sending"
    /\ PacerStep([publisher EXCEPT !.held = None, !.pacer = "paused"])
    /\ told' = publisher.held

(* Mutant: the wait has no time limit.                                     *)
PacerResumesAtClose ==
    /\ publisher.pacer = "paused" /\ publisher.closed
    /\ PacerStep([publisher EXCEPT !.pacer = "idle"])
    /\ UNCHANGED told

(* The interval ended, or closing cut it short.                            *)
PacerResumes ==
    /\ publisher.pacer = "paused"
    /\ PacerStep([publisher EXCEPT !.pacer = "idle"])
    /\ UNCHANGED told

(* A foreground check is due; the publisher lock is released for it.       *)
CheckDue ==
    /\ publisher.pacer = "idle" /\ ~publisher.dirty /\ ~publisher.closed /\ publisher.watching
    /\ PacerStep([publisher EXCEPT !.pacer = "check"])
    /\ UNCHANGED told

(* drop_if_reporter_left.  The reporter may be gone although its group     *)
(* still owns the foreground.                                              *)
Check(gone) ==
    /\ publisher.pacer = "check"
    /\ LET group == watched_group(term)
           left  == group # None /\ (foreground # group \/ gone)
           recs  == drop_transient(term.recs)
           t     == [term EXCEPT !.recs = recs]
       IN  IF left
           THEN /\ term' = t
                /\ publisher' = [publisher EXCEPT !.root = root(recs), !.dirty = TRUE, !.pacer = "idle",
                                                  !.watching = (watched_group(t) # None)]
           ELSE /\ publisher' = [publisher EXCEPT !.pacer = "idle"]
                /\ UNCHANGED term
    /\ UNCHANGED <<busClosed, drainer, reaper, state, told, child, foreground, made, switched>>

ForegroundChanges(g) ==
    /\ switched < SwitchMax /\ g # foreground
    /\ foreground' = g /\ switched' = switched + 1
    /\ UNCHANGED <<term, busClosed, publisher, drainer, reaper, state, told, child, made>>

ReaperThread == Waited \/ Barrier \/ Close \/ SessionExited
PacerThread ==
    \/ PacerWakes \/ PacerSends \/ PacerResumes \/ CheckDue
    \/ \E gone \in BOOLEAN : Check(gone)

Next ==
    \/ \E report \in Reports : Read(report)
    \/ \E spawned \in BOOLEAN : Feed(spawned) \/ DropTransient(spawned)
    \/ DrainFails \/ DrainEnds \/ MarkFailed
    \/ ChildExits \/ ReaperThread \/ PacerThread
    \/ \E g \in Groups : ForegroundChanges(g)

(* Every thread runs; the child owes nothing, and neither does read(2).    *)
Fairness ==
    /\ WF_vars(\E spawned \in BOOLEAN : Feed(spawned))
    /\ WF_vars(\E spawned \in BOOLEAN : DropTransient(spawned))
    /\ WF_vars(MarkFailed)
    /\ WF_vars(ReaperThread) /\ WF_vars(PacerThread)

Spec == Init /\ [][Next]_vars
FairSpec == Spec /\ Fairness

-----------------------------------------------------------------------------
(* The final sequence number of session_exited is final: neither a drainer *)
(* that outlived the child nor one that failed moves it, there is one such *)
(* event, and what the reaper announces follows the status change that     *)
(* the exit causes: no record of a live program is left.                   *)
ExitIsFinal ==
    /\ Len(state.exits) <= 1
    /\ \A i \in DOMAIN state.exits : state.exits[i] = term.seq
    /\ reaper.pc = "done" => /\ told = root(term.recs)
                             /\ term.recs = drop_transient(term.recs)

(* "the newest state is always delivered": the events end on the root the  *)
(* emulator has, however the drainer, the foreground check and the exit    *)
(* interleave with the pacing thread.                                      *)
NewestStatusDelivered == []<>(told = root(term.recs))
=============================================================================
