------------------------------ MODULE MCBroker ------------------------------
(***************************************************************************)
(* The parts of a broker session that do not wait for each other, checked  *)
(* side by side.  A behaviour is one of OutputBus, SessionSnapshot,        *)
(* SessionStatus or InputPath, as `scene` says; the bus of the other       *)
(* scenes stays empty and the other variables keep the value Parked.       *)
(***************************************************************************)
EXTENDS OutputBus, TLC

CONSTANTS None, Parked, full_ring, last_rows, conn_a, conn_b, drainer_thread

VARIABLES
    scene,
    terminal, seq, generation, cache, pty, info, resizing, client, resizes, failed,
    term, busClosed, publisher, drainer, reaper, state, told, child, foreground, made, switched,
    sent, lane, open, worker, writer, pending, replies, out, read, exited, load

busVars == vars
snapshotVars == <<terminal, seq, generation, cache, pty, info, resizing, client, resizes, failed>>
statusVars == <<term, busClosed, publisher, drainer, reaper, state, told, child, foreground,
                made, switched>>
inputVars == <<sent, lane, open, worker, writer, pending, replies, out, read, exited, load>>

Snapshot == INSTANCE SessionSnapshot
    WITH Clients <- {conn_a, conn_b}, Keys <- {full_ring, last_rows}, Size0 <- 1, SeqMax <- 1, ResizeMax <- 2

Status == INSTANCE SessionStatus
    WITH Ids <- {"root", "child"}, Root <- "root", States <- {"working", "done"},
         MaxRecords <- 2, Groups <- {conn_a, conn_b}, ChunkMax <- 2, SwitchMax <- 1

(* Much input of one connection, input of two, and replies of the drainer  *)
(* among them; and the last worker.                                        *)
Load(ofA, ofB, answers, workers) ==
    [bytes |-> conn_a :> ofA @@ conn_b :> ofB, replies |-> answers, workers |-> workers]
InputLoads == {Load(4, 0, 0, 2), Load(2, 2, 0, 2), Load(1, 1, 1, 2), Load(1, 0, 2, 2),
               Load(1, 1, 0, 1)}

Input == INSTANCE InputPath
    WITH Conns <- {conn_a, conn_b}, Drainer <- drainer_thread, FrameMax <- 2, ConnBytes <- 3,
         GlobalBytes <- 3, QueueCap <- 1, PayloadMax <- 2, PendingMax <- 2, PtyCap <- 1,
         ReplyLen <- 2, Loads <- InputLoads

NoBus == Init
NoSnapshot ==
    /\ terminal = Parked /\ seq = Parked /\ generation = Parked /\ cache = Parked
    /\ pty = Parked /\ info = Parked /\ resizing = Parked /\ client = Parked
    /\ resizes = Parked /\ failed = Parked
NoStatus ==
    /\ term = Parked /\ busClosed = Parked /\ publisher = Parked /\ drainer = Parked
    /\ reaper = Parked /\ state = Parked /\ told = Parked /\ child = Parked
    /\ foreground = Parked /\ made = Parked /\ switched = Parked
NoInput ==
    /\ sent = Parked /\ lane = Parked /\ open = Parked /\ worker = Parked
    /\ writer = Parked /\ pending = Parked /\ replies = Parked /\ out = Parked
    /\ read = Parked /\ exited = Parked /\ load = Parked

BrokerInit ==
    \/ scene = "bus" /\ Init /\ NoSnapshot /\ NoStatus /\ NoInput
    \/ scene = "snapshot" /\ Snapshot!Init /\ NoBus /\ NoStatus /\ NoInput
    \/ scene = "status" /\ Status!Init /\ NoBus /\ NoSnapshot /\ NoInput
    \/ scene = "input" /\ Input!Init /\ NoBus /\ NoSnapshot /\ NoStatus

BrokerNext ==
    /\ UNCHANGED scene
    /\ \/ /\ scene = "bus" /\ Next
          /\ UNCHANGED <<snapshotVars, statusVars, inputVars>>
       \/ /\ scene = "snapshot" /\ Snapshot!Next
          /\ UNCHANGED <<busVars, statusVars, inputVars>>
       \/ /\ scene = "status" /\ Status!Next
          /\ UNCHANGED <<busVars, snapshotVars, inputVars>>
       \/ /\ scene = "input" /\ Input!Next
          /\ UNCHANGED <<busVars, snapshotVars, statusVars>>

(* The fairness of SessionStatus and of InputPath, each in its scene.      *)
BrokerSpec ==
    /\ BrokerInit /\ [][BrokerNext]_<<scene, busVars, snapshotVars, statusVars, inputVars>>
    /\ WF_statusVars(scene = "status" /\ \E spawned \in BOOLEAN : Status!Feed(spawned))
    /\ WF_statusVars(scene = "status" /\ \E spawned \in BOOLEAN : Status!DropTransient(spawned))
    /\ WF_statusVars(scene = "status" /\ Status!MarkFailed)
    /\ WF_statusVars(scene = "status" /\ Status!ReaperThread)
    /\ WF_statusVars(scene = "status" /\ Status!PacerThread)
    /\ \A t \in {conn_a, conn_b, drainer_thread} : WF_inputVars(scene = "input" /\ Input!Step(t))

-----------------------------------------------------------------------------
(* A snapshot shows what it says it shows, at the size the session has     *)
(* (SessionSnapshot).                                                      *)
SnapshotExact == scene = "snapshot" => Snapshot!SnapshotExact

(* The final seq is final and the exit follows the last status change      *)
(* (SessionStatus).                                                        *)
ExitIsFinal == scene = "status" => Status!ExitIsFinal

(* "the newest state is always delivered" (SessionStatus).                 *)
NewestStatusDelivered == []<>(scene # "status" \/ told = Status!root(term.recs))

(* Input keeps its order and a cut reply is completed first (InputPath).   *)
InputIntact == scene = "input" => Input!InputIntact

(* Closing a connection ends its input workers (InputPath).                *)
TeardownEnds ==
    []<>(scene # "input" \/ \A c \in {conn_a, conn_b} : ~open[c] => worker[c].pc = "none")

(* "a reply queued while it held the lock is never stranded" (InputPath).  *)
NothingStranded == scene = "input" => Input!NothingStranded
=============================================================================
