------------------------------ MODULE InputPath ------------------------------
(***************************************************************************)
(* The way of terminal input to a session's program: per-connection lanes  *)
(* with byte budgets and one blocking worker (ConnectionInput,             *)
(* broker/src/server.rs), and the PTY input they share with the drainer's  *)
(* replies to program queries (PtyInput, broker/src/session.rs).           *)
(*                                                                         *)
(* `out` is what the PTY took so far, byte by byte; the program has read a *)
(* prefix of it, and the PTY holds at most PtyCap bytes it has not.        *)
(***************************************************************************)
EXTENDS Naturals, Sequences, FiniteSets, SequencesExt

CONSTANTS
    Conns,              \* connections that write to the session
    Drainer,            \* the drainer thread
    None,
    FrameMax,           \* sizes of input frames are 1..FrameMax
    ConnBytes,          \* INPUT_QUEUE_MAX_BYTES
    GlobalBytes,        \* INPUT_GLOBAL_MAX_BYTES
    QueueCap,           \* INPUT_QUEUE_CAPACITY
    PayloadMax,         \* MAX_INPUT_BINARY_PAYLOAD
    PendingMax,         \* MAX_PENDING_REPLY_BYTES
    PtyCap,
    ReplyLen,           \* bytes of a reply
    Loads               \* INPUT_WORKER_LIMIT, and bounds on the bytes and replies sent

VARIABLES
    sent,               \* per connection: bytes submitted
    lane,               \* per connection: the queued chunks, or None
    open,               \* per connection: not torn down (`cancelled` is its negation)
    worker,             \* per thread: its step in write_input, what it writes
    writer,             \* holder of the writer lock
    pending,            \* pending_replies: a cut tail, then whole replies
    replies,            \* replies the drainer has been given
    out, read,
    exited,             \* child_exited
    load                \* the limits of this behaviour

vars == <<sent, lane, open, worker, writer, pending, replies, out, read, exited, load>>

Threads == Conns \cup {Drainer}
Rest == [pc |-> "none", data |-> <<>>, batch |-> <<>>]
NoReplies == [tail |-> <<>>, whole |-> <<>>]

Init ==
    /\ sent = [c \in Conns |-> 0]
    /\ lane = [c \in Conns |-> None]
    /\ open = [c \in Conns |-> TRUE]
    /\ worker = [t \in Threads |-> Rest]
    /\ writer = None /\ pending = NoReplies /\ replies = 0
    /\ out = <<>> /\ read = 0 /\ exited = FALSE
    /\ load \in Loads

-----------------------------------------------------------------------------
(* A byte names what it is part of and its place there.                    *)

Bytes(of, from, to) == [i \in 1..(to - from) |-> [of |-> of, n |-> from + i]]
Reply(k) == Bytes(k, 0, ReplyLen)

LaneBytes(c) == IF lane[c] = None THEN 0 ELSE Len(FlattenSeq(lane[c])) + Len(worker[c].data)
                                              \* the permits queued and in-flight input holds
Held == FoldLeft(LAMBDA n, c : n + LaneBytes(c), 0, SetToSeq(Conns))
Running == Cardinality({c \in Conns : lane[c] # None})

(* The connection ends: its workers are told, its queued input dropped.    *)
Close(c) ==
    /\ open' = [open EXCEPT ![c] = FALSE]
    /\ lane' = IF lane[c] = None THEN lane ELSE [lane EXCEPT ![c] = <<>>]
    /\ UNCHANGED worker

Start(c, data, rest) ==
    /\ worker' = [worker EXCEPT ![c] = [pc |-> "lock", data |-> data, batch |-> <<>>]]
    /\ lane' = [lane EXCEPT ![c] = rest]
    /\ UNCHANGED open

Enqueue(c, queue) == lane' = [lane EXCEPT ![c] = queue] /\ UNCHANGED <<open, worker>>

(* ConnectionInput.submit: admitted, or the connection is closed.          *)
Submit(c, size) ==
    /\ open[c] /\ sent[c] + size <= load.bytes[c]
    /\ LET data   == Bytes(c, sent[c], sent[c] + size)
           q      == lane[c]
           fits   == LaneBytes(c) + size <= ConnBytes /\ Held + size <= GlobalBytes
           merges == q # None /\ q # <<>> /\ Len(Last(q)) + size <= PayloadMax
       IN  \/ fits /\ q = None /\ Running < load.workers /\ Start(c, data, <<>>)
           \/ fits /\ merges /\ Enqueue(c, [q EXCEPT ![Len(q)] = @ \o data])
           \/ fits /\ q # None /\ ~merges /\ Len(q) < QueueCap /\ Enqueue(c, Append(q, data))
           \/ /\ \/ ~fits
                 \/ q = None /\ Running >= load.workers
                 \/ q # None /\ ~merges /\ Len(q) >= QueueCap
              /\ Close(c)
    /\ sent' = [sent EXCEPT ![c] = @ + size]
    /\ UNCHANGED <<writer, pending, replies, out, read, exited, load>>

Cancel(c) ==
    /\ open[c] /\ Close(c)
    /\ UNCHANGED <<sent, writer, pending, replies, out, read, exited, load>>

(* ConnectionInput.completed, or the join of cancel.  An ended session may *)
(* have left the registry.                                                 *)
Completed(c) ==
    /\ worker[c].pc = "done"
    /\ \/ lane[c] # <<>> /\ Start(c, Head(lane[c]), Tail(lane[c]))
       \/ /\ lane[c] = <<>> \/ exited
          /\ worker' = [worker EXCEPT ![c] = Rest]
          /\ lane' = [lane EXCEPT ![c] = None]
          /\ UNCHANGED open
    /\ UNCHANGED <<sent, writer, pending, replies, out, read, exited, load>>

-----------------------------------------------------------------------------
(* PtyInput.                                                               *)

pendingBytes(p) == Len(p.tail) + ReplyLen * Len(p.whole)
batch(p) == p.tail \o FlattenSeq([i \in DOMAIN p.whole |-> Reply(p.whole[i])])
isEmpty(p) == p.tail = <<>> /\ p.whole = <<>>

(* What remains of a reply the program has begun to read when `rest` of    *)
(* the batch did not go out; tail says that the batch began inside one.    *)
cut_tail(rest) ==
    IF rest = <<>> \/ Head(rest).n = 1 THEN <<>>
    ELSE SelectSeq(rest, LAMBDA b : b.of = Head(rest).of)

(* Mutant: what remains is dropped like a whole reply.                     *)
requeue_nothing(p, rest) == p

(* The newest whole replies make room for the tail.                        *)
requeue_cut_reply(p, rest) ==
    LET tail == cut_tail(rest)
        keep == CHOOSE n \in 0..Len(p.whole) :
                    /\ n = 0 \/ ReplyLen * n + Len(tail) <= PendingMax
                    /\ n = Len(p.whole) \/ ReplyLen * (n + 1) + Len(tail) > PendingMax
    IN  IF tail = <<>> THEN p ELSE [tail |-> tail, whole |-> SubSeq(p.whole, 1, keep)]

Space == PtyCap - (Len(out) - read)
Least(m, n) == IF m < n THEN m ELSE n
Goto(t, pc) == worker' = [worker EXCEPT ![t].pc = pc]

(* Mutant: a plain lock(), deaf to the cancellation.                       *)
LockBlocks(c) ==
    /\ worker[c].pc = "lock" /\ writer = None
    /\ writer' = c /\ Goto(c, "flush1")
    /\ UNCHANGED <<sent, lane, open, pending, replies, out, read, exited, load>>

(* The writer lock of a client write.                                      *)
Lock(c) ==
    /\ worker[c].pc = "lock"
    /\ \/ /\ ~open[c]
          /\ Goto(c, "done") /\ UNCHANGED writer
       \/ /\ open[c] /\ writer = None
          /\ writer' = c /\ Goto(c, "flush1")
    /\ UNCHANGED <<sent, lane, open, pending, replies, out, read, exited, load>>

After == [flush1 |-> "data", flush2 |-> "unlock", flush3 |-> "release", flush |-> "release"]
Writing == [flush1 |-> "reply1", flush2 |-> "reply2", flush3 |-> "reply3", flush |-> "reply"]

(* flush_replies takes everything that is pending.                         *)
TakeReplies(t) ==
    /\ worker[t].pc \in DOMAIN After
    /\ worker' = [worker EXCEPT ![t].batch = batch(pending),
                                ![t].pc = IF isEmpty(pending) THEN After[@] ELSE Writing[@]]
    /\ pending' = NoReplies
    /\ UNCHANGED <<sent, lane, open, writer, replies, out, read, exited, load>>

Next1 == [reply1 |-> "data", reply2 |-> "unlock", reply3 |-> "release", reply |-> "release"]

(* A write of the batch.  A client thread waits for room until it is       *)
(* cancelled or the child is gone; the drainer never waits.                *)
WriteReplies(t) ==
    /\ worker[t].pc \in DOMAIN Next1
    /\ LET b     == worker[t].batch
           gone  == t # Drainer /\ exited
           stop  == t # Drainer /\ ~open[t]
           n     == IF gone \/ stop THEN 0 ELSE Least(Len(b), Space)
           rest  == SubSeq(b, n + 1, Len(b))
           ended == gone \/ stop \/ rest = <<>> \/ t = Drainer
       IN  /\ n > 0 \/ ended
           /\ out' = out \o SubSeq(b, 1, n)
           /\ pending' = IF rest # <<>> /\ ended /\ (stop \/ ~gone) THEN requeue_cut_reply(pending, rest) ELSE pending
           /\ worker' = [worker EXCEPT ![t].batch = IF ended THEN <<>> ELSE rest,
                                       ![t].pc = IF ended THEN Next1[@] ELSE @]
    /\ UNCHANGED <<sent, lane, open, writer, replies, read, exited, load>>

(* A client write ends early when it is cancelled or the child is gone.    *)
Stops(c) == ~open[c] \/ exited

WriteData(c) ==
    /\ worker[c].pc = "data"
    /\ LET d == worker[c].data
           n == IF Stops(c) THEN 0 ELSE Least(Len(d), Space)
       IN  /\ n > 0 \/ Stops(c)
           /\ out' = out \o SubSeq(d, 1, n)
           /\ worker' = [worker EXCEPT ![c].data = SubSeq(@, n + 1, Len(d)),
                                       ![c].pc = IF n = Len(d) \/ Stops(c) THEN "flush2" ELSE @]
    /\ UNCHANGED <<sent, lane, open, writer, pending, replies, read, exited, load>>

(* The lock is released, and the queue looked at again.                    *)
Unlock(c) ==
    /\ worker[c].pc = "unlock"
    /\ writer' = None /\ Goto(c, "recheck")
    /\ UNCHANGED <<sent, lane, open, pending, replies, out, read, exited, load>>

Finish(t) == IF t = Drainer THEN "none" ELSE "done"

Recheck(t) ==
    /\ worker[t].pc = "recheck"
    /\ Goto(t, IF isEmpty(pending) THEN Finish(t) ELSE "try")
    /\ UNCHANGED <<sent, lane, open, writer, pending, replies, out, read, exited, load>>

TryLock(t) ==
    /\ worker[t].pc = "try"
    /\ IF writer = None
       THEN writer' = t /\ Goto(t, IF t = Drainer THEN "flush" ELSE "flush3")
       ELSE Goto(t, Finish(t)) /\ UNCHANGED writer
    /\ UNCHANGED <<sent, lane, open, pending, replies, out, read, exited, load>>

Release(t) ==
    /\ worker[t].pc = "release"
    /\ writer' = None /\ Goto(t, Finish(t))
    /\ UNCHANGED <<sent, lane, open, pending, replies, out, read, exited, load>>

(* send_reply.                                                             *)
SendReply ==
    /\ worker[Drainer].pc = "none" /\ replies < load.replies
    /\ replies' = replies + 1
    /\ IF pendingBytes(pending) + ReplyLen > PendingMax
       THEN UNCHANGED <<pending, worker>>
       ELSE /\ pending' = [pending EXCEPT !.whole = Append(@, replies + 1)]
            /\ Goto(Drainer, "recheck")
    /\ UNCHANGED <<sent, lane, open, writer, out, read, exited, load>>

-----------------------------------------------------------------------------
(* The program reads what it likes; a child that exits may leave the PTY   *)
(* open.                                                                   *)
ProgramReads ==
    /\ read < Len(out) /\ read' = Len(out)
    /\ UNCHANGED <<sent, lane, open, worker, writer, pending, replies, out, exited, load>>

ChildExits ==
    /\ ~exited /\ exited' = TRUE
    /\ UNCHANGED <<sent, lane, open, worker, writer, pending, replies, out, read, load>>

Step(t) ==
    \/ TakeReplies(t) \/ WriteReplies(t) \/ Recheck(t) \/ TryLock(t) \/ Release(t)
    \/ t # Drainer /\ (Lock(t) \/ WriteData(t) \/ Unlock(t) \/ Completed(t))

Next ==
    \/ \E c \in Conns, size \in 1..FrameMax : Submit(c, size)
    \/ \E c \in Conns : Cancel(c)
    \/ \E t \in Threads : Step(t)
    \/ SendReply \/ ProgramReads \/ ChildExits

(* Every thread runs, and gets the writer lock if it is free again and     *)
(* again; the program need not read.                                       *)
Fairness == \A t \in Threads : WF_vars(Step(t))

Spec == Init /\ [][Next]_vars
FairSpec == Spec /\ Fairness

-----------------------------------------------------------------------------
(* What the program reads.  Each connection's input comes in the order it  *)
(* was submitted, nothing skipped; and "the unwritten tail of that reply   *)
(* is re-queued first and goes out before any further client input": a     *)
(* reply that was cut is completed before anything else, as long as the    *)
(* child runs.                                                             *)
InputIntact ==
    /\ \A c \in Conns : LET mine == SelectSeq(out, LAMBDA b : b.of = c)
                        IN  mine = Bytes(c, 0, Len(mine))
    /\ ~exited => \A i \in 1..(Len(out) - 1) :
                      out[i].of \in 1..replies /\ out[i].n < ReplyLen
                          => out[i + 1] = [out[i] EXCEPT !.n = @ + 1]

(* "a reply queued while it held the lock is never stranded": when no      *)
(* thread is in the PTY input, or about to be, no whole reply is left in   *)
(* its queue.                                                              *)
NothingStranded ==
    ~exited /\ (\A c \in Conns : open[c]) /\ (\A t \in Threads : worker[t].pc = "none") =>
        pending.whole = <<>>

(* Closing a connection ends its workers, even if the program never reads  *)
(* and another write holds the PTY.                                        *)
TeardownEnds == []<>(\A c \in Conns : ~open[c] => worker[c].pc = "none")
=============================================================================
