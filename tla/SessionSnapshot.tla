--------------------------- MODULE SessionSnapshot ---------------------------
(***************************************************************************)
(* A broker session's snapshots and resizes (broker/src/session.rs): the   *)
(* emulator is captured under the terminal lock, the snapshot is built     *)
(* outside it and cached, while the drainer feeds output and resizes       *)
(* change the emulator, the PTY and the session's metadata.                *)
(*                                                                         *)
(* What is done under the terminal lock is one action.  The screen is      *)
(* abstracted to the output it shows and its size.                         *)
(***************************************************************************)
EXTENDS Naturals

CONSTANTS
    Clients,        \* requests for a snapshot that may be in progress
    Keys,           \* (scrollback_lines, target_cols) a snapshot is asked for
    Sizes, Size0,
    None,
    SeqMax,         \* bound on the chunks fed
    ResizeMax       \* bound on the resizes

VARIABLES
    terminal,       \* the emulator: chunks shown, size
    seq,
    generation,     \* snapshot_generation
    cache,          \* snapshot_cache
    pty,            \* the size of the PTY
    info,           \* the size in the session's metadata
    resizing,       \* the size the holder of the master lock still has to record
    client,
    resizes,
    failed          \* what the last failed PTY resize left behind

vars == <<terminal, seq, generation, cache, pty, info, resizing, client, resizes, failed>>

Idle == [pc |-> "idle", key |-> None, seq |-> 0, generation |-> 0, snapshot |-> None, truth |-> None]

Init ==
    /\ terminal = [shown |-> 0, size |-> Size0]
    /\ seq = 0 /\ generation = 0 /\ cache = None
    /\ pty = Size0 /\ info = Size0
    /\ resizing = None
    /\ client = [c \in Clients |-> Idle]
    /\ resizes = 0 /\ failed = FALSE

-----------------------------------------------------------------------------
(* The drainer: feed, then number the chunk, under the terminal lock.      *)
Feed ==
    /\ seq < SeqMax
    /\ terminal' = [terminal EXCEPT !.shown = @ + 1]
    /\ seq' = seq + 1
    /\ UNCHANGED <<generation, cache, pty, info, resizing, client, resizes, failed>>

(* cache_snapshot holds the cache lock from its test to its store.         *)
CacheLocked == \E c \in Clients : client[c].pc = "store"

(* resize_terminal_pty_and_state up to the release of the terminal lock.   *)
(* An emulator that refuses the size changes nothing.                      *)
Resized(size) ==
    /\ resizing = None /\ resizes < ResizeMax /\ ~CacheLocked
    /\ terminal' = [terminal EXCEPT !.size = size]
    /\ pty' = size
    /\ generation' = generation + 1 /\ cache' = None
    /\ resizing' = size /\ resizes' = resizes + 1
    /\ UNCHANGED <<seq, info, client, failed>>

(* The PTY refuses: the emulator is resized back, and that may fail too.   *)
(* Neither invalidates the cache.                                          *)
PtyRefuses(size, rolledBack) ==
    /\ resizing = None /\ resizes < ResizeMax
    /\ terminal' = IF rolledBack THEN [terminal EXCEPT !.size = info] ELSE [terminal EXCEPT !.size = size]
    /\ failed' = (failed \/ ~rolledBack)
    /\ resizes' = resizes + 1
    /\ UNCHANGED <<seq, generation, cache, pty, info, resizing, client>>

(* The metadata, still under the master and state locks, then the events.  *)
RecordSize ==
    /\ resizing # None
    /\ info' = resizing /\ resizing' = None
    /\ UNCHANGED <<terminal, seq, generation, cache, pty, client, resizes, failed>>

-----------------------------------------------------------------------------
cached_snapshot(key) == cache # None /\ cache.seq = seq /\ cache.key = key

(* The capture, or a hit: `truth` is what the emulator shows at the cut.   *)
Capture(c, key) ==
    /\ client[c].pc = "idle" /\ ~CacheLocked
    /\ LET now == [shown |-> terminal.shown, size |-> terminal.size, key |-> key]
       IN  client' = [client EXCEPT ![c] =
               IF cached_snapshot(key)
               THEN [pc |-> "got", key |-> key, seq |-> seq, generation |-> 0,
                     snapshot |-> cache.snapshot, truth |-> now]
               ELSE [pc |-> "built", key |-> key, seq |-> seq, generation |-> generation,
                     snapshot |-> now, truth |-> now]]
    /\ UNCHANGED <<terminal, seq, generation, cache, pty, info, resizing, resizes, failed>>

(* Mutant: a resize since the capture is not noticed.                      *)
Cacheable0(c) == client[c].seq = seq

Cacheable(c) == client[c].generation = generation /\ client[c].seq = seq

(* cache_snapshot, under the cache lock only: the drainer may number a     *)
(* chunk between the test and the store.                                   *)
TestCache(c) ==
    /\ client[c].pc = "built" /\ ~CacheLocked
    /\ client' = [client EXCEPT ![c].pc = IF Cacheable(c) THEN "store" ELSE "got"]
    /\ UNCHANGED <<terminal, seq, generation, cache, pty, info, resizing, resizes, failed>>

StoreCache(c) ==
    /\ client[c].pc = "store"
    /\ cache' = [seq |-> client[c].seq, key |-> client[c].key, snapshot |-> client[c].snapshot]
    /\ client' = [client EXCEPT ![c].pc = "got"]
    /\ UNCHANGED <<terminal, seq, generation, pty, info, resizing, resizes, failed>>

Respond(c) ==
    /\ client[c].pc = "got"
    /\ client' = [client EXCEPT ![c] = Idle]
    /\ UNCHANGED <<terminal, seq, generation, cache, pty, info, resizing, resizes, failed>>

Next ==
    \/ Feed \/ RecordSize
    \/ \E size \in Sizes : Resized(size) \/ \E b \in BOOLEAN : PtyRefuses(size, b)
    \/ \E c \in Clients, key \in Keys : Capture(c, key)
    \/ \E c \in Clients : TestCache(c) \/ StoreCache(c) \/ Respond(c)

Spec == Init /\ [][Next]_vars

-----------------------------------------------------------------------------
(* A snapshot, built now or taken from the cache, shows what the emulator  *)
(* showed at the cut its subscription starts from: that output, at that    *)
(* size, for that request; and between resizes the emulator, the PTY and   *)
(* the session's metadata agree.  Unless a resize that the PTY refused     *)
(* could not be undone.                                                    *)
SnapshotExact ==
    ~failed =>
        /\ \A c \in Clients : client[c].pc = "got" => client[c].snapshot = client[c].truth
        /\ resizing = None => terminal.size = pty /\ info = pty
=============================================================================
