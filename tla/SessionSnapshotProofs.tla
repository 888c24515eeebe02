------------------------ MODULE SessionSnapshotProofs ------------------------
(***************************************************************************)
(* A snapshot is exact for any number of requests, chunks and resizes.     *)
(*                                                                         *)
(* The invariant says of every snapshot that is built, being stored or     *)
(* cached how it relates to the emulator: it shows as much output as its   *)
(* seq says, and as long as snapshot_generation is the one it was captured *)
(* under, it has the emulator's size.                                      *)
(***************************************************************************)
EXTENDS SessionSnapshot, TLAPS

AllSizes == Sizes \cup {Size0}
Snapshots == [shown : Nat, size : AllSizes, key : Keys]
Caches == [seq : Nat, key : Keys, snapshot : Snapshots]
ClientStates ==
    [pc : {"idle", "built", "store", "got"}, key : Keys \cup {None}, seq : Nat,
     generation : Nat, snapshot : Snapshots \cup {None}, truth : Snapshots \cup {None}]

(* None is no size and no cache entry.                                     *)
NoneApart == None \notin AllSizes /\ None \notin Caches

TypeOK ==
    /\ terminal \in [shown : Nat, size : AllSizes]
    /\ seq \in Nat /\ generation \in Nat
    /\ cache \in Caches \cup {None}
    /\ pty \in AllSizes /\ info \in AllSizes /\ resizing \in AllSizes \cup {None}
    /\ client \in [Clients -> ClientStates]
    /\ failed \in BOOLEAN

(* The sizes: between the terminal lock and the metadata, info is behind.  *)
SizesInv ==
    /\ terminal.shown = seq
    /\ ~failed => /\ resizing = None => terminal.size = pty /\ info = pty
                  /\ resizing # None => terminal.size = resizing /\ pty = resizing

CacheInv ==
    cache # None =>
        /\ cache.snapshot.shown = cache.seq /\ cache.snapshot.key = cache.key
        /\ ~failed => cache.snapshot.size = terminal.size

ClientInv(c) ==
    /\ client[c].pc \in {"built", "store"} =>
          /\ client[c].snapshot \in Snapshots /\ client[c].key \in Keys
          /\ client[c].snapshot.shown = client[c].seq
          /\ client[c].snapshot.key = client[c].key
          /\ client[c].snapshot = client[c].truth
          /\ client[c].generation <= generation
          /\ ~failed /\ client[c].generation = generation =>
                client[c].snapshot.size = terminal.size
    /\ client[c].pc = "store" => client[c].generation = generation
    /\ ~failed /\ client[c].pc = "got" => client[c].snapshot = client[c].truth

IInv == TypeOK /\ SizesInv /\ CacheInv /\ \A c \in Clients : ClientInv(c)

-----------------------------------------------------------------------------
(* No request, an empty cache, equal sizes.                                *)
LEMMA InitEstablishes == ASSUME NoneApart, Init PROVE IInv
<1>1. failed \in BOOLEAN  BY Zenon DEF Init
<1>2. TypeOK  BY <1>1 DEF Init, TypeOK, AllSizes, ClientStates, Idle
<1>3. SizesInv /\ CacheInv  BY DEF Init, SizesInv, CacheInv
<1>4. ASSUME NEW c \in Clients PROVE ClientInv(c)  BY DEF Init, ClientInv, Idle
<1> QED BY <1>2, <1>3, <1>4 DEF IInv

(* A chunk changes neither the size nor the generation.                    *)
LEMMA FeedStep == ASSUME NoneApart, IInv, Feed PROVE IInv'
<1>1. /\ terminal' = [terminal EXCEPT !.shown = terminal.shown + 1]
      /\ terminal \in [shown : Nat, size : AllSizes]
      /\ terminal.shown = seq /\ seq' = seq + 1 /\ seq \in Nat
  BY DEF Feed, IInv, TypeOK, SizesInv
<1>2. /\ terminal' \in [shown : Nat, size : AllSizes]
      /\ terminal'.size = terminal.size /\ terminal'.shown = seq'
  BY <1>1
<1>3. TypeOK'  BY <1>1, <1>2 DEF Feed, IInv, TypeOK
<1>4. SizesInv' /\ CacheInv'  BY <1>2 DEF Feed, IInv, SizesInv, CacheInv
<1>5. ASSUME NEW c \in Clients PROVE ClientInv(c)'
  BY <1>2 DEF Feed, IInv, ClientInv
<1> QED BY <1>3, <1>4, <1>5 DEF IInv

(* A resize that reached the PTY invalidates what was captured before.     *)
LEMMA ResizedStep ==
    ASSUME NoneApart, IInv, NEW size \in Sizes, Resized(size) PROVE IInv'
<1>1. /\ terminal' = [terminal EXCEPT !.size = size]
      /\ terminal \in [shown : Nat, size : AllSizes]
      /\ size \in AllSizes /\ size # None
  BY DEF Resized, IInv, TypeOK, AllSizes, NoneApart
<1>2. /\ terminal' \in [shown : Nat, size : AllSizes]
      /\ terminal'.size = size /\ terminal'.shown = terminal.shown
  BY <1>1
<1>3. TypeOK'  BY <1>1, <1>2 DEF Resized, IInv, TypeOK
<1>4. SizesInv' /\ CacheInv'  BY <1>1, <1>2 DEF Resized, IInv, SizesInv, CacheInv
<1>5. ASSUME NEW c \in Clients PROVE ClientInv(c)'
  <2>1. /\ client' = client /\ generation' = generation + 1 /\ generation \in Nat
        /\ failed' = failed /\ client[c].pc # "store"
    BY DEF Resized, CacheLocked, IInv, TypeOK
  <2>2. client[c].generation \in Nat  BY DEF IInv, TypeOK, ClientStates
  <2>3. ClientInv(c)  BY DEF IInv
  <2> QED BY <2>1, <2>2, <2>3 DEF ClientInv
<1> QED BY <1>3, <1>4, <1>5 DEF IInv

(* A resize that the PTY refused leaves the old size, or counts as failed. *)
LEMMA PtyRefusesStep ==
    ASSUME NoneApart, IInv, NEW size \in Sizes, NEW b \in BOOLEAN, PtyRefuses(size, b)
    PROVE  IInv'
<1>1. terminal \in [shown : Nat, size : AllSizes] /\ size \in AllSizes /\ info \in AllSizes
  BY DEF IInv, TypeOK, AllSizes
<1>2. /\ terminal' \in [shown : Nat, size : AllSizes]
      /\ terminal'.shown = terminal.shown
      /\ ~failed' => terminal'.size = info /\ ~failed
  BY <1>1 DEF PtyRefuses
<1>3. failed' \in BOOLEAN
  BY Zenon DEF PtyRefuses
<1>4. ~failed' => terminal'.size = terminal.size
  BY <1>2 DEF IInv, SizesInv, PtyRefuses
<1>5. TypeOK'  BY <1>2, <1>3 DEF PtyRefuses, IInv, TypeOK
<1>6. SizesInv' /\ CacheInv'
  BY <1>2, <1>4 DEF PtyRefuses, IInv, SizesInv, CacheInv
<1>7. ASSUME NEW c \in Clients PROVE ClientInv(c)'
  BY <1>2, <1>4 DEF PtyRefuses, IInv, ClientInv
<1> QED BY <1>5, <1>6, <1>7 DEF IInv

(* The metadata catches up.                                                *)
LEMMA RecordSizeStep == ASSUME NoneApart, IInv, RecordSize PROVE IInv'
<1>1. TypeOK'  BY DEF RecordSize, IInv, TypeOK
<1>2. SizesInv' /\ CacheInv'  BY DEF RecordSize, IInv, SizesInv, CacheInv
<1>3. ASSUME NEW c \in Clients PROVE ClientInv(c)'  BY DEF RecordSize, IInv, ClientInv
<1> QED BY <1>1, <1>2, <1>3 DEF IInv

(* Other requests do not notice a step of one request.                     *)
LEMMA OthersUntouched ==
    ASSUME IInv, NEW c \in Clients, NEW x, client' = [client EXCEPT ![c] = x],
           UNCHANGED <<terminal, generation, failed>>,
           NEW d \in Clients, d # c
    PROVE  ClientInv(d)'
<1>1. client'[d] = client[d]  BY DEF IInv, TypeOK
<1> QED BY <1>1 DEF IInv, ClientInv

(* A hit has the size and the seq of the emulator, so it is what a capture *)
(* would show.                                                             *)
LEMMA CaptureStep ==
    ASSUME NoneApart, IInv, NEW c \in Clients, NEW key \in Keys, Capture(c, key)
    PROVE  IInv'
<1> DEFINE now == [shown |-> terminal.shown, size |-> terminal.size, key |-> key]
           hit == [pc |-> "got", key |-> key, seq |-> seq, generation |-> 0,
                   snapshot |-> cache.snapshot, truth |-> now]
           miss == [pc |-> "built", key |-> key, seq |-> seq, generation |-> generation,
                    snapshot |-> now, truth |-> now]
<1>1. client' = [client EXCEPT ![c] = IF cached_snapshot(key) THEN hit ELSE miss]
  BY DEF Capture
<1>2. UNCHANGED <<terminal, seq, generation, cache, pty, info, resizing, resizes, failed>>
  BY DEF Capture
<1>3. /\ terminal \in [shown : Nat, size : AllSizes] /\ seq \in Nat /\ generation \in Nat
      /\ client \in [Clients -> ClientStates] /\ terminal.shown = seq
  BY DEF IInv, TypeOK, SizesInv
<1>4. now \in Snapshots  BY <1>3 DEF Snapshots
<1>5. cached_snapshot(key) =>
         /\ cache \in Caches /\ cache.snapshot \in Snapshots
         /\ ~failed => cache.snapshot = now
  <2> SUFFICES ASSUME cached_snapshot(key)
               PROVE  /\ cache \in Caches /\ cache.snapshot \in Snapshots
                      /\ ~failed => cache.snapshot = now
    OBVIOUS
  <2>1. cache # None /\ cache.seq = seq /\ cache.key = key  BY DEF cached_snapshot
  <2>2. cache \in Caches /\ cache.snapshot \in Snapshots
    BY <2>1 DEF IInv, TypeOK, Caches
  <2>3. ~failed => /\ cache.snapshot.shown = terminal.shown
                   /\ cache.snapshot.size = terminal.size /\ cache.snapshot.key = key
    BY <1>3, <2>1 DEF IInv, CacheInv
  <2> QED BY <2>2, <2>3 DEF Snapshots
<1>6. client'[c] = IF cached_snapshot(key) THEN hit ELSE miss  BY <1>1, <1>3
<1>7. hit \in ClientStates \/ ~cached_snapshot(key)  BY <1>3, <1>4, <1>5 DEF ClientStates
<1>8. miss \in ClientStates  BY <1>3, <1>4 DEF ClientStates
<1>9. TypeOK'  BY <1>1, <1>2, <1>3, <1>7, <1>8 DEF IInv, TypeOK
<1>10. SizesInv' /\ CacheInv'  BY <1>2 DEF IInv, SizesInv, CacheInv
<1>11. ClientInv(c)'
  <2>1. CASE cached_snapshot(key)
    <3>1. client'[c] = hit  BY <1>6, <2>1
    <3> HIDE DEF now
    <3> QED BY <1>2, <1>5, <2>1, <3>1 DEF ClientInv
  <2>2. CASE ~cached_snapshot(key)
    <3>1. client'[c] = miss  BY <1>6, <2>2
    <3>2. now.shown = seq /\ now.size = terminal.size /\ now.key = key  BY <1>3
    <3> HIDE DEF now
    <3> QED BY <1>2, <1>3, <1>4, <3>1, <3>2 DEF ClientInv
  <2> QED BY <2>1, <2>2
<1> HIDE DEF hit, miss
<1>12. ASSUME NEW d \in Clients, d # c PROVE ClientInv(d)'
  BY <1>1, <1>2, <1>12, OthersUntouched
<1> QED BY <1>9, <1>10, <1>11, <1>12 DEF IInv

(* Only a request captured under the current generation gets to store.     *)
LEMMA TestCacheStep ==
    ASSUME NoneApart, IInv, NEW c \in Clients, TestCache(c) PROVE IInv'
<1> DEFINE to == IF Cacheable(c) THEN "store" ELSE "got"
           new == [client[c] EXCEPT !.pc = to]
<1>1. /\ client' = [client EXCEPT ![c] = new] /\ client[c].pc = "built"
      /\ UNCHANGED <<terminal, seq, generation, cache, pty, info, resizing, resizes, failed>>
  BY DEF TestCache
<1>2. client \in [Clients -> ClientStates] /\ client[c] \in ClientStates  BY DEF IInv, TypeOK
<1>3. /\ new \in ClientStates /\ client'[c] = new
      /\ new.pc = to /\ new.key = client[c].key /\ new.seq = client[c].seq
      /\ new.generation = client[c].generation /\ new.snapshot = client[c].snapshot
      /\ new.truth = client[c].truth
  BY <1>1, <1>2 DEF ClientStates
<1> HIDE DEF new
<1>4. TypeOK'  BY <1>1, <1>2, <1>3 DEF IInv, TypeOK
<1>5. SizesInv' /\ CacheInv'  BY <1>1 DEF IInv, SizesInv, CacheInv
<1>6. ClientInv(c)'
  BY <1>1, <1>3 DEF IInv, ClientInv, Cacheable
<1>7. ASSUME NEW d \in Clients, d # c PROVE ClientInv(d)'
  BY <1>1, <1>7, OthersUntouched
<1> QED BY <1>4, <1>5, <1>6, <1>7 DEF IInv

(* A chunk numbered since the test leaves an entry that is never a hit.    *)
LEMMA StoreCacheStep ==
    ASSUME NoneApart, IInv, NEW c \in Clients, StoreCache(c) PROVE IInv'
<1> DEFINE new == [client[c] EXCEPT !.pc = "got"]
           entry == [seq |-> client[c].seq, key |-> client[c].key, snapshot |-> client[c].snapshot]
<1>1. /\ client' = [client EXCEPT ![c] = new] /\ client[c].pc = "store" /\ cache' = entry
      /\ UNCHANGED <<terminal, seq, generation, pty, info, resizing, resizes, failed>>
  BY DEF StoreCache
<1>2. client \in [Clients -> ClientStates] /\ client[c] \in ClientStates  BY DEF IInv, TypeOK
<1>3. /\ new \in ClientStates /\ client'[c] = new
      /\ new.pc = "got" /\ new.snapshot = client[c].snapshot /\ new.truth = client[c].truth
  BY <1>1, <1>2 DEF ClientStates
<1>4. /\ client[c].snapshot \in Snapshots /\ client[c].key \in Keys
      /\ client[c].snapshot.shown = client[c].seq /\ client[c].snapshot.key = client[c].key
      /\ client[c].snapshot = client[c].truth
      /\ ~failed => client[c].snapshot.size = terminal.size
  BY <1>1 DEF IInv, ClientInv
<1>5. entry \in Caches  BY <1>2, <1>4 DEF Caches, ClientStates
<1> HIDE DEF new
<1>6. TypeOK'  BY <1>1, <1>2, <1>3, <1>5 DEF IInv, TypeOK
<1>7. SizesInv'  BY <1>1 DEF IInv, SizesInv
<1>8. CacheInv'  BY <1>1, <1>4 DEF CacheInv
<1>9. ClientInv(c)'  BY <1>1, <1>3, <1>4 DEF ClientInv
<1>10. ASSUME NEW d \in Clients, d # c PROVE ClientInv(d)'
  BY <1>1, <1>10, OthersUntouched
<1> QED BY <1>6, <1>7, <1>8, <1>9, <1>10 DEF IInv

(* An answered request is forgotten.                                       *)
LEMMA RespondStep ==
    ASSUME NoneApart, IInv, NEW c \in Clients, Respond(c) PROVE IInv'
<1>1. /\ client' = [client EXCEPT ![c] = Idle]
      /\ UNCHANGED <<terminal, seq, generation, cache, pty, info, resizing, resizes, failed>>
  BY DEF Respond
<1>2. client \in [Clients -> ClientStates]  BY DEF IInv, TypeOK
<1>3. Idle \in ClientStates /\ Idle.pc = "idle"  BY DEF Idle, ClientStates
<1>4. client'[c] = Idle  BY <1>1, <1>2
<1>5. TypeOK'  BY <1>1, <1>2, <1>3 DEF IInv, TypeOK
<1>6. SizesInv' /\ CacheInv'  BY <1>1 DEF IInv, SizesInv, CacheInv
<1>7. ClientInv(c)'  BY <1>3, <1>4 DEF ClientInv
<1>8. ASSUME NEW d \in Clients, d # c PROVE ClientInv(d)'
  BY <1>1, <1>8, OthersUntouched
<1> QED BY <1>5, <1>6, <1>7, <1>8 DEF IInv

-----------------------------------------------------------------------------
(* For any number of requests in progress, chunks and resizes: what a      *)
(* snapshot shows, fresh or cached, is what the emulator showed at its cut, *)
(* and the emulator, the PTY and the metadata agree between resizes.       *)
THEOREM SnapshotsAreExact == ASSUME NoneApart PROVE Spec => []SnapshotExact
<1>1. Init => IInv  BY InitEstablishes
<1>2. ASSUME IInv, [Next]_vars PROVE IInv'
  <2>1. CASE UNCHANGED vars
    BY <1>2, <2>1 DEF vars, IInv, TypeOK, SizesInv, CacheInv, ClientInv
  <2>2. CASE Feed  BY <1>2, <2>2, FeedStep
  <2>3. CASE RecordSize  BY <1>2, <2>3, RecordSizeStep
  <2>4. ASSUME NEW size \in Sizes, Resized(size) PROVE IInv'
    BY <1>2, <2>4, ResizedStep
  <2>5. ASSUME NEW size \in Sizes, NEW b \in BOOLEAN, PtyRefuses(size, b) PROVE IInv'
    BY <1>2, <2>5, PtyRefusesStep
  <2>6. ASSUME NEW c \in Clients, NEW key \in Keys, Capture(c, key) PROVE IInv'
    BY <1>2, <2>6, CaptureStep
  <2>7. ASSUME NEW c \in Clients, TestCache(c) \/ StoreCache(c) \/ Respond(c) PROVE IInv'
    BY <1>2, <2>7, TestCacheStep, StoreCacheStep, RespondStep
  <2> QED BY <1>2, <2>1, <2>2, <2>3, <2>4, <2>5, <2>6, <2>7 DEF Next
<1>3. IInv => SnapshotExact  BY DEF IInv, SizesInv, ClientInv, SnapshotExact
<1> QED BY <1>1, <1>2, <1>3, PTL DEF Spec
=============================================================================
