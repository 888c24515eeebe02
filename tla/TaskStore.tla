----------------------------- MODULE TaskStore -----------------------------
(***************************************************************************)
(* How the durable task store (src/src/tasks/store.ts) keeps its ledgers:  *)
(* append-only files whose every append is fsynced before it is            *)
(* acknowledged, a machine-wide delivery sequence reserved in a file of    *)
(* its own before the inbox record that carries it, and tombstones that    *)
(* outlive a removed ledger.  A write may fail having written nothing, a   *)
(* part of its line or all of it, and an fsync may fail after it; the      *)
(* process may die, which keeps what was written, and the machine may die, *)
(* which keeps what was fsynced and any part of the rest.                  *)
(*                                                                         *)
(* Everything a call does under the lock of its ledger is one step: the    *)
(* file operations are synchronous, and only readers of the memory run     *)
(* during the hash of a reload.  appendInboxRecord takes two, because it   *)
(* waits for the ledger's lock while it holds the sequence lock.           *)
(***************************************************************************)
EXTENDS Integers, Sequences, FiniteSets, FiniteSetsExt

CONSTANTS
    Keys,       \* ledgers
    EventKeys,  \* ledgers that a canonical event is appended to
    InboxKeys,  \* ledgers that an inbox record is appended to
    SeqMax,     \* bound: delivery sequences
    FaultMax,   \* bound: failed writes and fsyncs
    CrashMax    \* bound: deaths of the process or the machine

VARIABLES
    disk,       \* [Keys -> [lines, synced, name, tomb]]
    seqFile,    \* nextDeliverySequence as a reader finds it, and as it is durable
    mem,        \* #ledgers: the parsed ledger, or Absent
    uncertain,  \* #uncertainLedgerKeys
    next,       \* #nextDeliverySequence
    job,        \* the inbox append that holds the sequence lock, or Idle
    reader,     \* a caller that pages through the inbox by cursor
    acked,      \* history: records whose append was acknowledged, in order
    retired,    \* history: ledgers that have had a tombstone
    up, faults, crashes

vars == <<disk, seqFile, mem, uncertain, next, job, reader, acked, retired, up, faults, crashes>>

Header == [kind |-> "header"]
Torn == [kind |-> "torn"]      \* bytes after the last newline
Bad == [kind |-> "bad"]        \* a line that does not parse
Absent == [records |-> <<>>, torn |-> FALSE, held |-> FALSE]
Idle == [key |-> "none"]

(* One record of each kind to a ledger, so that its kind is its identity.  *)
EventRecord == [kind |-> "event", seq |-> 0]
InboxRecord(k, n) == [kind |-> "inbox", key |-> k, seq |-> n]
Has(records, kind) == \E i \in DOMAIN records : records[i].kind = kind
InboxOf(records) == {r \in {records[i] : i \in DOMAIN records} : r.kind = "inbox"}

-----------------------------------------------------------------------------
(* The file of a ledger.                                                   *)

(* appendFileSync of a whole line, and of a part of one.  A line written   *)
(* after bytes without a newline is one with them.                         *)
EndsTorn(lines) == lines # <<>> /\ lines[Len(lines)] = Torn
WithLine(lines, r) ==
    IF EndsTorn(lines) THEN [lines EXCEPT ![Len(lines)] = Bad] ELSE Append(lines, r)
WithPart(lines) == IF EndsTorn(lines) THEN lines ELSE Append(lines, Torn)

(* parseLedger: the complete lines after the header; the rest of the file  *)
(* is remembered as a truncated tail.                                      *)
Whole(lines) == IF EndsTorn(lines) THEN SubSeq(lines, 1, Len(lines) - 1) ELSE lines
Parses(lines) ==
    LET whole == Whole(lines) IN
    /\ whole # <<>> /\ whole[1] = Header
    /\ \A i \in 2..Len(whole) : whole[i] \notin {Header, Bad}
Parsed(lines) ==
    [records |-> Tail(Whole(lines)), torn |-> EndsTorn(lines), held |-> TRUE]

Present(k) == disk[k].name \in {"loose", "firm"}
Fails == faults < FaultMax /\ faults' = faults + 1
Works == UNCHANGED faults

(* #setLedger and #indexRecord move the sequence past every inbox record.  *)
Past(n, records) == Max({n} \cup {r.seq + 1 : r \in InboxOf(records)})

-----------------------------------------------------------------------------
(* createLedger.  A failed creation leaves what it had written, and a      *)
(* retry that finds the header takes the ledger as it is.                  *)
Created(k) ==
    /\ \/ /\ Works
          /\ disk' = [disk EXCEPT ![k].lines = <<Header>>, ![k].synced = 1, ![k].name = "firm"]
          /\ mem' = [mem EXCEPT ![k] = Parsed(<<Header>>)]
       \/ /\ Fails /\ UNCHANGED mem
          /\ \/ UNCHANGED disk
             \/ \E lines \in {<<>>, <<Torn>>, <<Header>>} :
                   disk' = [disk EXCEPT ![k].lines = lines, ![k].name = "loose"]
             \/ disk' = [disk EXCEPT ![k].lines = <<Header>>, ![k].synced = 1,
                                     ![k].name = "loose"]
    /\ UNCHANGED next

CreateLedger(k) ==
    /\ up /\ disk[k].tomb = "none" /\ disk[k].name # "quarantined" /\ ~mem[k].held
    /\ k \notin retired    \* bound: a task id is not used again after its retention
    /\ IF Present(k)
       THEN /\ Parses(disk[k].lines)
            /\ mem' = [mem EXCEPT ![k] = Parsed(disk[k].lines)]
            /\ next' = Past(next, mem'[k].records)
            /\ Works /\ UNCHANGED disk
       ELSE Created(k)
    /\ UNCHANGED <<seqFile, uncertain, job, reader, acked, retired, up, crashes>>

(* #appendRecord: #recoverUncertainLedgerLocked, then #appendRecordLocked. *)
(* While an append is under way, and after it failed, the ledger in memory *)
(* does not say what the file holds.  An append after an unlink that did   *)
(* not get as far as the memory makes a file without a header.             *)
Reload(k) ==
    IF uncertain[k]
    THEN [disk[k] EXCEPT !.synced = Len(disk[k].lines)]
    ELSE disk[k]
Ledger(k) == IF uncertain[k] THEN Parsed(disk[k].lines) ELSE mem[k]

Written(k, r) ==
    LET file == Reload(k)
        named == [file EXCEPT !.name = IF Present(k) THEN @ ELSE "loose"]
        whole == WithLine(file.lines, r) IN
    \/ /\ Works
       /\ disk' = [disk EXCEPT ![k] = [named EXCEPT !.lines = whole, !.synced = Len(whole)]]
       /\ mem' = [mem EXCEPT ![k] = [Ledger(k) EXCEPT !.records = Append(@, r)]]
       /\ uncertain' = [uncertain EXCEPT ![k] = FALSE]
       /\ next' = Past(next, mem'[k].records)
       /\ acked' = IF disk[k].name = "firm" /\ k \notin retired
                   THEN [acked EXCEPT ![k] = Append(@, r)] ELSE acked
    \/ /\ Fails
       /\ \/ disk' = [disk EXCEPT ![k] = file]
          \/ disk' = [disk EXCEPT ![k] = [named EXCEPT !.lines = WithPart(@)]]
          \/ disk' = [disk EXCEPT ![k] = [named EXCEPT !.lines = whole]]
       /\ mem' = [mem EXCEPT ![k] = Ledger(k)]
       /\ uncertain' = [uncertain EXCEPT ![k] = TRUE]
       /\ next' = Past(next, mem'[k].records)
       /\ UNCHANGED acked

(* Mutant: a truncated tail does not stop an append.                       *)
AppendedOverTail(k, r) ==
    \/ ~mem[k].held /\ Works /\ UNCHANGED <<disk, mem, uncertain, next, acked>>
    \/ /\ mem[k].held /\ uncertain[k] /\ (Fails \/ (~Parses(disk[k].lines) /\ Works))
       /\ UNCHANGED <<disk, mem, uncertain, next, acked>>
    \/ /\ mem[k].held /\ (uncertain[k] => Parses(disk[k].lines))
       /\ LET ledger == Ledger(k) IN
          IF Has(ledger.records, r.kind)
          THEN /\ disk' = [disk EXCEPT ![k] = Reload(k)]
               /\ mem' = [mem EXCEPT ![k] = ledger]
               /\ uncertain' = [uncertain EXCEPT ![k] = FALSE]
               /\ next' = Past(next, ledger.records)
               /\ Works /\ UNCHANGED acked
          ELSE Written(k, r)

Appended(k, r) ==
    \/ ~mem[k].held /\ Works /\ UNCHANGED <<disk, mem, uncertain, next, acked>>
    \/ /\ mem[k].held /\ uncertain[k] /\ (Fails \/ (~Parses(disk[k].lines) /\ Works))
       /\ UNCHANGED <<disk, mem, uncertain, next, acked>>
    \/ /\ mem[k].held /\ (uncertain[k] => Parses(disk[k].lines))
       /\ LET ledger == Ledger(k) IN
          IF ledger.torn \/ Has(ledger.records, r.kind)
          THEN /\ disk' = [disk EXCEPT ![k] = Reload(k)]
               /\ mem' = [mem EXCEPT ![k] = ledger]
               /\ uncertain' = [uncertain EXCEPT ![k] = FALSE]
               /\ next' = Past(next, ledger.records)
               /\ Works /\ UNCHANGED acked
          ELSE Written(k, r)

AppendEvent(k) ==
    /\ up /\ Appended(k, EventRecord)
    /\ UNCHANGED <<seqFile, job, reader, retired, up, crashes>>

(* appendInboxRecord: under the sequence lock, an unknown record gets the  *)
(* next sequence, whose successor is on disk first (#reserveDelivery-      *)
(* Sequence, atomicWrite: the rename may be seen and yet not be durable).  *)
ReserveSequence(k) ==
    /\ up /\ job = Idle /\ next <= SeqMax
    /\ ~Has(mem[k].records, "inbox")
    /\ \/ /\ Works
          /\ seqFile' = [seen |-> next + 1, firm |-> next + 1]
          /\ next' = next + 1
          /\ job' = [key |-> k, seq |-> next]
       \/ /\ Fails /\ UNCHANGED <<next, job>>
          /\ \/ UNCHANGED seqFile
             \/ seqFile' = [seqFile EXCEPT !.seen = next + 1]
    /\ UNCHANGED <<disk, mem, uncertain, reader, acked, retired, up, crashes>>

AppendInbox ==
    /\ up /\ job # Idle
    /\ Appended(job.key, InboxRecord(job.key, job.seq))
    /\ job' = Idle
    /\ UNCHANGED <<seqFile, reader, retired, up, crashes>>

(* inboxAfter.                                                             *)
Inbox == UNION {InboxOf(mem[k].records) : k \in Keys}
ReadInbox ==
    /\ up
    /\ LET fresh == {r \in Inbox : r.seq > reader.cursor} IN
       /\ fresh # {}
       /\ reader' = [cursor |-> Max({r.seq : r \in fresh}), got |-> reader.got \cup fresh]
    /\ UNCHANGED <<disk, seqFile, mem, uncertain, next, job, acked, retired, up, faults, crashes>>

-----------------------------------------------------------------------------
(* #cleanRetainedPayloads (lifecycle.ts), for a ledger past its retention: *)
(* writeTombstone; removeLedgerPayload, which asks for the tombstone; and  *)
(* removeTombstone, once the ledger is gone.                               *)
WriteTombstone(k) ==
    /\ up /\ mem[k].held
    /\ \/ disk[k].tomb # "none" /\ Works /\ UNCHANGED disk
       \/ disk[k].tomb = "none" /\ Works /\ disk' = [disk EXCEPT ![k].tomb = "firm"]
       \/ /\ disk[k].tomb = "none" /\ Fails
          /\ disk' \in {disk, [disk EXCEPT ![k].tomb = "loose"]}
    /\ retired' = IF disk'[k].tomb = "none" THEN retired ELSE retired \cup {k}
    /\ UNCHANGED <<seqFile, mem, uncertain, next, job, reader, acked, up, crashes>>

(* An unlink the machine forgets leaves what a death before it leaves.     *)
RemoveLedgerPayload(k) ==
    LET gone == [disk EXCEPT ![k].lines = <<>>, ![k].synced = 0, ![k].name = "none"] IN
    /\ up /\ mem[k].held /\ disk[k].tomb # "none"
    /\ \/ /\ Works /\ disk' = gone
          /\ mem' = [mem EXCEPT ![k] = Absent]
       \/ /\ Fails /\ disk' \in {disk, gone} /\ UNCHANGED mem
    /\ UNCHANGED <<seqFile, uncertain, next, job, reader, acked, retired, up, crashes>>

RemoveTombstone(k) ==
    /\ up /\ disk[k].tomb # "none" /\ ~mem[k].held
    /\ \/ Works /\ disk' = [disk EXCEPT ![k].tomb = "none"]
       \/ Fails /\ disk' \in {disk, [disk EXCEPT ![k].tomb = "none"]}
    /\ UNCHANGED <<seqFile, mem, uncertain, next, job, reader, acked, retired, up, crashes>>

-----------------------------------------------------------------------------
(* The process dies with its memory; a new one runs #rebuild.              *)
Dies ==
    /\ up' = FALSE /\ crashes < CrashMax /\ crashes' = crashes + 1
    /\ mem' = [k \in Keys |-> Absent]
    /\ uncertain' = [k \in Keys |-> FALSE]
    /\ next' = 1 /\ job' = Idle
    /\ UNCHANGED <<reader, acked, retired, faults>>

ProcessDies == up /\ Dies /\ UNCHANGED <<disk, seqFile>>

(* Of what was not fsynced the machine keeps any prefix, the last line of  *)
(* it perhaps in part, and a name that was not fsynced may be missing.     *)
Remains(d) ==
    LET prefixes == {SubSeq(d.lines, 1, n) : n \in d.synced..Len(d.lines)}
                    \cup {Append(SubSeq(d.lines, 1, n), Torn) : n \in d.synced..(Len(d.lines) - 1)}
        files == CASE d.name = "firm"  -> prefixes \X {"firm"}
                   [] d.name = "loose" -> (prefixes \X {"firm"}) \cup {<<<<>>, "none">>}
                   [] OTHER            -> {<<d.lines, d.name>>}
        tombs == IF d.tomb = "loose" THEN {"none", "firm"} ELSE {d.tomb} IN
    {[lines |-> f[1], synced |-> Len(f[1]), name |-> f[2], tomb |-> t] : f \in files, t \in tombs}

MachineDies ==
    /\ up /\ Dies
    /\ disk' \in {f \in [Keys -> UNION {Remains(disk[k]) : k \in Keys}] :
                     \A k \in Keys : f[k] \in Remains(disk[k])}
    /\ \E n \in {seqFile.seen, seqFile.firm} : seqFile' = [seen |-> n, firm |-> n]

(* Mutant: the sequence starts after the surviving inbox records.          *)
RestartFromSurvivors ==
    /\ ~up /\ up' = TRUE
    /\ disk' = [k \in Keys |->
                  IF Present(k) /\ ~Parses(disk[k].lines)
                  THEN [disk[k] EXCEPT !.name = "quarantined"] ELSE disk[k]]
    /\ mem' = [k \in Keys |->
                  IF Present(k) /\ Parses(disk[k].lines) THEN Parsed(disk[k].lines) ELSE Absent]
    /\ next' = Max({Past(1, mem'[k].records) : k \in Keys})
    /\ UNCHANGED <<seqFile, uncertain, job, reader, acked, retired, faults, crashes>>

(* #rebuild and #loadPath: a file that does not parse is set aside.        *)
Restart ==
    /\ ~up /\ up' = TRUE
    /\ disk' = [k \in Keys |->
                  IF Present(k) /\ ~Parses(disk[k].lines)
                  THEN [disk[k] EXCEPT !.name = "quarantined"] ELSE disk[k]]
    /\ mem' = [k \in Keys |->
                  IF Present(k) /\ Parses(disk[k].lines) THEN Parsed(disk[k].lines) ELSE Absent]
    /\ next' = Max({Past(seqFile.seen, mem'[k].records) : k \in Keys})
    /\ UNCHANGED <<seqFile, uncertain, job, reader, acked, retired, faults, crashes>>

Init ==
    /\ disk = [k \in Keys |-> [lines |-> <<>>, synced |-> 0, name |-> "none", tomb |-> "none"]]
    /\ seqFile = [seen |-> 1, firm |-> 1]
    /\ mem = [k \in Keys |-> Absent]
    /\ uncertain = [k \in Keys |-> FALSE]
    /\ next = 1 /\ job = Idle
    /\ reader = [cursor |-> 0, got |-> {}]
    /\ acked = [k \in Keys |-> <<>>]
    /\ retired = {}
    /\ up = TRUE /\ faults = 0 /\ crashes = 0

Next ==
    \/ \E k \in Keys :
          CreateLedger(k) \/ WriteTombstone(k) \/ RemoveLedgerPayload(k) \/ RemoveTombstone(k)
    \/ \E k \in EventKeys : AppendEvent(k)
    \/ \E k \in InboxKeys : ReserveSequence(k)
    \/ AppendInbox \/ ReadInbox
    \/ ProcessDies \/ MachineDies \/ Restart

Spec == Init /\ [][Next]_vars

-----------------------------------------------------------------------------
(* Properties.                                                             *)

(* What an append reported as "appended" is never lost: until the ledger   *)
(* is tombstoned, its file parses and its fsynced part holds each          *)
(* acknowledged record once, in the order of their acknowledgements, after *)
(* any sequence of failed writes, failed fsyncs and deaths.  A ledger      *)
(* whose creation failed at the fsync of its directory and was then        *)
(* retried is left out: the retry takes it as it finds it.                 *)
AppendedSurvives ==
    \A k \in Keys \ retired : acked[k] # <<>> =>
        /\ disk[k].name = "firm" /\ Parses(disk[k].lines)
        /\ LET durable == SubSeq(disk[k].lines, 1, disk[k].synced)
               At(r) == {j \in DOMAIN durable : durable[j] = r} IN
           \A i, n \in DOMAIN acked[k] :
              /\ At(acked[k][i]) # {}
              /\ \A j \in At(acked[k][i]), l \in At(acked[k][n]) : i < n <=> j < l

(* A caller that pages through the inbox by cursor skips no acknowledged   *)
(* record of a ledger not yet removed, across ledgers, restarts and other  *)
(* ledgers being removed: a sequence is given once, and a record can be    *)
(* read before any later one can.                                          *)
ReaderSkipsNothing ==
    \A k \in Keys \ retired : \A i \in DOMAIN acked[k] :
        LET r == acked[k][i] IN
        (r.kind = "inbox" /\ r.seq <= reader.cursor) => r \in reader.got
=============================================================================
