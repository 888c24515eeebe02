--------------------------- MODULE TaskStoreProofs ---------------------------
(***************************************************************************)
(* What the durable task store (TaskStore) promises its callers, proved    *)
(* for any ledgers and any number of faults, deaths and sequences: an      *)
(* append that was acknowledged survives (AcknowledgedAppendsSurvive), and *)
(* a caller that pages through the inbox skips none (CursorSkipsNoRecord). *)
(*                                                                         *)
(* The inductive invariant IInv says of a ledger without a tombstone that  *)
(* its memory, unless it is marked uncertain, is what parsing its file     *)
(* gives (Mirrored), and that its acknowledged records are in the fsynced  *)
(* part of a file that parses, each once and in order, and in memory while *)
(* the process is up (Durable).  Across ledgers it says that every inbox   *)
(* record, in a file or in memory, and the reader's cursor are below the   *)
(* sequence that an append under way holds, or else below the durable      *)
(* sequence file (GivenOnce): that is why a sequence is never given twice, *)
(* whatever died in between.                                               *)
(***************************************************************************)
EXTENDS TaskStore, WellFoundedInduction, TLAPS

(* What a file may hold, and a memory.                                     *)
Lines == {Header, Torn, Bad, EventRecord} \cup [kind : {"inbox"}, key : Keys, seq : Nat]
Files == [lines : Seq(Lines), synced : Nat, name : {"none", "loose", "firm", "quarantined"},
          tomb : {"none", "loose", "firm"}]
Entry(r) == r \in Lines /\ r \notin {Header, Torn, Bad}
Parsings == [records : Seq(Lines), torn : BOOLEAN, held : BOOLEAN]

(* The types of the state.                                                 *)
TypeOK ==
    /\ disk \in [Keys -> Files]
    /\ seqFile \in [seen : Nat, firm : Nat]
    /\ mem \in [Keys -> Parsings]
    /\ uncertain \in [Keys -> BOOLEAN]
    /\ next \in Nat
    /\ job = Idle \/ job \in [key : InboxKeys, seq : Nat]
    /\ reader.cursor \in Nat
    /\ acked \in [Keys -> Seq(Lines)]
    /\ retired \subseteq Keys
    /\ up \in BOOLEAN

(* Every inbox record is numbered below n.                                 *)
Below(records, n) == \A i \in DOMAIN records : records[i].kind = "inbox" => records[i].seq < n

(* The sequence of the inbox append that holds the sequence lock, or the   *)
(* first one the durable sequence file has not given.                      *)
Limit == IF job = Idle THEN seqFile.firm ELSE job.seq

(* Sequences: the file is ahead of every record, of the cursor and of the  *)
(* append under way, and the memory is not behind the file.                *)
GivenOnce ==
    /\ seqFile.firm <= seqFile.seen
    /\ up => seqFile.firm <= next
    /\ job # Idle => job.seq < seqFile.firm
    /\ reader.cursor < Limit
    /\ \A k \in Keys : Below(disk[k].lines, Limit) /\ Below(mem[k].records, Limit)

(* A ledger in memory is what its file parses to, unless an append to it   *)
(* has failed since it was read.                                           *)
Mirrored(k) ==
    mem[k].held => /\ Present(k) /\ Parses(disk[k].lines)
                   /\ uncertain[k] \/ /\ mem[k].records = Tail(Whole(disk[k].lines))
                                      /\ mem[k].torn <=> EndsTorn(disk[k].lines)

(* The records a are in the first `synced` lines of a file that parses,    *)
(* each once and in the order of a.                                        *)
Kept(lines, synced, a) ==
    /\ Parses(lines) /\ synced <= Len(lines)
    /\ \A i \in DOMAIN a : Entry(a[i]) /\ \E j \in 1..synced : lines[j] = a[i]
    /\ \A i, n \in DOMAIN a : \A j, l \in DOMAIN lines :
          lines[j] = a[i] /\ lines[l] = a[n] => (i < n <=> j < l)

(* The records a are among the parsed ones.                                *)
Visible(records, a) == \A i \in DOMAIN a : \E j \in DOMAIN records : records[j] = a[i]

(* What Kept and Visible say of the acknowledged records of a ledger.      *)
Durable(k) ==
    acked[k] # <<>> =>
        /\ disk[k].name = "firm"
        /\ Kept(disk[k].lines, disk[k].synced, acked[k])
        /\ up => mem[k].held /\ Visible(mem[k].records, acked[k])

(* The inductive invariant.                                                *)
IInv ==
    /\ TypeOK
    /\ \A k \in Keys : disk[k].tomb # "none" => k \in retired
    /\ ~up => job = Idle /\ \A k \in Keys : ~mem[k].held
    /\ GivenOnce
    /\ \A k \in Keys \ retired : Mirrored(k) /\ Durable(k)
    /\ ReaderSkipsNothing

-----------------------------------------------------------------------------
(* Numbers.                                                                *)

(* A non-empty set of naturals has a least element: the relation < is      *)
(* well-founded on them.                                                   *)
LEMMA Least ==
    ASSUME NEW T, T \subseteq Nat, T # {}
    PROVE  \E x \in T : \A y \in T : x <= y
<1> DEFINE R == {ss \in Nat \X Nat : ss[1] < ss[2]}
<1>1. IsWellFoundedOn(R, Nat)
  BY NatLessThanWellFounded DEF OpToRel
<1>0. \A i, j \in Nat : i < j => <<i, j>> \in R
  OBVIOUS
<1> HIDE DEF R
<1>2. PICK x \in T : \A y \in T : ~(<<y, x>> \in R)
  BY <1>1, WFMin, Zenon
<1>3. \A y \in T : x <= y
  <2> SUFFICES ASSUME NEW y \in T, ~(x <= y) PROVE FALSE
    OBVIOUS
  <2>1. x \in Nat /\ y \in Nat
    OBVIOUS
  <2>2. y < x
    BY <2>1
  <2>3. <<y, x>> \in R
    BY <1>0, <2>1, <2>2
  <2> QED BY <1>2, <2>3
<1> QED BY <1>3


(* A non-empty set of naturals with an upper bound has the greatest        *)
(* element that Max names.                                                 *)
LEMMA Greatest ==
    ASSUME NEW T, T \subseteq Nat, T # {}, NEW n \in Nat, \A y \in T : y < n
    PROVE  /\ Max(T) \in T
           /\ \A y \in T : y <= Max(T)
<1> DEFINE B == {b \in Nat : \A y \in T : y <= b}
<1>1. n \in B
  OBVIOUS
<1>2. PICK x \in B : \A b \in B : x <= b
  BY <1>1, Least, Zenon
<1>3. x \in T
  <2> SUFFICES ASSUME x \notin T PROVE FALSE
    OBVIOUS
  <2>1. PICK y \in T : TRUE
    BY Zenon
  <2>2. x # 0
    BY <2>1
  <2>3. x - 1 \in B
    BY <2>2
  <2> QED BY <1>2, <2>3
<1>4. \E m \in T : \A y \in T : m >= y
  BY <1>3
<1>5. Max(T) \in T /\ \A y \in T : Max(T) >= y
  BY <1>4, Zenon DEF Max
<1> QED BY <1>5

(* Indexing records whose sequences are below the next one leaves the next *)
(* one as it is.                                                           *)
LEMMA PastIsNext ==
    ASSUME NEW n \in Nat, NEW records \in Seq(Lines), Below(records, n)
    PROVE  Past(n, records) = n
<1> DEFINE T == {n} \cup {r.seq + 1 : r \in InboxOf(records)}
<1>1. \A t \in T : t \in Nat /\ t <= n
  <2>1. \A r \in InboxOf(records) : r.seq \in Nat /\ r.seq < n
    BY DEF InboxOf, Below, Lines, Header, Torn, Bad, EventRecord
  <2> QED BY <2>1
<1>2. n \in T
  OBVIOUS
<1> HIDE DEF T
<1>3. \E x \in T : \A y \in T : x >= y
  BY <1>1, <1>2
<1>4. Max(T) \in T /\ \A y \in T : Max(T) >= y
  BY <1>3 DEF Max
<1> DEFINE x == Max(T)
<1>5. x \in Nat /\ x <= n /\ x >= n
  BY <1>1, <1>2, <1>4, Zenon
<1> HIDE DEF x
<1>6. x = n
  BY <1>5
<1> QED BY <1>6 DEF Past, T, x

-----------------------------------------------------------------------------
(* Files.                                                                  *)

(* Parses, line by line.                                                   *)
LEMMA ParsesAt ==
    ASSUME NEW lines \in Seq(Lines)
    PROVE  /\ EndsTorn(lines) \in BOOLEAN
           /\ Whole(lines) \in Seq(Lines)
           /\ Len(Whole(lines)) = IF EndsTorn(lines) THEN Len(lines) - 1 ELSE Len(lines)
           /\ \A i \in 1..Len(Whole(lines)) : Whole(lines)[i] = lines[i]
           /\ Parses(lines) <=> /\ Len(Whole(lines)) >= 1 /\ lines[1] = Header
                                /\ \A i \in 2..Len(Whole(lines)) : lines[i] \notin {Header, Bad}
<1>1. /\ EndsTorn(lines) \in BOOLEAN
      /\ Whole(lines) \in Seq(Lines)
      /\ Len(Whole(lines)) = IF EndsTorn(lines) THEN Len(lines) - 1 ELSE Len(lines)
      /\ \A i \in 1..Len(Whole(lines)) : Whole(lines)[i] = lines[i]
  BY DEF Whole, EndsTorn
<1> DEFINE w == Whole(lines)
<1>2. w # <<>> <=> Len(w) >= 1
  BY <1>1
<1>3. Parses(lines) <=> /\ w # <<>> /\ w[1] = Header
                        /\ \A i \in 2..Len(w) : w[i] \notin {Header, Bad}
  BY DEF Parses
<1>4. Len(w) >= 1 => w[1] = lines[1]
  BY <1>1
<1>5. \A i \in 2..Len(w) : w[i] = lines[i]
  BY <1>1
<1> QED BY <1>1, <1>2, <1>3, <1>4, <1>5

(* A whole line after a whole line: the file still parses, to one record   *)
(* more.                                                                   *)
LEMMA LineAppended ==
    ASSUME NEW lines \in Seq(Lines), Parses(lines), ~EndsTorn(lines), NEW r, Entry(r)
    PROVE  /\ WithLine(lines, r) = Append(lines, r)
           /\ Parses(Append(lines, r))
           /\ ~EndsTorn(Append(lines, r))
           /\ Tail(Whole(Append(lines, r))) = Append(Tail(Whole(lines)), r)
<1> DEFINE more == Append(lines, r)
<1>1. more \in Seq(Lines) /\ Len(more) = Len(lines) + 1 /\ more[Len(more)] = r
      /\ \A i \in 1..Len(lines) : more[i] = lines[i]
  BY DEF Entry
<1>2. ~EndsTorn(more) /\ Whole(more) = more
  BY <1>1 DEF EndsTorn, Whole, Entry
<1>3. Whole(lines) = lines /\ Len(lines) >= 1
  BY ParsesAt DEF Whole
<1>4. Parses(more)
  <2>1. lines[1] = Header /\ \A i \in 2..Len(lines) : lines[i] \notin {Header, Bad}
    BY <1>3, ParsesAt
  <2>2. more[1] = Header /\ \A i \in 2..Len(more) : more[i] \notin {Header, Bad}
    BY <1>1, <1>3, <2>1 DEF Entry
  <2> HIDE DEF more
  <2> QED BY <1>1, <1>2, <1>3, <2>2, ParsesAt
<1>5. Tail(more) = Append(Tail(lines), r)
  BY <1>1, <1>3 DEF Entry
<1>6. Tail(Whole(more)) = Append(Tail(Whole(lines)), r)
  BY <1>2, <1>3, <1>5
<1> QED BY <1>2, <1>4, <1>6 DEF WithLine

(* A part of a line after a whole line: the file still parses.             *)
LEMMA PartAppended ==
    ASSUME NEW lines \in Seq(Lines), Parses(lines), ~EndsTorn(lines)
    PROVE  /\ WithPart(lines) = Append(lines, Torn)
           /\ Parses(Append(lines, Torn))
<1> DEFINE more == Append(lines, Torn)
<1>1. more \in Seq(Lines) /\ Len(more) = Len(lines) + 1 /\ more[Len(more)] = Torn
      /\ \A i \in 1..Len(lines) : more[i] = lines[i]
  BY DEF Lines
<1>2. EndsTorn(more) /\ Len(Whole(more)) = Len(lines)
  BY <1>1 DEF EndsTorn, Whole
<1>3. Whole(lines) = lines /\ Len(lines) >= 1
  BY ParsesAt DEF Whole
<1>4. Parses(more)
  <2>1. lines[1] = Header /\ \A i \in 2..Len(lines) : lines[i] \notin {Header, Bad}
    BY <1>3, ParsesAt
  <2>2. more[1] = Header /\ \A i \in 2..Len(lines) : more[i] \notin {Header, Bad}
    BY <1>1, <1>3, <2>1
  <2> HIDE DEF more
  <2> QED BY <1>1, <1>2, <1>3, <2>2, ParsesAt
<1> QED BY <1>4 DEF WithPart

(* A non-empty prefix of a file that parses does, with a part of the next  *)
(* line or without.                                                        *)
LEMMA PrefixParses ==
    ASSUME NEW lines \in Seq(Lines), Parses(lines), NEW n \in 1..Len(lines)
    PROVE  /\ SubSeq(lines, 1, n) \in Seq(Lines)
           /\ Parses(SubSeq(lines, 1, n))
           /\ n < Len(lines) => /\ Append(SubSeq(lines, 1, n), Torn) \in Seq(Lines)
                                /\ Parses(Append(SubSeq(lines, 1, n), Torn))
<1> DEFINE part == SubSeq(lines, 1, n)
           torn == Append(part, Torn)
<1>1. part \in Seq(Lines) /\ Len(part) = n /\ \A i \in 1..n : part[i] = lines[i]
  OBVIOUS
<1>2. torn \in Seq(Lines) /\ Len(torn) = n + 1 /\ torn[n + 1] = Torn /\ \A i \in 1..n : torn[i] = lines[i]
  BY <1>1 DEF Lines
<1>3. lines[1] = Header /\ \A i \in 2..Len(Whole(lines)) : lines[i] \notin {Header, Bad}
  BY ParsesAt
<1>4. Len(lines) - 1 <= Len(Whole(lines)) /\ Len(Whole(lines)) \in Nat
  BY ParsesAt
<1>5. lines[1] # Torn
  BY <1>3 DEF Header, Torn
<1> HIDE DEF part, torn
<1>6. Parses(part)
  <2>1. Len(Whole(part)) = IF EndsTorn(part) THEN n - 1 ELSE n
    BY <1>1, ParsesAt
  <2>2. EndsTorn(part) => n # 1
    BY <1>1, <1>5 DEF EndsTorn
  <2>3. Len(Whole(part)) >= 1
    BY <2>1, <2>2
  <2>4. \A i \in 2..Len(Whole(part)) : i <= Len(Whole(lines))
    <3> SUFFICES ASSUME NEW i \in 2..Len(Whole(part)), i > Len(Whole(lines)) PROVE FALSE
      BY <1>4, <2>1
    <3>1. i = n /\ n = Len(lines) /\ EndsTorn(lines) /\ ~EndsTorn(part)
      BY <1>4, <2>1, ParsesAt
    <3>2. part[n] = Torn
      BY <1>1, <3>1 DEF EndsTorn
    <3> QED BY <1>1, <3>1, <3>2 DEF EndsTorn
  <2>5. \A i \in 2..Len(Whole(part)) : part[i] \notin {Header, Bad}
    BY <1>1, <1>3, <2>1, <2>4
  <2>6. part[1] = Header
    BY <1>1, <1>3
  <2> QED BY <1>1, <2>3, <2>5, <2>6, ParsesAt, Zenon
<1>7. ASSUME n < Len(lines) PROVE Parses(torn)
  <2>1. EndsTorn(torn) /\ Len(Whole(torn)) = n
    BY <1>2, ParsesAt DEF EndsTorn
  <2>2. \A i \in 2..Len(Whole(torn)) : torn[i] \notin {Header, Bad}
    BY <1>2, <1>3, <1>4, <1>7, <2>1
  <2>3. torn[1] = Header
    BY <1>2, <1>3
  <2>4. Len(Whole(torn)) >= 1
    BY <2>1
  <2> QED BY <1>2, <2>2, <2>3, <2>4, ParsesAt, Zenon
<1> QED BY <1>1, <1>2, <1>6, <1>7 DEF part, torn

(* Records stay kept when something else is written after them,            *)
LEMMA KeptMore ==
    ASSUME NEW lines \in Seq(Lines), NEW synced \in Nat, NEW a \in Seq(Lines), Kept(lines, synced, a),
           NEW x, x \in Lines, \A i \in DOMAIN a : a[i] # x,
           Parses(Append(lines, x))
    PROVE  Kept(Append(lines, x), synced, a)
<1> DEFINE more == Append(lines, x)
<1>1. more \in Seq(Lines) /\ Len(more) = Len(lines) + 1 /\ more[Len(lines) + 1] = x
      /\ \A i \in 1..Len(lines) : more[i] = lines[i]
  OBVIOUS
<1>2. DOMAIN more = 1..(Len(lines) + 1) /\ DOMAIN lines = 1..Len(lines) /\ Len(lines) \in Nat
  BY <1>1
<1> HIDE DEF more
<1>3. synced <= Len(more)
  BY <1>1 DEF Kept
<1>4. \A i \in DOMAIN a : Entry(a[i]) /\ \E j \in 1..synced : more[j] = a[i]
  BY <1>1, <1>2 DEF Kept
<1>5. ASSUME NEW i \in DOMAIN a, NEW n \in DOMAIN a, NEW j \in DOMAIN more, NEW l \in DOMAIN more,
             more[j] = a[i], more[l] = a[n]
      PROVE  i < n <=> j < l
  <2>1. j \in DOMAIN lines /\ l \in DOMAIN lines
    BY <1>1, <1>2, <1>5
  <2>2. lines[j] = a[i] /\ lines[l] = a[n]
    BY <1>1, <1>2, <1>5, <2>1
  <2> QED BY <2>1, <2>2 DEF Kept
<1>6. Kept(more, synced, a)
  BY <1>3, <1>4, <1>5 DEF Kept, more
<1> QED BY <1>6 DEF more

(* when the rest of the file is fsynced,                                   *)
LEMMA KeptSynced ==
    ASSUME NEW lines \in Seq(Lines), NEW synced \in Nat, NEW a \in Seq(Lines), Kept(lines, synced, a)
    PROVE  Kept(lines, Len(lines), a)
BY DEF Kept

(* with one more, new to the file, that is written and fsynced,            *)
LEMMA KeptAcked ==
    ASSUME NEW lines \in Seq(Lines), NEW synced \in Nat, NEW a \in Seq(Lines),
           a = <<>> \/ Kept(lines, synced, a),
           Parses(lines), ~EndsTorn(lines), NEW r, Entry(r), \A j \in DOMAIN lines : lines[j] # r
    PROVE  Kept(Append(lines, r), Len(lines) + 1, Append(a, r))
<1> DEFINE more == Append(lines, r)
           b == Append(a, r)
<1>1. more \in Seq(Lines) /\ Len(more) = Len(lines) + 1 /\ more[Len(lines) + 1] = r
      /\ \A i \in 1..Len(lines) : more[i] = lines[i]
  BY DEF Entry
<1>2. DOMAIN more = 1..(Len(lines) + 1) /\ DOMAIN lines = 1..Len(lines) /\ Len(lines) \in Nat
  BY <1>1
<1>3. Len(a) \in Nat /\ DOMAIN a = 1..Len(a) /\ DOMAIN b = 1..(Len(a) + 1) /\ b[Len(a) + 1] = r
      /\ \A i \in 1..Len(a) : b[i] = a[i]
  BY DEF Entry
<1>4. Parses(more)
  BY LineAppended
<1> HIDE DEF more, b
<1>5. \A i \in DOMAIN a : Entry(a[i]) /\ \E j \in 1..Len(lines) : lines[j] = a[i]
  BY <1>3 DEF Kept
<1>6. \A i, n \in DOMAIN a : \A j, l \in DOMAIN lines :
         lines[j] = a[i] /\ lines[l] = a[n] => (i < n <=> j < l)
  BY <1>3 DEF Kept
<1>7. \A i \in DOMAIN a : a[i] # r
  BY <1>2, <1>5
<1>8. ASSUME NEW i \in DOMAIN b PROVE Entry(b[i]) /\ \E j \in 1..(Len(lines) + 1) : more[j] = b[i]
  <2>1. CASE i = Len(a) + 1
    BY <1>1, <1>2, <1>3, <2>1
  <2>2. CASE i \in DOMAIN a
    <3>1. PICK j \in 1..Len(lines) : lines[j] = a[i]
      BY <1>5, <2>2
    <3>2. j \in 1..(Len(lines) + 1) /\ more[j] = b[i] /\ b[i] = a[i]
      BY <1>1, <1>2, <1>3, <2>2, <3>1
    <3> QED BY <1>5, <2>2, <3>2
  <2> QED BY <1>3, <2>1, <2>2
<1>9. ASSUME NEW i \in DOMAIN b, NEW n \in DOMAIN b, NEW j \in DOMAIN more, NEW l \in DOMAIN more,
             more[j] = b[i], more[l] = b[n]
      PROVE  i < n <=> j < l
  <2>1. \A e \in DOMAIN b, d \in DOMAIN more : more[d] = b[e] =>
          \/ e = Len(a) + 1 /\ d = Len(lines) + 1
          \/ e \in DOMAIN a /\ d \in DOMAIN lines /\ lines[d] = a[e]
    BY <1>1, <1>2, <1>3, <1>7
  <2>2. \/ i = Len(a) + 1 /\ j = Len(lines) + 1
        \/ i \in DOMAIN a /\ j \in DOMAIN lines /\ lines[j] = a[i]
    BY <1>9, <2>1
  <2>3. \/ n = Len(a) + 1 /\ l = Len(lines) + 1
        \/ n \in DOMAIN a /\ l \in DOMAIN lines /\ lines[l] = a[n]
    BY <1>9, <2>1
  <2>4. CASE i \in DOMAIN a /\ j \in DOMAIN lines /\ lines[j] = a[i]
             /\ n \in DOMAIN a /\ l \in DOMAIN lines /\ lines[l] = a[n]
    BY <1>6, <2>4
  <2> QED BY <1>2, <1>3, <2>2, <2>3, <2>4
<1>10. Kept(more, Len(lines) + 1, b)
  BY <1>1, <1>2, <1>4, <1>8, <1>9 DEF Kept
<1> QED BY <1>10 DEF more, b

(* and in what a death of the machine leaves of the file.                  *)
LEMMA KeptPrefix ==
    ASSUME NEW lines \in Seq(Lines), NEW synced \in Nat, NEW a \in Seq(Lines), a # <<>>,
           Kept(lines, synced, a), NEW n \in synced..Len(lines)
    PROVE  /\ Kept(SubSeq(lines, 1, n), n, a)
           /\ n < Len(lines) => Kept(Append(SubSeq(lines, 1, n), Torn), n + 1, a)
<1> DEFINE part == SubSeq(lines, 1, n)
<1>1. synced >= 1
  <2>1. 1 \in DOMAIN a
    OBVIOUS
  <2> QED BY <2>1 DEF Kept
<1>2. n \in 1..Len(lines) /\ n \in Nat
  BY <1>1
<1>3. part \in Seq(Lines) /\ Len(part) = n /\ DOMAIN part = 1..n /\ \A i \in 1..n : part[i] = lines[i]
  BY <1>2
<1>4. Parses(part) /\ (n < Len(lines) => Parses(Append(part, Torn)))
  BY <1>2, PrefixParses DEF Kept
<1> HIDE DEF part
<1>5. \A i \in DOMAIN a : Entry(a[i]) /\ \E j \in 1..n : part[j] = a[i]
  BY <1>2, <1>3 DEF Kept
<1>6. \A i, e \in DOMAIN a : \A j, l \in DOMAIN part :
         part[j] = a[i] /\ part[l] = a[e] => (i < e <=> j < l)
  BY <1>2, <1>3 DEF Kept
<1>7. Kept(part, n, a)
  BY <1>2, <1>3, <1>4, <1>5, <1>6 DEF Kept
<1>8. ASSUME n < Len(lines) PROVE Kept(Append(part, Torn), n + 1, a)
  <2>1. Torn \in Lines /\ \A i \in DOMAIN a : a[i] # Torn
    BY <1>5 DEF Entry, Lines
  <2>2. Kept(Append(part, Torn), n, a)
    BY <1>2, <1>3, <1>4, <1>7, <1>8, <2>1, KeptMore
  <2>3. Append(part, Torn) \in Seq(Lines) /\ Len(Append(part, Torn)) = n + 1
    BY <1>3, <2>1
  <2> QED BY <1>2, <2>2, <2>3, KeptSynced, Zenon
<1> QED BY <1>7, <1>8 DEF part

-----------------------------------------------------------------------------
(* Appends.                                                                *)

(* What parseLedger returns.                                               *)
LEMMA ParsedFacts ==
    ASSUME NEW lines \in Seq(Lines), Parses(lines), NEW limit, Below(lines, limit)
    PROVE  /\ Parsed(lines) \in Parsings /\ Parsed(lines).held
           /\ Parsed(lines).records = Tail(Whole(lines))
           /\ Parsed(lines).torn <=> EndsTorn(lines)
           /\ Below(Parsed(lines).records, limit)
<1> DEFINE w == Whole(lines)
           t == EndsTorn(lines)
<1>1. w \in Seq(Lines) /\ t \in BOOLEAN /\ Len(w) >= 1
      /\ Len(w) <= Len(lines) /\ \A i \in 1..Len(w) : w[i] = lines[i]
  BY ParsesAt
<1>2. Parsed(lines) = [records |-> Tail(w), torn |-> t, held |-> TRUE]
  BY DEF Parsed
<1> HIDE DEF w, t
<1>3. Tail(w) \in Seq(Lines) /\ Len(Tail(w)) = Len(w) - 1
      /\ \A i \in 1..(Len(w) - 1) : Tail(w)[i] = w[i + 1]
  BY <1>1
<1>4. \A i \in DOMAIN Tail(w) : i + 1 \in DOMAIN lines /\ Tail(w)[i] = lines[i + 1]
  BY <1>1, <1>3
<1>5. Below(Tail(w), limit)
  BY <1>4 DEF Below
<1> QED BY <1>1, <1>2, <1>3, <1>5 DEF Parsings, w, t

(* What #recoverUncertainLedgerLocked leaves: the ledger as the file has   *)
(* it, and the file as it was, perhaps fsynced.                            *)
LEMMA LedgerFacts ==
    ASSUME TypeOK, NEW k \in Keys, mem[k].held, uncertain[k] => Parses(disk[k].lines),
           NEW limit, Below(disk[k].lines, limit), Below(mem[k].records, limit)
    PROVE  /\ Ledger(k) \in Parsings /\ Ledger(k).held
           /\ Below(Ledger(k).records, limit)
           /\ Reload(k) \in Files
           /\ Reload(k).lines = disk[k].lines /\ Reload(k).name = disk[k].name
           /\ Reload(k).tomb = disk[k].tomb
           /\ Reload(k).synced \in {disk[k].synced, Len(disk[k].lines)}
           /\ Mirrored(k) => /\ Ledger(k).records = Tail(Whole(disk[k].lines))
                             /\ Ledger(k).torn <=> EndsTorn(disk[k].lines)
<1>1. disk[k].lines \in Seq(Lines) /\ disk[k] \in Files /\ mem[k] \in Parsings
      /\ Len(disk[k].lines) \in Nat
  BY DEF TypeOK, Files
<1>2. CASE uncertain[k]
  <2>1. Ledger(k) = Parsed(disk[k].lines) /\ Reload(k) = [disk[k] EXCEPT !.synced = Len(disk[k].lines)]
    BY <1>2 DEF Ledger, Reload
  <2>2. Reload(k) \in Files
    BY <1>1, <2>1 DEF Files
  <2> QED BY <1>1, <1>2, <2>1, <2>2, ParsedFacts DEF Files
<1>3. CASE ~uncertain[k]
  <2>1. Ledger(k) = mem[k] /\ Reload(k) = disk[k]
    BY <1>3 DEF Ledger, Reload
  <2> QED BY <1>1, <1>3, <2>1 DEF Mirrored
<1> QED BY <1>2, <1>3

(* Only the ledger k changes.                                              *)
Elsewhere(k) ==
    \A l \in Keys \ {k} : /\ disk'[l] = disk[l] /\ mem'[l] = mem[l]
                          /\ uncertain'[l] = uncertain[l] /\ acked'[l] = acked[l]

(* What an append that gets as far as the file does: nothing to the file;  *)
(* a part of the line, or the line, not acknowledged; or the line, fsynced *)
(* and acknowledged.                                                       *)
Outcome(k, r) ==
    LET lines == disk[k].lines
        ledger == Ledger(k) IN
    /\ mem[k].held /\ (uncertain[k] => Parses(lines))
    /\ disk' \in [Keys -> Files] /\ mem' \in [Keys -> Parsings]
    /\ uncertain' \in [Keys -> BOOLEAN] /\ acked' \in [Keys -> Seq(Lines)]
    /\ Elsewhere(k)
    /\ disk'[k].tomb = disk[k].tomb
    /\ disk'[k].name = disk[k].name \/ ~Present(k)
    /\ next' = Past(next, mem'[k].records)
    /\ mem'[k].held /\ mem'[k].torn = ledger.torn
    /\ \/ /\ disk'[k].lines = lines /\ disk'[k].synced \in {disk[k].synced, Len(lines)}
          /\ mem'[k].records = ledger.records /\ acked'[k] = acked[k]
       \/ /\ ~ledger.torn /\ ~Has(ledger.records, r.kind)
          /\ disk'[k].lines \in {WithPart(lines), WithLine(lines, r)}
          /\ disk'[k].synced \in {disk[k].synced, Len(lines)}
          /\ mem'[k].records = ledger.records /\ uncertain'[k] /\ acked'[k] = acked[k]
       \/ /\ ~ledger.torn /\ ~Has(ledger.records, r.kind)
          /\ disk'[k].lines = WithLine(lines, r)
          /\ disk'[k].synced = Len(WithLine(lines, r))
          /\ mem'[k].records = Append(ledger.records, r)
          /\ acked'[k] = IF disk[k].name = "firm" /\ k \notin retired THEN Append(acked[k], r)
                         ELSE acked[k]

(* Every #appendRecord that changes something has one of these outcomes.   *)
LEMMA AppendOutcome ==
    ASSUME TypeOK, NEW k \in Keys, NEW r, Entry(r),
           NEW limit, Below(disk[k].lines, limit), Below(mem[k].records, limit),
           Appended(k, r)
    PROVE  UNCHANGED <<disk, mem, uncertain, next, acked>> \/ Outcome(k, r)
<1> DEFINE lines == disk[k].lines
           ledger == Ledger(k)
           file == Reload(k)
<1> SUFFICES ASSUME mem[k].held, uncertain[k] => Parses(lines),
                    IF ledger.torn \/ Has(ledger.records, r.kind)
                    THEN /\ disk' = [disk EXCEPT ![k] = file]
                         /\ mem' = [mem EXCEPT ![k] = ledger]
                         /\ uncertain' = [uncertain EXCEPT ![k] = FALSE]
                         /\ next' = Past(next, ledger.records)
                         /\ UNCHANGED acked
                    ELSE Written(k, r)
             PROVE  Outcome(k, r)
  BY Zenon DEF Appended
<1>1. /\ ledger \in Parsings /\ ledger.held
      /\ file \in Files
      /\ file.lines = lines /\ file.name = disk[k].name /\ file.tomb = disk[k].tomb
      /\ file.synced \in {disk[k].synced, Len(lines)}
  BY LedgerFacts, Zenon
<1>2. /\ disk \in [Keys -> Files] /\ mem \in [Keys -> Parsings]
      /\ uncertain \in [Keys -> BOOLEAN] /\ acked \in [Keys -> Seq(Lines)]
  BY DEF TypeOK
<1>3. lines \in Seq(Lines)
  BY <1>2 DEF Files
<1> HIDE DEF lines, ledger, file
<1>4. CASE ledger.torn \/ Has(ledger.records, r.kind)
  <2>1. /\ disk' = [disk EXCEPT ![k] = file]
        /\ mem' = [mem EXCEPT ![k] = ledger]
        /\ uncertain' = [uncertain EXCEPT ![k] = FALSE]
        /\ next' = Past(next, ledger.records)
        /\ UNCHANGED acked
    BY <1>4
  <2>2. disk'[k] = file /\ mem'[k] = ledger /\ acked'[k] = acked[k] /\ Elsewhere(k)
    BY <1>2, <2>1 DEF Elsewhere
  <2>3. /\ disk' \in [Keys -> Files] /\ mem' \in [Keys -> Parsings]
        /\ uncertain' \in [Keys -> BOOLEAN] /\ acked' \in [Keys -> Seq(Lines)]
    BY <1>1, <1>2, <2>1
  <2> QED BY <1>1, <2>1, <2>2, <2>3 DEF Outcome, lines, ledger
<1>5. CASE ~(ledger.torn \/ Has(ledger.records, r.kind))
  <2> DEFINE named == [file EXCEPT !.name = IF Present(k) THEN @ ELSE "loose"]
             whole == WithLine(lines, r)
             part == WithPart(lines)
  <2>1. /\ named \in Files /\ named.lines = lines /\ named.synced = file.synced
        /\ named.tomb = disk[k].tomb
        /\ named.name = disk[k].name \/ ~Present(k)
    BY <1>1 DEF Files
  <2>2. whole \in Seq(Lines) /\ part \in Seq(Lines) /\ Len(whole) \in Nat
    BY <1>3 DEF WithLine, WithPart, EndsTorn, Entry, Lines
  <2>3. WithLine(file.lines, r) = whole /\ WithPart(named.lines) = part
    BY <1>1, <2>1
  <2>4. Written(k, r)
    BY <1>5
  <2>5. \/ /\ disk' = [disk EXCEPT ![k] = [named EXCEPT !.lines = whole, !.synced = Len(whole)]]
           /\ mem' = [mem EXCEPT ![k] = [ledger EXCEPT !.records = Append(@, r)]]
           /\ uncertain' = [uncertain EXCEPT ![k] = FALSE]
           /\ next' = Past(next, mem'[k].records)
           /\ acked' = IF disk[k].name = "firm" /\ k \notin retired
                       THEN [acked EXCEPT ![k] = Append(@, r)] ELSE acked
        \/ /\ \/ disk' = [disk EXCEPT ![k] = file]
              \/ disk' = [disk EXCEPT ![k] = [named EXCEPT !.lines = part]]
              \/ disk' = [disk EXCEPT ![k] = [named EXCEPT !.lines = whole]]
           /\ mem' = [mem EXCEPT ![k] = ledger]
           /\ uncertain' = [uncertain EXCEPT ![k] = TRUE]
           /\ next' = Past(next, mem'[k].records)
           /\ UNCHANGED acked
    BY <2>3, <2>4, Zenon DEF Written, file, ledger
  <2> HIDE DEF named, whole, part
  <2>6. CASE /\ disk' = [disk EXCEPT ![k] = [named EXCEPT !.lines = whole, !.synced = Len(whole)]]
             /\ mem' = [mem EXCEPT ![k] = [ledger EXCEPT !.records = Append(@, r)]]
             /\ uncertain' = [uncertain EXCEPT ![k] = FALSE]
             /\ next' = Past(next, mem'[k].records)
             /\ acked' = IF disk[k].name = "firm" /\ k \notin retired
                         THEN [acked EXCEPT ![k] = Append(@, r)] ELSE acked
    <3> DEFINE d == [named EXCEPT !.lines = whole, !.synced = Len(whole)]
               m == [ledger EXCEPT !.records = Append(@, r)]
    <3>1. /\ d \in Files /\ d.lines = whole /\ d.synced = Len(whole)
          /\ d.tomb = named.tomb /\ d.name = named.name
      BY <2>1, <2>2, Zenon DEF Files
    <3>2. /\ m \in Parsings /\ m.records = Append(ledger.records, r)
          /\ m.held /\ m.torn = ledger.torn
      BY <1>1 DEF Parsings, Entry
    <3> HIDE DEF d, m
    <3>3. disk' = [disk EXCEPT ![k] = d] /\ mem' = [mem EXCEPT ![k] = m]
      BY <2>6 DEF d, m
    <3>4. Append(acked[k], r) \in Seq(Lines)
      BY <1>2 DEF Entry
    <3>5. /\ acked' \in [Keys -> Seq(Lines)]
          /\ \A l \in Keys \ {k} : acked'[l] = acked[l]
          /\ acked'[k] = IF disk[k].name = "firm" /\ k \notin retired THEN Append(acked[k], r)
                         ELSE acked[k]
      BY <1>2, <2>6, <3>4
    <3>6. disk'[k] = d /\ mem'[k] = m /\ Elsewhere(k)
      BY <1>2, <2>6, <3>3, <3>5 DEF Elsewhere
    <3>7. disk' \in [Keys -> Files] /\ mem' \in [Keys -> Parsings] /\ uncertain' \in [Keys -> BOOLEAN]
      <4>1. disk' \in [Keys -> Files]
        BY <1>2, <3>1, <3>3
      <4>2. mem' \in [Keys -> Parsings]
        BY <1>2, <3>2, <3>3
      <4>3. uncertain' \in [Keys -> BOOLEAN]
        BY <1>2, <2>6
      <4> QED BY <4>1, <4>2, <4>3
    <3> QED BY <1>5, <2>1, <2>6, <3>1, <3>2, <3>5, <3>6, <3>7, Zenon DEF Outcome, lines, ledger, whole
  <2>7. CASE /\ \/ disk' = [disk EXCEPT ![k] = file]
                \/ disk' = [disk EXCEPT ![k] = [named EXCEPT !.lines = part]]
                \/ disk' = [disk EXCEPT ![k] = [named EXCEPT !.lines = whole]]
             /\ mem' = [mem EXCEPT ![k] = ledger]
             /\ uncertain' = [uncertain EXCEPT ![k] = TRUE]
             /\ next' = Past(next, mem'[k].records)
             /\ UNCHANGED acked
    <3>1. PICK d \in {file, [named EXCEPT !.lines = part], [named EXCEPT !.lines = whole]} :
             disk' = [disk EXCEPT ![k] = d]
      BY <2>7
    <3>2. /\ d \in Files /\ d.lines \in {lines, part, whole} /\ d.synced = file.synced
          /\ d.tomb = disk[k].tomb /\ (d.name = disk[k].name \/ ~Present(k))
      BY <1>1, <2>1, <2>2 DEF Files
    <3>3. disk'[k] = d /\ mem'[k] = ledger /\ uncertain'[k] = TRUE /\ Elsewhere(k)
      BY <1>2, <2>7, <3>1 DEF Elsewhere
    <3>4. disk' \in [Keys -> Files] /\ mem' \in [Keys -> Parsings]
          /\ uncertain' \in [Keys -> BOOLEAN] /\ acked' \in [Keys -> Seq(Lines)]
      BY <1>1, <1>2, <2>7, <3>1, <3>2
    <3>5. /\ disk'[k].lines \in {lines, part, whole} /\ disk'[k].synced \in {disk[k].synced, Len(lines)}
          /\ mem'[k].records = ledger.records /\ acked'[k] = acked[k]
      BY <1>1, <2>7, <3>2, <3>3
    <3>6. /\ disk'[k].tomb = disk[k].tomb
          /\ disk'[k].name = disk[k].name \/ ~Present(k)
          /\ mem'[k].held /\ mem'[k].torn = ledger.torn
      BY <1>1, <3>2, <3>3
    <3> QED BY <1>5, <2>7, <3>3, <3>4, <3>5, <3>6 DEF Outcome, lines, ledger, whole, part
  <2> QED BY <2>5, <2>6, <2>7
<1> QED BY <1>4, <1>5

(* A record of a file that parses is among the parsed ones.                *)
LEMMA InRecords ==
    ASSUME NEW lines \in Seq(Lines), Parses(lines), NEW j \in DOMAIN lines, Entry(lines[j])
    PROVE  \E i \in DOMAIN Tail(Whole(lines)) : Tail(Whole(lines))[i] = lines[j]
<1> DEFINE w == Whole(lines)
<1>1. w \in Seq(Lines) /\ Len(w) >= 1 /\ lines[1] = Header
      /\ Len(w) = (IF EndsTorn(lines) THEN Len(lines) - 1 ELSE Len(lines))
      /\ \A i \in 1..Len(w) : w[i] = lines[i]
  BY ParsesAt
<1>2. j # 1
  BY <1>1 DEF Entry
<1>3. j \in 2..Len(w)
  BY <1>1, <1>2 DEF EndsTorn, Entry
<1> HIDE DEF w
<1>4. Len(Tail(w)) = Len(w) - 1 /\ \A i \in 1..(Len(w) - 1) : Tail(w)[i] = w[i + 1]
      /\ DOMAIN Tail(w) = 1..(Len(w) - 1)
  BY <1>1
<1>5. Len(w) \in Nat /\ j \in 1..Len(w) /\ w[j] = lines[j]
  BY <1>1, <1>3
<1>6. j - 1 \in 1..(Len(w) - 1) /\ (j - 1) + 1 = j
  BY <1>3, <1>5
<1>7. j - 1 \in DOMAIN Tail(w) /\ Tail(w)[j - 1] = lines[j]
  BY <1>4, <1>5, <1>6, Zenon
<1> QED BY <1>7 DEF w

(* What is kept is what parsing the file shows.                            *)
LEMMA KeptVisible ==
    ASSUME NEW lines \in Seq(Lines), NEW synced \in Nat, NEW a \in Seq(Lines), Kept(lines, synced, a)
    PROVE  Visible(Tail(Whole(lines)), a)
<1> SUFFICES ASSUME NEW i \in DOMAIN a
             PROVE  \E j \in DOMAIN Tail(Whole(lines)) : Tail(Whole(lines))[j] = a[i]
  BY DEF Visible
<1>1. PICK j \in 1..synced : lines[j] = a[i] /\ Entry(a[i])
  BY DEF Kept
<1>2. j \in DOMAIN lines /\ Parses(lines)
  BY DEF Kept
<1> QED BY <1>1, <1>2, InRecords

(* A ledger that a step does not touch keeps what the invariant says of    *)
(* it.                                                                     *)
LEMMA SameKey ==
    ASSUME NEW k, disk'[k] = disk[k], mem'[k] = mem[k], uncertain'[k] = uncertain[k],
           acked'[k] = acked[k], up' = up
    PROVE  /\ Mirrored(k) => Mirrored(k)'
           /\ Durable(k) => Durable(k)'
BY DEF Mirrored, Durable, Present

(* An append keeps what the invariant says of its ledger. It writes only   *)
(* after a whole line and only a record that the file does not hold, so    *)
(* that what was acknowledged stays, once and in order.                    *)
LEMMA AppendKeeps ==
    ASSUME TypeOK, up, up' = up, NEW k \in Keys \ retired, Mirrored(k), Durable(k),
           NEW limit, Below(disk[k].lines, limit), Below(mem[k].records, limit),
           NEW r, Entry(r), Outcome(k, r)
    PROVE  Mirrored(k)' /\ Durable(k)'
<1> DEFINE lines == disk[k].lines
           ledger == Ledger(k)
           synced == disk[k].synced
           a == acked[k]
<1>1. lines \in Seq(Lines) /\ synced \in Nat /\ a \in Seq(Lines) /\ disk'[k].lines \in Seq(Lines)
  BY DEF TypeOK, Files, Outcome
<1>2. Present(k) /\ Parses(lines) /\ mem[k].held
  BY Zenon DEF Outcome, Mirrored
<1>3. ledger.records = Tail(Whole(lines)) /\ (ledger.torn <=> EndsTorn(lines))
  BY LedgerFacts, Zenon DEF Outcome
<1>4. disk'[k].name = disk[k].name /\ Present(k)'
  BY <1>2 DEF Outcome, Present
<1>5. mem'[k].held /\ mem'[k].torn = ledger.torn
  BY DEF Outcome
<1>6. a # <<>> => disk[k].name = "firm" /\ Kept(lines, synced, a) /\ Visible(Tail(Whole(lines)), a)
  BY <1>1, KeptVisible DEF Durable
<1>7. ASSUME ~ledger.torn, ~Has(ledger.records, r.kind)
      PROVE  /\ ~EndsTorn(lines) /\ WithLine(lines, r) = Append(lines, r)
             /\ WithPart(lines) = Append(lines, Torn)
             /\ \A j \in DOMAIN lines : lines[j] # r
             /\ a # <<>> => \A i \in DOMAIN a : a[i] # r
  <2>1. ~EndsTorn(lines)
    BY <1>3, <1>7
  <2>2. \A j \in DOMAIN lines : lines[j] # r
    <3> SUFFICES ASSUME NEW j \in DOMAIN lines, lines[j] = r PROVE FALSE
      OBVIOUS
    <3>1. PICK i \in DOMAIN Tail(Whole(lines)) : Tail(Whole(lines))[i] = r
      BY <1>1, <1>2, InRecords
    <3> QED BY <1>3, <1>7, <3>1 DEF Has
  <2>3. a # <<>> => \A i \in DOMAIN a : a[i] # r
    <3> HAVE a # <<>>
    <3> TAKE i \in DOMAIN a
    <3>1. PICK j \in 1..synced : lines[j] = a[i]
      BY <1>6 DEF Kept
    <3>2. j \in DOMAIN lines
      BY <1>1, <1>6, <3>1 DEF Kept
    <3> QED BY <2>2, <3>1, <3>2
  <2> QED BY <1>1, <1>2, <2>1, <2>2, <2>3, LineAppended, PartAppended
<1> HIDE DEF lines, ledger, synced, a
<1>8. CASE /\ disk'[k].lines = lines /\ disk'[k].synced \in {synced, Len(lines)}
           /\ mem'[k].records = ledger.records /\ acked'[k] = a
  <2>1. Mirrored(k)'
    BY <1>2, <1>3, <1>4, <1>5, <1>8 DEF Mirrored
  <2>2. a # <<>> => Kept(lines, disk'[k].synced, a)
    BY <1>1, <1>6, <1>8, KeptSynced, Zenon
  <2>3. Durable(k)'
    BY <1>3, <1>4, <1>5, <1>6, <1>8, <2>2 DEF Durable
  <2> QED BY <2>1, <2>3
<1>9. CASE /\ ~ledger.torn /\ ~Has(ledger.records, r.kind)
           /\ disk'[k].lines \in {WithPart(lines), WithLine(lines, r)}
           /\ disk'[k].synced \in {synced, Len(lines)}
           /\ mem'[k].records = ledger.records /\ uncertain'[k] /\ acked'[k] = a
  <2>1. PICK x \in {Torn, r} : disk'[k].lines = Append(lines, x)
    BY <1>7, <1>9
  <2>2. x \in Lines /\ (a # <<>> => \A i \in DOMAIN a : a[i] # x)
    <3>1. a # <<>> => \A i \in DOMAIN a : a[i] # Torn
      BY <1>6 DEF Kept, Entry
    <3>2. Torn \in Lines
      BY DEF Lines
    <3> QED BY <1>7, <1>9, <3>1, <3>2 DEF Entry
  <2>3. Parses(Append(lines, x))
    BY <1>1, <1>2, <1>7, <1>9, LineAppended, PartAppended
  <2>4. Mirrored(k)'
    BY <1>4, <1>9, <2>1, <2>3 DEF Mirrored
  <2>5. a # <<>> => Kept(lines, disk'[k].synced, a) /\ disk'[k].synced \in Nat
    BY <1>1, <1>6, <1>9, KeptSynced
  <2>6. a # <<>> => Kept(Append(lines, x), disk'[k].synced, a)
    BY <1>1, <2>2, <2>3, <2>5, KeptMore
  <2>7. Durable(k)'
    BY <1>3, <1>4, <1>5, <1>6, <1>9, <2>1, <2>6 DEF Durable
  <2> QED BY <2>4, <2>7
<1>10. CASE /\ ~ledger.torn /\ ~Has(ledger.records, r.kind)
            /\ disk'[k].lines = WithLine(lines, r)
            /\ disk'[k].synced = Len(WithLine(lines, r))
            /\ mem'[k].records = Append(ledger.records, r)
            /\ acked'[k] = IF disk[k].name = "firm" /\ k \notin retired THEN Append(a, r) ELSE a
  <2> DEFINE more == Append(lines, r)
  <2>1. disk'[k].lines = more /\ disk'[k].synced = Len(lines) + 1
    BY <1>1, <1>7, <1>10 DEF Entry
  <2>2. Parses(more) /\ ~EndsTorn(more) /\ Tail(Whole(more)) = Append(Tail(Whole(lines)), r)
    BY <1>1, <1>2, <1>7, <1>10, LineAppended, Zenon
  <2> HIDE DEF more
  <2>3. Mirrored(k)'
    BY <1>3, <1>4, <1>5, <1>10, <2>1, <2>2 DEF Mirrored
  <2>4. acked'[k] # <<>> => /\ acked'[k] = Append(a, r) /\ disk[k].name = "firm"
    BY <1>1, <1>6, <1>10
  <2>5. Kept(more, Len(lines) + 1, Append(a, r))
    BY <1>1, <1>2, <1>6, <1>7, <1>10, KeptAcked DEF more
  <2>6. Visible(Tail(Whole(more)), Append(a, r))
    <3>1. more \in Seq(Lines) /\ Len(lines) + 1 \in Nat /\ Append(a, r) \in Seq(Lines)
      BY <1>1 DEF more, Entry
    <3> QED BY <2>5, <3>1, KeptVisible, Zenon
  <2>7. mem'[k].records = Tail(Whole(more))
    BY <1>3, <1>10, <2>2
  <2>8. Durable(k)'
    BY <1>4, <1>5, <2>1, <2>4, <2>5, <2>6, <2>7, Zenon DEF Durable
  <2> QED BY <2>3, <2>8
<1> QED BY <1>8, <1>9, <1>10 DEF Outcome, lines, ledger, synced, a

(* The limit is a sequence that the durable file has given or will give    *)
(* next.                                                                   *)
LEMMA LimitNat ==
    ASSUME TypeOK, GivenOnce
    PROVE  Limit \in Nat /\ Limit <= seqFile.firm /\ seqFile.firm \in Nat
BY DEF TypeOK, GivenOnce, Limit

(* Below is monotonic,                                                     *)
LEMMA BelowMore ==
    ASSUME NEW m \in Nat, NEW n \in Nat, m <= n, NEW records \in Seq(Lines), Below(records, m)
    PROVE  Below(records, n)
<1> SUFFICES ASSUME NEW i \in DOMAIN records, records[i].kind = "inbox"
             PROVE  records[i].seq < n
  BY DEF Below
<1>1. records[i].seq < m
  BY DEF Below
<1>2. records[i] \in Lines
  OBVIOUS
<1>3. records[i].seq \in Nat
  BY <1>2 DEF Lines, Header, Torn, Bad, EventRecord
<1> QED BY <1>1, <1>3

(* and holds of a file or a memory with one more record below the limit.   *)
LEMMA BelowAppended ==
    ASSUME NEW records \in Seq(Lines), NEW limit, Below(records, limit), NEW r \in Lines,
           r.kind = "inbox" => r.seq < limit
    PROVE  /\ Below(Append(records, r), limit)
           /\ Below(WithLine(records, r), limit)
           /\ Below(WithPart(records), limit)
<1>1. \A x \in Lines : (x.kind = "inbox" => x.seq < limit) => Below(Append(records, x), limit)
  BY DEF Below
<1>2. Torn \in Lines /\ Bad \in Lines /\ Torn.kind # "inbox" /\ Bad.kind # "inbox"
  BY DEF Lines, Torn, Bad
<1>3. EndsTorn(records) => Below([records EXCEPT ![Len(records)] = Bad], limit)
  BY <1>2 DEF Below, EndsTorn
<1> QED BY <1>1, <1>2, <1>3 DEF WithLine, WithPart

(* An append numbers nothing above its limit, and does not move the next   *)
(* sequence.                                                               *)
LEMMA AppendBounds ==
    ASSUME IInv, up, NEW k \in Keys, NEW r, Entry(r), NEW limit \in Nat,
           Limit <= limit, limit <= seqFile.firm, r.kind = "inbox" => r.seq < limit,
           Outcome(k, r)
    PROVE  /\ \A l \in Keys : Below(disk'[l].lines, limit) /\ Below(mem'[l].records, limit)
           /\ next' = next
<1>1. TypeOK /\ GivenOnce
  BY DEF IInv
<1>2. \A l \in Keys : /\ disk[l].lines \in Seq(Lines) /\ mem[l].records \in Seq(Lines)
                      /\ disk'[l].lines \in Seq(Lines) /\ mem'[l].records \in Seq(Lines)
  BY <1>1, Zenon DEF TypeOK, Files, Parsings, Outcome
<1>3. \A l \in Keys : Below(disk[l].lines, limit) /\ Below(mem[l].records, limit)
  BY <1>1, <1>2, LimitNat, BelowMore DEF GivenOnce
<1>4. mem[k].held /\ (uncertain[k] => Parses(disk[k].lines))
  BY DEF Outcome
<1>5. Below(Ledger(k).records, limit) /\ Ledger(k).records \in Seq(Lines)
  BY <1>1, <1>3, <1>4, LedgerFacts DEF Parsings
<1>6. disk'[k].lines \in {disk[k].lines, WithPart(disk[k].lines), WithLine(disk[k].lines, r)}
      /\ mem'[k].records \in {Ledger(k).records, Append(Ledger(k).records, r)}
  BY Zenon DEF Outcome
<1>7. Below(disk'[k].lines, limit) /\ Below(mem'[k].records, limit)
  BY <1>2, <1>3, <1>5, <1>6, BelowAppended, Zenon DEF Entry
<1>8. \A l \in Keys \ {k} : Below(disk'[l].lines, limit) /\ Below(mem'[l].records, limit)
  BY <1>3, Zenon DEF Outcome, Elsewhere
<1>9. next \in Nat /\ limit <= next
  BY <1>1, LimitNat DEF TypeOK, GivenOnce
<1>10. Below(mem'[k].records, next)
  BY <1>2, <1>7, <1>9, BelowMore
<1>11. next' = Past(next, mem'[k].records)
  BY Zenon DEF Outcome
<1> QED BY <1>2, <1>7, <1>8, <1>9, <1>10, <1>11, PastIsNext

(* An append keeps the invariant. A record that it acknowledges is         *)
(* numbered above the reader's cursor.                                     *)
LEMMA AppendStep ==
    ASSUME IInv, up, NEW k \in Keys, NEW r, Entry(r),
           Limit <= Limit', Limit' <= seqFile.firm,
           r.kind = "inbox" => r.seq < Limit' /\ Limit <= r.seq,
           job' = Idle \/ job' = job, Appended(k, r),
           UNCHANGED <<seqFile, reader, retired, up>>
    PROVE  IInv'
<1>1. TypeOK /\ GivenOnce
  BY DEF IInv
<1>2. Limit \in Nat /\ Limit' \in Nat /\ seqFile.firm \in Nat
  BY <1>1, LimitNat DEF Limit, TypeOK
<1>3. Below(disk[k].lines, Limit) /\ Below(mem[k].records, Limit)
  BY <1>1 DEF GivenOnce
<1>0. /\ seqFile'.firm <= seqFile'.seen /\ seqFile'.firm <= next
      /\ job' # Idle => job'.seq < seqFile'.firm
      /\ reader'.cursor < Limit'
  <2>1. reader.cursor \in Nat /\ reader.cursor < Limit
    BY <1>1 DEF TypeOK, GivenOnce
  <2>2. reader'.cursor < Limit'
    BY <1>2, <2>1
  <2>3. seqFile.firm <= seqFile.seen /\ seqFile.firm <= next /\ (job # Idle => job.seq < seqFile.firm)
    BY <1>1 DEF GivenOnce
  <2> QED BY <2>2, <2>3
<1>4. CASE UNCHANGED <<disk, mem, uncertain, next, acked>>
  <2>1. TypeOK'
    BY <1>1, <1>4 DEF TypeOK
  <2>2. \A l \in Keys : /\ disk[l].lines \in Seq(Lines) /\ mem[l].records \in Seq(Lines)
    BY <1>1 DEF TypeOK, Files, Parsings
  <2>3. \A l \in Keys : Below(disk[l].lines, Limit') /\ Below(mem[l].records, Limit')
    BY <1>1, <1>2, <2>2, BelowMore DEF GivenOnce
  <2>4. GivenOnce'
    BY <1>0, <1>4, <2>3 DEF GivenOnce
  <2> QED BY <1>4, <2>1, <2>4, SameKey DEF IInv, ReaderSkipsNothing
<1>5. CASE Outcome(k, r)
  <2>1. /\ \A l \in Keys : Below(disk'[l].lines, Limit') /\ Below(mem'[l].records, Limit')
        /\ next' = next
    BY <1>2, <1>5, AppendBounds
  <2>2. TypeOK'
    BY <1>1, <1>5, <2>1, Zenon DEF TypeOK, Outcome
  <2>3. GivenOnce'
    BY <1>0, <2>1 DEF GivenOnce
  <2>4. \A l \in Keys : disk'[l].tomb # "none" => l \in retired'
    BY <1>5, Zenon DEF IInv, Outcome, Elsewhere
  <2>5. \A l \in Keys \ retired' : Mirrored(l)' /\ Durable(l)'
    <3> SUFFICES ASSUME NEW l \in Keys \ retired PROVE Mirrored(l)' /\ Durable(l)'
      OBVIOUS
    <3>1. Mirrored(l) /\ Durable(l)
      BY DEF IInv
    <3>2. CASE l = k
      BY <1>1, <1>3, <1>5, <3>1, <3>2, AppendKeeps
    <3>3. CASE l # k
      BY <1>5, <3>1, <3>3, SameKey, Zenon DEF Outcome, Elsewhere
    <3> QED BY <3>2, <3>3
  <2>6. ReaderSkipsNothing'
    <3> SUFFICES ASSUME NEW l \in Keys \ retired, NEW i \in DOMAIN acked'[l],
                        acked'[l][i].kind = "inbox", acked'[l][i].seq <= reader.cursor
                 PROVE  acked'[l][i] \in reader.got
      BY Zenon DEF ReaderSkipsNothing
    <3>1. acked \in [Keys -> Seq(Lines)] /\ acked[l] \in Seq(Lines)
      BY <1>1 DEF TypeOK
    <3>2. acked'[l] = acked[l] \/ (l = k /\ acked'[l] = Append(acked[l], r))
      BY <1>5, Zenon DEF Outcome, Elsewhere
    <3>3. \/ i \in DOMAIN acked[l] /\ acked'[l][i] = acked[l][i]
          \/ acked'[l][i] = r
      BY <3>1, <3>2 DEF Entry
    <3>4. acked'[l][i] # r
      BY <1>1, <1>2 DEF GivenOnce, TypeOK, Entry, Lines, Header, Torn, Bad, EventRecord
    <3> QED BY <3>3, <3>4, Zenon DEF IInv, ReaderSkipsNothing
  <2> QED BY <2>2, <2>3, <2>4, <2>5, <2>6 DEF IInv
<1> QED BY <1>1, <1>3, <1>4, <1>5, AppendOutcome

-----------------------------------------------------------------------------
(* One lemma per operation.                                                *)

(* The invariant holds at first.                                           *)
LEMMA InitStep ==
    ASSUME Init
    PROVE  IInv
<1>1. TypeOK
  BY DEF Init, TypeOK, Files, Parsings, Absent
<1>2. GivenOnce
  BY DEF Init, GivenOnce, Limit, Below, Absent
<1>3. \A k \in Keys : acked[k] = <<>> /\ ~mem[k].held /\ disk[k].tomb = "none"
  BY DEF Init, Absent
<1>4. \A k \in Keys \ retired : Mirrored(k) /\ Durable(k)
  BY <1>3 DEF Mirrored, Durable
<1>5. ReaderSkipsNothing
  BY <1>3 DEF ReaderSkipsNothing
<1> QED BY <1>1, <1>2, <1>3, <1>4, <1>5 DEF IInv, Init

(* Appending a canonical event.                                            *)
LEMMA AppendEventStep ==
    ASSUME IInv, NEW k \in Keys, AppendEvent(k)
    PROVE  IInv'
<1>1. Entry(EventRecord) /\ EventRecord.kind # "inbox"
  BY DEF Entry, Lines, EventRecord, Header, Torn, Bad
<1>2. Limit' = Limit /\ job' = job /\ UNCHANGED <<seqFile, reader, retired, up>> /\ up
  BY DEF AppendEvent, Limit
<1>3. Limit \in Nat /\ Limit <= seqFile.firm
  BY LimitNat DEF IInv
<1> QED BY <1>1, <1>2, <1>3, AppendStep DEF AppendEvent

(* Appending the inbox record whose sequence was reserved: the limit moves *)
(* past it.                                                                *)
LEMMA AppendInboxStep ==
    ASSUME IInv, InboxKeys \subseteq Keys, AppendInbox
    PROVE  IInv'
<1> DEFINE r == InboxRecord(job.key, job.seq)
<1>1. job \in [key : InboxKeys, seq : Nat] /\ job # Idle /\ up
  BY DEF IInv, TypeOK, AppendInbox
<1>2. Entry(r) /\ r.seq = job.seq
  BY <1>1 DEF Entry, Lines, InboxRecord, Header, Torn, Bad
<1>3. Limit = job.seq /\ Limit' = seqFile.firm /\ job' = Idle /\ job.seq < seqFile.firm
      /\ UNCHANGED <<seqFile, reader, retired, up>>
  BY <1>1 DEF AppendInbox, Limit, IInv, GivenOnce
<1>4. Limit \in Nat /\ seqFile.firm \in Nat
  BY LimitNat DEF IInv
<1>5. job.key \in Keys
  BY <1>1
<1>6. Appended(job.key, r)
  BY DEF AppendInbox
<1> HIDE DEF r
<1> QED BY <1>1, <1>2, <1>3, <1>4, <1>5, <1>6, AppendStep

(* Reserving a sequence. It is not below the durable file, hence above     *)
(* every record; a reservation that fails moves nothing but what a reader  *)
(* of the file may see.                                                    *)
LEMMA ReserveStep ==
    ASSUME IInv, NEW k \in InboxKeys, ReserveSequence(k)
    PROVE  IInv'
<1>1. TypeOK /\ GivenOnce
  BY DEF IInv
<1>2. /\ up /\ job = Idle
      /\ UNCHANGED <<disk, mem, uncertain, reader, acked, retired, up>>
  BY DEF ReserveSequence
<1>3. Limit = seqFile.firm /\ seqFile.firm <= next /\ seqFile.firm \in Nat /\ next \in Nat
      /\ seqFile.seen \in Nat /\ seqFile.firm <= seqFile.seen
  BY <1>1, <1>2 DEF GivenOnce, TypeOK, Limit
<1>4. \/ /\ seqFile' = [seen |-> next + 1, firm |-> next + 1] /\ next' = next + 1
         /\ job' = [key |-> k, seq |-> next]
      \/ /\ UNCHANGED <<next, job>>
         /\ seqFile' = seqFile \/ seqFile' = [seqFile EXCEPT !.seen = next + 1]
  BY DEF ReserveSequence
<1>5. TypeOK'
  BY <1>1, <1>2, <1>3, <1>4 DEF TypeOK
<1>6. Limit <= Limit' /\ Limit' \in Nat /\ seqFile'.firm <= seqFile'.seen
      /\ seqFile'.firm <= next' /\ (job' # Idle => job'.seq < seqFile'.firm)
  <2>1. CASE /\ seqFile' = [seen |-> next + 1, firm |-> next + 1] /\ next' = next + 1
             /\ job' = [key |-> k, seq |-> next]
    <3>1. job' # Idle
      BY <2>1 DEF Idle
    <3> QED BY <1>3, <2>1, <3>1 DEF Limit
  <2>2. CASE /\ UNCHANGED <<next, job>>
             /\ seqFile' = seqFile \/ seqFile' = [seqFile EXCEPT !.seen = next + 1]
    <3>1. seqFile \in [seen : Nat, firm : Nat]
      BY <1>1 DEF TypeOK
    <3>2. seqFile'.firm = seqFile.firm /\ seqFile'.seen \in {seqFile.seen, next + 1}
      BY <2>2, <3>1
    <3> QED BY <1>2, <1>3, <2>2, <3>2 DEF Limit
  <2> QED BY <1>4, <2>1, <2>2
<1>7. \A l \in Keys : disk[l].lines \in Seq(Lines) /\ mem[l].records \in Seq(Lines)
  BY <1>1 DEF TypeOK, Files, Parsings
<1>8. \A l \in Keys : Below(disk[l].lines, Limit') /\ Below(mem[l].records, Limit')
  BY <1>1, <1>3, <1>6, <1>7, BelowMore DEF GivenOnce
<1>9. GivenOnce'
  <2>1. reader.cursor \in Nat /\ reader.cursor < Limit
    BY <1>1 DEF TypeOK, GivenOnce
  <2>2. reader.cursor < Limit'
    BY <1>3, <1>6, <2>1
  <2> QED BY <1>2, <1>6, <1>8, <2>2 DEF GivenOnce
<1> QED BY <1>2, <1>5, <1>9, SameKey DEF IInv, ReaderSkipsNothing

(* Reading the inbox. The new cursor is below the limit, and an            *)
(* acknowledged record that it passes is in memory, hence among what is    *)
(* returned.                                                               *)
LEMMA ReadStep ==
    ASSUME IInv, ReadInbox
    PROVE  IInv'
<1>1. TypeOK /\ GivenOnce
  BY DEF IInv
<1> DEFINE fresh == {r \in Inbox : r.seq > reader.cursor}
           T == {r.seq : r \in fresh}
<1>2. /\ up /\ fresh # {}
      /\ reader' = [cursor |-> Max(T), got |-> reader.got \cup fresh]
      /\ UNCHANGED <<disk, seqFile, mem, uncertain, next, job, acked, retired, up>>
  BY DEF ReadInbox
<1>3. \A r \in Inbox : r.seq \in Nat /\ r.seq < Limit
  <2> SUFFICES ASSUME NEW k \in Keys, NEW r \in InboxOf(mem[k].records)
               PROVE  r.seq \in Nat /\ r.seq < Limit
    BY DEF Inbox
  <2>1. mem[k].records \in Seq(Lines) /\ Below(mem[k].records, Limit)
    BY <1>1 DEF TypeOK, Parsings, GivenOnce
  <2>2. PICK i \in DOMAIN mem[k].records : r = mem[k].records[i] /\ r.kind = "inbox"
    BY DEF InboxOf
  <2>3. r \in Lines
    BY <2>1, <2>2
  <2> QED BY <2>1, <2>2, <2>3 DEF Below, Lines, Header, Torn, Bad, EventRecord
<1>4. Limit \in Nat
  BY <1>1, LimitNat
<1>5. T \subseteq Nat /\ T # {} /\ \A y \in T : y < Limit
  BY <1>2, <1>3
<1> HIDE DEF T
<1>6. Max(T) \in T /\ \A y \in T : y <= Max(T)
  BY <1>4, <1>5, Greatest, Zenon
<1>7. reader'.cursor = Max(T) /\ reader'.cursor \in Nat /\ reader'.cursor < Limit
  BY <1>2, <1>5, <1>6, Zenon
<1>8. TypeOK'
  BY <1>1, <1>2, <1>7 DEF TypeOK
<1>9. GivenOnce'
  BY <1>1, <1>2, <1>7 DEF GivenOnce, Limit
<1>10. ReaderSkipsNothing'
  <2> SUFFICES ASSUME NEW k \in Keys \ retired, NEW i \in DOMAIN acked[k],
                      acked[k][i].kind = "inbox", acked[k][i].seq <= reader'.cursor
               PROVE  acked[k][i] \in reader'.got
    BY <1>2 DEF ReaderSkipsNothing
  <2> DEFINE r == acked[k][i]
  <2>1. CASE r.seq <= reader.cursor
    BY <1>2, <2>1 DEF IInv, ReaderSkipsNothing
  <2>2. CASE ~(r.seq <= reader.cursor)
    <3>1. Durable(k) /\ acked[k] # <<>>
      BY DEF IInv
    <3>2. PICK j \in DOMAIN mem[k].records : mem[k].records[j] = r
      BY <1>2, <3>1 DEF Durable, Visible
    <3>3. r \in Inbox
      BY <3>2 DEF Inbox, InboxOf
    <3>4. r.seq > reader.cursor
      BY <1>1, <1>3, <2>2, <3>3 DEF TypeOK
    <3> QED BY <1>2, <3>3, <3>4
  <2> QED BY <2>1, <2>2
<1> QED BY <1>2, <1>8, <1>9, <1>10, SameKey DEF IInv

(* A step on one ledger that moves no sequence keeps the invariant if it   *)
(* keeps what the invariant says of that ledger.                           *)
LEMMA OneKeyStep ==
    ASSUME IInv, NEW k \in Keys, up,
           TypeOK', next' = next,
           UNCHANGED <<seqFile, job, reader, acked, up>>,
           retired \subseteq retired',
           \A l \in Keys \ {k} : disk'[l] = disk[l] /\ mem'[l] = mem[l] /\ uncertain'[l] = uncertain[l],
           disk'[k].tomb # "none" => k \in retired',
           Below(disk'[k].lines, Limit), Below(mem'[k].records, Limit),
           k \notin retired' => Mirrored(k)' /\ Durable(k)'
    PROVE  IInv'
<1>1. Limit' = Limit
  BY DEF Limit
<1>2. GivenOnce'
  BY <1>1 DEF IInv, GivenOnce
<1>3. \A l \in Keys \ retired' : Mirrored(l)' /\ Durable(l)'
  <2> SUFFICES ASSUME NEW l \in Keys \ retired', l # k PROVE Mirrored(l)' /\ Durable(l)'
    OBVIOUS
  <2> QED BY SameKey DEF IInv
<1>4. ReaderSkipsNothing'
  BY Zenon DEF IInv, ReaderSkipsNothing
<1> QED BY <1>2, <1>3, <1>4 DEF IInv

(* The files that a creation may leave.                                    *)
LEMMA HeaderParses ==
    /\ {<<>>, <<Torn>>, <<Header>>} \subseteq Seq(Lines)
    /\ Parses(<<Header>>)
    /\ \A limit : Below(<<Header>>, limit) /\ Below(<<Torn>>, limit) /\ Below(<<>>, limit)
<1>1. {<<>>, <<Torn>>, <<Header>>} \subseteq Seq(Lines) /\ ~EndsTorn(<<Header>>)
  BY DEF Lines, EndsTorn, Header, Torn
<1>2. Parses(<<Header>>)
  BY <1>1 DEF Parses, Whole
<1>3. \A limit : Below(<<Header>>, limit) /\ Below(<<Torn>>, limit) /\ Below(<<>>, limit)
  BY DEF Below, Header, Torn
<1> QED BY <1>1, <1>2, <1>3

(* Creating a ledger. Nothing was acknowledged of a ledger that is not in  *)
(* memory while the process is up.                                         *)
LEMMA CreateStep ==
    ASSUME IInv, NEW k \in Keys, CreateLedger(k)
    PROVE  IInv'
<1>1. TypeOK /\ GivenOnce /\ next \in Nat /\ Limit \in Nat /\ Limit <= next
  <2>1. TypeOK /\ GivenOnce /\ up
    BY DEF IInv, CreateLedger
  <2> QED BY <2>1, LimitNat DEF TypeOK, GivenOnce
<1>2. /\ up /\ disk[k].tomb = "none" /\ ~mem[k].held /\ k \notin retired
      /\ UNCHANGED <<seqFile, uncertain, job, reader, acked, retired, up>>
  BY DEF CreateLedger
<1>3. acked[k] = <<>>
  BY <1>2 DEF IInv, Durable
<1>4. Below(disk[k].lines, Limit) /\ Below(mem[k].records, Limit)
      /\ disk[k] \in Files /\ disk[k].lines \in Seq(Lines) /\ mem[k] \in Parsings
  BY <1>1 DEF TypeOK, GivenOnce, Files
<1>5. disk \in [Keys -> Files] /\ mem \in [Keys -> Parsings]
  BY <1>1 DEF TypeOK
<1>6. CASE Present(k)
  <2> DEFINE q == Parsed(disk[k].lines)
  <2>1. Parses(disk[k].lines) /\ mem' = [mem EXCEPT ![k] = q]
        /\ next' = Past(next, mem'[k].records) /\ disk' = disk
    BY <1>6, Zenon DEF CreateLedger
  <2>2. /\ q \in Parsings /\ q.held /\ q.records = Tail(Whole(disk[k].lines))
        /\ q.torn <=> EndsTorn(disk[k].lines)
        /\ Below(q.records, Limit)
    BY <1>4, <2>1, ParsedFacts
  <2> HIDE DEF q
  <2>3. mem'[k] = q /\ mem' \in [Keys -> Parsings] /\ \A l \in Keys \ {k} : mem'[l] = mem[l]
    BY <1>5, <2>1, <2>2
  <2>4. next' = next
    <3>1. q.records \in Seq(Lines)
      BY <2>2, Zenon DEF Parsings
    <3>2. Below(q.records, next)
      BY <1>1, <2>2, <3>1, BelowMore, Zenon
    <3> QED BY <1>1, <2>1, <2>3, <3>1, <3>2, PastIsNext
  <2>5. TypeOK'
    BY <1>1, <1>2, <2>1, <2>3, <2>4 DEF TypeOK
  <2>6. Mirrored(k)' /\ Durable(k)'
    BY <1>2, <1>3, <1>6, <2>1, <2>2, <2>3, Zenon DEF Mirrored, Durable, Present
  <2> QED BY <1>2, <1>4, <2>1, <2>2, <2>3, <2>4, <2>5, <2>6, OneKeyStep, Zenon
<1>7. CASE ~Present(k)
  <2>1. Created(k)
    BY <1>7 DEF CreateLedger
  <2>2. CASE /\ disk' = [disk EXCEPT ![k].lines = <<Header>>, ![k].synced = 1, ![k].name = "firm"]
             /\ mem' = [mem EXCEPT ![k] = Parsed(<<Header>>)]
    <3> DEFINE q == Parsed(<<Header>>)
               d == [disk[k] EXCEPT !.lines = <<Header>>, !.synced = 1, !.name = "firm"]
    <3>1. /\ q \in Parsings /\ q.held /\ q.records = Tail(Whole(<<Header>>))
          /\ q.torn <=> EndsTorn(<<Header>>)
          /\ Below(q.records, Limit)
      BY HeaderParses, ParsedFacts, Zenon
    <3>2. d \in Files /\ d.lines = <<Header>> /\ d.name = "firm" /\ d.tomb = disk[k].tomb
      BY <1>4, HeaderParses, Zenon DEF Files
    <3>3. disk' = [disk EXCEPT ![k] = d] /\ mem' = [mem EXCEPT ![k] = q]
      BY <1>5, <2>2, Zenon
    <3> HIDE DEF q, d
    <3>4. /\ disk'[k] = d /\ mem'[k] = q /\ disk' \in [Keys -> Files] /\ mem' \in [Keys -> Parsings]
          /\ \A l \in Keys \ {k} : disk'[l] = disk[l] /\ mem'[l] = mem[l]
      BY <1>5, <3>1, <3>2, <3>3
    <3>5. next' = next
      BY <2>1 DEF Created
    <3>6. TypeOK'
      BY <1>1, <1>2, <3>4, <3>5 DEF TypeOK
    <3>7. Mirrored(k)' /\ Durable(k)'
      BY <1>2, <1>3, <3>1, <3>2, <3>4, HeaderParses, Zenon DEF Mirrored, Durable, Present
    <3> QED BY <1>2, <3>1, <3>2, <3>4, <3>5, <3>6, <3>7, HeaderParses, OneKeyStep, Zenon
  <2>3. CASE mem' = mem /\ \E d \in Files : /\ disk' = [disk EXCEPT ![k] = d]
                                            /\ d.tomb = disk[k].tomb /\ Below(d.lines, Limit)
    <3>1. PICK d \in Files : /\ disk' = [disk EXCEPT ![k] = d]
                             /\ d.tomb = disk[k].tomb /\ Below(d.lines, Limit)
      BY <2>3, Zenon
    <3>2. /\ disk'[k] = d /\ disk' \in [Keys -> Files]
          /\ \A l \in Keys \ {k} : disk'[l] = disk[l] /\ mem'[l] = mem[l]
      BY <1>5, <2>3, <3>1
    <3>3. next' = next
      BY <2>1 DEF Created
    <3>4. TypeOK'
      BY <1>1, <1>2, <2>3, <3>2, <3>3 DEF TypeOK
    <3>5. Mirrored(k)' /\ Durable(k)'
      BY <1>2, <1>3, <2>3 DEF Mirrored, Durable
    <3> QED BY <1>2, <1>4, <2>3, <3>1, <3>2, <3>3, <3>4, <3>5, OneKeyStep
  <2>4. ASSUME /\ mem' = mem
               /\ \/ disk' = disk
                  \/ \E lines \in {<<>>, <<Torn>>, <<Header>>} :
                        disk' = [disk EXCEPT ![k].lines = lines, ![k].name = "loose"]
                  \/ disk' = [disk EXCEPT ![k].lines = <<Header>>, ![k].synced = 1, ![k].name = "loose"]
        PROVE  \E d \in Files : /\ disk' = [disk EXCEPT ![k] = d]
                                /\ d.tomb = disk[k].tomb /\ Below(d.lines, Limit)
    <3>1. CASE disk' = disk
      <4>1. disk' = [disk EXCEPT ![k] = disk[k]]
        BY <1>5, <3>1
      <4> QED BY <1>4, <4>1, Zenon
    <3>2. ASSUME NEW lines \in {<<>>, <<Torn>>, <<Header>>},
                 disk' = [disk EXCEPT ![k].lines = lines, ![k].name = "loose"]
          PROVE  \E d \in Files : /\ disk' = [disk EXCEPT ![k] = d]
                                  /\ d.tomb = disk[k].tomb /\ Below(d.lines, Limit)
      <4> DEFINE d == [disk[k] EXCEPT !.lines = lines, !.name = "loose"]
      <4>1. lines \in Seq(Lines) /\ Below(lines, Limit)
        BY HeaderParses, Zenon
      <4>2. d \in Files /\ d.lines = lines /\ d.tomb = disk[k].tomb
        BY <1>4, <4>1, Zenon DEF Files
      <4>3. disk' = [disk EXCEPT ![k] = d]
        BY <1>5, <3>2, Zenon
      <4> HIDE DEF d
      <4> QED BY <4>1, <4>2, <4>3, Zenon
    <3>3. CASE disk' = [disk EXCEPT ![k].lines = <<Header>>, ![k].synced = 1, ![k].name = "loose"]
      <4> DEFINE d == [disk[k] EXCEPT !.lines = <<Header>>, !.synced = 1, !.name = "loose"]
      <4>1. d \in Files /\ d.lines = <<Header>> /\ d.tomb = disk[k].tomb
        BY <1>4, HeaderParses, Zenon DEF Files
      <4>2. disk' = [disk EXCEPT ![k] = d]
        BY <1>5, <3>3, Zenon
      <4> HIDE DEF d
      <4> QED BY <4>1, <4>2, HeaderParses, Zenon
    <3> QED BY <2>4, <3>1, <3>2, <3>3
  <2> QED BY <2>1, <2>2, <2>3, <2>4 DEF Created
<1> QED BY <1>6, <1>7

(* Writing and removing a tombstone.                                       *)
LEMMA TombstoneStep ==
    ASSUME IInv, NEW k \in Keys, WriteTombstone(k) \/ RemoveTombstone(k)
    PROVE  IInv'
<1>1. TypeOK /\ GivenOnce /\ disk \in [Keys -> Files] /\ disk[k] \in Files
  BY DEF IInv, TypeOK
<1>2. /\ up /\ UNCHANGED <<seqFile, mem, uncertain, next, job, reader, acked, up>>
  BY DEF WriteTombstone, RemoveTombstone
<1>3. \E tomb \in {"none", "loose", "firm"} :
         /\ disk' = [disk EXCEPT ![k].tomb = tomb]
         /\ retired' = IF tomb = "none" THEN retired ELSE retired \cup {k}
  <2>1. \A d \in {disk[k].tomb} : [disk EXCEPT ![k].tomb = d] = disk
    BY <1>1 DEF Files
  <2>2. disk[k].tomb \in {"none", "loose", "firm"}
    BY <1>1 DEF Files
  <2>3. \A tomb : [disk EXCEPT ![k].tomb = tomb][k].tomb = tomb
    BY <1>1 DEF Files
  <2>4. disk[k].tomb # "none" => k \in retired
    BY DEF IInv
  <2>5. CASE WriteTombstone(k)
    <3>1. retired' = IF disk'[k].tomb = "none" THEN retired ELSE retired \cup {k}
      BY <2>5 DEF WriteTombstone
    <3>2. \E tomb \in {"none", "loose", "firm"} : disk' = [disk EXCEPT ![k].tomb = tomb]
      BY <2>1, <2>2, <2>5 DEF WriteTombstone
    <3> QED BY <2>3, <3>1, <3>2, Zenon
  <2>6. CASE RemoveTombstone(k)
    <3>1. retired' = retired /\ disk[k].tomb # "none"
      BY <2>6 DEF RemoveTombstone
    <3>2. disk' = [disk EXCEPT ![k].tomb = "none"] \/ disk' = [disk EXCEPT ![k].tomb = disk[k].tomb]
      BY <2>1, <2>6 DEF RemoveTombstone
    <3> QED BY <2>2, <2>4, <3>1, <3>2
  <2> QED BY <2>5, <2>6
<1>4. PICK tomb \in {"none", "loose", "firm"} :
         /\ disk' = [disk EXCEPT ![k].tomb = tomb]
         /\ retired' = IF tomb = "none" THEN retired ELSE retired \cup {k}
  BY <1>3, Zenon
<1> DEFINE d == [disk[k] EXCEPT !.tomb = tomb]
<1>5. d \in Files /\ d.lines = disk[k].lines /\ d.synced = disk[k].synced /\ d.name = disk[k].name
      /\ d.tomb = tomb
  BY <1>1, Zenon DEF Files
<1>6. disk' = [disk EXCEPT ![k] = d]
  BY <1>1, <1>4
<1> HIDE DEF d
<1>7. disk'[k] = d /\ disk' \in [Keys -> Files] /\ \A l \in Keys \ {k} : disk'[l] = disk[l]
  BY <1>1, <1>5, <1>6
<1>8. retired \subseteq retired' /\ retired' \subseteq Keys
  BY <1>1, <1>4 DEF TypeOK
<1>9. TypeOK'
  BY <1>1, <1>2, <1>7, <1>8 DEF TypeOK
<1>10. k \notin retired' => Mirrored(k)' /\ Durable(k)'
  <2> HAVE k \notin retired'
  <2>1. Mirrored(k) /\ Durable(k)
    BY <1>8 DEF IInv
  <2> QED BY <1>2, <1>5, <1>7, <2>1, Zenon DEF Mirrored, Durable, Present
<1>11. disk'[k].tomb # "none" => k \in retired'
  BY <1>4, <1>5, <1>7
<1>12. Below(disk'[k].lines, Limit) /\ Below(mem'[k].records, Limit)
  BY <1>1, <1>2, <1>5, <1>7 DEF GivenOnce
<1> QED BY <1>2, <1>7, <1>8, <1>9, <1>10, <1>11, <1>12, OneKeyStep

(* Removing a ledger, which has a tombstone.                               *)
LEMMA RemovePayloadStep ==
    ASSUME IInv, NEW k \in Keys, RemoveLedgerPayload(k)
    PROVE  IInv'
<1>1. TypeOK /\ GivenOnce /\ disk \in [Keys -> Files] /\ disk[k] \in Files /\ mem \in [Keys -> Parsings]
  BY DEF IInv, TypeOK
<1> DEFINE d == [disk[k] EXCEPT !.lines = <<>>, !.synced = 0, !.name = "none"]
<1>2. /\ up /\ disk[k].tomb # "none"
      /\ disk' = disk \/ disk' = [disk EXCEPT ![k] = d]
      /\ mem' = mem \/ mem' = [mem EXCEPT ![k] = Absent]
      /\ UNCHANGED <<seqFile, uncertain, next, job, reader, acked, retired, up>>
  BY <1>1, Zenon DEF RemoveLedgerPayload
<1>3. d \in Files /\ d.lines = <<>>
  BY <1>1, HeaderParses, Zenon DEF Files
<1>4. Absent \in Parsings /\ Absent.records = <<>>
  BY HeaderParses DEF Absent, Parsings
<1>5. k \in retired
  BY <1>2 DEF IInv
<1> HIDE DEF d
<1>6. /\ disk' \in [Keys -> Files] /\ disk'[k] \in {disk[k], d}
      /\ \A l \in Keys \ {k} : disk'[l] = disk[l]
  BY <1>1, <1>2, <1>3
<1>7. /\ mem' \in [Keys -> Parsings] /\ mem'[k] \in {mem[k], Absent}
      /\ \A l \in Keys \ {k} : mem'[l] = mem[l]
  BY <1>1, <1>2, <1>4
<1>8. TypeOK'
  BY <1>1, <1>2, <1>6, <1>7 DEF TypeOK
<1>9. Below(disk'[k].lines, Limit) /\ Below(mem'[k].records, Limit)
  BY <1>1, <1>3, <1>4, <1>6, <1>7, HeaderParses DEF GivenOnce
<1> QED BY <1>2, <1>5, <1>6, <1>7, <1>8, <1>9, OneKeyStep

(* A death keeps the invariant if the files keep the acknowledged records  *)
(* and the sequence file does not move back.                               *)
LEMMA DiesStep ==
    ASSUME IInv, up, Dies, disk' \in [Keys -> Files],
           seqFile' \in [seen : Nat, firm : Nat],
           seqFile.firm <= seqFile'.firm, seqFile'.firm <= seqFile'.seen,
           \A k \in Keys : /\ disk'[k].tomb # "none" => disk[k].tomb # "none"
                           /\ Below(disk'[k].lines, seqFile.firm)
                           /\ Durable(k) /\ acked[k] # <<>> =>
                                 /\ disk'[k].name = "firm"
                                 /\ Kept(disk'[k].lines, disk'[k].synced, acked[k])
    PROVE  IInv'
<1>1. TypeOK /\ GivenOnce /\ Limit \in Nat /\ Limit <= seqFile.firm /\ seqFile.firm \in Nat
  BY LimitNat DEF IInv
<1>2. /\ mem' = [k \in Keys |-> Absent] /\ uncertain' = [k \in Keys |-> FALSE]
      /\ next' = 1 /\ job' = Idle /\ up' = FALSE
      /\ UNCHANGED <<reader, acked, retired>>
  BY DEF Dies
<1>3. Absent \in Parsings /\ Absent.records = <<>> /\ ~Absent.held
  BY HeaderParses DEF Absent, Parsings
<1>4. TypeOK'
  BY <1>1, <1>2, <1>3, Zenon DEF TypeOK
<1>5. Limit' = seqFile'.firm /\ seqFile'.firm \in Nat
  BY <1>2, Zenon DEF Limit
<1>6. \A k \in Keys : Below(disk'[k].lines, seqFile'.firm) /\ Below(mem'[k].records, seqFile'.firm)
  <2> TAKE k \in Keys
  <2>1. disk'[k].lines \in Seq(Lines)
    BY DEF Files
  <2> QED BY <1>1, <1>2, <1>3, <1>5, <2>1, BelowMore, HeaderParses
<1>7. GivenOnce'
  <2>1. reader.cursor \in Nat /\ reader.cursor < Limit
    BY <1>1, Zenon DEF TypeOK, GivenOnce
  <2>2. reader.cursor < seqFile'.firm
    BY <1>1, <1>5, <2>1
  <2> QED BY <1>2, <1>5, <1>6, <2>2, Zenon DEF GivenOnce
<1>8. \A k \in Keys \ retired' : Mirrored(k)' /\ Durable(k)'
  <2> TAKE k \in Keys \ retired'
  <2>1. Durable(k)
    BY <1>2, Zenon DEF IInv
  <2> QED BY <1>2, <1>3, <2>1, Zenon DEF Mirrored, Durable
<1>9. \A k \in Keys : disk'[k].tomb # "none" => k \in retired'
  BY <1>2 DEF IInv
<1>10. ReaderSkipsNothing'
  BY <1>2, Zenon DEF IInv, ReaderSkipsNothing
<1> QED BY <1>2, <1>3, <1>4, <1>7, <1>8, <1>9, <1>10 DEF IInv

(* What a death of the machine leaves of a file holds the records that     *)
(* were kept in it.                                                        *)
LEMMA RemainsFacts ==
    ASSUME NEW d \in Files, NEW limit, Below(d.lines, limit), NEW f \in Remains(d)
    PROVE  /\ f \in Files
           /\ f.tomb # "none" => d.tomb # "none"
           /\ Below(f.lines, limit)
           /\ \A a \in Seq(Lines) : a # <<>> /\ d.name = "firm" /\ Kept(d.lines, d.synced, a) =>
                 f.name = "firm" /\ Kept(f.lines, f.synced, a)
<1> DEFINE lines == d.lines
           synced == d.synced
           prefixes == {SubSeq(lines, 1, n) : n \in synced..Len(lines)}
                       \cup {Append(SubSeq(lines, 1, n), Torn) : n \in synced..(Len(lines) - 1)}
           files == CASE d.name = "firm"  -> prefixes \X {"firm"}
                      [] d.name = "loose" -> (prefixes \X {"firm"}) \cup {<<<<>>, "none">>}
                      [] OTHER            -> {<<lines, d.name>>}
           tombs == IF d.tomb = "loose" THEN {"none", "firm"} ELSE {d.tomb}
<1>1. lines \in Seq(Lines) /\ synced \in Nat /\ Len(lines) \in Nat
      /\ d.name \in {"none", "loose", "firm", "quarantined"}
  BY DEF Files
<1>2. Remains(d) = {[lines |-> g[1], synced |-> Len(g[1]), name |-> g[2], tomb |-> t] :
                      g \in files, t \in tombs}
  BY DEF Remains
<1>3. \A p \in prefixes : /\ p \in Seq(Lines) /\ Below(p, limit)
                          /\ \A a \in Seq(Lines) : a # <<>> /\ Kept(lines, synced, a) => Kept(p, Len(p), a)
  <2>1. ASSUME NEW n \in synced..Len(lines)
        PROVE  LET p == SubSeq(lines, 1, n) IN
               /\ p \in Seq(Lines) /\ Below(p, limit) /\ Len(p) = n
               /\ \A a \in Seq(Lines) : a # <<>> /\ Kept(lines, synced, a) => Kept(p, Len(p), a)
    <3> DEFINE p == SubSeq(lines, 1, n)
    <3>1. p \in Seq(Lines) /\ Len(p) = n /\ \A i \in 1..n : p[i] = lines[i]
      BY <1>1
    <3>2. Below(p, limit)
      BY <1>1, <3>1 DEF Below
    <3>3. \A a \in Seq(Lines) : a # <<>> /\ Kept(lines, synced, a) => Kept(p, Len(p), a)
      BY <1>1, <3>1, KeptPrefix
    <3> QED BY <3>1, <3>2, <3>3
  <2>2. ASSUME NEW n \in synced..(Len(lines) - 1)
        PROVE  LET p == Append(SubSeq(lines, 1, n), Torn) IN
               /\ p \in Seq(Lines) /\ Below(p, limit)
               /\ \A a \in Seq(Lines) : a # <<>> /\ Kept(lines, synced, a) => Kept(p, Len(p), a)
    <3> DEFINE q == SubSeq(lines, 1, n)
               p == Append(q, Torn)
    <3>0. n \in synced..Len(lines) /\ n < Len(lines)
      BY <1>1
    <3>1. q \in Seq(Lines) /\ Below(q, limit) /\ Len(q) = n
      BY <2>1, <3>0
    <3>2. Torn \in Lines /\ Torn.kind # "inbox"
      BY DEF Torn, Lines
    <3>3. \A a \in Seq(Lines) : a # <<>> /\ Kept(lines, synced, a) => Kept(p, n + 1, a)
      BY <1>1, <3>0, KeptPrefix
    <3> HIDE DEF q
    <3>4. p \in Seq(Lines) /\ Len(p) = n + 1 /\ Below(p, limit)
      BY <3>1, <3>2, BelowAppended
    <3> QED BY <3>3, <3>4 DEF q
  <2> QED BY <2>1, <2>2, Zenon
<1> HIDE DEF prefixes, lines, synced
<1>4. \A g \in files : /\ g[1] \in Seq(Lines) /\ Below(g[1], limit)
                       /\ g[2] \in {"none", "loose", "firm", "quarantined"}
                       /\ d.name = "firm" =>
                            /\ g[2] = "firm"
                            /\ \A a \in Seq(Lines) : a # <<>> /\ Kept(lines, synced, a) => Kept(g[1], Len(g[1]), a)
  <2>1. CASE d.name = "firm"
    <3>1. files = prefixes \X {"firm"}
      BY <2>1
    <3> HIDE DEF files
    <3> QED BY <1>3, <2>1, <3>1
  <2>2. CASE d.name = "loose"
    <3>1. files = (prefixes \X {"firm"}) \cup {<<<<>>, "none">>}
      BY <2>2
    <3> HIDE DEF files
    <3>2. \A g \in files : (g[1] \in prefixes /\ g[2] = "firm") \/ (g[1] = <<>> /\ g[2] = "none")
      BY <3>1
    <3>3. <<>> \in Seq(Lines) /\ Below(<<>>, limit)
      BY HeaderParses
    <3> QED BY <1>3, <2>2, <3>2, <3>3, Zenon
  <2>3. CASE d.name \notin {"firm", "loose"}
    <3>1. files = {<<lines, d.name>>}
      BY <2>3
    <3> HIDE DEF files
    <3>2. Below(lines, limit)
      BY DEF lines
    <3> QED BY <1>1, <2>3, <3>1, <3>2
  <2> QED BY <2>1, <2>2, <2>3
<1> HIDE DEF files
<1>5. PICK g \in files, t \in tombs :
         f = [lines |-> g[1], synced |-> Len(g[1]), name |-> g[2], tomb |-> t]
  BY <1>2
<1>6. t \in {"none", "loose", "firm"} /\ (t # "none" => d.tomb # "none")
  BY DEF Files
<1>7. g[1] \in Seq(Lines) /\ Len(g[1]) \in Nat /\ g[2] \in {"none", "loose", "firm", "quarantined"}
  BY <1>4
<1>8. f \in Files /\ f.lines = g[1] /\ f.synced = Len(g[1]) /\ f.name = g[2] /\ f.tomb = t
  BY <1>5, <1>6, <1>7 DEF Files
<1> QED BY <1>4, <1>6, <1>8 DEF lines, synced

(* The death of the process,                                               *)
LEMMA ProcessDiesStep ==
    ASSUME IInv, ProcessDies
    PROVE  IInv'
<1>1. TypeOK /\ GivenOnce /\ Limit \in Nat /\ Limit <= seqFile.firm /\ seqFile.firm \in Nat
  BY LimitNat DEF IInv
<1>2. up /\ Dies /\ disk' = disk /\ seqFile' = seqFile
  BY DEF ProcessDies
<1>3. disk \in [Keys -> Files] /\ seqFile \in [seen : Nat, firm : Nat] /\ seqFile.firm <= seqFile.seen
  BY <1>1 DEF TypeOK, GivenOnce
<1>4. \A k \in Keys : Below(disk[k].lines, seqFile.firm)
  <2> TAKE k \in Keys
  <2>1. disk[k].lines \in Seq(Lines) /\ Below(disk[k].lines, Limit)
    BY <1>1, <1>3 DEF Files, GivenOnce
  <2> QED BY <1>1, <2>1, BelowMore
<1> QED BY <1>1, <1>2, <1>3, <1>4, DiesStep DEF Durable

(* and that of the machine.                                                *)
LEMMA MachineDiesStep ==
    ASSUME IInv, MachineDies
    PROVE  IInv'
<1>1. TypeOK /\ GivenOnce /\ Limit \in Nat /\ Limit <= seqFile.firm /\ seqFile.firm \in Nat
  BY LimitNat DEF IInv
<1>2. /\ up /\ Dies /\ DOMAIN disk' = Keys
      /\ \A k \in Keys : disk'[k] \in Remains(disk[k])
      /\ \E U : disk' \in [Keys -> U]
      /\ \E n \in {seqFile.seen, seqFile.firm} : seqFile' = [seen |-> n, firm |-> n]
  BY Zenon DEF MachineDies
<1>3. disk \in [Keys -> Files] /\ seqFile.seen \in Nat /\ seqFile.firm <= seqFile.seen
  BY <1>1 DEF TypeOK, GivenOnce
<1>4. seqFile' \in [seen : Nat, firm : Nat] /\ seqFile.firm <= seqFile'.firm /\ seqFile'.firm <= seqFile'.seen
  BY <1>1, <1>2, <1>3
<1>5. \A k \in Keys : Below(disk[k].lines, seqFile.firm)
  <2> TAKE k \in Keys
  <2>1. disk[k].lines \in Seq(Lines) /\ Below(disk[k].lines, Limit)
    BY <1>1, <1>3 DEF Files, GivenOnce
  <2> QED BY <1>1, <2>1, BelowMore
<1>6. \A k \in Keys : /\ disk'[k] \in Files
                      /\ disk'[k].tomb # "none" => disk[k].tomb # "none"
                      /\ Below(disk'[k].lines, seqFile.firm)
                      /\ Durable(k) /\ acked[k] # <<>> =>
                            /\ disk'[k].name = "firm"
                            /\ Kept(disk'[k].lines, disk'[k].synced, acked[k])
  <2> TAKE k \in Keys
  <2>1. disk[k] \in Files /\ acked[k] \in Seq(Lines)
    BY <1>1, <1>3 DEF TypeOK
  <2>2. disk'[k] \in Remains(disk[k]) /\ Below(disk[k].lines, seqFile.firm)
    BY <1>2, <1>5
  <2>3. Durable(k) /\ acked[k] # <<>> =>
          disk[k].name = "firm" /\ Kept(disk[k].lines, disk[k].synced, acked[k])
    BY DEF Durable
  <2> QED BY <2>1, <2>2, <2>3, RemainsFacts
<1>7. disk' \in [Keys -> Files]
  BY <1>2, <1>6
<1> QED BY <1>2, <1>4, <1>6, <1>7, DiesStep

(* #rebuild: a file with acknowledged records parses, so that it is not    *)
(* set aside, and the sequence starts where the sequence file says, above  *)
(* every record.                                                           *)
LEMMA RestartStep ==
    ASSUME IInv, Keys # {}, Restart
    PROVE  IInv'
<1>1. TypeOK /\ GivenOnce /\ seqFile.firm \in Nat /\ seqFile.seen \in Nat /\ seqFile.firm <= seqFile.seen
      /\ disk \in [Keys -> Files]
  BY DEF IInv, TypeOK, GivenOnce
<1>2. /\ ~up /\ up' = TRUE /\ job = Idle /\ job' = Idle
      /\ UNCHANGED <<seqFile, uncertain, reader, acked, retired>>
  BY DEF Restart, IInv
<1> DEFINE F(k) == IF Present(k) /\ ~Parses(disk[k].lines)
                   THEN [disk[k] EXCEPT !.name = "quarantined"] ELSE disk[k]
           M(k) == IF Present(k) /\ Parses(disk[k].lines) THEN Parsed(disk[k].lines) ELSE Absent
<1>3. disk' = [k \in Keys |-> F(k)] /\ mem' = [k \in Keys |-> M(k)]
      /\ next' = Max({Past(seqFile.seen, mem'[k].records) : k \in Keys})
  BY DEF Restart
<1>4. Limit = seqFile.firm /\ Limit' = seqFile.firm
  BY <1>2 DEF Limit
<1>5. Absent \in Parsings /\ Absent.records = <<>> /\ ~Absent.held
  BY HeaderParses DEF Absent, Parsings
<1>6. ASSUME NEW k \in Keys
      PROVE  /\ F(k) \in Files /\ F(k).lines = disk[k].lines /\ F(k).tomb = disk[k].tomb
             /\ F(k).synced = disk[k].synced
             /\ Parses(disk[k].lines) => F(k).name = disk[k].name
  BY <1>1 DEF Files
<1>7. ASSUME NEW k \in Keys
      PROVE  /\ M(k) \in Parsings /\ Below(M(k).records, seqFile.firm)
             /\ M(k).held <=> Present(k) /\ Parses(disk[k].lines)
             /\ M(k).held => /\ M(k).records = Tail(Whole(disk[k].lines))
                             /\ M(k).torn <=> EndsTorn(disk[k].lines)
  <2>1. disk[k].lines \in Seq(Lines) /\ Below(disk[k].lines, seqFile.firm)
    BY <1>1, <1>4 DEF GivenOnce, Files
  <2>2. CASE Present(k) /\ Parses(disk[k].lines)
    <3>1. M(k) = Parsed(disk[k].lines)
      BY <2>2
    <3> QED BY <2>1, <2>2, <3>1, ParsedFacts, Zenon
  <2>3. CASE ~(Present(k) /\ Parses(disk[k].lines))
    <3>1. M(k) = Absent
      BY <2>3
    <3> QED BY <1>5, <2>3, <3>1, HeaderParses
  <2> QED BY <2>2, <2>3
<1> HIDE DEF F, M
<1>8. /\ disk' \in [Keys -> Files] /\ mem' \in [Keys -> Parsings]
      /\ \A k \in Keys : disk'[k] = F(k) /\ mem'[k] = M(k)
  BY <1>3, <1>6, <1>7, Zenon
<1>9. next' = seqFile.seen
  <2>1. \A k \in Keys : Past(seqFile.seen, mem'[k].records) = seqFile.seen
    <3> TAKE k \in Keys
    <3>1. mem'[k].records \in Seq(Lines) /\ Below(mem'[k].records, seqFile.firm)
      BY <1>7, <1>8 DEF Parsings
    <3>2. Below(mem'[k].records, seqFile.seen)
      BY <1>1, <3>1, BelowMore
    <3> QED BY <1>1, <3>1, <3>2, PastIsNext
  <2> DEFINE T == {Past(seqFile.seen, mem'[k].records) : k \in Keys}
  <2>2. T = {seqFile.seen}
    BY <2>1
  <2> HIDE DEF T
  <2>3. seqFile.seen < seqFile.seen + 1 /\ seqFile.seen + 1 \in Nat
    BY <1>1
  <2>4. Max(T) \in T
    BY <1>1, <2>2, <2>3, Greatest
  <2> QED BY <1>3, <2>2, <2>4, Zenon DEF T
<1>10. TypeOK'
  BY <1>1, <1>2, <1>8, <1>9 DEF TypeOK
<1>11. GivenOnce'
  <2>1. \A k \in Keys : Below(disk'[k].lines, seqFile.firm) /\ Below(mem'[k].records, seqFile.firm)
    <3> TAKE k \in Keys
    <3>1. disk'[k].lines = disk[k].lines /\ Below(disk[k].lines, Limit)
      BY <1>1, <1>6, <1>8 DEF GivenOnce
    <3>2. Below(mem'[k].records, seqFile.firm)
      BY <1>7, <1>8
    <3> QED BY <1>4, <3>1, <3>2
  <2>2. reader.cursor < Limit /\ seqFile.firm <= seqFile.seen
    BY <1>1 DEF GivenOnce
  <2> QED BY <1>2, <1>4, <1>9, <2>1, <2>2 DEF GivenOnce
<1>12. \A k \in Keys \ retired' : Mirrored(k)' /\ Durable(k)'
  <2> TAKE k \in Keys \ retired'
  <2>1. Mirrored(k) /\ Durable(k)
    BY <1>2 DEF IInv
  <2>2. Mirrored(k)'
    BY <1>6, <1>7, <1>8 DEF Mirrored, Present
  <2>3. ASSUME acked[k] # <<>> PROVE Durable(k)'
    <3>1. disk[k].name = "firm" /\ Kept(disk[k].lines, disk[k].synced, acked[k]) /\ Present(k)
          /\ Parses(disk[k].lines)
      BY <2>1, <2>3 DEF Durable, Kept, Present
    <3>2. disk[k].lines \in Seq(Lines) /\ disk[k].synced \in Nat /\ acked[k] \in Seq(Lines)
      BY <1>1 DEF TypeOK, Files
    <3>3. Visible(Tail(Whole(disk[k].lines)), acked[k])
      BY <3>1, <3>2, KeptVisible
    <3> QED BY <1>2, <1>6, <1>7, <1>8, <3>1, <3>3, Zenon DEF Durable
  <2>4. acked'[k] = <<>> => Durable(k)'
    BY DEF Durable
  <2> QED BY <1>2, <2>2, <2>3, <2>4
<1>13. \A k \in Keys : disk'[k].tomb # "none" => k \in retired'
  BY <1>2, <1>6, <1>8 DEF IInv
<1>14. ReaderSkipsNothing'
  BY <1>2 DEF IInv, ReaderSkipsNothing
<1> QED BY <1>2, <1>10, <1>11, <1>12, <1>13, <1>14 DEF IInv

-----------------------------------------------------------------------------
(* The theorems. Constants: the ledgers that events and inbox records go   *)
(* to are among those there are, and there are some.                       *)

(* The invariant holds throughout.                                         *)
THEOREM Invariance ==
    ASSUME EventKeys \subseteq Keys, InboxKeys \subseteq Keys, Keys # {}
    PROVE  Spec => []IInv
<1>1. Init => IInv
  BY InitStep
<1>2. IInv /\ [Next]_vars => IInv'
  <2> SUFFICES ASSUME IInv, [Next]_vars PROVE IInv'
    OBVIOUS
  <2>1. ASSUME NEW k \in Keys,
               CreateLedger(k) \/ WriteTombstone(k) \/ RemoveLedgerPayload(k) \/ RemoveTombstone(k)
        PROVE  IInv'
    BY <2>1, CreateStep, TombstoneStep, RemovePayloadStep
  <2>2. ASSUME NEW k \in EventKeys, AppendEvent(k) PROVE IInv'
    BY <2>2, AppendEventStep
  <2>3. ASSUME NEW k \in InboxKeys, ReserveSequence(k) PROVE IInv'
    BY <2>3, ReserveStep
  <2>4. CASE AppendInbox
    BY <2>4, AppendInboxStep
  <2>5. CASE ReadInbox
    BY <2>5, ReadStep
  <2>6. CASE ProcessDies
    BY <2>6, ProcessDiesStep
  <2>7. CASE MachineDies
    BY <2>7, MachineDiesStep
  <2>8. CASE Restart
    BY <2>8, RestartStep
  <2>9. CASE UNCHANGED vars
    <3>1. UNCHANGED <<disk, seqFile, mem, uncertain, next, job, reader, acked, retired, up>>
      BY <2>9 DEF vars
    <3>2. TypeOK' /\ GivenOnce'
      BY <3>1 DEF IInv, TypeOK, GivenOnce, Limit
    <3> QED BY <3>1, <3>2, SameKey DEF IInv, ReaderSkipsNothing
  <2> QED BY <2>1, <2>2, <2>3, <2>4, <2>5, <2>6, <2>7, <2>8, <2>9 DEF Next
<1> QED BY <1>1, <1>2, PTL DEF Spec

(* An append acknowledged as "appended" is never lost: until its ledger is *)
(* tombstoned, the fsynced part of a file that parses holds it, once and   *)
(* in order, whatever writes and fsyncs failed and whatever died           *)
(* (appendFileSync, fsyncSync and #rebuild of store.ts).                   *)
THEOREM AcknowledgedAppendsSurvive ==
    ASSUME EventKeys \subseteq Keys, InboxKeys \subseteq Keys, Keys # {}
    PROVE  Spec => []AppendedSurvives
<1>1. IInv => AppendedSurvives
  <2> SUFFICES ASSUME IInv, NEW k \in Keys \ retired, acked[k] # <<>>
               PROVE  /\ disk[k].name = "firm" /\ Parses(disk[k].lines)
                      /\ LET durable == SubSeq(disk[k].lines, 1, disk[k].synced)
                             At(r) == {j \in DOMAIN durable : durable[j] = r} IN
                         \A i, n \in DOMAIN acked[k] :
                            /\ At(acked[k][i]) # {}
                            /\ \A j \in At(acked[k][i]), l \in At(acked[k][n]) : i < n <=> j < l
    BY Zenon DEF AppendedSurvives
  <2> DEFINE lines == disk[k].lines
             synced == disk[k].synced
             durable == SubSeq(lines, 1, synced)
  <2>1. lines \in Seq(Lines) /\ synced \in Nat /\ acked[k] \in Seq(Lines)
    BY DEF IInv, TypeOK, Files
  <2>2. disk[k].name = "firm" /\ Kept(lines, synced, acked[k])
    BY DEF IInv, Durable
  <2>3. synced <= Len(lines)
    BY <2>2 DEF Kept
  <2>4. DOMAIN durable = 1..synced /\ DOMAIN lines = 1..Len(lines) /\ \A j \in 1..synced : durable[j] = lines[j]
    BY <2>1, <2>3
  <2> HIDE DEF lines, synced, durable
  <2>5. \A i \in DOMAIN acked[k] : \E j \in DOMAIN durable : durable[j] = acked[k][i]
    BY <2>2, <2>4 DEF Kept
  <2>6. \A i, n \in DOMAIN acked[k] : \A j, l \in DOMAIN durable :
           durable[j] = acked[k][i] /\ durable[l] = acked[k][n] => (i < n <=> j < l)
    BY <2>1, <2>2, <2>3, <2>4 DEF Kept
  <2> QED BY <2>2, <2>5, <2>6, Zenon DEF Kept, lines, synced, durable
<1> QED BY <1>1, Invariance, PTL

(* A caller that pages through the inbox by cursor skips no acknowledged   *)
(* record: sequences are reserved on disk before they are used, under a    *)
(* lock that is held until the record is in memory (appendInboxRecord,     *)
(* inboxAfter).                                                            *)
THEOREM CursorSkipsNoRecord ==
    ASSUME EventKeys \subseteq Keys, InboxKeys \subseteq Keys, Keys # {}
    PROVE  Spec => []ReaderSkipsNothing
<1>1. IInv => ReaderSkipsNothing
  BY DEF IInv
<1> QED BY <1>1, Invariance, PTL
=============================================================================
