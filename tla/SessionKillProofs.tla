------------------------- MODULE SessionKillProofs -------------------------
(***************************************************************************)
(* The exit of a session is told right for any number of callers.          *)
(*                                                                         *)
(* The invariant counts the requests that hold the exit back, follows the  *)
(* answers of kills that succeeded until their callers have them, and says *)
(* that what a caller no longer waits for was given up.                    *)
(***************************************************************************)
EXTENDS SessionKill, FiniteSetTheorems, TLAPS

Waiting == {c \in Callers : call[c] = "waiting"}

Entries == [there : BOOLEAN, inFlight : Nat, succeeded : BOOLEAN,
            exit : {"none", "named", "unnamed"}, name : BOOLEAN]

Answers == [caller : Callers, status : {"ok", "gone", "failed"}]

Exits == [killed : BOOLEAN, name : BOOLEAN]

(* The values of the variables.                                            *)
TypeOK ==
    /\ session \in {"live", "ended", "dead"}
    /\ signalled \in BOOLEAN /\ cached \in BOOLEAN /\ missed \in BOOLEAN
    /\ requests \in Seq(Callers)
    /\ answers \in Seq(Answers)
    /\ event \in {"none", "sent", "heard", "lost"}
    /\ call \in [Callers -> {"idle", "waiting", "ok", "gone", "failed"}]
    /\ entry \in Entries
    /\ told \in Seq(Exits)
    /\ knew \in SUBSET Callers

(* A caller has one request, or one answer, on the way; one it does not    *)
(* wait for was given up.                                                  *)
OnTheWay ==
    /\ \A i \in 1..Len(requests) :
          call[requests[i]] # "idle" /\ (call[requests[i]] # "waiting" => missed)
    /\ \A i \in 1..Len(answers) :
          /\ call[answers[i].caller] # "idle"
          /\ call[answers[i].caller] # "waiting" => missed
    /\ \A i, j \in 1..Len(requests) : i # j => requests[i] # requests[j]
    /\ \A i, j \in 1..Len(answers) : i # j => answers[i].caller # answers[j].caller
    /\ \A i \in 1..Len(requests), j \in 1..Len(answers) : requests[i] # answers[j].caller

(* The exit waits in the entry exactly while a request is outstanding.     *)
Held ==
    /\ entry.inFlight = Cardinality(Waiting)
    /\ entry.inFlight > 0 => entry.there
    /\ entry.exit # "none" => event = "heard" /\ told = <<>> /\ entry.inFlight > 0
    /\ event = "heard" => session = "dead" /\ (told = <<>> => entry.exit # "none")
    /\ event = "sent" => session = "dead"
    /\ told # <<>> => event = "heard" /\ Len(told) = 1

OkAwaited(i) == answers[i].status = "ok" /\ call[answers[i].caller] = "waiting"

(* A kill that reached the session is in the entry, on the way to a caller *)
(* that waits, or given up.                                                *)
Blamed ==
    /\ entry.succeeded => signalled
    /\ \A i \in 1..Len(answers) : answers[i].status = "ok" => signalled
    /\ (told = <<>> /\ signalled) =>
          missed \/ entry.succeeded \/ \E i \in 1..Len(answers) : OkAwaited(i)
    /\ told # <<>> =>
          /\ \A i \in 1..Len(answers) : ~OkAwaited(i)
          /\ told[1].killed => signalled
          /\ (~told[1].killed /\ signalled) => missed

(* The name a kill knew stays in the entry until the exit is told.         *)
Named ==
    /\ \A c \in knew : call[c] # "idle"
    /\ told = <<>> =>
          /\ \A c \in Callers : call[c] = "ok" => entry.succeeded
          /\ \A c \in knew : call[c] \in {"waiting", "ok"} => entry.name
    /\ (told # <<>> /\ told[1].killed /\ \E c \in knew : call[c] = "ok") => told[1].name

IInv == TypeOK /\ OnTheWay /\ Held /\ Blamed /\ Named

-----------------------------------------------------------------------------
LEMMA InitEstablishes == Init => IInv
<1> SUFFICES ASSUME Init PROVE IInv
  OBVIOUS
<1>0. NoEntry \in Entries  BY DEF Entries, NoEntry
<1>1. TypeOK
  <2>1. requests \in Seq(Callers) /\ answers \in Seq(Answers) /\ told \in Seq(Exits)
    BY DEF Init
  <2>2. call \in [Callers -> {"idle", "waiting", "ok", "gone", "failed"}]  BY DEF Init
  <2> QED BY <1>0, <2>1, <2>2 DEF Init, TypeOK
<1>2. Waiting = {}  BY DEF Init, Waiting
<1>3. Held  BY <1>2, FS_EmptySet DEF Init, Held, NoEntry
<1>4. OnTheWay /\ Blamed /\ Named  BY DEF Init, OnTheWay, Blamed, Named, NoEntry
<1> QED BY <1>1, <1>3, <1>4 DEF IInv

(* Nobody waits exactly when no request is in flight.                      *)
LEMMA NobodyWaits ==
    ASSUME IsFiniteSet(Callers), IInv
    PROVE  /\ IsFiniteSet(Waiting)
           /\ entry.inFlight = 0 <=> \A c \in Callers : call[c] # "waiting"
<1>1. IsFiniteSet(Waiting)  BY FS_Subset DEF Waiting
<1>2. entry.inFlight = Cardinality(Waiting)  BY DEF IInv, Held
<1>3. Cardinality(Waiting) = 0 <=> Waiting = {}  BY <1>1, FS_EmptySet
<1> QED BY <1>1, <1>2, <1>3 DEF Waiting

(* The answer that leaves the broker belongs to the first request.         *)
LEMMA BrokerKillStep == ASSUME IInv, BrokerKill PROVE IInv'
<1>0. PICK status \in {"ok", "gone", "failed"} :
        /\ answers' = Append(answers, [caller |-> Head(requests), status |-> status])
        /\ signalled' = (signalled \/ status = "ok")
        /\ session = "dead" => status = "gone"
  BY DEF BrokerKill, IInv, TypeOK
<1> DEFINE a == [caller |-> Head(requests), status |-> status]
<1>1. /\ requests # <<>> /\ requests' = Tail(requests)
      /\ UNCHANGED <<session, event, call, cached, entry, told, missed, knew>>
  BY DEF BrokerKill
<1>2. /\ requests \in Seq(Callers) /\ signalled \in BOOLEAN /\ signalled' \in BOOLEAN
      /\ answers \in Seq(Answers)
      /\ signalled' <=> signalled \/ status = "ok"
  BY <1>0 DEF IInv, TypeOK
<1>3. a \in Answers  BY <1>1, <1>2 DEF Answers
<1>4. /\ Len(answers') = Len(answers) + 1 /\ answers'[Len(answers) + 1] = a
      /\ \A i \in 1..Len(answers) : answers'[i] = answers[i]
      /\ answers' \in Seq(Answers)
  BY <1>0, <1>2, <1>3
<1>5. /\ requests' \in Seq(Callers) /\ Len(requests') = Len(requests) - 1
      /\ \A i \in 1..Len(requests') : requests'[i] = requests[i + 1]
      /\ Head(requests) = requests[1] /\ Len(requests) >= 1 /\ Len(requests) \in Nat
  BY <1>1, <1>2
<1>6. a.caller = requests[1] /\ a.status = status  BY <1>5
<1> HIDE DEF a
<1>7. TypeOK'  BY <1>1, <1>2, <1>4, <1>5 DEF IInv, TypeOK
<1>8. Held'  BY <1>1 DEF IInv, Held, Waiting
<1>9. Named'  BY <1>1 DEF IInv, Named
<1>10. Len(answers) \in Nat  BY <1>2
<1>b. \A i \in 1..Len(answers') :
         \/ i \in 1..Len(answers) /\ answers'[i] = answers[i]
         \/ i = Len(answers) + 1 /\ answers'[i] = a
  BY <1>4, <1>10
<1>c. \A i \in 1..Len(requests') :
         i + 1 \in 1..Len(requests) /\ i + 1 # 1 /\ requests'[i] = requests[i + 1]
  BY <1>5
<1>d. 1 \in 1..Len(requests)  BY <1>5
<1>11. OnTheWay'
  <2>1. \A i \in 1..Len(requests') :
           call'[requests'[i]] # "idle" /\ (call'[requests'[i]] # "waiting" => missed')
    BY <1>1, <1>c DEF IInv, OnTheWay
  <2>2. \A i \in 1..Len(answers') :
          /\ call'[answers'[i].caller] # "idle"
          /\ call'[answers'[i].caller] # "waiting" => missed'
    BY <1>1, <1>6, <1>b, <1>d DEF IInv, OnTheWay
  <2>3. \A i, j \in 1..Len(requests') : i # j => requests'[i] # requests'[j]
    BY <1>5, <1>c DEF IInv, OnTheWay
  <2>4. \A i, j \in 1..Len(answers') : i # j => answers'[i].caller # answers'[j].caller
    BY <1>6, <1>b, <1>d DEF IInv, OnTheWay
  <2>5. \A i \in 1..Len(requests'), j \in 1..Len(answers') : requests'[i] # answers'[j].caller
    <3> TAKE i \in 1..Len(requests'), j \in 1..Len(answers')
    <3>1. i + 1 \in 1..Len(requests) /\ i + 1 # 1 /\ requests'[i] = requests[i + 1]
      BY <1>c
    <3>2. requests[i + 1] # requests[1]  BY <1>d, <3>1 DEF IInv, OnTheWay
    <3> QED BY <1>6, <1>b, <3>1, <3>2 DEF IInv, OnTheWay
  <2> QED BY <2>1, <2>2, <2>3, <2>4, <2>5 DEF OnTheWay
<1>12. Blamed'
  <2>1. call[requests[1]] # "waiting" => missed  BY <1>5 DEF IInv, OnTheWay
  <2>2. /\ entry'.succeeded => signalled'
        /\ \A i \in 1..Len(answers') : answers'[i].status = "ok" => signalled'
    BY <1>1, <1>2, <1>6, <1>b DEF IInv, Blamed
  <2>3. (told' = <<>> /\ signalled') =>
           missed' \/ entry'.succeeded \/ \E i \in 1..Len(answers') : OkAwaited(i)'
    BY <1>1, <1>2, <1>4, <1>6, <1>10, <2>1 DEF IInv, Blamed, OkAwaited
  <2>4. told # <<>> => status = "gone"  BY <1>0 DEF IInv, Held
  <2>5. told' # <<>> =>
          /\ \A i \in 1..Len(answers') : ~OkAwaited(i)'
          /\ told'[1].killed => signalled'
          /\ (~told'[1].killed /\ signalled') => missed'
    BY <1>1, <1>2, <1>6, <1>b, <2>4 DEF IInv, Blamed, OkAwaited
  <2> QED BY <2>2, <2>3, <2>5 DEF Blamed
<1> QED BY <1>7, <1>8, <1>9, <1>11, <1>12 DEF IInv

(* The end is announced when the broker notes it.                          *)
LEMMA SessionEndsStep == ASSUME IInv, SessionEnds PROVE IInv'
<1>1. /\ UNCHANGED <<signalled, requests, answers, call, cached, entry, told, missed, knew>>
      /\ \/ session = "live" /\ session' = "ended" /\ event' = event
         \/ session = "ended" /\ session' = "dead" /\ event' = "sent"
  BY DEF SessionEnds
<1>2. TypeOK'  BY <1>1 DEF IInv, TypeOK
<1>3. OnTheWay' /\ Named'  BY <1>1 DEF IInv, OnTheWay, Named
<1>4. Blamed'  BY <1>1 DEF IInv, Blamed, OkAwaited
<1>5. Held'  BY <1>1 DEF IInv, Held, Waiting
<1> QED BY <1>2, <1>3, <1>4, <1>5 DEF IInv

LEMMA ListedStep == ASSUME IInv, Listed PROVE IInv'
<1>1. UNCHANGED <<session, signalled, requests, answers, event, call, entry, told, missed, knew>>
      /\ cached' \in BOOLEAN
  BY DEF Listed, IInv, TypeOK
<1>2. TypeOK'  BY <1>1 DEF IInv, TypeOK
<1>3. OnTheWay' /\ Named'  BY <1>1 DEF IInv, OnTheWay, Named
<1>4. Blamed' /\ Held'  BY <1>1 DEF IInv, Blamed, OkAwaited, Held, Waiting
<1> QED BY <1>2, <1>3, <1>4 DEF IInv

(* A new caller adds one request to the count.                             *)
LEMMA KillStep ==
    ASSUME IsFiniteSet(Callers), IInv, NEW c \in Callers, Kill(c) PROVE IInv'
<1> DEFINE name == entry.name \/ cached
<1>n. name \in BOOLEAN /\ (name <=> entry.name \/ cached)  OBVIOUS
<1> HIDE DEF name
<1>1. /\ call[c] = "idle" /\ call' = [call EXCEPT ![c] = "waiting"]
      /\ entry' = [entry EXCEPT !.there = TRUE, !.inFlight = @ + 1, !.name = name]
      /\ knew' = IF cached THEN knew \cup {c} ELSE knew
      /\ requests' = Append(requests, c)
      /\ UNCHANGED <<session, signalled, answers, event, cached, told, missed>>
  BY DEF Kill, name
<1>2. /\ requests \in Seq(Callers) /\ entry \in Entries /\ cached \in BOOLEAN
      /\ answers \in Seq(Answers)
      /\ call \in [Callers -> {"idle", "waiting", "ok", "gone", "failed"}]
      /\ knew \in SUBSET Callers
  BY DEF IInv, TypeOK
<1>3. /\ call'[c] = "waiting" /\ \A d \in Callers : d # c => call'[d] = call[d]
      /\ call' \in [Callers -> {"idle", "waiting", "ok", "gone", "failed"}]
  BY <1>1, <1>2
<1>4. /\ entry' \in Entries /\ entry'.there /\ entry'.inFlight = entry.inFlight + 1
      /\ entry'.succeeded = entry.succeeded /\ entry'.exit = entry.exit
      /\ entry'.name = name
  <2>1. entry' = [there |-> TRUE, inFlight |-> entry.inFlight + 1,
                  succeeded |-> entry.succeeded, exit |-> entry.exit, name |-> name]
    BY <1>1, <1>2 DEF Entries
  <2>2. /\ entry.inFlight \in Nat /\ entry.succeeded \in BOOLEAN
        /\ entry.exit \in {"none", "named", "unnamed"}
    BY <1>2 DEF Entries
  <2>3. entry' \in Entries  BY <1>n, <2>1, <2>2 DEF Entries
  <2> QED BY <2>1, <2>2, <2>3
<1>5. /\ Len(requests') = Len(requests) + 1 /\ requests'[Len(requests) + 1] = c
      /\ \A i \in 1..Len(requests) : requests'[i] = requests[i] /\ requests[i] \in Callers
      /\ requests' \in Seq(Callers) /\ Len(requests) \in Nat
  <2>1. requests' = Append(requests, c) /\ requests \in Seq(Callers)  BY <1>1, <1>2
  <2> QED BY <2>1
<1>a. \A i \in 1..Len(answers) : answers[i].caller \in Callers
  <2>1. \A i \in 1..Len(answers) : answers[i] \in Answers  BY <1>2
  <2> QED BY <2>1 DEF Answers
<1>6. TypeOK'  BY <1>1, <1>2, <1>3, <1>4, <1>5 DEF IInv, TypeOK
<1>7. OnTheWay'  BY <1>1, <1>3, <1>5, <1>a DEF IInv, OnTheWay
<1>8. Held'
  <2>1. Waiting' = Waiting \cup {c} /\ c \notin Waiting  BY <1>1, <1>3 DEF Waiting
  <2>2. Cardinality(Waiting') = Cardinality(Waiting) + 1
    BY <2>1, NobodyWaits, FS_AddElement
  <2>3. entry.inFlight \in Nat  BY <1>2 DEF Entries
  <2> QED BY <1>1, <1>4, <2>2, <2>3 DEF IInv, Held
<1>9. Blamed'
  <2>1. \A i \in 1..Len(answers) : OkAwaited(i)' <=> OkAwaited(i)
    BY <1>1, <1>3, <1>5, <1>a DEF IInv, OnTheWay, OkAwaited
  <2> QED BY <1>1, <1>4, <2>1 DEF IInv, Blamed
<1>10. Named'
  BY <1>1, <1>2, <1>3, <1>4, <1>n DEF IInv, Named
<1> QED BY <1>6, <1>7, <1>8, <1>9, <1>10 DEF IInv

-----------------------------------------------------------------------------
(* The exit told from entry e.                                             *)
ToldFrom(e) ==
    /\ told' \in Seq(Exits) /\ told' # <<>> /\ Len(told') = 1
    /\ told'[1].killed <=> e.succeeded
    /\ e.name => told'[1].name

LEMMA FirstTold ==
    ASSUME told = <<>>, NEW killed \in BOOLEAN, NEW name \in BOOLEAN, Tell(killed, name)
    PROVE  /\ told' \in Seq(Exits) /\ told' # <<>> /\ Len(told') = 1
           /\ told'[1].killed = killed /\ told'[1].name = name
<1> DEFINE x == [killed |-> killed, name |-> name]
<1>1. x \in Exits /\ x.killed = killed /\ x.name = name  BY DEF Exits
<1>2. told' = Append(<<>>, x)  BY DEF Tell
<1> HIDE DEF x
<1>3. told' = <<x>>  BY <1>2
<1>4. told' \in Seq(Exits) /\ told' # <<>> /\ Len(told') = 1 /\ told'[1] = x  BY <1>1, <1>3
<1> QED BY <1>1, <1>4

(* settleKillRequest tells the exit, drops the entry or keeps it.          *)
LEMMA SettleEffect ==
    ASSUME NEW e \in Entries, SettleKillRequest(e), e.exit # "none" => told = <<>>
    PROVE  \/ e.inFlight = 0 /\ e.exit # "none" /\ entry' = NoEntry /\ ToldFrom(e)
           \/ /\ e.inFlight = 0 /\ e.exit = "none" /\ ~e.succeeded
              /\ entry' = NoEntry /\ told' = told
           \/ (e.inFlight = 0 => e.exit = "none") /\ entry' = e /\ told' = told
<1>1. CASE e.inFlight = 0 /\ e.exit # "none"
  <2> DEFINE name == e.exit = "named" \/ e.name
  <2>1. entry' = NoEntry /\ Tell(e.succeeded, name)  BY <1>1 DEF SettleKillRequest
  <2>2. name \in BOOLEAN /\ (e.name => name)  OBVIOUS
  <2>3. e.succeeded \in BOOLEAN /\ e.name \in BOOLEAN  BY DEF Entries
  <2> HIDE DEF name
  <2>4. /\ told' \in Seq(Exits) /\ told' # <<>> /\ Len(told') = 1
        /\ told'[1].killed = e.succeeded /\ told'[1].name = name
    BY <1>1, <2>1, <2>2, <2>3, FirstTold
  <2>5. ToldFrom(e)  BY <2>2, <2>3, <2>4 DEF ToldFrom
  <2> QED BY <1>1, <2>1, <2>5
<1>2. CASE ~(e.inFlight = 0 /\ e.exit # "none")
  <2>1. told' = told /\ entry' = IF e.inFlight = 0 /\ ~e.succeeded THEN NoEntry ELSE e
    BY <1>2 DEF SettleKillRequest
  <2> QED BY <1>2, <2>1
<1> QED BY <1>1, <1>2

(* What the end of one or of all requests has in common: e is the entry    *)
(* that counts the callers left waiting and has what they were told.       *)
Settles(e) ==
    /\ e \in Entries /\ SettleKillRequest(e)
    /\ e.inFlight = Cardinality(Waiting') /\ e.there
    /\ e.exit = entry.exit /\ e.name = entry.name
    /\ entry.succeeded => e.succeeded
    /\ e.succeeded => signalled
    /\ UNCHANGED <<session, signalled, knew>>
    /\ event' = IF event' = "lost" /\ event = "sent" THEN "lost" ELSE event
    /\ requests' \in Seq(Callers) /\ answers' \in Seq(Answers)
    /\ call' \in [Callers -> {"idle", "waiting", "ok", "gone", "failed"}]
    /\ cached' \in BOOLEAN /\ missed' \in BOOLEAN /\ (missed => missed')
    /\ \A c \in Callers :
          /\ call'[c] = "waiting" => call[c] = "waiting"
          /\ call'[c] = "idle" => call[c] = "idle"
          /\ (call'[c] = "ok" /\ call[c] # "ok") =>
                call[c] = "waiting" /\ e.succeeded /\ told = <<>>
    /\ \A i \in 1..Len(answers') : answers'[i].status = "ok" => signalled
    /\ told # <<>> => \A i \in 1..Len(answers') : ~OkAwaited(i)'
    /\ (told = <<>> /\ signalled) =>
          missed' \/ e.succeeded \/ \E i \in 1..Len(answers') : OkAwaited(i)'

LEMMA SettlesStep ==
    ASSUME IsFiniteSet(Callers), IInv, NEW e, Settles(e)
    PROVE  TypeOK' /\ Held' /\ Blamed' /\ Named'
<1>1. NoEntry \in Entries /\ e \in Entries  BY DEF NoEntry, Entries, Settles
<1>2. /\ NoEntry.inFlight = 0 /\ NoEntry.exit = "none" /\ ~NoEntry.succeeded
  BY DEF NoEntry
<1>3. /\ \A i \in 1..Len(answers') : answers'[i] \in Answers
      /\ \A i \in 1..Len(answers') : answers'[i].caller \in Callers
  <2>1. \A i \in 1..Len(answers') : answers'[i] \in Answers  BY DEF Settles
  <2> QED BY <2>1 DEF Answers
<1>4. e.inFlight = 0 => \A c \in Callers : call'[c] # "waiting"
  <2>1. IsFiniteSet(Waiting')  BY FS_Subset DEF Waiting
  <2>2. e.inFlight = 0 => Waiting' = {}  BY <2>1, FS_EmptySet DEF Settles
  <2> QED BY <2>2 DEF Waiting
<1>5. e.inFlight = 0 => \A i \in 1..Len(answers') : ~OkAwaited(i)'
  BY <1>3, <1>4 DEF OkAwaited
<1>6. e.exit # "none" => told = <<>> /\ event = "heard"  BY DEF IInv, Held, Settles
<1>7. /\ told \in Seq(Exits) /\ session \in {"live", "ended", "dead"} /\ signalled \in BOOLEAN
      /\ event \in {"none", "sent", "heard", "lost"} /\ knew \in SUBSET Callers
      /\ entry \in Entries
  BY DEF IInv, TypeOK
<1>8. /\ UNCHANGED <<session, signalled, knew>> /\ event' \in {event, "lost"}
      /\ event' # event => event = "sent"
  BY DEF Settles
<1>9. /\ e.inFlight \in Nat /\ e.succeeded \in BOOLEAN /\ e.name \in BOOLEAN
      /\ e.there \in BOOLEAN /\ entry.succeeded \in BOOLEAN
  BY <1>1, <1>7 DEF Entries
<1>10. CASE e.inFlight = 0 /\ e.exit # "none" /\ entry' = NoEntry /\ ToldFrom(e)
  <2>1. TypeOK'  BY <1>1, <1>7, <1>8, <1>10 DEF Settles, TypeOK, ToldFrom
  <2>2. Held'  BY <1>2, <1>6, <1>8, <1>10 DEF Settles, IInv, Held, ToldFrom
  <2>3. Blamed'
    BY <1>2, <1>5, <1>6, <1>8, <1>10 DEF Settles, Blamed, ToldFrom
  <2>4. Named'
    BY <1>4, <1>6, <1>7, <1>8, <1>10 DEF Settles, IInv, Named, ToldFrom
  <2> QED BY <2>1, <2>2, <2>3, <2>4
<1>11. CASE /\ e.inFlight = 0 /\ e.exit = "none" /\ ~e.succeeded
            /\ entry' = NoEntry /\ told' = told
  <2>1. TypeOK'  BY <1>1, <1>7, <1>8, <1>11 DEF Settles, TypeOK
  <2>2. Held'  BY <1>2, <1>8, <1>11 DEF Settles, IInv, Held
  <2>3. Blamed'  BY <1>2, <1>8, <1>11 DEF Settles, IInv, Blamed
  <2>4. Named'  BY <1>4, <1>7, <1>8, <1>11 DEF Settles, IInv, Named
  <2> QED BY <2>1, <2>2, <2>3, <2>4
<1>12. CASE (e.inFlight = 0 => e.exit = "none") /\ entry' = e /\ told' = told
  <2>1. TypeOK'  BY <1>1, <1>7, <1>8, <1>12 DEF Settles, TypeOK
  <2>2. Held'  BY <1>8, <1>9, <1>12 DEF Settles, IInv, Held
  <2>3. Blamed'  BY <1>8, <1>12 DEF Settles, IInv, Blamed
  <2>4. Named'  BY <1>7, <1>8, <1>12 DEF Settles, IInv, Named
  <2> QED BY <2>1, <2>2, <2>3, <2>4
<1> QED BY <1>1, <1>6, <1>10, <1>11, <1>12, SettleEffect DEF Settles

-----------------------------------------------------------------------------
(* One request settles: the entry counts one caller less.                  *)
LEMMA SettledEntry ==
    ASSUME IsFiniteSet(Callers), IInv, NEW c \in Callers, call[c] = "waiting",
           NEW status \in {"ok", "gone", "failed"}, Settled(c, status)
    PROVE  \E e \in Entries :
              /\ SettleKillRequest(e)
              /\ e.inFlight = Cardinality(Waiting') /\ e.there
              /\ e.exit = entry.exit /\ e.name = entry.name
              /\ e.succeeded <=> entry.succeeded \/ status = "ok"
<1> DEFINE won == entry.succeeded \/ status = "ok"
           left == entry.inFlight - 1
           e == [entry EXCEPT !.inFlight = left, !.succeeded = won]
<1>1. won \in BOOLEAN /\ (won <=> entry.succeeded \/ status = "ok")  OBVIOUS
<1>2. SettleKillRequest(e) /\ call' = [call EXCEPT ![c] = status]  BY DEF Settled
<1> HIDE DEF won, left
<1>3. entry \in Entries /\ call \in [Callers -> {"idle", "waiting", "ok", "gone", "failed"}]
  BY DEF IInv, TypeOK
<1>4. /\ entry.inFlight \in Nat /\ entry.there \in BOOLEAN /\ entry.name \in BOOLEAN
      /\ entry.exit \in {"none", "named", "unnamed"}
  BY <1>3 DEF Entries
<1>5. entry.inFlight # 0  BY NobodyWaits
<1>6. left \in Nat /\ left = entry.inFlight - 1  BY <1>4, <1>5 DEF left
<1>7. e = [entry EXCEPT !.inFlight = left, !.succeeded = won]  OBVIOUS
<1> HIDE DEF e
<1>8. /\ e \in Entries /\ e.inFlight = left /\ e.succeeded = won
      /\ e.there = entry.there /\ e.exit = entry.exit /\ e.name = entry.name
  <2>1. e = [there |-> entry.there, inFlight |-> left, succeeded |-> won,
             exit |-> entry.exit, name |-> entry.name]
    BY <1>3, <1>7 DEF Entries
  <2> QED BY <1>1, <1>4, <1>6, <2>1 DEF Entries
<1>9. Cardinality(Waiting') = Cardinality(Waiting) - 1
  <2>1. Waiting' = Waiting \ {c} /\ c \in Waiting  BY <1>2, <1>3 DEF Waiting
  <2> QED BY <2>1, NobodyWaits, FS_RemoveElement
<1>10. entry.inFlight = Cardinality(Waiting) /\ entry.there
  BY <1>4, <1>5 DEF IInv, Held
<1>11. e.inFlight = Cardinality(Waiting') /\ e.there  BY <1>6, <1>8, <1>9, <1>10
<1>12. e.succeeded <=> entry.succeeded \/ status = "ok"  BY <1>1, <1>8
<1> QED BY <1>2, <1>8, <1>11, <1>12

(* A request whose timer fires is given up.                                *)
LEMMA TimesOutStep ==
    ASSUME IsFiniteSet(Callers), IInv, NEW c \in Callers, TimesOut(c) PROVE IInv'
<1>1. /\ call[c] = "waiting" /\ Settled(c, "failed") /\ missed' = TRUE
      /\ UNCHANGED <<session, signalled, requests, answers, event, knew>>
  BY DEF TimesOut
<1>2. /\ requests \in Seq(Callers) /\ answers \in Seq(Answers) /\ cached \in BOOLEAN
      /\ call \in [Callers -> {"idle", "waiting", "ok", "gone", "failed"}]
      /\ entry \in Entries
  BY DEF IInv, TypeOK
<1>3. call' = [call EXCEPT ![c] = "failed"] /\ cached' \in BOOLEAN
  BY <1>1, <1>2 DEF Settled
<1>4. /\ call'[c] = "failed" /\ \A d \in Callers : d # c => call'[d] = call[d]
      /\ call' \in [Callers -> {"idle", "waiting", "ok", "gone", "failed"}]
  BY <1>2, <1>3
<1>5. PICK e \in Entries :
         /\ SettleKillRequest(e)
         /\ e.inFlight = Cardinality(Waiting') /\ e.there
         /\ e.exit = entry.exit /\ e.name = entry.name
         /\ e.succeeded <=> entry.succeeded \/ "failed" = "ok"
  BY <1>1, SettledEntry
<1>6. /\ \A i \in 1..Len(requests) : requests[i] \in Callers
      /\ \A i \in 1..Len(answers) : answers[i] \in Answers
  BY <1>2
<1>7. \A i \in 1..Len(answers) : answers[i].caller \in Callers  BY <1>6 DEF Answers
<1>8. OnTheWay'  BY <1>1, <1>4, <1>6, <1>7 DEF IInv, OnTheWay
<1>9. told # <<>> => \A i \in 1..Len(answers') : ~OkAwaited(i)'
  BY <1>1, <1>4, <1>7 DEF IInv, Blamed, OkAwaited
<1>10. \A d \in Callers :
          /\ call'[d] = "waiting" => call[d] = "waiting"
          /\ call'[d] = "idle" => call[d] = "idle"
          /\ call'[d] = "ok" => call[d] = "ok"
  BY <1>4
<1>11. entry.succeeded => signalled  BY DEF IInv, Blamed
<1>12. \A i \in 1..Len(answers') : answers'[i].status = "ok" => signalled
  BY <1>1 DEF IInv, Blamed
<1>13. Settles(e)
  BY <1>1, <1>2, <1>3, <1>4, <1>5, <1>9, <1>10, <1>11, <1>12 DEF Settles
<1> QED BY <1>8, <1>13, SettlesStep DEF IInv

(* The first answer reaches its caller, or is for one that gave up.        *)
LEMMA AnsweredStep ==
    ASSUME IsFiniteSet(Callers), IInv, Answered PROVE IInv'
<1> DEFINE a == Head(answers)
<1>1. /\ answers # <<>> /\ answers' = Tail(answers)
      /\ IF call[a.caller] = "waiting" THEN Settled(a.caller, a.status)
                                      ELSE UNCHANGED <<call, cached, entry, told>>
      /\ UNCHANGED <<session, signalled, requests, event, missed, knew>>
  BY DEF Answered
<1>2. /\ requests \in Seq(Callers) /\ answers \in Seq(Answers) /\ cached \in BOOLEAN
      /\ call \in [Callers -> {"idle", "waiting", "ok", "gone", "failed"}]
      /\ missed \in BOOLEAN /\ signalled \in BOOLEAN
  BY DEF IInv, TypeOK
<1>3. /\ answers' \in Seq(Answers) /\ Len(answers') = Len(answers) - 1
      /\ \A i \in 1..Len(answers') : answers'[i] = answers[i + 1]
      /\ a = answers[1] /\ Len(answers) >= 1 /\ Len(answers) \in Nat /\ a \in Answers
  BY <1>1, <1>2
<1>4. a.caller \in Callers /\ a.status \in {"ok", "gone", "failed"}  BY <1>3 DEF Answers
<1> HIDE DEF a
<1>5. \A i \in 1..Len(answers') :
         i + 1 \in 1..Len(answers) /\ i + 1 # 1 /\ answers'[i] = answers[i + 1]
  BY <1>3
<1>6. 1 \in 1..Len(answers)  BY <1>3
<1>7. /\ \A i \in 1..Len(requests) : requests[i] \in Callers /\ requests[i] # a.caller
      /\ \A i \in 1..Len(answers') : answers'[i].caller # a.caller
      /\ \A i \in 1..Len(answers) : answers[i] \in Answers
  <2>1. \A i \in 1..Len(requests) : requests[i] \in Callers  BY <1>2
  <2>2. \A i \in 1..Len(answers) : answers[i] \in Answers  BY <1>2
  <2>3. \A i \in 1..Len(requests) : requests[i] # a.caller  BY <1>3, <1>6 DEF IInv, OnTheWay
  <2>4. \A i \in 1..Len(answers') : answers'[i].caller # a.caller
    BY <1>3, <1>5, <1>6 DEF IInv, OnTheWay
  <2> QED BY <2>1, <2>2, <2>3, <2>4
<1>8. \A i \in 1..Len(answers) : answers[i].caller \in Callers  BY <1>7 DEF Answers
<1>9. CASE call[a.caller] # "waiting"
  <2>1. UNCHANGED <<call, cached, entry, told>>  BY <1>1, <1>9
  <2>2. TypeOK'  BY <1>1, <1>3, <2>1 DEF IInv, TypeOK
  <2>3. Held' /\ Named'  BY <1>1, <2>1 DEF IInv, Held, Named, Waiting
  <2>4. OnTheWay'  BY <1>1, <1>5, <1>3, <2>1 DEF IInv, OnTheWay
  <2>5. missed  BY <1>3, <1>6, <1>9 DEF IInv, OnTheWay
  <2>6. Blamed'  BY <1>1, <1>5, <2>1, <2>5 DEF IInv, Blamed, OkAwaited
  <2> QED BY <2>2, <2>3, <2>4, <2>6 DEF IInv
<1>10. CASE call[a.caller] = "waiting"
  <2>1. Settled(a.caller, a.status)  BY <1>1, <1>10
  <2>2. call' = [call EXCEPT ![a.caller] = a.status] /\ cached' \in BOOLEAN
    BY <1>2, <2>1 DEF Settled
  <2>3. /\ call'[a.caller] = a.status /\ \A d \in Callers : d # a.caller => call'[d] = call[d]
        /\ call' \in [Callers -> {"idle", "waiting", "ok", "gone", "failed"}]
    BY <1>2, <1>4, <2>2
  <2>4. PICK e \in Entries :
           /\ SettleKillRequest(e)
           /\ e.inFlight = Cardinality(Waiting') /\ e.there
           /\ e.exit = entry.exit /\ e.name = entry.name
           /\ e.succeeded <=> entry.succeeded \/ a.status = "ok"
    BY <1>4, <1>10, <2>1, SettledEntry
  <2>5. OnTheWay'
    <3>1. \A i \in 1..Len(requests') :
            call'[requests'[i]] # "idle" /\ (call'[requests'[i]] # "waiting" => missed')
      BY <1>1, <1>7, <2>3 DEF IInv, OnTheWay
    <3>2. \A i \in 1..Len(answers') :
            /\ call'[answers'[i].caller] # "idle"
            /\ call'[answers'[i].caller] # "waiting" => missed'
      BY <1>1, <1>5, <1>7, <1>8, <2>3 DEF IInv, OnTheWay
    <3>3. \A i, j \in 1..Len(answers') : i # j => answers'[i].caller # answers'[j].caller
      BY <1>3, <1>5 DEF IInv, OnTheWay
    <3> QED BY <1>1, <1>5, <3>1, <3>2, <3>3 DEF IInv, OnTheWay
  <2>6. /\ entry.succeeded => signalled
        /\ a.status = "ok" => signalled /\ told = <<>>
        /\ \A i \in 1..Len(answers') : answers'[i].status = "ok" => signalled
    BY <1>3, <1>5, <1>6, <1>10 DEF IInv, Blamed, OkAwaited
  <2>7. \A i \in 1..Len(answers') : OkAwaited(i)' <=> OkAwaited(i + 1)
    BY <1>5, <1>7, <1>8, <2>3 DEF OkAwaited
  <2>8. told # <<>> => \A i \in 1..Len(answers') : ~OkAwaited(i)'
    BY <1>5, <2>7 DEF IInv, Blamed
  <2>9. (told = <<>> /\ signalled) =>
          missed' \/ e.succeeded \/ \E i \in 1..Len(answers') : OkAwaited(i)'
    <3> SUFFICES ASSUME told = <<>>, signalled, ~missed, ~e.succeeded
                 PROVE  \E i \in 1..Len(answers') : OkAwaited(i)'
      BY <1>1
    <3>1. PICK k \in 1..Len(answers) : OkAwaited(k)  BY <2>4 DEF IInv, Blamed
    <3>2. k # 1  BY <1>3, <2>4, <3>1 DEF OkAwaited
    <3>3. k - 1 \in 1..Len(answers') /\ (k - 1) + 1 = k  BY <1>3, <3>2
    <3> QED BY <2>7, <3>1, <3>3
  <2>10. \A d \in Callers :
           /\ call'[d] = "waiting" => call[d] = "waiting"
           /\ call'[d] = "idle" => call[d] = "idle"
           /\ (call'[d] = "ok" /\ call[d] # "ok") => call[d] = "waiting" /\ a.status = "ok"
    BY <1>4, <1>10, <2>3
  <2>11. Settles(e)
    BY <1>1, <1>2, <1>3, <2>2, <2>3, <2>4, <2>6, <2>8, <2>9, <2>10 DEF Settles
  <2> QED BY <2>5, <2>11, SettlesStep DEF IInv
<1> QED BY <1>9, <1>10

(* A lost connection ends every request; who waited gave up.               *)
LEMMA DisconnectStep ==
    ASSUME IsFiniteSet(Callers), IInv, Disconnect PROVE IInv'
<1>1. /\ \E n \in {0, 1} : n <= Len(requests) /\ requests' = SubSeq(requests, 1, n)
      /\ answers' = <<>>
      /\ event' = IF event = "sent" THEN "lost" ELSE event
      /\ call' = [c \in Callers |-> IF call[c] = "waiting" THEN "failed" ELSE call[c]]
      /\ missed' = (missed \/ \E c \in Callers : call[c] = "waiting")
      /\ IF entry.there /\ entry.inFlight > 0
         THEN SettleKillRequest([entry EXCEPT !.inFlight = 0])
         ELSE UNCHANGED <<entry, told>>
      /\ UNCHANGED <<session, signalled, cached, knew>>
  BY DEF Disconnect
<1>2. /\ requests \in Seq(Callers) /\ answers \in Seq(Answers) /\ entry \in Entries
      /\ call \in [Callers -> {"idle", "waiting", "ok", "gone", "failed"}]
      /\ missed \in BOOLEAN /\ signalled \in BOOLEAN /\ cached \in BOOLEAN
      /\ event \in {"none", "sent", "heard", "lost"}
  BY DEF IInv, TypeOK
<1>3. /\ missed' \in BOOLEAN
      /\ missed' <=> missed \/ \E c \in Callers : call[c] = "waiting"
  BY <1>1
<1>4. /\ requests' \in Seq(Callers) /\ Len(requests') <= 1 /\ Len(requests') \in Nat
      /\ \A i \in 1..Len(requests') :
            i \in 1..Len(requests) /\ requests'[i] = requests[i] /\ requests[i] \in Callers
  <2>1. PICK n \in {0, 1} : n <= Len(requests) /\ requests' = SubSeq(requests, 1, n)  BY <1>1
  <2> QED BY <1>2, <2>1
<1>5. /\ call' \in [Callers -> {"idle", "waiting", "ok", "gone", "failed"}]
      /\ \A c \in Callers :
            /\ call'[c] # "waiting"
            /\ call[c] = "waiting" => call'[c] = "failed"
            /\ call[c] # "waiting" => call'[c] = call[c]
  BY <1>1, <1>2
<1>6. Len(answers') = 0 /\ answers' \in Seq(Answers)  BY <1>1
<1>7. Cardinality(Waiting') = 0
  <2>1. Waiting' = {}  BY <1>5 DEF Waiting
  <2> QED BY <2>1, FS_EmptySet
<1>8. OnTheWay'
  <2>1. \A i \in 1..Len(requests') :
           call'[requests'[i]] # "idle" /\ (call'[requests'[i]] # "waiting" => missed')
    <3> TAKE i \in 1..Len(requests')
    <3>1. requests'[i] = requests[i] /\ requests[i] \in Callers /\ i \in 1..Len(requests)
      BY <1>4
    <3>2. call[requests[i]] # "idle" /\ (call[requests[i]] # "waiting" => missed)
      BY <3>1 DEF IInv, OnTheWay
    <3> QED BY <1>3, <1>5, <3>1, <3>2
  <2>2. \A i, j \in 1..Len(requests') : i = j  BY <1>4
  <2> QED BY <1>6, <2>1, <2>2 DEF OnTheWay
<1>9. (told = <<>> /\ signalled) => missed' \/ entry.succeeded
  <2> SUFFICES ASSUME told = <<>>, signalled, ~missed, ~entry.succeeded PROVE missed'
    BY <1>3
  <2>1. PICK k \in 1..Len(answers) : OkAwaited(k)  BY DEF IInv, Blamed
  <2>2. answers[k] \in Answers  BY <1>2
  <2>3. answers[k].caller \in Callers  BY <2>2 DEF Answers
  <2> QED BY <1>3, <2>1, <2>3 DEF OkAwaited
<1>10. CASE entry.there /\ entry.inFlight > 0
  <2> DEFINE e == [entry EXCEPT !.inFlight = 0]
  <2>1. SettleKillRequest(e)  BY <1>1, <1>10
  <2>2. e = [entry EXCEPT !.inFlight = 0]  OBVIOUS
  <2> HIDE DEF e
  <2>3. /\ e \in Entries /\ e.inFlight = 0 /\ e.succeeded = entry.succeeded
        /\ e.there = entry.there /\ e.exit = entry.exit /\ e.name = entry.name
    <3>1. e = [there |-> entry.there, inFlight |-> 0, succeeded |-> entry.succeeded,
               exit |-> entry.exit, name |-> entry.name]
      BY <1>2, <2>2 DEF Entries
    <3> QED BY <1>2, <3>1 DEF Entries
  <2>4. entry.succeeded => signalled  BY DEF IInv, Blamed
  <2>5. event' = IF event' = "lost" /\ event = "sent" THEN "lost" ELSE event  BY <1>1
  <2>6. Settles(e)
    BY <1>1, <1>2, <1>3, <1>4, <1>5, <1>6, <1>7, <1>9, <1>10, <2>1, <2>3, <2>4, <2>5
    DEF Settles
  <2> QED BY <1>8, <2>6, SettlesStep DEF IInv
<1>11. CASE ~(entry.there /\ entry.inFlight > 0)
  <2>1. UNCHANGED <<entry, told>>  BY <1>1, <1>11
  <2>2. entry.inFlight \in Nat  BY <1>2 DEF Entries
  <2>3. entry.inFlight = 0  BY <1>11, <2>2 DEF IInv, Held
  <2>4. TypeOK'  BY <1>1, <1>3, <1>4, <1>5, <1>6, <2>1 DEF IInv, TypeOK
  <2>5. Held'  BY <1>1, <1>2, <1>7, <2>1, <2>3 DEF IInv, Held
  <2>6. Blamed'  BY <1>1, <1>3, <1>6, <1>9, <2>1 DEF IInv, Blamed
  <2>7. \A c \in Callers : call'[c] = call[c]  BY <1>5, <2>3, NobodyWaits
  <2>8. knew \in SUBSET Callers  BY DEF IInv, TypeOK
  <2>9. Named'  BY <1>1, <2>1, <2>7, <2>8 DEF IInv, Named
  <2> QED BY <1>8, <2>4, <2>5, <2>6, <2>9 DEF IInv
<1> QED BY <1>10, <1>11

(* The event is kept for the outstanding requests, or told at once.        *)
LEMMA HeardStep ==
    ASSUME IsFiniteSet(Callers), IInv, Heard PROVE IInv'
<1>1. /\ event = "sent" /\ event' = "heard"
      /\ IF entry.there /\ entry.inFlight > 0
         THEN /\ entry' = [entry EXCEPT !.exit = IF cached THEN "named" ELSE "unnamed"]
              /\ UNCHANGED told
         ELSE /\ entry' = NoEntry
              /\ Tell(entry.succeeded, cached \/ entry.name)
      /\ UNCHANGED <<session, signalled, requests, answers, call, cached, missed, knew>>
  BY DEF Heard
<1>2. told = <<>> /\ session = "dead"  BY <1>1 DEF IInv, Held
<1>3. entry \in Entries /\ answers \in Seq(Answers) /\ knew \in SUBSET Callers
  BY DEF IInv, TypeOK
<1>4. entry.inFlight \in Nat /\ entry.succeeded \in BOOLEAN /\ entry.name \in BOOLEAN
  BY <1>3 DEF Entries
<1>5. OnTheWay'  BY <1>1 DEF IInv, OnTheWay
<1>6. Waiting' = Waiting  BY <1>1 DEF Waiting
<1>7. CASE entry.there /\ entry.inFlight > 0
  <2> DEFINE exit == IF cached THEN "named" ELSE "unnamed"
  <2>1. entry' = [entry EXCEPT !.exit = exit] /\ told' = told  BY <1>1, <1>7
  <2>2. exit \in {"none", "named", "unnamed"} /\ exit # "none"  OBVIOUS
  <2> HIDE DEF exit
  <2>3. /\ entry' \in Entries /\ entry'.inFlight = entry.inFlight /\ entry'.exit = exit
        /\ entry'.succeeded = entry.succeeded /\ entry'.there = entry.there
        /\ entry'.name = entry.name
    <3>1. entry' = [there |-> entry.there, inFlight |-> entry.inFlight,
                    succeeded |-> entry.succeeded, exit |-> exit, name |-> entry.name]
      BY <1>3, <2>1 DEF Entries
    <3> QED BY <1>3, <2>2, <3>1 DEF Entries
  <2>4. TypeOK'  BY <1>1, <2>1, <2>3 DEF IInv, TypeOK
  <2>5. Held'  BY <1>1, <1>2, <1>6, <1>7, <2>1, <2>2, <2>3 DEF IInv, Held
  <2>6. Blamed'  BY <1>1, <1>2, <2>1, <2>3 DEF IInv, Blamed, OkAwaited
  <2>7. Named'  BY <1>1, <1>2, <2>1, <2>3 DEF IInv, Named
  <2> QED BY <1>5, <2>4, <2>5, <2>6, <2>7 DEF IInv
<1>8. CASE ~(entry.there /\ entry.inFlight > 0)
  <2> DEFINE name == cached \/ entry.name
  <2>1. entry' = NoEntry /\ Tell(entry.succeeded, name)  BY <1>1, <1>8
  <2>2. name \in BOOLEAN /\ (entry.name => name)  OBVIOUS
  <2> HIDE DEF name
  <2>3. /\ told' \in Seq(Exits) /\ told' # <<>> /\ Len(told') = 1
        /\ told'[1].killed = entry.succeeded /\ told'[1].name = name
    BY <1>2, <1>4, <2>1, <2>2, FirstTold
  <2>4. entry.inFlight = 0  BY <1>4, <1>8 DEF IInv, Held
  <2>5. NoEntry \in Entries  BY DEF NoEntry, Entries
  <2>6. NoEntry.inFlight = 0 /\ NoEntry.exit = "none" /\ ~NoEntry.succeeded  BY DEF NoEntry
  <2>7. \A c \in Callers : call[c] # "waiting"  BY <2>4, NobodyWaits
  <2>8. \A i \in 1..Len(answers) : ~OkAwaited(i)
    <3>1. \A i \in 1..Len(answers) : answers[i] \in Answers  BY <1>3
    <3>2. \A i \in 1..Len(answers) : answers[i].caller \in Callers  BY <3>1 DEF Answers
    <3> QED BY <2>7, <3>2 DEF OkAwaited
  <2>9. \A i \in 1..Len(answers') : ~OkAwaited(i)'  BY <1>1, <2>8 DEF OkAwaited
  <2>10. TypeOK'  BY <1>1, <2>1, <2>3, <2>5 DEF IInv, TypeOK
  <2>11. Held'  BY <1>1, <1>2, <1>6, <2>1, <2>3, <2>4, <2>6 DEF IInv, Held
  <2>12. Blamed'
    BY <1>1, <1>2, <1>4, <2>1, <2>3, <2>6, <2>8, <2>9 DEF IInv, Blamed
  <2>13. Named'
    BY <1>1, <1>2, <1>4, <2>2, <2>3, <2>7 DEF IInv, Named
  <2> QED BY <1>5, <2>10, <2>11, <2>12, <2>13 DEF IInv
<1> QED BY <1>7, <1>8

-----------------------------------------------------------------------------
(* For any number of callers: an exit the server heard of is told once, as *)
(* soon as nobody waits, and as killed, as an exit and with the name only  *)
(* when the answers the callers got, or gave up, say so (killRequests and  *)
(* settleKillRequest in broker-backend.ts).                                *)
THEOREM ExitsAreToldRight == ASSUME IsFiniteSet(Callers) PROVE Spec => []ExitToldRight
<1>1. Init => IInv  BY InitEstablishes
<1>2. ASSUME IInv, [Next]_vars PROVE IInv'
  <2>1. CASE UNCHANGED vars
    BY <1>2, <2>1 DEF vars, IInv, TypeOK, OnTheWay, Held, Blamed, OkAwaited, Named, Waiting
  <2>2. CASE BrokerKill  BY <1>2, <2>2, BrokerKillStep
  <2>3. CASE SessionEnds  BY <1>2, <2>3, SessionEndsStep
  <2>4. CASE Answered  BY <1>2, <2>4, AnsweredStep
  <2>5. CASE Disconnect  BY <1>2, <2>5, DisconnectStep
  <2>6. CASE Heard  BY <1>2, <2>6, HeardStep
  <2>7. CASE Listed  BY <1>2, <2>7, ListedStep
  <2>8. ASSUME NEW c \in Callers, Kill(c) \/ TimesOut(c) PROVE IInv'
    BY <1>2, <2>8, KillStep, TimesOutStep
  <2> QED BY <1>2, <2>1, <2>2, <2>3, <2>4, <2>5, <2>6, <2>7, <2>8 DEF Next
<1>3. IInv => ExitToldRight
  <2> SUFFICES ASSUME IInv PROVE ExitToldRight
    OBVIOUS
  <2>1. (\A c \in Callers : call[c] # "waiting") => entry.inFlight = 0  BY NobodyWaits
  <2>2. (event = "heard" /\ \A c \in Callers : call[c] # "waiting") => told # <<>>
    BY <2>1 DEF IInv, Held
  <2>3. Len(told) <= 1 /\ (told # <<>> => event = "heard")
    <3>1. Len(<<>>) = 0  OBVIOUS
    <3>2. told = <<>> => Len(told) = 0  BY <3>1
    <3>3. told # <<>> => Len(told) = 1 /\ event = "heard"  BY DEF IInv, Held
    <3>4. Len(told) = 0 \/ Len(told) = 1  BY <3>2, <3>3
    <3>5. \A n \in {0, 1} : n <= 1  OBVIOUS
    <3>6. Len(told) <= 1  BY <3>4, <3>5, Zenon
    <3> QED BY <3>3, <3>6
  <2> QED BY <2>2, <2>3 DEF IInv, Blamed, Named, ExitToldRight
<1> QED BY <1>1, <1>2, <1>3, PTL DEF Spec
=============================================================================
