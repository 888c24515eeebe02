--------------------------- MODULE RegistryProofs ---------------------------
(***************************************************************************)
(* Proofs about Registry, for every set of calls and names, every event    *)
(* capacity and every tombstone cap.                                       *)
(***************************************************************************)
EXTENDS Registry, TLAPS

(* A registered or buried session is past its commit, so a reap can never *)
(* be undone by a later insert of the same id.                            *)
PastCommit ==
    /\ \A c \in sessions : pc[c] \in {"committed", "published", "done"}
    /\ \A i \in 1..Len(tombstones) :
          pc[tombstones[i]] \in {"committed", "published", "done"}

(* Every generated name carries a number the counter has already passed.  *)
AnonymousBelowCounter ==
    \A c \in Calls :
        request[c] = Anonymous /\ nameOf[c] # NoName =>
            /\ pc[c] # "idle"
            /\ \E n \in 1..next_anon : nameOf[c] = Anon(n)

(* The inductive invariant.                                               *)
IInv ==
    /\ TypeOK
    /\ NameOwnership
    /\ DeadHasReaper
    /\ ReapedOnce
    /\ PastCommit
    /\ AnonymousBelowCounter
    /\ AnonymousNamesDistinct

-----------------------------------------------------------------------------
(* Purging keeps a suffix of the tombstones, within the cap, and keeps    *)
(* the newest one unless everything is due.                               *)
LEMMA PurgedIsSuffix ==
    ASSUME TypeOK, NEW s \in Seq(Calls), due \in 0..Len(s)
    PROVE  /\ Purged(s) \in Seq(Calls)
           /\ Len(Purged(s)) <= TombstoneMax
           /\ \E k \in 0..Len(s) :
                 /\ Len(Purged(s)) = Len(s) - k
                 /\ \A i \in 1..Len(Purged(s)) : Purged(s)[i] = s[i + k]
           /\ due < Len(s) =>
                 /\ Len(Purged(s)) > 0
                 /\ Purged(s)[Len(Purged(s))] = s[Len(s)]
<1> DEFINE t == SubSeq(s, due + 1, Len(s))
           m == Len(t)
           drop == IF m > TombstoneMax THEN m - TombstoneMax ELSE 0
<1>1. /\ t \in Seq(Calls)
      /\ m \in Nat
      /\ m = Len(s) - due
      /\ \A i \in 1..m : t[i] = s[i + due]
  OBVIOUS
<1>2. /\ drop \in 0..m
      /\ m - drop <= TombstoneMax
      /\ m > 0 => m - drop > 0
  <2>1. m \in Nat /\ TombstoneMax \in Nat /\ TombstoneMax > 0
    BY <1>1, RegistryAssumption
  <2> HIDE DEF t, m
  <2>2. QED  BY <2>1
<1>3. /\ Capped(t) \in Seq(Calls)
      /\ Len(Capped(t)) = m - drop
      /\ \A i \in 1..(m - drop) : Capped(t)[i] = t[i + drop]
  <2>1. CASE m > TombstoneMax
    <3> HIDE DEF t
    <3>1. Capped(t) = SubSeq(t, drop + 1, m)
      BY <2>1 DEF Capped
    <3>2. drop + 1 \in 1..m /\ m = Len(t) /\ t \in Seq(Calls)
      BY <2>1, <1>1, <1>2, RegistryAssumption
    <3> HIDE DEF m, drop
    <3>3. SubSeq(t, drop + 1, m) \in Seq(Calls)
      BY <3>2
    <3>4. Len(SubSeq(t, drop + 1, m)) = m - drop
      BY <3>2, <1>1, <1>2
    <3>5. \A i \in 1..(m - drop) : SubSeq(t, drop + 1, m)[i] = t[i + drop]
      BY <3>2, <1>1, <1>2
    <3>6. QED  BY <3>1, <3>3, <3>4, <3>5
  <2>2. CASE ~(m > TombstoneMax)
    <3> HIDE DEF t
    <3>1. Capped(t) = t  BY <2>2 DEF Capped
    <3>2. QED  BY <2>2, <3>1, <1>1
  <2>3. QED  BY <2>1, <2>2
<1>4. Purged(s) = Capped(t)  BY DEF Purged
<1> HIDE DEF t, m, drop
<1>5. /\ drop + due \in 0..Len(s)
      /\ Len(Purged(s)) = Len(s) - (drop + due)
      /\ \A i \in 1..Len(Purged(s)) : Purged(s)[i] = s[i + (drop + due)]
  <2>1. drop + due \in 0..Len(s) /\ Len(s) - (drop + due) = m - drop
    BY <1>1, <1>2
  <2>2. ASSUME NEW i \in 1..(m - drop)
        PROVE  Capped(t)[i] = s[i + (drop + due)]
    <3>1. i + drop \in 1..m /\ i + drop + due = i + (drop + due)
      BY <1>1, <1>2
    <3>2. QED  BY <1>1, <1>3, <3>1
  <2>3. QED  BY <1>3, <1>4, <2>1, <2>2
<1>6. ASSUME due < Len(s)
      PROVE  Len(Purged(s)) > 0 /\ Purged(s)[Len(Purged(s))] = s[Len(s)]
  <2>1. m > 0  BY <1>1, <1>6
  <2>2. Len(Purged(s)) > 0 /\ Len(Purged(s)) \in 1..Len(Purged(s))
    BY <2>1, <1>1, <1>2, <1>3, <1>4
  <2>3. Len(Purged(s)) + (drop + due) = Len(s)
    BY <1>1, <1>2, <1>5
  <2>4. QED  BY <2>2, <2>3, <1>5
<1>7. QED  BY <1>2, <1>3, <1>4, <1>5, <1>6

(* A send only grows the backlog or marks it lagged.                      *)
LEMMA SendKeepsOrLags ==
    ASSUME TypeOK, NEW e \in Calls \cup {Other}, Send(e)
    PROVE  /\ events' \in Seq(Calls \cup {Other})
           /\ Len(events') <= EventCap
           /\ lagged' \in BOOLEAN
           /\ InSeq(e, events')
           /\ lagged => lagged'
           /\ \A x : InSeq(x, events) => InSeq(x, events') \/ lagged'
<1>1. CASE Len(events) < EventCap
  <2>1. events' = Append(events, e) /\ lagged' = lagged
    BY <1>1 DEF Send
  <2>2. events \in Seq(Calls \cup {Other})  BY DEF TypeOK
  <2>3. /\ Len(events') = Len(events) + 1
        /\ events'[Len(events) + 1] = e
        /\ \A i \in 1..Len(events) : events'[i] = events[i]
    BY <2>1, <2>2
  <2>4. InSeq(e, events')  BY <2>2, <2>3 DEF InSeq
  <2>5. \A x : InSeq(x, events) => InSeq(x, events')
    BY <2>2, <2>3 DEF InSeq
  <2>6. QED  BY <1>1, <2>1, <2>2, <2>3, <2>4, <2>5, RegistryAssumption DEF TypeOK
<1>2. CASE ~(Len(events) < EventCap)
  <2>1. events' = Append(Tail(events), e) /\ lagged' = TRUE
    BY <1>2 DEF Send
  <2>2. events \in Seq(Calls \cup {Other}) /\ Len(events) = EventCap /\ events # <<>>
    BY <1>2, RegistryAssumption DEF TypeOK
  <2>3. Tail(events) \in Seq(Calls \cup {Other}) /\ Len(Tail(events)) = EventCap - 1
    BY <2>2
  <2>4. /\ events' \in Seq(Calls \cup {Other})
        /\ Len(events') = EventCap
        /\ events'[EventCap] = e
    BY <2>1, <2>3, RegistryAssumption
  <2>5. InSeq(e, events')  BY <2>4, RegistryAssumption DEF InSeq
  <2>6. QED  BY <2>1, <2>4, <2>5, RegistryAssumption
<1>3. QED  BY <1>1, <1>2

-----------------------------------------------------------------------------
(* Purging the tombstones in place keeps them typed, unique and disjoint  *)
(* from the registered sessions.                                          *)
LEMMA PurgeKeepsTombstones ==
    ASSUME TypeOK, ReapedOnce, PastCommit
    PROVE  LET t == Purged(tombstones) IN
           /\ t \in Seq(Calls) /\ Len(t) <= TombstoneMax
           /\ \A i \in 1..Len(t) : \E j \in 1..Len(tombstones) : t[i] = tombstones[j]
           /\ \A i, j \in 1..Len(t) : t[i] = t[j] => i = j
<1> DEFINE t == Purged(tombstones)
<1>1. tombstones \in Seq(Calls) /\ due \in 0..Len(tombstones)
  BY DEF TypeOK
<1>2. t \in Seq(Calls) /\ Len(t) <= TombstoneMax
  BY <1>1, PurgedIsSuffix
<1>3. PICK k \in 0..Len(tombstones) :
        /\ Len(t) = Len(tombstones) - k
        /\ \A i \in 1..Len(t) : t[i] = tombstones[i + k]
  BY <1>1, PurgedIsSuffix
<1> HIDE DEF t
<1>4. \A i \in 1..Len(t) : i + k \in 1..Len(tombstones)
  BY <1>1, <1>2, <1>3
<1>5. \A i, j \in 1..Len(t) : t[i] = t[j] => i = j
  BY <1>1, <1>3, <1>4 DEF ReapedOnce
<1>6. QED  BY <1>2, <1>3, <1>4, <1>5 DEF t

(* What Registry::reap does to the registry, registered or not.           *)
LEMMA ReapEffect ==
    ASSUME TypeOK, NameOwnership, ReapedOnce, PastCommit,
           NEW c \in Calls, Reap(c)
    PROVE  /\ sessions' = sessions \ {c}
           /\ names' \in [Name -> Owner \cup {Free}]
           /\ \A n \in Name : names'[n] =
                 IF c \in sessions /\ n = nameOf[c] THEN Free ELSE names[n]
           /\ tombstones' \in Seq(Calls)
           /\ Len(tombstones') <= TombstoneMax
           /\ due' \in 0..Len(tombstones')
           /\ \A i \in 1..Len(tombstones') :
                 \/ c \in sessions /\ tombstones'[i] = c
                 \/ \E j \in 1..Len(tombstones) : tombstones'[i] = tombstones[j]
           /\ \A i, j \in 1..Len(tombstones') :
                 tombstones'[i] = tombstones'[j] => i = j
           /\ c \in sessions =>
                 tombstones' # <<>> /\ tombstones'[Len(tombstones')] = c
<1>1. CASE c \notin sessions
  <2>1. UNCHANGED <<sessions, names, tombstones, due>>
    BY <1>1 DEF Reap
  <2>2. QED  BY <1>1, <2>1 DEF TypeOK, ReapedOnce
<1>2. CASE c \in sessions
  <2> DEFINE s == Append(tombstones, c)
  <2>1. /\ sessions' = sessions \ {c}
        /\ tombstones' = Purged(s)
        /\ due' = 0
        /\ names' = [names EXCEPT ![nameOf[c]] = Free]
    BY <1>2 DEF Reap, NameOwnership
  <2>2. /\ tombstones \in Seq(Calls) /\ Len(tombstones) \in Nat
        /\ due \in 0..Len(tombstones)
    BY DEF TypeOK
  <2>3. /\ s \in Seq(Calls)
        /\ Len(s) = Len(tombstones) + 1
        /\ s[Len(tombstones) + 1] = c
        /\ \A i \in 1..Len(tombstones) : s[i] = tombstones[i]
    BY <2>2
  <2>4. \A i, j \in 1..Len(s) : s[i] = s[j] => i = j
    BY <1>2, <2>2, <2>3 DEF ReapedOnce
  <2> HIDE DEF s
  <2>5. due \in 0..Len(s) /\ due < Len(s)
    BY <2>2, <2>3
  <2>6. /\ tombstones' \in Seq(Calls) /\ Len(tombstones') <= TombstoneMax
        /\ Len(tombstones') > 0
        /\ tombstones'[Len(tombstones')] = c
    BY <2>1, <2>2, <2>3, <2>5, PurgedIsSuffix
  <2>7. PICK k \in 0..Len(s) :
          /\ Len(tombstones') = Len(s) - k
          /\ \A i \in 1..Len(tombstones') : tombstones'[i] = s[i + k]
    BY <2>1, <2>3, <2>5, PurgedIsSuffix
  <2>8. \A i \in 1..Len(tombstones') : i + k \in 1..Len(s)
    BY <2>2, <2>3, <2>6, <2>7
  <2>9. \A i, j \in 1..Len(tombstones') :
           tombstones'[i] = tombstones'[j] => i = j
    BY <2>2, <2>3, <2>4, <2>7, <2>8
  <2>10. \A i \in 1..Len(tombstones') :
            \/ tombstones'[i] = c
            \/ \E j \in 1..Len(tombstones) : tombstones'[i] = tombstones[j]
    <3> SUFFICES ASSUME NEW i \in 1..Len(tombstones')
                 PROVE  \/ tombstones'[i] = c
                        \/ \E j \in 1..Len(tombstones) : tombstones'[i] = tombstones[j]
      OBVIOUS
    <3>1. tombstones'[i] = s[i + k] /\ i + k \in 1..(Len(tombstones) + 1)
      BY <2>3, <2>7, <2>8
    <3>2. CASE i + k = Len(tombstones) + 1
      BY <3>1, <3>2, <2>3
    <3>3. CASE i + k \in 1..Len(tombstones)
      BY <3>1, <3>3, <2>3
    <3>4. QED  BY <3>1, <3>2, <3>3, <2>2
  <2>11. nameOf[c] \in Name /\ names \in [Name -> Owner \cup {Free}]
    BY <1>2 DEF NameOwnership, TypeOK
  <2>12. /\ names' \in [Name -> Owner \cup {Free}]
         /\ \A n \in Name : names'[n] = IF n = nameOf[c] THEN Free ELSE names[n]
    BY <2>1, <2>11
  <2>13. due' \in 0..Len(tombstones') /\ tombstones' # <<>>
    BY <2>1, <2>6
  <2>14. QED  BY <1>2, <2>1, <2>6, <2>9, <2>10, <2>12, <2>13
<1>3. QED  BY <1>1, <1>2

(* The three kinds of owner are pairwise different.                       *)
LEMMA OwnersDiffer ==
    /\ \A c, d : Reservation(c) # SessionId(d)
    /\ \A c, d : Reservation(c) = Reservation(d) => c = d
    /\ \A c, d : SessionId(c) = SessionId(d) => c = d
    /\ \A c \in Calls : Reservation(c) # Free /\ SessionId(c) # Free
    /\ \A c \in Calls : Reservation(c) \in Owner /\ SessionId(c) \in Owner
<1>1. \A c, d : Reservation(c) # SessionId(d)
  BY DEF Reservation, SessionId
<1>2. \A c, d : Reservation(c) = Reservation(d) => c = d
  BY DEF Reservation
<1>3. \A c, d : SessionId(c) = SessionId(d) => c = d
  BY DEF SessionId
<1>4. \A c \in Calls : Reservation(c) \in Owner /\ SessionId(c) \in Owner
  BY DEF Owner
<1>5. QED  BY <1>1, <1>2, <1>3, <1>4, RegistryAssumption

(* Reaping releases exactly the reaped session's name.                    *)
LEMMA ReapKeepsOwnership ==
    ASSUME TypeOK, NameOwnership, ReapedOnce, PastCommit,
           NEW c \in Calls, Reap(c), nameOf' = nameOf,
           \A d \in Calls : pc'[d] \in {"reserved", "spawned"}
                               <=> pc[d] \in {"reserved", "spawned"}
    PROVE  NameOwnership'
<1>1. /\ sessions' = sessions \ {c}
      /\ \A n \in Name : names'[n] =
            IF c \in sessions /\ n = nameOf[c] THEN Free ELSE names[n]
  BY ReapEffect
<1>2. ASSUME NEW d \in Calls, pc'[d] \in {"reserved", "spawned"}
      PROVE  nameOf'[d] \in Name /\ names'[nameOf'[d]] = Reservation(d)
  <2>1. nameOf[d] \in Name /\ names[nameOf[d]] = Reservation(d)
    BY <1>2 DEF NameOwnership
  <2>2. c \in sessions => nameOf[d] # nameOf[c]
    BY <2>1, OwnersDiffer DEF NameOwnership
  <2>3. QED  BY <1>1, <2>1, <2>2
<1>3. ASSUME NEW d \in Calls, d \in sessions'
      PROVE  nameOf'[d] \in Name /\ names'[nameOf'[d]] = SessionId(d)
  <2>1. d # c /\ d \in sessions
    BY <1>1, <1>3
  <2>2. nameOf[d] \in Name /\ names[nameOf[d]] = SessionId(d)
    BY <2>1 DEF NameOwnership
  <2>3. c \in sessions => nameOf[d] # nameOf[c]
    BY <2>1, <2>2, OwnersDiffer DEF NameOwnership
  <2>4. QED  BY <1>1, <2>2, <2>3
<1>4. ASSUME NEW n \in Name, NEW d \in Calls
      PROVE  /\ names'[n] = Reservation(d) =>
                   pc'[d] \in {"reserved", "spawned"} /\ nameOf'[d] = n
             /\ names'[n] = SessionId(d) => d \in sessions' /\ nameOf'[d] = n
  <2>1. names'[n] # Free => names'[n] = names[n] /\ ~(c \in sessions /\ n = nameOf[c])
    BY <1>1
  <2>2. names'[n] = SessionId(d) => d # c
    BY <2>1, OwnersDiffer DEF NameOwnership
  <2>3. QED  BY <1>1, <2>1, <2>2, OwnersDiffer DEF NameOwnership
<1>5. QED  BY <1>2, <1>3, <1>4 DEF NameOwnership

(* A reservation takes a free name and disturbs nobody else's.            *)
LEMMA ReserveKeepsOwnership ==
    ASSUME TypeOK, NameOwnership, PastCommit, NEW c \in Calls, pc[c] = "idle",
           NEW n \in Name, names[n] = Free, Reserved(c, n),
           sessions' = sessions
    PROVE  /\ NameOwnership'
           /\ pc' \in [Calls -> {"idle", "reserved", "spawned", "committed",
                                 "published", "done", "failed"}]
           /\ nameOf' \in [Calls -> Name \cup {NoName}]
           /\ names' \in [Name -> Owner \cup {Free}]
<1>1. /\ pc' = [pc EXCEPT ![c] = "reserved"]
      /\ nameOf' = [nameOf EXCEPT ![c] = n]
      /\ names' = [names EXCEPT ![n] = Reservation(c)]
  BY DEF Reserved
<1>2. /\ \A d \in Calls : pc'[d] = IF d = c THEN "reserved" ELSE pc[d]
      /\ \A d \in Calls : nameOf'[d] = IF d = c THEN n ELSE nameOf[d]
      /\ \A m \in Name : names'[m] = IF m = n THEN Reservation(c) ELSE names[m]
  BY <1>1 DEF TypeOK
<1>3. c \notin sessions
  BY DEF PastCommit
<1>4. ASSUME NEW d \in Calls
      PROVE  /\ pc'[d] \in {"reserved", "spawned"} =>
                   nameOf'[d] \in Name /\ names'[nameOf'[d]] = Reservation(d)
             /\ d \in sessions' =>
                   nameOf'[d] \in Name /\ names'[nameOf'[d]] = SessionId(d)
  BY <1>2, <1>3, OwnersDiffer DEF NameOwnership
<1>5. ASSUME NEW m \in Name, NEW d \in Calls
      PROVE  /\ names'[m] = Reservation(d) =>
                   pc'[d] \in {"reserved", "spawned"} /\ nameOf'[d] = m
             /\ names'[m] = SessionId(d) => d \in sessions' /\ nameOf'[d] = m
  BY <1>2, <1>3, OwnersDiffer DEF NameOwnership
<1>6. Reservation(c) \in Owner
  BY OwnersDiffer
<1>7. QED  BY <1>1, <1>4, <1>5, <1>6 DEF NameOwnership, TypeOK

(* A create step that stays on its side of the commit keeps every owner.  *)
LEMMA OwnershipKept ==
    ASSUME NameOwnership, nameOf' = nameOf, names' = names, sessions' = sessions,
           \A d \in Calls : pc'[d] \in {"reserved", "spawned"}
                               <=> pc[d] \in {"reserved", "spawned"}
    PROVE  NameOwnership'
<1>1. ASSUME NEW d \in Calls
      PROVE  /\ pc'[d] \in {"reserved", "spawned"} =>
                   nameOf'[d] \in Name /\ names'[nameOf'[d]] = Reservation(d)
             /\ d \in sessions' =>
                   nameOf'[d] \in Name /\ names'[nameOf'[d]] = SessionId(d)
  BY DEF NameOwnership
<1>2. ASSUME NEW n \in Name, NEW d \in Calls
      PROVE  /\ names'[n] = Reservation(d) =>
                   pc'[d] \in {"reserved", "spawned"} /\ nameOf'[d] = n
             /\ names'[n] = SessionId(d) => d \in sessions' /\ nameOf'[d] = n
  BY DEF NameOwnership
<1>3. QED  BY <1>1, <1>2 DEF NameOwnership

(* After the reservation a call's name and number are settled.            *)
LEMMA AnonymousKept ==
    ASSUME AnonymousBelowCounter, AnonymousNamesDistinct,
           request' = request, nameOf' = nameOf, next_anon' = next_anon,
           \A d \in Calls : pc[d] # "idle" => pc'[d] # "idle"
    PROVE  AnonymousBelowCounter' /\ AnonymousNamesDistinct'
<1>1. AnonymousNamesDistinct'
  BY DEF AnonymousNamesDistinct
<1>2. ASSUME NEW c \in Calls, request'[c] = Anonymous, nameOf'[c] # NoName
      PROVE  pc'[c] # "idle" /\ \E n \in 1..next_anon' : nameOf'[c] = Anon(n)
  <2>1. request[c] = Anonymous /\ nameOf[c] # NoName
    BY <1>2
  <2>2. pc[c] # "idle" /\ \E n \in 1..next_anon : nameOf[c] = Anon(n)
    BY <2>1 DEF AnonymousBelowCounter
  <2>3. QED  BY <2>2
<1>3. QED  BY <1>1, <1>2 DEF AnonymousBelowCounter

(* Only Commit inserts into `sessions`: every other step keeps PastCommit. *)
LEMMA PastCommitKept ==
    ASSUME TypeOK, PastCommit, sessions' \subseteq sessions,
           \A d \in Calls : pc[d] \in {"committed", "published", "done"} =>
                               pc'[d] \in {"committed", "published", "done"},
           \A i \in 1..Len(tombstones') :
              \/ tombstones'[i] \in sessions
              \/ \E j \in 1..Len(tombstones) : tombstones'[i] = tombstones[j]
    PROVE  PastCommit'
<1>1. \A j \in 1..Len(tombstones) : tombstones[j] \in Calls
  BY DEF TypeOK
<1>2. \A c \in sessions' : pc'[c] \in {"committed", "published", "done"}
  BY DEF PastCommit, TypeOK
<1>3. ASSUME NEW i \in 1..Len(tombstones')
      PROVE  pc'[tombstones'[i]] \in {"committed", "published", "done"}
  <2>1. CASE tombstones'[i] \in sessions
    BY <2>1 DEF PastCommit, TypeOK
  <2>2. CASE \E j \in 1..Len(tombstones) : tombstones'[i] = tombstones[j]
    BY <2>2, <1>1 DEF PastCommit
  <2>3. QED  BY <2>1, <2>2
<1>4. QED  BY <1>2, <1>3 DEF PastCommit

-----------------------------------------------------------------------------
(* An empty registry with no child satisfies the inductive invariant.     *)
LEMMA InitEstablishes == Init => IInv
<1> SUFFICES ASSUME Init PROVE IInv
  OBVIOUS
<1>1. TypeOK
  <2>1. lagged \in BOOLEAN
    BY Zenon DEF Init
  <2>2. QED  BY <2>1, RegistryAssumption DEF Init, TypeOK
<1>2. NameOwnership
  BY OwnersDiffer DEF Init, NameOwnership
<1>3. QED
  BY <1>1, <1>2 DEF Init, IInv, DeadHasReaper, ReapedOnce, PastCommit,
                    AnonymousBelowCounter, AnonymousNamesDistinct

(* A named create either takes a free name or fails on a taken one.       *)
LEMMA ReserveNamedStep ==
    ASSUME IInv, NEW c \in Calls, ReserveNamed(c)
    PROVE  IInv'
<1> USE DEF IInv
<1> DEFINE n == request[c]
<1>1. /\ pc[c] = "idle" /\ request[c] # Anonymous
      /\ tombstones' = Purged(tombstones) /\ due' = 0
      /\ UNCHANGED <<request, next_anon, sessions, child, events, lagged, listed, doomed>>
  BY DEF ReserveNamed, reaper
<1>2. n \in Name
  BY <1>1 DEF TypeOK, Name
<1>3. /\ tombstones' \in Seq(Calls) /\ Len(tombstones') <= TombstoneMax
      /\ \A i \in 1..Len(tombstones') :
            \E j \in 1..Len(tombstones) : tombstones'[i] = tombstones[j]
      /\ \A i, j \in 1..Len(tombstones') : tombstones'[i] = tombstones'[j] => i = j
  BY <1>1, PurgeKeepsTombstones
<1>4. ReapedOnce'
  BY <1>1, <1>3 DEF ReapedOnce
<1>5. due' \in 0..Len(tombstones')
  BY <1>1, <1>3
<1>6. CASE names[n] = Free /\ Reserved(c, n)
  <2>1. /\ NameOwnership'
        /\ pc' \in [Calls -> {"idle", "reserved", "spawned", "committed",
                              "published", "done", "failed"}]
        /\ nameOf' \in [Calls -> Name \cup {NoName}]
        /\ names' \in [Name -> Owner \cup {Free}]
    BY <1>1, <1>2, <1>6, ReserveKeepsOwnership
  <2>2. TypeOK'
    BY <1>1, <1>3, <1>5, <2>1 DEF TypeOK
  <2>3. \A d \in Calls : /\ pc'[d] = IF d = c THEN "reserved" ELSE pc[d]
                         /\ nameOf'[d] = IF d = c THEN n ELSE nameOf[d]
    BY <1>6 DEF Reserved, TypeOK
  <2>4. DeadHasReaper'
    BY <1>1, <2>3 DEF DeadHasReaper, TypeOK
  <2>5. PastCommit'
    BY <1>1, <1>3, <2>3, PastCommitKept
  <2>6. AnonymousBelowCounter' /\ AnonymousNamesDistinct'
    BY <1>1, <2>3 DEF AnonymousBelowCounter, AnonymousNamesDistinct
  <2>7. QED  BY <1>4, <2>1, <2>2, <2>4, <2>5, <2>6
<1>7. CASE /\ names[n] # Free
           /\ pc' = [pc EXCEPT ![c] = "failed"]
           /\ UNCHANGED <<nameOf, names>>
  <2>1. TypeOK'
    BY <1>1, <1>3, <1>5, <1>7 DEF TypeOK
  <2>2. \A d \in Calls : pc'[d] = IF d = c THEN "failed" ELSE pc[d]
    BY <1>7 DEF TypeOK
  <2>3. NameOwnership'
    BY <1>1, <1>7, <2>2, OwnershipKept
  <2>4. DeadHasReaper'
    BY <1>1, <2>2 DEF DeadHasReaper, TypeOK
  <2>5. PastCommit'
    BY <1>1, <1>3, <2>2, PastCommitKept
  <2>6. AnonymousBelowCounter' /\ AnonymousNamesDistinct'
    BY <1>1, <1>7, <2>2, AnonymousKept
  <2>7. QED  BY <1>4, <2>1, <2>3, <2>4, <2>5, <2>6
<1>8. QED  BY <1>6, <1>7 DEF ReserveNamed

(* An anonymous create skips taken numbers and bumps next_anon past its own.*)
LEMMA ReserveAnonymousStep ==
    ASSUME IInv, NEW c \in Calls, ReserveAnonymous(c)
    PROVE  IInv'
<1> USE DEF IInv
<1>1. /\ pc[c] = "idle" /\ request[c] = Anonymous
      /\ tombstones' = Purged(tombstones) /\ due' = 0
      /\ UNCHANGED <<request, sessions, child, events, lagged, listed, doomed>>
  BY DEF ReserveAnonymous, reaper
<1>2. PICK k \in (next_anon + 1)..AnonMax :
         names[Anon(k)] = Free /\ next_anon' = k /\ Reserved(c, Anon(k))
  BY DEF ReserveAnonymous
<1>3. /\ next_anon \in Nat /\ k \in Nat /\ AnonMax \in Nat
      /\ next_anon < k /\ k \in 1..AnonMax /\ k \in 1..next_anon'
  BY <1>2, RegistryAssumption DEF TypeOK
<1>4. Anon(k) \in Name
  BY <1>3 DEF Name
<1>5. /\ tombstones' \in Seq(Calls) /\ Len(tombstones') <= TombstoneMax
      /\ \A i \in 1..Len(tombstones') :
            \E j \in 1..Len(tombstones) : tombstones'[i] = tombstones[j]
      /\ \A i, j \in 1..Len(tombstones') : tombstones'[i] = tombstones'[j] => i = j
  BY <1>1, PurgeKeepsTombstones
<1>6. ReapedOnce'
  BY <1>1, <1>5 DEF ReapedOnce
<1>7. due' \in 0..Len(tombstones')
  BY <1>1, <1>5
<1>8. /\ NameOwnership'
      /\ pc' \in [Calls -> {"idle", "reserved", "spawned", "committed",
                            "published", "done", "failed"}]
      /\ nameOf' \in [Calls -> Name \cup {NoName}]
      /\ names' \in [Name -> Owner \cup {Free}]
  BY <1>1, <1>2, <1>4, ReserveKeepsOwnership
<1>9. TypeOK'
  BY <1>1, <1>2, <1>3, <1>5, <1>7, <1>8 DEF TypeOK
<1>10. \A d \in Calls : /\ pc'[d] = IF d = c THEN "reserved" ELSE pc[d]
                        /\ nameOf'[d] = IF d = c THEN Anon(k) ELSE nameOf[d]
  BY <1>2 DEF Reserved, TypeOK
<1>11. DeadHasReaper'
  BY <1>1, <1>10 DEF DeadHasReaper, TypeOK
<1>12. PastCommit'
  BY <1>1, <1>5, <1>10, PastCommitKept
<1>13. \A d \in Calls : request[d] = Anonymous /\ nameOf[d] # NoName =>
          \E m \in 1..next_anon : nameOf[d] = Anon(m)
  BY DEF AnonymousBelowCounter
<1>14. \A m \in 1..next_anon : Anon(m) # Anon(k)
  BY <1>3 DEF Anon
<1>15. AnonymousBelowCounter'
  <2> SUFFICES ASSUME NEW d \in Calls, request[d] = Anonymous, nameOf'[d] # NoName
               PROVE  /\ pc'[d] # "idle"
                      /\ \E m \in 1..next_anon' : nameOf'[d] = Anon(m)
    BY <1>1 DEF AnonymousBelowCounter
  <2>1. CASE d = c
    BY <2>1, <1>3, <1>10
  <2>2. CASE d # c
    <3>1. PICK m \in 1..next_anon : nameOf[d] = Anon(m)
      BY <2>2, <1>10, <1>13
    <3>2. m \in 1..next_anon'
      BY <1>2, <1>3
    <3>3. QED  BY <2>2, <3>1, <3>2, <1>10 DEF AnonymousBelowCounter
  <2>3. QED  BY <2>1, <2>2
<1>16. AnonymousNamesDistinct'
  BY <1>1, <1>10, <1>13, <1>14 DEF AnonymousNamesDistinct
<1>17. QED  BY <1>6, <1>8, <1>9, <1>11, <1>12, <1>15, <1>16

(* SpawnOk, SpawnFail and ChildExits: no reaping, no event.               *)
LEMMA SpawnOkStep ==
    ASSUME IInv, NEW c \in Calls, SpawnOk(c)
    PROVE  IInv'
<1> USE DEF IInv
<1>1. /\ pc[c] = "reserved"
      /\ pc' = [pc EXCEPT ![c] = "spawned"]
      /\ child' = [child EXCEPT ![c] = "running"]
      /\ UNCHANGED <<request, nameOf, names, next_anon, sessions, tombstones,
                     due, events, lagged, listed, doomed>>
  BY DEF SpawnOk, inner, reaper
<1>2. TypeOK'
  BY <1>1 DEF TypeOK
<1>3. \A d \in Calls : /\ pc'[d] = IF d = c THEN "spawned" ELSE pc[d]
                       /\ child'[d] = IF d = c THEN "running" ELSE child[d]
  BY <1>1 DEF TypeOK
<1>4. NameOwnership'
  BY <1>1, <1>3, OwnershipKept
<1>5. DeadHasReaper'
  BY <1>1, <1>3 DEF DeadHasReaper, TypeOK
<1>6. ReapedOnce' /\ AnonymousNamesDistinct'
  BY <1>1 DEF ReapedOnce, AnonymousNamesDistinct
<1>7. PastCommit'
  BY <1>1, <1>3, PastCommitKept
<1>8. AnonymousBelowCounter'
  BY <1>1, <1>3, AnonymousKept
<1>9. QED  BY <1>2, <1>4, <1>5, <1>6, <1>7, <1>8

(* A failed spawn rolls back its own reservation and nobody else's.       *)
LEMMA SpawnFailStep ==
    ASSUME IInv, NEW c \in Calls, SpawnFail(c)
    PROVE  IInv'
<1> USE DEF IInv
<1>1. nameOf[c] \in Name /\ names[nameOf[c]] = Reservation(c)
  BY DEF SpawnFail, NameOwnership
<1>2. /\ pc[c] = "reserved"
      /\ pc' = [pc EXCEPT ![c] = "failed"]
      /\ names' = [names EXCEPT ![nameOf[c]] = Free]
      /\ UNCHANGED <<request, nameOf, next_anon, sessions, tombstones, due,
                     child, events, lagged, listed, doomed>>
  BY <1>1 DEF SpawnFail, reaper
<1>3. TypeOK'
  BY <1>1, <1>2 DEF TypeOK
<1>4. /\ \A d \in Calls : pc'[d] = IF d = c THEN "failed" ELSE pc[d]
      /\ \A n \in Name : names'[n] = IF n = nameOf[c] THEN Free ELSE names[n]
  BY <1>1, <1>2 DEF TypeOK
<1>5. \A d \in Calls \ {c} :
         (pc[d] \in {"reserved", "spawned"} \/ d \in sessions) => nameOf[d] # nameOf[c]
  BY <1>1, OwnersDiffer DEF NameOwnership
<1>6. c \notin sessions
  BY <1>2 DEF PastCommit
<1>7. NameOwnership'
  <2>1. ASSUME NEW d \in Calls
        PROVE  /\ pc'[d] \in {"reserved", "spawned"} =>
                     nameOf'[d] \in Name /\ names'[nameOf'[d]] = Reservation(d)
               /\ d \in sessions' =>
                     nameOf'[d] \in Name /\ names'[nameOf'[d]] = SessionId(d)
    BY <1>2, <1>4, <1>5, <1>6 DEF NameOwnership
  <2>2. ASSUME NEW n \in Name, NEW d \in Calls
        PROVE  /\ names'[n] = Reservation(d) =>
                     pc'[d] \in {"reserved", "spawned"} /\ nameOf'[d] = n
               /\ names'[n] = SessionId(d) => d \in sessions' /\ nameOf'[d] = n
    BY <1>1, <1>2, <1>4, OwnersDiffer DEF NameOwnership
  <2>3. QED  BY <2>1, <2>2 DEF NameOwnership
<1>8. DeadHasReaper'
  BY <1>2, <1>4 DEF DeadHasReaper, TypeOK
<1>9. ReapedOnce' /\ AnonymousNamesDistinct'
  BY <1>2 DEF ReapedOnce, AnonymousNamesDistinct
<1>10. PastCommit'
  BY <1>2, <1>4, PastCommitKept
<1>11. AnonymousBelowCounter'
  BY <1>2, <1>4, AnonymousKept
<1>12. QED  BY <1>3, <1>7, <1>8, <1>9, <1>10, <1>11

(* Commit turns the reservation into the session's own entry; DeadHasReaper *)
(* survives because the call has not reconciled yet.                      *)
LEMMA CommitStep ==
    ASSUME IInv, NEW c \in Calls, Commit(c)
    PROVE  IInv'
<1> USE DEF IInv
<1>1. /\ pc[c] = "spawned"
      /\ pc' = [pc EXCEPT ![c] = "committed"]
      /\ sessions' = sessions \cup {c}
      /\ names' = [names EXCEPT ![nameOf[c]] = SessionId(c)]
      /\ UNCHANGED <<request, nameOf, next_anon, tombstones, due, child,
                     events, lagged, listed, doomed>>
  BY DEF Commit, reaper
<1>2. nameOf[c] \in Name /\ names[nameOf[c]] = Reservation(c)
  BY <1>1 DEF NameOwnership
<1>3. TypeOK'
  BY <1>1, <1>2, OwnersDiffer DEF TypeOK
<1>4. /\ \A d \in Calls : pc'[d] = IF d = c THEN "committed" ELSE pc[d]
      /\ \A n \in Name : names'[n] = IF n = nameOf[c] THEN SessionId(c) ELSE names[n]
  BY <1>1, <1>2 DEF TypeOK
<1>5. \A d \in Calls \ {c} :
         (pc[d] \in {"reserved", "spawned"} \/ d \in sessions) => nameOf[d] # nameOf[c]
  BY <1>2, OwnersDiffer DEF NameOwnership
<1>6. NameOwnership'
  <2>1. ASSUME NEW d \in Calls
        PROVE  /\ pc'[d] \in {"reserved", "spawned"} =>
                     nameOf'[d] \in Name /\ names'[nameOf'[d]] = Reservation(d)
               /\ d \in sessions' =>
                     nameOf'[d] \in Name /\ names'[nameOf'[d]] = SessionId(d)
    BY <1>1, <1>2, <1>4, <1>5 DEF NameOwnership
  <2>2. ASSUME NEW n \in Name, NEW d \in Calls
        PROVE  /\ names'[n] = Reservation(d) =>
                     pc'[d] \in {"reserved", "spawned"} /\ nameOf'[d] = n
               /\ names'[n] = SessionId(d) => d \in sessions' /\ nameOf'[d] = n
    BY <1>1, <1>2, <1>4, OwnersDiffer DEF NameOwnership
  <2>3. QED  BY <2>1, <2>2 DEF NameOwnership
<1>7. DeadHasReaper'
  BY <1>1, <1>4 DEF DeadHasReaper, TypeOK
<1>8. ReapedOnce'
  BY <1>1 DEF ReapedOnce, PastCommit
<1>9. PastCommit'
  <2>1. \A d \in sessions' : pc'[d] \in {"committed", "published", "done"}
    BY <1>1, <1>4 DEF PastCommit, TypeOK
  <2>2. \A i \in 1..Len(tombstones') : tombstones'[i] \in Calls
    BY <1>3 DEF TypeOK
  <2>3. \A i \in 1..Len(tombstones') :
           pc'[tombstones'[i]] \in {"committed", "published", "done"}
    BY <1>1, <1>4, <2>2 DEF PastCommit
  <2>4. QED  BY <2>1, <2>3 DEF PastCommit
<1>10. AnonymousBelowCounter' /\ AnonymousNamesDistinct'
  BY <1>1, <1>4, AnonymousKept
<1>11. QED  BY <1>3, <1>6, <1>7, <1>8, <1>9, <1>10

(* A step of the child or of the reaper that leaves create and the        *)
(* registry alone disturbs only DeadHasReaper.                            *)
LEMMA RegistryUntouched ==
    ASSUME IInv, request' = request, pc' = pc, nameOf' = nameOf, names' = names,
           next_anon' = next_anon, sessions' = sessions, tombstones' = tombstones
    PROVE  /\ NameOwnership' /\ ReapedOnce' /\ PastCommit'
           /\ AnonymousBelowCounter' /\ AnonymousNamesDistinct'
<1> USE DEF IInv
<1>1. NameOwnership'
  BY OwnershipKept
<1>2. ReapedOnce'
  BY DEF ReapedOnce
<1>3. PastCommit'
  BY DEF PastCommit
<1>4. AnonymousBelowCounter' /\ AnonymousNamesDistinct'
  BY AnonymousKept
<1>5. QED  BY <1>1, <1>2, <1>3, <1>4

(* The session_started event may evict an exit event, which then marks lag.*)
LEMMA PublishStartedStep ==
    ASSUME IInv, NEW c \in Calls, PublishStarted(c)
    PROVE  IInv'
<1> USE DEF IInv
<1>1. /\ pc[c] = "committed"
      /\ pc' = [pc EXCEPT ![c] = "published"]
      /\ Send(Other)
      /\ UNCHANGED <<request, nameOf, names, next_anon, sessions, tombstones,
                     due, child, listed, doomed>>
  BY DEF PublishStarted, inner
<1>2. /\ events' \in Seq(Calls \cup {Other}) /\ Len(events') <= EventCap
      /\ lagged' \in BOOLEAN
      /\ lagged => lagged'
      /\ \A x : InSeq(x, events) => InSeq(x, events') \/ lagged'
  BY <1>1, SendKeepsOrLags
<1>3. TypeOK'
  BY <1>1, <1>2 DEF TypeOK
<1>4. \A d \in Calls : pc'[d] = IF d = c THEN "published" ELSE pc[d]
  BY <1>1 DEF TypeOK
<1>5. NameOwnership'
  BY <1>1, <1>4, OwnershipKept
<1>6. DeadHasReaper'
  BY <1>1, <1>2, <1>4 DEF DeadHasReaper, TypeOK
<1>7. ReapedOnce' /\ AnonymousNamesDistinct'
  BY <1>1 DEF ReapedOnce, AnonymousNamesDistinct
<1>8. PastCommit'
  BY <1>1, <1>4, PastCommitKept
<1>9. AnonymousBelowCounter'
  BY <1>1, <1>4, AnonymousKept
<1>10. QED  BY <1>3, <1>5, <1>6, <1>7, <1>8, <1>9

(* A child that dies has not been announced: its exit event is still to come.*)
LEMMA ChildExitsStep ==
    ASSUME IInv, NEW c \in Calls, ChildExits(c)
    PROVE  IInv'
<1> USE DEF IInv
<1>1. /\ child' = [child EXCEPT ![c] = "dead"]
      /\ UNCHANGED <<request, pc, nameOf, names, next_anon, sessions, tombstones,
                     due, events, lagged, listed, doomed>>
  BY DEF ChildExits, inner, reaper
<1>2. TypeOK'
  BY <1>1 DEF TypeOK
<1>3. DeadHasReaper'
  BY <1>1 DEF DeadHasReaper, TypeOK
<1>4. QED
  BY <1>1, <1>2, <1>3, RegistryUntouched DEF IInv

(* The event of a dead child enters the backlog as alive stays false.     *)
LEMMA AnnounceExitStep ==
    ASSUME IInv, NEW c \in Calls, AnnounceExit(c)
    PROVE  IInv'
<1> USE DEF IInv
<1>1. /\ child' = [child EXCEPT ![c] = "announced"]
      /\ Send(c)
      /\ UNCHANGED <<request, pc, nameOf, names, next_anon, sessions, tombstones,
                     due, listed, doomed>>
  BY DEF AnnounceExit, inner
<1>2. /\ events' \in Seq(Calls \cup {Other}) /\ Len(events') <= EventCap
      /\ lagged' \in BOOLEAN
      /\ InSeq(c, events')
      /\ lagged => lagged'
      /\ \A x : InSeq(x, events) => InSeq(x, events') \/ lagged'
  BY <1>1, SendKeepsOrLags
<1>3. TypeOK'
  BY <1>1, <1>2 DEF TypeOK
<1>4. DeadHasReaper'
  BY <1>1, <1>2 DEF DeadHasReaper, TypeOK
<1>5. QED
  BY <1>1, <1>3, <1>4, RegistryUntouched DEF IInv

(* An unrelated event may make the reaper lag but loses no trigger silently.*)
LEMMA OtherEventStep ==
    ASSUME IInv, OtherEvent
    PROVE  IInv'
<1> USE DEF IInv
<1>1. /\ Send(Other)
      /\ UNCHANGED <<request, pc, nameOf, names, next_anon, sessions, tombstones,
                     due, child, listed, doomed>>
  BY DEF OtherEvent, inner
<1>2. /\ events' \in Seq(Calls \cup {Other}) /\ Len(events') <= EventCap
      /\ lagged' \in BOOLEAN
      /\ lagged => lagged'
      /\ \A x : InSeq(x, events) => InSeq(x, events') \/ lagged'
  BY <1>1, SendKeepsOrLags
<1>3. TypeOK'
  BY <1>1, <1>2 DEF TypeOK
<1>4. DeadHasReaper'
  BY <1>1, <1>2 DEF DeadHasReaper
<1>5. QED
  BY <1>1, <1>3, <1>4, RegistryUntouched DEF IInv

-----------------------------------------------------------------------------
(* Everything but DeadHasReaper survives a reap, whoever calls it.        *)
LEMMA ReapKeepsRegistry ==
    ASSUME IInv, NEW c \in Calls, Reap(c),
           request' = request, nameOf' = nameOf, next_anon' = next_anon,
           \A d \in Calls : \/ pc'[d] = pc[d]
                            \/ pc[d] = "published" /\ pc'[d] = "done"
    PROVE  /\ NameOwnership' /\ ReapedOnce' /\ PastCommit'
           /\ AnonymousBelowCounter' /\ AnonymousNamesDistinct'
<1> USE DEF IInv
<1>1. /\ sessions' = sessions \ {c}
      /\ \A i \in 1..Len(tombstones') :
            \/ c \in sessions /\ tombstones'[i] = c
            \/ \E j \in 1..Len(tombstones) : tombstones'[i] = tombstones[j]
      /\ \A i, j \in 1..Len(tombstones') : tombstones'[i] = tombstones'[j] => i = j
  BY ReapEffect
<1>2. NameOwnership'
  BY ReapKeepsOwnership
<1>3. ReapedOnce'
  BY <1>1 DEF ReapedOnce
<1>4. PastCommit'
  BY <1>1, PastCommitKept
<1>5. AnonymousBelowCounter' /\ AnonymousNamesDistinct'
  BY AnonymousKept
<1>6. QED  BY <1>2, <1>3, <1>4, <1>5

(* The last step of create reaps a child that died before the commit.     *)
LEMMA ReconcileStep ==
    ASSUME IInv, NEW c \in Calls, Reconcile(c)
    PROVE  IInv'
<1> USE DEF IInv
<1>1. /\ pc[c] = "published"
      /\ pc' = [pc EXCEPT ![c] = "done"]
      /\ UNCHANGED <<request, nameOf, next_anon, child, events, lagged, listed,
                     doomed>>
  BY DEF Reconcile, reaper
<1>2. \A d \in Calls : pc'[d] = IF d = c THEN "done" ELSE pc[d]
  BY <1>1 DEF TypeOK
<1>3. CASE child[c] # "running"
  <2>1. Reap(c)
    BY <1>3 DEF Reconcile
  <2>2. /\ sessions' = sessions \ {c}
        /\ names' \in [Name -> Owner \cup {Free}]
        /\ tombstones' \in Seq(Calls) /\ Len(tombstones') <= TombstoneMax
        /\ due' \in 0..Len(tombstones')
    BY <2>1, ReapEffect
  <2>3. TypeOK'
    BY <1>1, <2>2 DEF TypeOK
  <2>4. DeadHasReaper'
    BY <1>1, <1>2, <2>2 DEF DeadHasReaper, TypeOK
  <2>5. /\ NameOwnership' /\ ReapedOnce' /\ PastCommit'
        /\ AnonymousBelowCounter' /\ AnonymousNamesDistinct'
    BY <1>1, <1>2, <2>1, ReapKeepsRegistry
  <2>6. QED  BY <2>3, <2>4, <2>5
<1>4. CASE child[c] = "running"
  <2>1. UNCHANGED <<sessions, names, tombstones, due>>
    BY <1>4 DEF Reconcile
  <2>2. TypeOK'
    BY <1>1, <2>1 DEF TypeOK
  <2>3. NameOwnership'
    BY <1>1, <1>2, <2>1, OwnershipKept
  <2>4. DeadHasReaper'
    BY <1>1, <1>2, <1>4, <2>1 DEF DeadHasReaper, TypeOK
  <2>5. ReapedOnce' /\ AnonymousNamesDistinct'
    BY <1>1, <2>1 DEF ReapedOnce, AnonymousNamesDistinct
  <2>6. PastCommit'
    BY <1>1, <1>2, <2>1, PastCommitKept
  <2>7. AnonymousBelowCounter'
    BY <1>1, <1>2, AnonymousKept
  <2>8. QED  BY <2>2, <2>3, <2>4, <2>5, <2>6, <2>7
<1>5. QED  BY <1>3, <1>4

(* The reaper consumes one event; every other session keeps its trigger.  *)
LEMMA ReaperRecvStep ==
    ASSUME IInv, ReaperRecv
    PROVE  IInv'
<1> USE DEF IInv
<1>1. /\ events # <<>> /\ events' = Tail(events)
      /\ UNCHANGED <<request, pc, nameOf, next_anon, child, lagged, listed, doomed>>
  BY DEF ReaperRecv
<1>2. /\ events \in Seq(Calls \cup {Other})
      /\ events' \in Seq(Calls \cup {Other})
      /\ Len(events') = Len(events) - 1
      /\ \A i \in 1..Len(events') : events'[i] = events[i + 1]
      /\ Head(events) = events[1] /\ Head(events) \in Calls \cup {Other}
  BY <1>1 DEF TypeOK
<1>3. Len(events') <= EventCap
  BY <1>2, RegistryAssumption DEF TypeOK
<1>4. \A x : InSeq(x, events) /\ x # Head(events) => InSeq(x, events')
  <2> SUFFICES ASSUME NEW x, NEW i \in 1..Len(events), events[i] = x, x # events[1]
               PROVE  \E j \in 1..Len(events') : events'[j] = x
    BY <1>2 DEF InSeq
  <2>1. i - 1 \in 1..Len(events') /\ (i - 1) + 1 = i
    BY <1>2
  <2>2. QED  BY <2>1, <1>2
<1>5. CASE Head(events) \in Calls
  <2> DEFINE c == Head(events)
  <2>1. Reap(c)
    BY <1>5 DEF ReaperRecv
  <2>2. /\ sessions' = sessions \ {c}
        /\ names' \in [Name -> Owner \cup {Free}]
        /\ tombstones' \in Seq(Calls) /\ Len(tombstones') <= TombstoneMax
        /\ due' \in 0..Len(tombstones')
    BY <1>5, <2>1, ReapEffect
  <2>3. TypeOK'
    BY <1>1, <1>2, <1>3, <2>2 DEF TypeOK
  <2>4. DeadHasReaper'
    BY <1>1, <1>4, <2>2 DEF DeadHasReaper
  <2>5. /\ NameOwnership' /\ ReapedOnce' /\ PastCommit'
        /\ AnonymousBelowCounter' /\ AnonymousNamesDistinct'
    BY <1>1, <1>5, <2>1, ReapKeepsRegistry
  <2>6. QED  BY <2>3, <2>4, <2>5
<1>6. CASE Head(events) \notin Calls
  <2>1. UNCHANGED <<sessions, names, tombstones, due>>
    BY <1>6 DEF ReaperRecv
  <2>2. TypeOK'
    BY <1>1, <1>2, <1>3, <2>1 DEF TypeOK
  <2>3. DeadHasReaper'
    BY <1>1, <1>4, <1>6, <2>1 DEF DeadHasReaper, TypeOK
  <2>4. QED
    BY <1>1, <2>1, <2>2, <2>3, RegistryUntouched DEF IInv
<1>7. QED  BY <1>5, <1>6

(* A lagged reaper lists every session, so each dead one is swept.        *)
LEMMA ReaperLaggedStep ==
    ASSUME IInv, ReaperLagged
    PROVE  IInv'
<1> USE DEF IInv
<1>1. /\ lagged' = FALSE /\ listed' = sessions
      /\ UNCHANGED <<request, pc, nameOf, names, next_anon, sessions, tombstones,
                     due, child, events, doomed>>
  BY DEF ReaperLagged, inner
<1>2. lagged' \in BOOLEAN
  BY <1>1, Zenon
<1>3. TypeOK'
  BY <1>1, <1>2 DEF TypeOK
<1>4. DeadHasReaper'
  BY <1>1 DEF DeadHasReaper
<1>5. QED
  BY <1>1, <1>3, <1>4, RegistryUntouched DEF IInv

(* The sweep tests one listed session and dooms it when it is dead.       *)
LEMMA SweepTestStep ==
    ASSUME IInv, NEW c \in Calls, SweepTest(c)
    PROVE  IInv'
<1> USE DEF IInv
<1>1. /\ listed' = listed \ {c}
      /\ doomed' = IF child[c] # "running" THEN doomed \cup {c} ELSE doomed
      /\ UNCHANGED <<request, pc, nameOf, names, next_anon, sessions, tombstones,
                     due, child, events, lagged>>
  BY DEF SweepTest, inner
<1>2. TypeOK'
  BY <1>1 DEF TypeOK
<1>3. DeadHasReaper'
  BY <1>1 DEF DeadHasReaper
<1>4. QED
  BY <1>1, <1>2, <1>3, RegistryUntouched DEF IInv

(* Reaping a doomed session leaves the other doomed ones doomed.          *)
LEMMA SweepReapStep ==
    ASSUME IInv, NEW c \in Calls, SweepReap(c)
    PROVE  IInv'
<1> USE DEF IInv
<1>1. /\ doomed' = doomed \ {c}
      /\ Reap(c)
      /\ UNCHANGED <<request, pc, nameOf, next_anon, child, events, lagged, listed>>
  BY DEF SweepReap
<1>2. /\ sessions' = sessions \ {c}
      /\ names' \in [Name -> Owner \cup {Free}]
      /\ tombstones' \in Seq(Calls) /\ Len(tombstones') <= TombstoneMax
      /\ due' \in 0..Len(tombstones')
  BY <1>1, ReapEffect
<1>3. TypeOK'
  BY <1>1, <1>2 DEF TypeOK
<1>4. DeadHasReaper'
  BY <1>1, <1>2 DEF DeadHasReaper
<1>5. /\ NameOwnership' /\ ReapedOnce' /\ PastCommit'
      /\ AnonymousBelowCounter' /\ AnonymousNamesDistinct'
  BY <1>1, ReapKeepsRegistry
<1>6. QED  BY <1>3, <1>4, <1>5

(* Expiry and purging touch only tombstones and never a registered name.  *)
LEMMA TombstoneStep ==
    ASSUME IInv, TombstoneExpires \/ Purge
    PROVE  IInv'
<1> USE DEF IInv
<1>1. UNCHANGED <<request, pc, nameOf, names, next_anon, sessions, child, events,
                  lagged, listed, doomed>>
  BY DEF TombstoneExpires, Purge, reaper
<1>2. /\ tombstones' \in Seq(Calls) /\ Len(tombstones') <= TombstoneMax
      /\ due' \in 0..Len(tombstones')
      /\ \A i \in 1..Len(tombstones') :
            \E j \in 1..Len(tombstones) : tombstones'[i] = tombstones[j]
      /\ \A i, j \in 1..Len(tombstones') : tombstones'[i] = tombstones'[j] => i = j
  <2>1. CASE TombstoneExpires
    BY <2>1 DEF TombstoneExpires, TypeOK, ReapedOnce
  <2>2. CASE Purge
    <3>1. tombstones' = Purged(tombstones) /\ due' = 0
      BY <2>2 DEF Purge
    <3>2. QED  BY <3>1, PurgeKeepsTombstones
  <2>3. QED  BY <2>1, <2>2
<1>3. TypeOK'
  BY <1>1, <1>2 DEF TypeOK
<1>4. ReapedOnce'
  BY <1>1, <1>2 DEF ReapedOnce
<1>5. PastCommit'
  BY <1>1, <1>2, PastCommitKept
<1>6. QED
  BY <1>1, <1>3, <1>4, <1>5 DEF NameOwnership, DeadHasReaper,
                                AnonymousBelowCounter, AnonymousNamesDistinct

-----------------------------------------------------------------------------
(* Every step of the registry preserves the inductive invariant.          *)
LEMMA NextPreserves == IInv /\ [Next]_vars => IInv'
<1> SUFFICES ASSUME IInv, [Next]_vars PROVE IInv'
  OBVIOUS
<1>1. ASSUME NEW c \in Calls, Create(c) PROVE IInv'
  BY <1>1, ReserveNamedStep, ReserveAnonymousStep, SpawnOkStep, SpawnFailStep,
     CommitStep, PublishStartedStep, ReconcileStep DEF Create
<1>2. ASSUME NEW c \in Calls, ChildExits(c) \/ AnnounceExit(c) PROVE IInv'
  BY <1>2, ChildExitsStep, AnnounceExitStep
<1>3. CASE ReaperTask
  BY <1>3, ReaperRecvStep, ReaperLaggedStep, SweepTestStep, SweepReapStep
     DEF ReaperTask
<1>4. CASE OtherEvent
  BY <1>4, OtherEventStep
<1>5. CASE TombstoneExpires \/ Purge
  BY <1>5, TombstoneStep
<1>6. CASE UNCHANGED vars
  <2>1. TypeOK'
    BY <1>6 DEF IInv, vars, TypeOK
  <2>2. DeadHasReaper'
    BY <1>6 DEF IInv, vars, DeadHasReaper
  <2>3. QED  BY <1>6, <2>1, <2>2, RegistryUntouched DEF IInv, vars
<1>7. QED  BY <1>1, <1>2, <1>3, <1>4, <1>5, <1>6 DEF Next

(* The strengthened invariant holds in every reachable state.             *)
THEOREM RegistryInvariant == Spec => []IInv
<1>1. Init => IInv  BY InitEstablishes
<1>2. IInv /\ [Next]_vars => IInv'  BY NextPreserves
<1>3. QED  BY <1>1, <1>2, PTL DEF Spec

(* The registry's variables keep their types and the tombstones their cap *)
(* through every create, reap and purge.                                  *)
THEOREM RegistryTypeCorrect == Spec => []TypeOK
<1>1. IInv => TypeOK  BY DEF IInv
<1>2. QED  BY <1>1, RegistryInvariant, PTL

(* create and reap never share or leak a name, for any number of          *)
(* concurrent calls.                                                      *)
THEOREM NamesAreOwned == Spec => []NameOwnership
<1>1. IInv => NameOwnership  BY DEF IInv
<1>2. QED  BY <1>1, RegistryInvariant, PTL

(* However lossy the broadcast, a dead session always has a reap coming.  *)
THEOREM DeadSessionsHaveReaper == Spec => []DeadHasReaper
<1>1. IInv => DeadHasReaper  BY DEF IInv
<1>2. QED  BY <1>1, RegistryInvariant, PTL

(* Repeated reaps of one exit leave one tombstone and no live entry.      *)
THEOREM SessionsReapedOnce == Spec => []ReapedOnce
<1>1. IInv => ReapedOnce  BY DEF IInv
<1>2. QED  BY <1>1, RegistryInvariant, PTL

(* resolve_name never generates the same session-N twice.                 *)
THEOREM GeneratedNamesDistinct == Spec => []AnonymousNamesDistinct
<1>1. IInv => AnonymousNamesDistinct  BY DEF IInv
<1>2. QED  BY <1>1, RegistryInvariant, PTL

(* A session leaves the registry only by becoming the newest tombstone.   *)
THEOREM ReapedSessionsReachable == Spec => ReapedStaysReachable
<1> DEFINE Kept == \A c \in Calls : c \in sessions /\ c \notin sessions' =>
                      tombstones' # <<>> /\ tombstones'[Len(tombstones')] = c
<1>1. ASSUME IInv, Next PROVE Kept
  <2>1. ASSUME NEW c \in Calls, Reap(c) PROVE Kept
    BY <1>1, <2>1, ReapEffect DEF IInv
  <2>2. ASSUME sessions \subseteq sessions' PROVE Kept
    BY <2>2
  <2>3. ASSUME NEW c \in Calls, Create(c) PROVE Kept
    BY <2>1, <2>2, <2>3 DEF Create, ReserveNamed, ReserveAnonymous, SpawnOk,
       SpawnFail, Commit, PublishStarted, Reconcile, inner
  <2>4. ASSUME ReaperTask PROVE Kept
    <3>1. CASE ReaperRecv
      BY <2>1, <2>2, <3>1 DEF ReaperRecv
    <3>2. QED
      BY <2>1, <2>2, <2>4, <3>1 DEF ReaperTask, ReaperLagged, SweepTest, SweepReap,
         inner
  <2>5. ASSUME ~ReaperTask, \A c \in Calls : ~Create(c) PROVE Kept
    BY <1>1, <2>2, <2>5 DEF Next, ChildExits, AnnounceExit, OtherEvent,
       TombstoneExpires, Purge, inner
  <2>6. QED  BY <2>3, <2>4, <2>5
<1>2. IInv /\ [Next]_vars => [Kept]_vars
  BY <1>1
<1>3. QED  BY <1>2, RegistryInvariant, PTL DEF Spec, ReapedStaysReachable
=============================================================================
