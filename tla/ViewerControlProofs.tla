------------------------- MODULE ViewerControlProofs -------------------------
(***************************************************************************)
(* One viewer owns a session's terminal (ViewerControl), for any set of    *)
(* viewers.  The steps are functions of one state record, so the lemmas    *)
(* first say what each of these functions does to the record, then what it *)
(* does to ownership; an action's proof follows its composition.           *)
(***************************************************************************)
EXTENDS ViewerControl, TLAPS

(* How far an attach is, and what becomes of a socket.                     *)
Phases == {"none", "new", "list", "attaching", "live", "draining"}
Socks == {"new", "open", "closing", "gone"}
(* The states of one session's terminal.                                   *)
Entry == [alive : BOOLEAN, viewer : BOOLEAN, pending : Viewers \cup {None}, phase : Phases]
State == [cur : Viewers \cup {None}, ent : [Viewers -> Entry], sock : [Viewers -> Socks]]

Waits == [Viewers -> Viewers \cup {None}]

(* Types of the variables.                                                 *)
TypeOK == Now \in State /\ waits \in Waits /\ stranded \in BOOLEAN

(* What every handler keeps as long as no attach has found the session gone*)
(* under another viewer: the live entry is the one activePtySessions holds,*)
(* it has its viewer, whose socket is not gone and waits for nobody; who   *)
(* waits on an open socket is the pending viewer of a live entry, and a    *)
(* pending viewer waits for the entry that names it.                       *)
Owned(x, wt) ==
    /\ \A v \in Viewers : x.ent[v].alive <=> x.cur = v
    /\ \A v \in Viewers : x.ent[v].alive =>
          x.ent[v].viewer /\ wt[v] = None /\ x.sock[v] \in {"open", "closing"}
    /\ \A v \in Viewers : x.sock[v] = "open" /\ wt[v] # None =>
          x.ent[wt[v]].alive /\ x.ent[wt[v]].pending = v
    /\ \A v \in Viewers : x.ent[v].pending # None =>
          x.ent[v].alive /\ wt[x.ent[v].pending] = v
    /\ \A v \in Viewers : x.sock[v] = "new" => wt[v] = None

(* The inductive invariant: the types, and Owned unless stranded.          *)
IInv == TypeOK /\ (~stranded => Owned(Now, waits))

-----------------------------------------------------------------------------
(* Closing a socket: an open one starts to close, nothing else changes.    *)
LEMMA CloseWsFacts ==
    ASSUME NEW x \in State, NEW v \in Viewers \cup {None}
    PROVE  /\ CloseWs(x, v) \in State
           /\ CloseWs(x, v).cur = x.cur
           /\ CloseWs(x, v).ent = x.ent
           /\ \A w \in Viewers : CloseWs(x, v).sock[w] =
                 IF w = v /\ x.sock[w] = "open" /\ v # None THEN "closing" ELSE x.sock[w]
  BY DEF CloseWs, State, Socks

(* Replacing one entry.                                                    *)
LEMMA SetEntry ==
    ASSUME NEW x \in State, NEW e \in Viewers, NEW n \in Entry
    PROVE  /\ [x EXCEPT !.ent[e] = n] \in State
           /\ [x EXCEPT !.ent[e] = n].cur = x.cur
           /\ [x EXCEPT !.ent[e] = n].sock = x.sock
           /\ \A w \in Viewers : [x EXCEPT !.ent[e] = n].ent[w] = IF w = e THEN n ELSE x.ent[w]
  BY DEF State

(* An entry that ended is not alive and keeps its viewers.                 *)
LEMMA EndedFacts ==
    ASSUME NEW n \in Entry
    PROVE  /\ Ended(n) \in Entry
           /\ ~Ended(n).alive /\ Ended(n).viewer = n.viewer /\ Ended(n).pending = n.pending
  BY Zenon DEF Ended, Entry, Phases

(* Dies ends one entry and leaves sockets and viewers alone.               *)
LEMMA DiesFacts ==
    ASSUME NEW x \in State, NEW e \in Viewers
    PROVE  /\ Dies(x, e) \in State
           /\ Dies(x, e).cur = x.cur
           /\ Dies(x, e).sock = x.sock
           /\ \A w \in Viewers :
                 /\ Dies(x, e).ent[w].alive <=> w # e /\ x.ent[w].alive
                 /\ Dies(x, e).ent[w].viewer = x.ent[w].viewer
                 /\ Dies(x, e).ent[w].pending = x.ent[w].pending
  <1>1. x.ent[e] \in Entry
    BY DEF State
  <1>2. Ended(x.ent[e]) \in Entry
    BY <1>1, EndedFacts
  <1>3. Dies(x, e) = [x EXCEPT !.ent[e] = Ended(x.ent[e])]
    BY DEF Dies
  <1> QED
    BY <1>1, <1>2, <1>3, SetEntry, EndedFacts

(* Closing an entry's viewer.                                              *)
LEMMA CloseViewerFacts ==
    ASSUME None \notin Viewers, NEW x \in State, NEW e \in Viewers
    PROVE  /\ CloseViewer(x, e) \in State
           /\ CloseViewer(x, e).cur = x.cur
           /\ \A w \in Viewers :
                 /\ CloseViewer(x, e).sock[w] =
                       IF w = e /\ x.ent[e].viewer /\ x.sock[w] = "open" THEN "closing" ELSE x.sock[w]
                 /\ CloseViewer(x, e).ent[w].alive <=> x.ent[w].alive
                 /\ CloseViewer(x, e).ent[w].viewer <=> w # e /\ x.ent[w].viewer
                 /\ CloseViewer(x, e).ent[w].pending = x.ent[w].pending
  <1> DEFINE n == [x.ent[e] EXCEPT !.viewer = FALSE]
             y == [x EXCEPT !.ent[e] = n]
  <1>1. x.ent[e] \in Entry
    BY DEF State
  <1>2. n \in Entry /\ n.alive = x.ent[e].alive /\ ~n.viewer /\ n.pending = x.ent[e].pending
    BY <1>1, Zenon DEF Entry
  <1>3. /\ y \in State /\ y.cur = x.cur /\ y.sock = x.sock
        /\ \A w \in Viewers : y.ent[w] = IF w = e THEN n ELSE x.ent[w]
    <2> HIDE DEF n
    <2> QED BY <1>2, SetEntry
  <1>4. [x EXCEPT !.ent[e].viewer = FALSE] = y
    OBVIOUS
  <1>5. CloseViewer(x, e) = IF x.ent[e].viewer THEN CloseWs(y, e) ELSE x
    BY <1>4 DEF CloseViewer
  <1> HIDE DEF y, n
  <1>6. CASE x.ent[e].viewer
    <2>1. /\ CloseWs(y, e) \in State /\ CloseWs(y, e).cur = y.cur /\ CloseWs(y, e).ent = y.ent
          /\ \A w \in Viewers : CloseWs(y, e).sock[w] =
                IF w = e /\ y.sock[w] = "open" THEN "closing" ELSE y.sock[w]
      BY <1>3, CloseWsFacts, Zenon
    <2> QED
      BY <1>2, <1>3, <1>5, <1>6, <2>1
  <1>7. CASE ~x.ent[e].viewer
    BY <1>5, <1>7
  <1> QED
    BY <1>6, <1>7

(* Closing an entry's pending viewer.                                      *)
LEMMA ClosePendingFacts ==
    ASSUME None \notin Viewers, NEW x \in State, NEW e \in Viewers
    PROVE  /\ ClosePending(x, e) \in State
           /\ ClosePending(x, e).cur = x.cur
           /\ \A w \in Viewers :
                 /\ ClosePending(x, e).sock[w] =
                       IF w = x.ent[e].pending /\ x.sock[w] = "open" THEN "closing" ELSE x.sock[w]
                 /\ ClosePending(x, e).ent[w].alive <=> x.ent[w].alive
                 /\ ClosePending(x, e).ent[w].viewer <=> x.ent[w].viewer
                 /\ ClosePending(x, e).ent[w].pending = IF w = e THEN None ELSE x.ent[w].pending
  <1> DEFINE y == CloseWs(x, x.ent[e].pending)
             n == [y.ent[e] EXCEPT !.pending = None]
  <1>1. x.ent[e] \in Entry /\ x.ent[e].pending \in Viewers \cup {None}
    BY DEF State, Entry
  <1>2. /\ y \in State /\ y.cur = x.cur /\ y.ent = x.ent
        /\ \A w \in Viewers : y.sock[w] =
              IF w = x.ent[e].pending /\ x.sock[w] = "open" THEN "closing" ELSE x.sock[w]
    BY <1>1, CloseWsFacts, Zenon
  <1>3. ClosePending(x, e) = [y EXCEPT !.ent[e] = n]
    BY DEF ClosePending
  <1>4. n \in Entry /\ n.alive = x.ent[e].alive /\ n.viewer = x.ent[e].viewer /\ n.pending = None
    <2> HIDE DEF y
    <2> QED BY <1>1, <1>2 DEF Entry
  <1> HIDE DEF y, n
  <1> QED
    BY <1>2, <1>3, <1>4, SetEntry

(* teardownPty ends the current entry, closes its two viewers and empties  *)
(* activePtySessions.                                                      *)
LEMMA TeardownFacts ==
    ASSUME None \notin Viewers, NEW x \in State
    PROVE  /\ teardownPty(x) \in State
           /\ teardownPty(x).cur = None
           /\ \A w \in Viewers :
                 /\ teardownPty(x).sock[w] =
                       IF /\ x.cur # None /\ x.sock[w] = "open"
                          /\ (w = x.cur /\ x.ent[w].viewer) \/ w = x.ent[x.cur].pending
                       THEN "closing" ELSE x.sock[w]
                 /\ teardownPty(x).ent[w].alive <=> w # x.cur /\ x.ent[w].alive
                 /\ teardownPty(x).ent[w].viewer <=> w # x.cur /\ x.ent[w].viewer
                 /\ teardownPty(x).ent[w].pending = IF w = x.cur THEN None ELSE x.ent[w].pending
  <1>1. CASE x.cur = None
    BY <1>1 DEF teardownPty
  <1>2. CASE x.cur # None
    <2> DEFINE e == x.cur
               a == Dies(x, e)
               b == CloseViewer(a, e)
               c == ClosePending(b, e)
    <2>1. e \in Viewers
      BY <1>2 DEF State
    <2>2. /\ a \in State /\ a.cur = x.cur /\ a.sock = x.sock
          /\ \A w \in Viewers : /\ a.ent[w].alive <=> w # e /\ x.ent[w].alive
                                /\ a.ent[w].viewer = x.ent[w].viewer
                                /\ a.ent[w].pending = x.ent[w].pending
      BY <2>1, DiesFacts
    <2>3. /\ b \in State /\ b.cur = x.cur
          /\ \A w \in Viewers :
                /\ b.sock[w] = IF w = e /\ x.ent[e].viewer /\ x.sock[w] = "open"
                               THEN "closing" ELSE x.sock[w]
                /\ b.ent[w].alive <=> w # e /\ x.ent[w].alive
                /\ b.ent[w].viewer <=> w # e /\ x.ent[w].viewer
                /\ b.ent[w].pending = x.ent[w].pending
      <3> HIDE DEF a, e
      <3> QED BY <2>1, <2>2, CloseViewerFacts
    <2>4. /\ c \in State
          /\ \A w \in Viewers :
                /\ c.sock[w] = IF w = b.ent[e].pending /\ b.sock[w] = "open" THEN "closing" ELSE b.sock[w]
                /\ c.ent[w].alive <=> b.ent[w].alive
                /\ c.ent[w].viewer <=> b.ent[w].viewer
                /\ c.ent[w].pending = IF w = e THEN None ELSE b.ent[w].pending
      <3> HIDE DEF b, e
      <3> QED BY <2>1, <2>3, ClosePendingFacts
    <2>5. teardownPty(x) = [c EXCEPT !.cur = None]
      BY <1>2 DEF teardownPty
    <2> HIDE DEF c
    <2>6. /\ teardownPty(x) \in State /\ teardownPty(x).cur = None
          /\ teardownPty(x).sock = c.sock /\ teardownPty(x).ent = c.ent
      BY <2>4, <2>5 DEF State
    <2> HIDE DEF b, a
    <2> QED
      BY <1>2, <2>1, <2>3, <2>4, <2>6
  <1> QED
    BY <1>1, <1>2

(* Updates of one field.                                                   *)
LEMMA SetCurFacts ==
    ASSUME NEW x \in State, NEW c \in Viewers \cup {None}
    PROVE  /\ [x EXCEPT !.cur = c] \in State
           /\ [x EXCEPT !.cur = c].cur = c
           /\ [x EXCEPT !.cur = c].ent = x.ent
           /\ [x EXCEPT !.cur = c].sock = x.sock
  BY DEF State

LEMMA SetSockFacts ==
    ASSUME NEW x \in State, NEW v \in Viewers, NEW s \in Socks
    PROVE  /\ [x EXCEPT !.sock[v] = s] \in State
           /\ [x EXCEPT !.sock[v] = s].cur = x.cur
           /\ [x EXCEPT !.sock[v] = s].ent = x.ent
           /\ \A w \in Viewers : [x EXCEPT !.sock[v] = s].sock[w] = IF w = v THEN s ELSE x.sock[w]
  BY DEF State

LEMMA SetPendingFacts ==
    ASSUME NEW x \in State, NEW e \in Viewers, NEW p \in Viewers \cup {None}
    PROVE  LET y == [x EXCEPT !.ent[e].pending = p]
           IN  /\ y \in State /\ y.cur = x.cur /\ y.sock = x.sock
               /\ \A w \in Viewers :
                     /\ y.ent[w].alive <=> x.ent[w].alive
                     /\ y.ent[w].viewer <=> x.ent[w].viewer
                     /\ y.ent[w].pending = IF w = e THEN p ELSE x.ent[w].pending
  <1> DEFINE n == [x.ent[e] EXCEPT !.pending = p]
  <1>1. x.ent[e] \in Entry
    BY DEF State
  <1>2. n \in Entry /\ n.alive = x.ent[e].alive /\ n.viewer = x.ent[e].viewer /\ n.pending = p
    BY <1>1 DEF Entry
  <1>3. [x EXCEPT !.ent[e].pending = p] = [x EXCEPT !.ent[e] = n]
    OBVIOUS
  <1> HIDE DEF n
  <1> QED
    BY <1>2, <1>3, SetEntry

LEMMA DropViewerFacts ==
    ASSUME NEW x \in State, NEW e \in Viewers
    PROVE  LET y == [x EXCEPT !.ent[e].viewer = FALSE]
           IN  /\ y \in State /\ y.cur = x.cur /\ y.sock = x.sock
               /\ \A w \in Viewers :
                     /\ y.ent[w].alive <=> x.ent[w].alive
                     /\ y.ent[w].pending = x.ent[w].pending
  <1> DEFINE n == [x.ent[e] EXCEPT !.viewer = FALSE]
  <1>1. x.ent[e] \in Entry
    BY DEF State
  <1>2. n \in Entry /\ n.alive = x.ent[e].alive /\ n.pending = x.ent[e].pending
    BY <1>1, Zenon DEF Entry
  <1>3. [x EXCEPT !.ent[e].viewer = FALSE] = [x EXCEPT !.ent[e] = n]
    OBVIOUS
  <1> HIDE DEF n
  <1> QED
    BY <1>2, <1>3, SetEntry

(* Two states that differ at most in how far the attaches are.             *)
SameOwner(x, y) ==
    /\ y \in State /\ y.cur = x.cur /\ y.sock = x.sock
    /\ \A w \in Viewers : /\ y.ent[w].alive <=> x.ent[w].alive
                          /\ y.ent[w].viewer <=> x.ent[w].viewer
                          /\ y.ent[w].pending = x.ent[w].pending

LEMMA SetPhaseFacts ==
    ASSUME NEW x \in State, NEW e \in Viewers, NEW p \in Phases
    PROVE  SameOwner(x, [x EXCEPT !.ent[e].phase = p])
  <1> DEFINE n == [x.ent[e] EXCEPT !.phase = p]
  <1>1. x.ent[e] \in Entry
    BY DEF State
  <1>2. n \in Entry /\ n.alive = x.ent[e].alive /\ n.viewer = x.ent[e].viewer /\ n.pending = x.ent[e].pending
    BY <1>1 DEF Entry
  <1>3. [x EXCEPT !.ent[e].phase = p] = [x EXCEPT !.ent[e] = n]
    OBVIOUS
  <1> HIDE DEF n
  <1> QED
    BY <1>2, <1>3, SetEntry DEF SameOwner

LEMMA BeginAttachFacts ==
    ASSUME NEW x \in State, NEW e \in Viewers, NEW known \in BOOLEAN
    PROVE  SameOwner(x, beginAttach(x, e, known))
  <1> DEFINE p == IF x.ent[e].phase # "new" THEN x.ent[e].phase ELSE IF known THEN "attaching" ELSE "list"
  <1>1. p \in Phases
    BY DEF State, Entry, Phases
  <1>2. beginAttach(x, e, known) = [x EXCEPT !.ent[e].phase = p]
    BY DEF beginAttach
  <1> HIDE DEF p
  <1> QED
    BY <1>1, <1>2, SetPhaseFacts

(* setupNewPtyEntry makes the viewer's entry the current one, or closes the*)
(* viewer when there is no backend.                                        *)
LEMMA SetupFacts ==
    ASSUME None \notin Viewers, NEW x \in State, NEW v \in Viewers, NEW backend \in BOOLEAN
    PROVE  LET y == setupNewPtyEntry(x, v, backend)
           IN  /\ y \in State
               /\ y.cur = IF backend THEN v ELSE None
               /\ \A w \in Viewers :
                    /\ y.sock[w] = IF ~backend /\ w = v /\ x.sock[w] = "open" THEN "closing" ELSE x.sock[w]
                    /\ y.ent[w].alive <=> (x.ent[w].alive \/ (backend /\ w = v))
                    /\ y.ent[w].viewer <=> (x.ent[w].viewer \/ (backend /\ w = v))
                    /\ y.ent[w].pending = IF backend /\ w = v THEN None ELSE x.ent[w].pending
  <1>1. CASE ~backend
    <2> DEFINE c == CloseWs(x, v)
    <2>1. /\ c \in State /\ c.ent = x.ent
          /\ \A w \in Viewers : c.sock[w] = IF w = v /\ x.sock[w] = "open" THEN "closing" ELSE x.sock[w]
      BY CloseWsFacts
    <2>2. setupNewPtyEntry(x, v, backend) = [c EXCEPT !.cur = None]
      BY <1>1 DEF setupNewPtyEntry
    <2> HIDE DEF c
    <2> QED
      BY <1>1, <2>1, <2>2, SetCurFacts
  <1>2. CASE backend
    <2> DEFINE n == [alive |-> TRUE, viewer |-> TRUE, pending |-> None, phase |-> "new"]
               c == [x EXCEPT !.cur = v]
    <2>1. n \in Entry /\ n.alive /\ n.viewer /\ n.pending = None
      BY DEF Entry, Phases
    <2>2. c \in State /\ c.cur = v /\ c.ent = x.ent /\ c.sock = x.sock
      BY SetCurFacts
    <2>3. setupNewPtyEntry(x, v, backend) = [c EXCEPT !.ent[v] = n]
      BY <1>2 DEF setupNewPtyEntry, State
    <2> HIDE DEF c, n
    <2> DEFINE y == setupNewPtyEntry(x, v, backend)
    <2>4. /\ y \in State /\ y.cur = v /\ y.sock = x.sock
          /\ \A w \in Viewers : y.ent[w] = IF w = v THEN n ELSE x.ent[w]
      BY <2>1, <2>2, <2>3, SetEntry
    <2> HIDE DEF y
    <2> QED
      BY <1>2, <2>1, <2>4, Zenon DEF y
  <1> QED
    BY <1>1, <1>2

-----------------------------------------------------------------------------
(* Nobody has the terminal and nobody waits for it.                        *)
Unowned(x, wt) ==
    /\ \A v \in Viewers : ~x.ent[v].alive /\ x.ent[v].pending = None
    /\ \A v \in Viewers : x.sock[v] = "open" => wt[v] = None
    /\ \A v \in Viewers : x.sock[v] = "new" => wt[v] = None

(* Owned, but for what it says of the owner's own viewer and socket, which *)
(* detach has dropped before it calls teardownPty.                         *)
Linked(x, wt) ==
    /\ \A v \in Viewers : x.ent[v].alive => x.cur = v
    /\ \A v \in Viewers : x.sock[v] = "open" /\ wt[v] # None =>
          x.ent[wt[v]].alive /\ x.ent[wt[v]].pending = v
    /\ \A v \in Viewers : x.ent[v].pending # None => x.ent[v].alive
    /\ \A v \in Viewers : x.sock[v] = "new" => wt[v] = None

LEMMA OwnedIsLinked ==
    ASSUME NEW x \in State, NEW wt \in Waits, Owned(x, wt)
    PROVE  Linked(x, wt)
  BY DEF Owned, Linked

LEMMA UnownedIsOwned ==
    ASSUME None \notin Viewers, NEW x \in State, NEW wt \in Waits, Unowned(x, wt), x.cur = None
    PROVE  Owned(x, wt)
  BY DEF Owned, Unowned

LEMMA OwnedByNobody ==
    ASSUME None \notin Viewers, NEW x \in State, NEW wt \in Waits, Owned(x, wt), x.cur = None
    PROVE  Unowned(x, wt)
  BY DEF Owned, Unowned, Waits

LEMMA SameOwnerOwned ==
    ASSUME NEW x \in State, NEW y, SameOwner(x, y), NEW wt \in Waits, Owned(x, wt)
    PROVE  Owned(y, wt)
  BY DEF Owned, SameOwner, Waits

LEMMA CloseWsOwned ==
    ASSUME None \notin Viewers, NEW x \in State, NEW v \in Viewers, NEW wt \in Waits, Owned(x, wt)
    PROVE  Owned(CloseWs(x, v), wt)
  <1> DEFINE y == CloseWs(x, v)
  <1>1. /\ y \in State /\ y.cur = x.cur /\ y.ent = x.ent
        /\ \A w \in Viewers : y.sock[w] = IF w = v /\ x.sock[w] = "open" THEN "closing" ELSE x.sock[w]
    BY CloseWsFacts
  <1> HIDE DEF y
  <1>2. Owned(y, wt)
    BY <1>1 DEF Owned, Waits
  <1> QED
    BY <1>2 DEF y

LEMMA ClosePendingOwned ==
    ASSUME None \notin Viewers, NEW x \in State, NEW e \in Viewers, NEW wt \in Waits, Owned(x, wt)
    PROVE  Owned(ClosePending(x, e), wt)
  <1> DEFINE y == ClosePending(x, e)
  <1>1. /\ y \in State /\ y.cur = x.cur
        /\ \A w \in Viewers :
              /\ y.sock[w] = IF w = x.ent[e].pending /\ x.sock[w] = "open" THEN "closing" ELSE x.sock[w]
              /\ y.ent[w].alive <=> x.ent[w].alive
              /\ y.ent[w].viewer <=> x.ent[w].viewer
              /\ y.ent[w].pending = IF w = e THEN None ELSE x.ent[w].pending
    BY ClosePendingFacts
  <1> HIDE DEF y
  <1>2. Owned(y, wt)
    BY <1>1 DEF Owned, Waits
  <1> QED
    BY <1>2 DEF y

(* A teardown leaves nobody waiting: the pending viewer was told.          *)
LEMMA TeardownUnowned ==
    ASSUME None \notin Viewers, NEW x \in State, NEW wt \in Waits, Linked(x, wt)
    PROVE  Unowned(teardownPty(x), wt)
  <1> DEFINE y == teardownPty(x)
  <1>1. \A w \in Viewers :
              /\ y.sock[w] =
                    IF /\ x.cur # None /\ x.sock[w] = "open"
                       /\ (w = x.cur /\ x.ent[w].viewer) \/ w = x.ent[x.cur].pending
                    THEN "closing" ELSE x.sock[w]
              /\ y.ent[w].alive <=> w # x.cur /\ x.ent[w].alive
              /\ y.ent[w].pending = IF w = x.cur THEN None ELSE x.ent[w].pending
    BY TeardownFacts
  <1> HIDE DEF y
  <1>2. Unowned(y, wt)
    BY <1>1 DEF Linked, Unowned, Waits
  <1> QED
    BY <1>2 DEF y

LEMMA TeardownOwned ==
    ASSUME None \notin Viewers, NEW x \in State, NEW wt \in Waits, Linked(x, wt)
    PROVE  Owned(teardownPty(x), wt)
  <1>1. teardownPty(x) \in State /\ teardownPty(x).cur = None
    BY TeardownFacts
  <1> QED
    BY <1>1, TeardownUnowned, UnownedIsOwned

(* A new entry for a viewer of a terminal nobody has.                      *)
LEMMA SetupOwned ==
    ASSUME None \notin Viewers, NEW x \in State, NEW wt \in Waits, Unowned(x, wt),
           NEW v \in Viewers, NEW backend \in BOOLEAN,
           wt[v] = None, x.sock[v] \in {"open", "closing"}
    PROVE  Owned(setupNewPtyEntry(x, v, backend), wt)
  <1> DEFINE y == setupNewPtyEntry(x, v, backend)
  <1>1. /\ y \in State
        /\ y.cur = IF backend THEN v ELSE None
        /\ \A w \in Viewers :
             /\ y.sock[w] = IF ~backend /\ w = v /\ x.sock[w] = "open" THEN "closing" ELSE x.sock[w]
             /\ y.ent[w].alive <=> (x.ent[w].alive \/ (backend /\ w = v))
             /\ y.ent[w].viewer <=> (x.ent[w].viewer \/ (backend /\ w = v))
             /\ y.ent[w].pending = IF backend /\ w = v THEN None ELSE x.ent[w].pending
    BY SetupFacts
  <1> HIDE DEF y
  <1>2. Owned(y, wt)
    BY <1>1 DEF Owned, Unowned, Waits
  <1> QED
    BY <1>2 DEF y

-----------------------------------------------------------------------------
(* What a step has to show.                                                *)
LEMMA BecomeIInv ==
    ASSUME NEW z \in State, Become(z), waits' \in Waits, stranded' \in BOOLEAN,
           ~stranded' => Owned(z, waits')
    PROVE  IInv'
  <1>1. Now' = z
    BY DEF Become, Now, State
  <1> QED
    BY <1>1 DEF IInv, TypeOK

(* handlePtyWs: a first viewer sets up an entry, a second becomes the      *)
(* pending viewer in place of an earlier one.                              *)
LEMMA ConnectStep ==
    ASSUME None \notin Viewers, IInv, NEW v \in Viewers, NEW reset \in BOOLEAN, NEW backend \in BOOLEAN,
           Connect(v, reset, backend)
    PROVE  IInv'
  <1> DEFINE x == [Now EXCEPT !.sock[v] = "open"]
             y == IF reset /\ x.cur # None THEN teardownPty(x) ELSE x
  <1>1. Now \in State /\ waits \in Waits /\ stranded \in BOOLEAN /\ (~stranded => Owned(Now, waits))
    BY DEF IInv, TypeOK
  <1>2. /\ x \in State /\ x.cur = Now.cur /\ x.ent = Now.ent
        /\ \A w \in Viewers : x.sock[w] = IF w = v THEN "open" ELSE Now.sock[w]
    BY <1>1, SetSockFacts, Zenon DEF Socks
  <1>3. Now.sock[v] = "new" /\ stranded' = stranded
    BY DEF Connect, Now
  <1> HIDE DEF x
  <1>4. ~stranded => Owned(x, waits)
    BY <1>1, <1>2, <1>3 DEF Owned, Waits
  <1>5. y \in State /\ (y.cur # None => y = x)
    BY <1>2, TeardownFacts
  <1>6. ~stranded => Owned(y, waits)
    BY <1>1, <1>2, <1>4, TeardownOwned, OwnedIsLinked
  <1>7. y.sock[v] \in {"open", "closing"}
    BY <1>2, TeardownFacts
  <1>8. ~stranded => waits[v] = None
    BY <1>1, <1>3 DEF Owned
  <1> HIDE DEF y
  <1>9. CASE y.cur = None
    <2> DEFINE z == setupNewPtyEntry(y, v, backend)
    <2>1. Become(z) /\ waits' = waits
      BY <1>9 DEF Connect, x, y
    <2>2. z \in State
      BY <1>5, SetupFacts
    <2>3. ~stranded => Owned(z, waits)
      BY <1>1, <1>5, <1>6, <1>7, <1>8, <1>9, OwnedByNobody, SetupOwned
    <2> HIDE DEF z
    <2> QED
      BY <1>1, <1>3, <2>1, <2>2, <2>3, BecomeIInv
  <1>10. CASE y.cur # None
    <2> DEFINE e == y.cur
               c == ClosePending(y, e)
               z == [c EXCEPT !.ent[e].pending = v]
               wt == [waits EXCEPT ![v] = e]
    <2>1. Become(z) /\ waits' = wt
      BY <1>10 DEF Connect, x, y
    <2>2. e \in Viewers /\ wt \in Waits
      BY <1>1, <1>5, <1>10 DEF State, Waits
    <2>3. /\ c \in State /\ c.cur = e
          /\ \A w \in Viewers :
                /\ c.sock[w] = IF w = y.ent[e].pending /\ y.sock[w] = "open" THEN "closing" ELSE y.sock[w]
                /\ c.ent[w].alive <=> y.ent[w].alive
                /\ c.ent[w].viewer <=> y.ent[w].viewer
                /\ c.ent[w].pending = IF w = e THEN None ELSE y.ent[w].pending
      BY <1>5, <2>2, ClosePendingFacts, Zenon
    <2> HIDE DEF c, e
    <2>4. /\ z \in State /\ z.cur = c.cur /\ z.sock = c.sock
          /\ \A w \in Viewers : /\ z.ent[w].alive <=> c.ent[w].alive
                                /\ z.ent[w].viewer <=> c.ent[w].viewer
                                /\ z.ent[w].pending = IF w = e THEN v ELSE c.ent[w].pending
      BY <2>2, <2>3, SetPendingFacts
    <2> HIDE DEF z
    <2>5. \A w \in Viewers : wt[w] = IF w = v THEN e ELSE waits[w]
      BY <1>1 DEF Waits
    <2> HIDE DEF wt
    <2>6. ~stranded => y.ent[e].alive /\ v # e
      <3>1. ~stranded => x.cur # v
        BY <1>1, <1>2, <1>3 DEF Owned
      <3> QED BY <1>5, <1>6, <1>10, <2>2, <3>1 DEF Owned, e
    <2>7. ~stranded => Owned(z, wt)
      <3> SUFFICES ASSUME ~stranded PROVE Owned(z, wt)
        OBVIOUS
      <3>1. \A w \in Viewers : z.ent[w].alive <=> z.cur = w
        <4> TAKE w \in Viewers
        <4>1. z.ent[w].alive <=> y.ent[w].alive
          BY <2>3, <2>4, Zenon
        <4>2. z.cur = y.cur
          BY <2>3, <2>4 DEF e
        <4> QED BY <1>6, <4>1, <4>2, Zenon DEF Owned
      <3>2. \A w \in Viewers : z.ent[w].alive =>
               z.ent[w].viewer /\ wt[w] = None /\ z.sock[w] \in {"open", "closing"}
        BY <1>6, <2>3, <2>4, <2>5, <2>6, <3>1 DEF Owned
      <3>3. \A w \in Viewers : z.sock[w] = "open" /\ wt[w] # None =>
               z.ent[wt[w]].alive /\ z.ent[wt[w]].pending = w
        BY <1>1, <1>6, <2>2, <2>3, <2>4, <2>5, <2>6 DEF Owned, Waits, e
      <3>4. \A w \in Viewers : z.ent[w].pending # None => z.ent[w].alive /\ wt[z.ent[w].pending] = w
        BY <1>6, <1>8, <2>2, <2>3, <2>4, <2>5, <2>6 DEF Owned, State, Entry
      <3>5. \A w \in Viewers : z.sock[w] = "new" => wt[w] = None
        BY <1>6, <1>7, <2>3, <2>4, <2>5 DEF Owned
      <3> QED
        BY <3>1, <3>2, <3>3, <3>4, <3>5 DEF Owned
    <2> QED
      BY <1>1, <1>3, <2>1, <2>2, <2>4, <2>7, BecomeIInv
  <1> QED
    BY <1>9, <1>10

(* The owner's attach message.                                             *)
LEMMA AttachStep ==
    ASSUME IInv, NEW v \in Viewers, NEW known \in BOOLEAN, Attach(v, known)
    PROVE  IInv'
  <1> DEFINE z == beginAttach(Now, v, known)
  <1>1. Now \in State /\ waits \in Waits /\ stranded \in BOOLEAN /\ (~stranded => Owned(Now, waits))
    BY DEF IInv, TypeOK
  <1>2. Become(z) /\ waits' = waits /\ stranded' = stranded
    BY DEF Attach
  <1>3. SameOwner(Now, z)
    BY <1>1, BeginAttachFacts
  <1> HIDE DEF z
  <1>4. z \in State /\ (~stranded => Owned(z, waits))
    BY <1>1, <1>3, SameOwnerOwned DEF SameOwner
  <1> QED
    BY <1>1, <1>2, <1>4, BecomeIInv

(* performImmediateTakeover: the entry waited for is the current one, so   *)
(* what replaces it is the only one.                                       *)
LEMMA TakeControlStep ==
    ASSUME None \notin Viewers, IInv, NEW v \in Viewers, NEW known \in BOOLEAN, NEW backend \in BOOLEAN,
           TakeControl(v, known, backend)
    PROVE  IInv'
  <1> DEFINE e == waits[v]
             a == cleanupPending(Now, v, e)
             b == CloseViewer(a, e)
             c == Dies(b, e)
             d == ClosePending(c, e)
             s == setupNewPtyEntry(d, v, backend)
             z == beginAttach(s, v, known)
             wt == [waits EXCEPT ![v] = None]
  <1>1. Now \in State /\ waits \in Waits /\ stranded \in BOOLEAN /\ (~stranded => Owned(Now, waits))
    BY DEF IInv, TypeOK
  <1>2. /\ Become(z) /\ waits' = wt /\ stranded' = stranded
        /\ Now.sock[v] = "open" /\ e # None
    BY DEF TakeControl, performImmediateTakeover, Now
  <1>3. e \in Viewers /\ wt \in Waits
    BY <1>1, <1>2 DEF Waits
  <1>4. \A w \in Viewers : wt[w] = IF w = v THEN None ELSE waits[w]
    BY <1>1 DEF Waits
  <1>5. ~stranded => Now.cur = e /\ Now.ent[e].pending = v
    BY <1>1, <1>2, <1>3 DEF Owned
  <1> HIDE DEF wt, e
  <1>6. /\ a \in State /\ a.cur = Now.cur
        /\ Now.ent[e].pending = v => a.sock = Now.sock
        /\ \A w \in Viewers : /\ a.ent[w].alive <=> Now.ent[w].alive
                              /\ a.ent[w].pending = IF w = e THEN None ELSE Now.ent[w].pending
    <2>1. CASE Now.ent[e].pending = v
      <3>1. a = [Now EXCEPT !.ent[e].pending = None]
        BY <2>1 DEF cleanupPending
      <3> QED BY <1>1, <1>3, <3>1, SetPendingFacts
    <2>2. CASE Now.ent[e].pending # v
      <3>1. a = ClosePending(Now, e)
        BY <2>2 DEF cleanupPending
      <3> QED BY <1>1, <1>3, <2>2, <3>1, ClosePendingFacts
    <2> QED BY <2>1, <2>2
  <1> HIDE DEF a
  <1>7. /\ b \in State /\ b.cur = a.cur
        /\ \A w \in Viewers :
              /\ b.sock[w] = IF w = e /\ a.ent[e].viewer /\ a.sock[w] = "open" THEN "closing" ELSE a.sock[w]
              /\ b.ent[w].alive <=> a.ent[w].alive
              /\ b.ent[w].pending = a.ent[w].pending
    BY <1>3, <1>6, CloseViewerFacts
  <1> HIDE DEF b
  <1>8. /\ c \in State /\ c.sock = b.sock
        /\ \A w \in Viewers : /\ c.ent[w].alive <=> w # e /\ b.ent[w].alive
                              /\ c.ent[w].pending = b.ent[w].pending
    BY <1>3, <1>7, DiesFacts
  <1> HIDE DEF c
  <1>9. /\ d \in State
        /\ \A w \in Viewers :
              /\ d.sock[w] = IF w = c.ent[e].pending /\ c.sock[w] = "open" THEN "closing" ELSE c.sock[w]
              /\ d.ent[w].alive <=> c.ent[w].alive
              /\ d.ent[w].pending = IF w = e THEN None ELSE c.ent[w].pending
    <2>1. c \in State /\ e \in Viewers
      BY <1>3, <1>8
    <2> QED BY <2>1, ClosePendingFacts
  <1> HIDE DEF d
  <1>10. s \in State
    BY <1>9, SetupFacts
  <1>11. ~stranded => Owned(s, wt)
    <2> SUFFICES ASSUME ~stranded PROVE Owned(s, wt)
      OBVIOUS
    <2>1. \A w \in Viewers : ~d.ent[w].alive /\ d.ent[w].pending = None
      <3>1. \A w \in Viewers : w # e => ~Now.ent[w].alive /\ Now.ent[w].pending = None
        BY <1>1, <1>5 DEF Owned
      <3>2. \A w \in Viewers : d.ent[w].alive => w # e /\ Now.ent[w].alive
        BY <1>6, <1>7, <1>8, <1>9
      <3>3. \A w \in Viewers : d.ent[w].pending = IF w = e THEN None ELSE Now.ent[w].pending
        <4>1. \A w \in Viewers : c.ent[w].pending = a.ent[w].pending
          BY <1>7, <1>8, Zenon
        <4>2. \A w \in Viewers : d.ent[w].pending = IF w = e THEN None ELSE c.ent[w].pending
          BY <1>9, Zenon
        <4>3. \A w \in Viewers : a.ent[w].pending = IF w = e THEN None ELSE Now.ent[w].pending
          BY <1>6, Zenon
        <4> QED BY <4>1, <4>2, <4>3, Zenon
      <3> QED
        BY <3>1, <3>2, <3>3, Zenon
    <2>2. \A w \in Viewers : d.sock[w] = "open" => Now.sock[w] = "open"
      BY <1>5, <1>6, <1>7, <1>8, <1>9
    <2>3. \A w \in Viewers : d.sock[w] = "new" => Now.sock[w] = "new"
      BY <1>5, <1>6, <1>7, <1>8, <1>9
    <2>4. \A w \in Viewers : Now.sock[w] = "open" => wt[w] = None
      BY <1>1, <1>3, <1>4, <1>5 DEF Owned, Waits
    <2>5. \A w \in Viewers : Now.sock[w] = "new" => wt[w] = None
      BY <1>1, <1>4 DEF Owned
    <2>6. Unowned(d, wt)
      BY <2>1, <2>2, <2>3, <2>4, <2>5 DEF Unowned
    <2>7. d.sock[v] \in {"open", "closing"}
      BY <1>2, <1>5, <1>6, <1>7, <1>8, <1>9
    <2> QED
      BY <1>3, <1>4, <1>9, <2>6, <2>7, SetupOwned
  <1> HIDE DEF s
  <1>12. SameOwner(s, z)
    BY <1>10, BeginAttachFacts
  <1> HIDE DEF z
  <1>13. z \in State /\ (~stranded => Owned(z, wt))
    BY <1>3, <1>10, <1>11, <1>12, SameOwnerOwned DEF SameOwner
  <1> QED
    BY <1>1, <1>2, <1>3, <1>13, BecomeIInv

(* An attach that finds the session gone ends its own entry; if nobody     *)
(* waited for it and nobody had taken over, no viewer is left behind.      *)
LEMMA SessionGone ==
    ASSUME None \notin Viewers, NEW x \in State, NEW v \in Viewers, NEW wt \in Waits
    PROVE  /\ [CloseViewer(Dies(x, v), v) EXCEPT !.cur = None] \in State
           /\ Owned(x, wt) /\ x.ent[v].pending = None /\ x.cur \in {v, None} =>
                 Owned([CloseViewer(Dies(x, v), v) EXCEPT !.cur = None], wt)
  <1> DEFINE a == Dies(x, v)
             b == CloseViewer(a, v)
             z == [b EXCEPT !.cur = None]
  <1>1. /\ a \in State /\ a.sock = x.sock
        /\ \A w \in Viewers : /\ a.ent[w].alive <=> w # v /\ x.ent[w].alive
                              /\ a.ent[w].pending = x.ent[w].pending
    BY DiesFacts
  <1> HIDE DEF a
  <1>2. /\ b \in State
        /\ \A w \in Viewers :
              /\ b.sock[w] = IF w = v /\ a.ent[v].viewer /\ a.sock[w] = "open" THEN "closing" ELSE a.sock[w]
              /\ b.ent[w].alive <=> a.ent[w].alive
              /\ b.ent[w].pending = a.ent[w].pending
    BY <1>1, CloseViewerFacts
  <1> HIDE DEF b
  <1>3. z \in State /\ z.cur = None /\ z.ent = b.ent /\ z.sock = b.sock
    BY <1>2, SetCurFacts
  <1> HIDE DEF z
  <1>4. ASSUME Owned(x, wt), x.ent[v].pending = None, x.cur \in {v, None}
        PROVE  Owned(z, wt)
    <2>1. \A w \in Viewers : ~z.ent[w].alive /\ z.ent[w].pending = None
      <3>1. \A w \in Viewers : w # v => ~x.ent[w].alive
        BY <1>4 DEF Owned
      <3>2. \A w \in Viewers : x.ent[w].pending = None
        BY <1>4, <3>1, Zenon DEF Owned
      <3> TAKE w \in Viewers
      <3>3. (z.ent[w].alive <=> b.ent[w].alive) /\ z.ent[w].pending = b.ent[w].pending
        BY <1>3, Zenon
      <3>4. (b.ent[w].alive <=> a.ent[w].alive) /\ b.ent[w].pending = a.ent[w].pending
        BY <1>2, Zenon
      <3>5. (a.ent[w].alive <=> (w # v /\ x.ent[w].alive)) /\ a.ent[w].pending = x.ent[w].pending
        BY <1>1, Zenon
      <3>6. ~z.ent[w].alive
        BY <3>1, <3>3, <3>4, <3>5, Zenon
      <3>7. z.ent[w].pending = None
        BY <3>2, <3>3, <3>4, <3>5, Zenon
      <3> QED BY <3>6, <3>7
    <2>2. \A w \in Viewers : x.sock[w] = "open" => wt[w] = None
      BY <1>4 DEF Owned, Waits
    <2>3. Unowned(z, wt)
      BY <1>1, <1>2, <1>3, <1>4, <2>1, <2>2 DEF Unowned, Owned
    <2> QED
      BY <1>3, <2>3, UnownedIsOwned
  <1> QED
    BY <1>3, <1>4 DEF z, b, a

(* The list refresh ends.                                                  *)
LEMMA ListedStep ==
    ASSUME None \notin Viewers, IInv, NEW v \in Viewers, NEW found \in BOOLEAN, Listed(v, found)
    PROVE  IInv'
  <1>1. Now \in State /\ waits \in Waits /\ stranded \in BOOLEAN /\ (~stranded => Owned(Now, waits))
    BY DEF IInv, TypeOK
  <1>2. waits' = waits
    BY DEF Listed
  <1>3. CASE found
    <2> DEFINE p == IF entryStillCurrent(Now, v) THEN "attaching" ELSE "none"
               z == [Now EXCEPT !.ent[v].phase = p]
    <2>1. Become(z) /\ stranded' = stranded
      BY <1>3 DEF Listed
    <2>2. p \in Phases
      BY DEF Phases
    <2> HIDE DEF p
    <2>3. SameOwner(Now, z)
      BY <1>1, <2>2, SetPhaseFacts
    <2> HIDE DEF z
    <2>4. z \in State /\ (~stranded => Owned(z, waits))
      BY <1>1, <2>3, SameOwnerOwned DEF SameOwner
    <2> QED
      BY <1>1, <1>2, <2>1, <2>4, BecomeIInv
  <1>4. CASE ~found
    <2> DEFINE z == [CloseViewer(Dies(Now, v), v) EXCEPT !.cur = None]
    <2>1. Become(z) /\ stranded' = (stranded \/ ent[v].pending # None \/ current \notin {v, None})
      BY <1>4 DEF Listed
    <2>2. stranded' \in BOOLEAN
      BY <2>1
    <2>3. ~stranded' => ~stranded /\ Now.ent[v].pending = None /\ Now.cur \in {v, None}
      BY <2>1, Zenon DEF Now
    <2>4. z \in State /\ (~stranded' => Owned(z, waits))
      BY <1>1, <2>3, SessionGone
    <2> HIDE DEF z
    <2> QED
      BY <1>1, <1>2, <2>1, <2>2, <2>4, BecomeIInv
  <1> QED
    BY <1>3, <1>4

(* The subscription is activated, or the session has vanished.             *)
LEMMA SubscribeStep ==
    ASSUME None \notin Viewers, IInv, NEW v \in Viewers, NEW found \in BOOLEAN, Subscribe(v, found)
    PROVE  IInv'
  <1>1. Now \in State /\ waits \in Waits /\ stranded \in BOOLEAN /\ (~stranded => Owned(Now, waits))
    BY DEF IInv, TypeOK
  <1>2. waits' = waits /\ Now.cur = v
    BY DEF Subscribe, entryStillCurrent
  <1>3. CASE found
    <2> DEFINE z == [Now EXCEPT !.ent[v].phase = "live"]
    <2>1. Become(z) /\ stranded' = stranded
      BY <1>3 DEF Subscribe
    <2>2. SameOwner(Now, z)
      BY <1>1, SetPhaseFacts, Zenon DEF Phases
    <2> HIDE DEF z
    <2>3. z \in State /\ (~stranded => Owned(z, waits))
      BY <1>1, <2>2, SameOwnerOwned DEF SameOwner
    <2> QED
      BY <1>1, <1>2, <2>1, <2>3, BecomeIInv
  <1>4. CASE ~found
    <2> DEFINE z == [CloseViewer(Dies(Now, v), v) EXCEPT !.cur = None]
    <2>1. Become(z) /\ stranded' = (stranded \/ ent[v].pending # None)
      BY <1>4 DEF Subscribe
    <2>2. stranded' \in BOOLEAN
      BY <2>1
    <2>3. ~stranded' => ~stranded /\ Now.ent[v].pending = None
      BY <2>1, Zenon DEF Now
    <2>4. z \in State /\ (~stranded' => Owned(z, waits))
      BY <1>1, <1>2, <2>3, SessionGone
    <2> HIDE DEF z
    <2> QED
      BY <1>1, <1>2, <2>1, <2>2, <2>4, BecomeIInv
  <1> QED
    BY <1>3, <1>4

(* A step of the attach fails.                                             *)
LEMMA AttachFailsStep ==
    ASSUME None \notin Viewers, IInv, NEW v \in Viewers, AttachFails(v)
    PROVE  IInv'
  <1> DEFINE c == CloseWs(Now, v)
             z == [c EXCEPT !.ent[v].phase = "none"]
  <1>1. Now \in State /\ waits \in Waits /\ stranded \in BOOLEAN /\ (~stranded => Owned(Now, waits))
    BY DEF IInv, TypeOK
  <1>2. Become(z) /\ waits' = waits /\ stranded' = stranded
    BY DEF AttachFails
  <1>3. c \in State /\ (~stranded => Owned(c, waits))
    BY <1>1, CloseWsFacts, CloseWsOwned
  <1> HIDE DEF c
  <1>4. SameOwner(c, z)
    BY <1>3, SetPhaseFacts, Zenon DEF Phases
  <1> HIDE DEF z
  <1>5. z \in State /\ (~stranded => Owned(z, waits))
    BY <1>1, <1>3, <1>4, SameOwnerOwned DEF SameOwner
  <1> QED
    BY <1>1, <1>2, <1>5, BecomeIInv

(* The exit is announced.                                                  *)
LEMMA ExitedStep ==
    ASSUME IInv, NEW v \in Viewers, Exited(v)
    PROVE  IInv'
  <1> DEFINE z == [Now EXCEPT !.ent[v].phase = "draining"]
  <1>1. Now \in State /\ waits \in Waits /\ stranded \in BOOLEAN /\ (~stranded => Owned(Now, waits))
    BY DEF IInv, TypeOK
  <1>2. Become(z) /\ waits' = waits /\ stranded' = stranded
    BY DEF Exited
  <1>3. SameOwner(Now, z)
    BY <1>1, SetPhaseFacts, Zenon DEF Phases
  <1> HIDE DEF z
  <1>4. z \in State /\ (~stranded => Owned(z, waits))
    BY <1>1, <1>3, SameOwnerOwned DEF SameOwner
  <1> QED
    BY <1>1, <1>2, <1>4, BecomeIInv

(* The exit is told: the entry leaves activePtySessions and both its       *)
(* viewers are closed.                                                     *)
LEMMA finishExitStep ==
    ASSUME None \notin Viewers, IInv, NEW v \in Viewers, finishExit(v)
    PROVE  IInv'
  <1> DEFINE x == IF current = v THEN [Now EXCEPT !.cur = None] ELSE Now
             a == Dies(x, v)
             b == CloseViewer(a, v)
             z == ClosePending(b, v)
  <1>1. Now \in State /\ waits \in Waits /\ stranded \in BOOLEAN /\ (~stranded => Owned(Now, waits))
    BY DEF IInv, TypeOK
  <1>2. Become(z) /\ waits' = waits /\ stranded' = stranded /\ Now.ent[v].alive
    BY DEF finishExit, Now
  <1>3. x \in State /\ x.ent = Now.ent /\ x.sock = Now.sock /\ (Now.cur = v => x.cur = None)
    BY <1>1, SetCurFacts DEF Now
  <1> HIDE DEF x
  <1>4. /\ a \in State /\ a.cur = x.cur /\ a.sock = x.sock
        /\ \A w \in Viewers : /\ a.ent[w].alive <=> w # v /\ x.ent[w].alive
                              /\ a.ent[w].pending = x.ent[w].pending
    BY <1>3, DiesFacts
  <1> HIDE DEF a
  <1>5. /\ b \in State /\ b.cur = a.cur
        /\ \A w \in Viewers :
              /\ b.sock[w] = IF w = v /\ a.ent[v].viewer /\ a.sock[w] = "open" THEN "closing" ELSE a.sock[w]
              /\ b.ent[w].alive <=> a.ent[w].alive
              /\ b.ent[w].pending = a.ent[w].pending
    BY <1>4, CloseViewerFacts
  <1> HIDE DEF b
  <1>6. /\ z \in State /\ z.cur = b.cur
        /\ \A w \in Viewers :
              /\ z.sock[w] = IF w = b.ent[v].pending /\ b.sock[w] = "open" THEN "closing" ELSE b.sock[w]
              /\ z.ent[w].alive <=> b.ent[w].alive
              /\ z.ent[w].pending = IF w = v THEN None ELSE b.ent[w].pending
    BY <1>5, ClosePendingFacts
  <1> HIDE DEF z
  <1>7. ASSUME ~stranded PROVE Owned(z, waits)
    <2>1. Owned(Now, waits)
      BY <1>1, <1>7
    <2>2. Now.cur = v /\ \A w \in Viewers : w # v => ~Now.ent[w].alive
      BY <1>2, <2>1 DEF Owned
    <2>3. \A w \in Viewers : w # v => Now.ent[w].pending = None
      BY <2>1, <2>2 DEF Owned
    <2>4. \A w \in Viewers : ~z.ent[w].alive
      BY <1>3, <1>4, <1>5, <1>6, <2>2, Zenon
    <2>5. \A w \in Viewers : z.ent[w].pending = None
      <3>1. \A w \in Viewers : b.ent[w].pending = Now.ent[w].pending
        BY <1>3, <1>4, <1>5, Zenon
      <3> QED
        BY <1>6, <2>3, <3>1, Zenon
    <2>6. \A w \in Viewers : z.sock[w] = "open" => waits[w] = None
      <3>1. \A w \in Viewers : z.sock[w] = "open" => Now.sock[w] = "open" /\ w # Now.ent[v].pending
        BY <1>3, <1>4, <1>5, <1>6
      <3>2. \A w \in Viewers : Now.sock[w] = "open" /\ waits[w] # None => Now.ent[v].pending = w
        BY <1>1, <2>1, <2>2 DEF Owned, Waits
      <3> QED BY <3>1, <3>2
    <2>7. \A w \in Viewers : z.sock[w] = "new" => waits[w] = None
      BY <1>3, <1>4, <1>5, <1>6, <2>1 DEF Owned
    <2>8. Unowned(z, waits)
      BY <2>4, <2>5, <2>6, <2>7 DEF Unowned
    <2>9. z.cur = None
      BY <1>3, <1>4, <1>5, <1>6, <2>2
    <2> QED
      BY <1>1, <1>6, <2>8, <2>9, UnownedIsOwned
  <1> QED
    BY <1>1, <1>2, <1>6, <1>7, BecomeIInv

(* A viewer that fails is torn down.                                       *)
LEMMA ViewerFailsStep ==
    ASSUME None \notin Viewers, IInv, NEW v \in Viewers, ViewerFails(v)
    PROVE  IInv'
  <1> DEFINE c == CloseWs(Now, v)
             z == teardownPty(c)
  <1>1. Now \in State /\ waits \in Waits /\ stranded \in BOOLEAN /\ (~stranded => Owned(Now, waits))
    BY DEF IInv, TypeOK
  <1>2. Become(z) /\ waits' = waits /\ stranded' = stranded
    BY DEF ViewerFails
  <1>3. c \in State /\ (~stranded => Owned(c, waits))
    BY <1>1, CloseWsFacts, CloseWsOwned
  <1> HIDE DEF c
  <1>4. z \in State /\ (~stranded => Owned(z, waits))
    BY <1>1, <1>3, TeardownFacts, TeardownOwned, OwnedIsLinked
  <1> HIDE DEF z
  <1> QED
    BY <1>1, <1>2, <1>4, BecomeIInv

(* The broker became unavailable.                                          *)
LEMMA BrokerUnavailableStep ==
    ASSUME None \notin Viewers, IInv, NEW v \in Viewers, BrokerUnavailable(v)
    PROVE  IInv'
  <1> DEFINE p == ClosePending(Now, v)
             c == CloseWs(p, v)
             z == teardownPty(c)
  <1>1. Now \in State /\ waits \in Waits /\ stranded \in BOOLEAN /\ (~stranded => Owned(Now, waits))
    BY DEF IInv, TypeOK
  <1>2. Become(z) /\ waits' = waits /\ stranded' = stranded
    BY DEF BrokerUnavailable
  <1>3. p \in State /\ (~stranded => Owned(p, waits))
    BY <1>1, ClosePendingFacts, ClosePendingOwned
  <1> HIDE DEF p
  <1>4. c \in State /\ (~stranded => Owned(c, waits))
    BY <1>1, <1>3, CloseWsFacts, CloseWsOwned
  <1> HIDE DEF c
  <1>5. z \in State /\ (~stranded => Owned(z, waits))
    BY <1>1, <1>4, TeardownFacts, TeardownOwned, OwnedIsLinked
  <1> HIDE DEF z
  <1> QED
    BY <1>1, <1>2, <1>5, BecomeIInv

(* POST /api/kill.                                                         *)
LEMMA KillRouteStep ==
    ASSUME None \notin Viewers, IInv, KillRoute
    PROVE  IInv'
  <1> DEFINE z == teardownPty(Now)
  <1>1. Now \in State /\ waits \in Waits /\ stranded \in BOOLEAN /\ (~stranded => Owned(Now, waits))
    BY DEF IInv, TypeOK
  <1>2. Become(z) /\ waits' = waits /\ stranded' = stranded
    BY DEF KillRoute
  <1>3. z \in State /\ (~stranded => Owned(z, waits))
    BY <1>1, TeardownFacts, TeardownOwned, OwnedIsLinked
  <1> HIDE DEF z
  <1> QED
    BY <1>1, <1>2, <1>3, BecomeIInv

(* The close event: a waiting viewer withdraws, the owner's entry is torn  *)
(* down, and no other entry ends.                                          *)
LEMMA CloseEventStep ==
    ASSUME None \notin Viewers, IInv, NEW v \in Viewers, CloseEvent(v)
    PROVE  /\ IInv'
           /\ \A w \in Viewers : w # v /\ ent[w].alive => ent'[w].alive
           /\ \A w \in Viewers : w # v /\ sock'[w] = "gone" => sock[w] = "gone"
  <1> DEFINE x == [Now EXCEPT !.sock[v] = "gone"]
             wt == [waits EXCEPT ![v] = None]
             z == IF waits[v] # None THEN cleanup(x, v, waits[v]) ELSE detach(x, v)
  <1>1. Now \in State /\ waits \in Waits /\ stranded \in BOOLEAN /\ (~stranded => Owned(Now, waits))
    BY DEF IInv, TypeOK
  <1>2. /\ Become(z) /\ waits' = wt /\ stranded' = stranded
        /\ Now.sock[v] \in {"open", "closing"}
    BY DEF CloseEvent, Now
  <1>3. /\ x \in State /\ x.cur = Now.cur /\ x.ent = Now.ent
        /\ \A w \in Viewers : x.sock[w] = IF w = v THEN "gone" ELSE Now.sock[w]
    BY <1>1, SetSockFacts, Zenon DEF Socks
  <1> HIDE DEF x
  <1>4. wt \in Waits /\ \A w \in Viewers : wt[w] = IF w = v THEN None ELSE waits[w]
    BY <1>1 DEF Waits
  <1> HIDE DEF wt
  <1>5. CASE waits[v] # None
    <2> DEFINE e == waits[v]
    <2>1. e \in Viewers
      BY <1>1, <1>5 DEF Waits
    <2>2. z = IF x.ent[e].pending = v THEN [x EXCEPT !.ent[e].pending = None] ELSE x
      BY <1>5 DEF cleanup
    <2> HIDE DEF e, z
    <2>3. /\ z \in State /\ z.cur = x.cur /\ z.sock = x.sock
          /\ \A w \in Viewers :
                /\ z.ent[w].alive <=> x.ent[w].alive
                /\ z.ent[w].viewer <=> x.ent[w].viewer
                /\ z.ent[w].pending = IF w = e /\ x.ent[w].pending = v THEN None ELSE x.ent[w].pending
      BY <1>3, <2>1, <2>2, SetPendingFacts
    <2>4. ASSUME ~stranded PROVE Owned(z, wt)
      <3>1. Owned(Now, waits)
        BY <1>1, <2>4
      <3>2. ~Now.ent[v].alive
        BY <1>5, <3>1 DEF Owned
      <3>3. \A w \in Viewers : z.ent[w].alive <=> z.cur = w
        <4> TAKE w \in Viewers
        <4>1. (z.ent[w].alive <=> x.ent[w].alive) /\ z.cur = x.cur
          BY <2>3, Zenon
        <4>2. Now.ent[w].alive <=> Now.cur = w
          BY <3>1, Zenon DEF Owned
        <4> QED BY <1>3, <4>1, <4>2
      <3>4. \A w \in Viewers : z.ent[w].alive =>
               z.ent[w].viewer /\ wt[w] = None /\ z.sock[w] \in {"open", "closing"}
        BY <1>3, <1>4, <2>3, <3>1, <3>2 DEF Owned
      <3>5. \A w \in Viewers : z.sock[w] = "open" /\ wt[w] # None =>
               z.ent[wt[w]].alive /\ z.ent[wt[w]].pending = w
        BY <1>1, <1>3, <1>4, <2>3, <3>1 DEF Owned, Waits
      <3>6. \A w \in Viewers : z.ent[w].pending # None => z.ent[w].alive /\ wt[z.ent[w].pending] = w
        BY <1>1, <1>3, <1>4, <2>3, <3>1 DEF Owned, State, Entry, e
      <3>7. \A w \in Viewers : z.sock[w] = "new" => wt[w] = None
        BY <1>3, <1>4, <2>3, <3>1 DEF Owned
      <3> QED
        BY <3>3, <3>4, <3>5, <3>6, <3>7 DEF Owned
    <2>5. IInv'
      BY <1>1, <1>2, <1>4, <2>3, <2>4, BecomeIInv
    <2> QED
      BY <1>2, <1>3, <2>3, <2>5 DEF Become, Now
  <1>6. CASE waits[v] = None
    <2>1. z = detach(x, v)
      BY <1>6
    <2> HIDE DEF z
    <2>2. CASE entryStillCurrent(x, v)
      <3> DEFINE y == [x EXCEPT !.ent[v].viewer = FALSE]
      <3>1. /\ y \in State /\ y.cur = x.cur /\ y.sock = x.sock
            /\ \A w \in Viewers : /\ y.ent[w].alive <=> x.ent[w].alive
                                  /\ y.ent[w].pending = x.ent[w].pending
        BY <1>3, DropViewerFacts
      <3>2. z = teardownPty(y) /\ x.cur = v
        BY <2>1, <2>2 DEF detach, entryStillCurrent
      <3> HIDE DEF y
      <3>3. ASSUME ~stranded PROVE Owned(z, wt)
        <4>1. Owned(Now, waits)
          BY <1>1, <3>3
        <4>2. \A w \in Viewers : y.ent[w].alive => y.cur = w
          BY <1>3, <3>1, <4>1 DEF Owned
        <4>3. \A w \in Viewers : y.sock[w] = "open" /\ wt[w] # None =>
                 y.ent[wt[w]].alive /\ y.ent[wt[w]].pending = w
          BY <1>1, <1>3, <1>4, <3>1, <4>1 DEF Owned, Waits
        <4>4. \A w \in Viewers : y.ent[w].pending # None => y.ent[w].alive
          BY <1>3, <3>1, <4>1 DEF Owned
        <4>5. \A w \in Viewers : y.sock[w] = "new" => wt[w] = None
          BY <1>3, <1>4, <3>1, <4>1 DEF Owned
        <4>6. Linked(y, wt)
          BY <4>2, <4>3, <4>4, <4>5 DEF Linked
        <4> QED
          BY <1>4, <3>1, <3>2, <4>6, TeardownOwned
      <3>4. /\ z \in State
            /\ \A w \in Viewers : /\ w # v /\ x.ent[w].alive => z.ent[w].alive
                                  /\ z.sock[w] = "gone" => x.sock[w] = "gone"
        BY <3>1, <3>2, TeardownFacts
      <3>5. IInv'
        BY <1>1, <1>2, <1>4, <3>3, <3>4, BecomeIInv
      <3> QED
        BY <1>2, <1>3, <3>4, <3>5 DEF Become, Now
    <2>3. CASE ~entryStillCurrent(x, v)
      <3>1. z = x
        BY <2>1, <2>3 DEF detach
      <3>2. ASSUME ~stranded PROVE Owned(z, wt)
        <4>1. Owned(Now, waits)
          BY <1>1, <3>2
        <4>2. ~Now.ent[v].alive
          BY <1>3, <2>3, <4>1 DEF Owned, entryStillCurrent
        <4>3. wt = waits
          BY <1>1, <1>6 DEF wt, Waits
        <4> QED
          BY <1>1, <1>3, <1>6, <3>1, <4>1, <4>2, <4>3 DEF Owned, Waits
      <3>3. IInv'
        BY <1>1, <1>2, <1>3, <1>4, <3>1, <3>2, BecomeIInv
      <3> QED
        BY <1>2, <1>3, <3>1, <3>3 DEF Become, Now
    <2> QED
      BY <2>2, <2>3
  <1> QED
    BY <1>5, <1>6

-----------------------------------------------------------------------------
(* The server starts without entries.                                      *)
LEMMA InitIInv ==
    ASSUME None \notin Viewers, Init
    PROVE  IInv
  <1>1. NoEntry \in Entry /\ ~NoEntry.alive /\ NoEntry.pending = None
    BY DEF NoEntry, Entry, Phases
  <1>2. Now \in State
    BY <1>1 DEF Init, Now, State, Socks
  <1>3. waits \in Waits /\ stranded \in BOOLEAN
    BY Zenon DEF Init, Waits
  <1>4. Unowned(Now, waits) /\ Now.cur = None
    BY <1>1 DEF Init, Now, Unowned
  <1> QED
    BY <1>2, <1>3, <1>4, UnownedIsOwned DEF IInv, TypeOK

(* Every handler keeps the invariant.                                      *)
LEMMA NextIInv ==
    ASSUME None \notin Viewers, IInv, [Next]_vars
    PROVE  IInv'
  <1>1. CASE UNCHANGED vars
    BY <1>1 DEF vars, IInv, TypeOK, Now
  <1>2. ASSUME NEW v \in Viewers, NEW known \in BOOLEAN, NEW reset \in BOOLEAN, NEW backend \in BOOLEAN,
               Connect(v, reset, backend) \/ Attach(v, known) \/ TakeControl(v, known, backend)
        PROVE  IInv'
    BY <1>2, ConnectStep, AttachStep, TakeControlStep
  <1>3. ASSUME NEW v \in Viewers, NEW found \in BOOLEAN, Listed(v, found) \/ Subscribe(v, found)
        PROVE  IInv'
    BY <1>3, ListedStep, SubscribeStep
  <1>4. ASSUME NEW v \in Viewers,
               \/ AttachFails(v) \/ Exited(v) \/ finishExit(v)
               \/ ViewerFails(v) \/ BrokerUnavailable(v) \/ CloseEvent(v)
        PROVE  IInv'
    BY <1>4, AttachFailsStep, ExitedStep, finishExitStep, ViewerFailsStep, BrokerUnavailableStep, CloseEventStep
  <1>5. CASE KillRoute
    BY <1>5, KillRouteStep
  <1> QED
    BY <1>1, <1>2, <1>3, <1>4, <1>5 DEF Next

(* The invariant implies what the run checks.                              *)
LEMMA IInvOneOwner ==
    ASSUME None \notin Viewers, IInv
    PROVE  OneOwner
  <1> SUFFICES ASSUME ~stranded
               PROVE  /\ OneEntry
                      /\ \A v \in Viewers :
                           /\ sock[v] = "open" /\ waits[v] # None =>
                                current = waits[v] /\ ent[current].pending = v
                           /\ sock[v] = "gone" => ~ent[v].alive
    BY DEF OneOwner
  <1>1. /\ \A v \in Viewers : ent[v].alive <=> current = v
        /\ \A v \in Viewers : ent[v].alive => sock[v] \in {"open", "closing"}
        /\ \A v \in Viewers : sock[v] = "open" /\ waits[v] # None =>
             ent[waits[v]].alive /\ ent[waits[v]].pending = v
        /\ waits \in Waits
    BY DEF IInv, TypeOK, Owned, Now
  <1> QED
    BY <1>1 DEF OneEntry, Waits

(* For any set of viewers, and however their connects, take-overs, close   *)
(* events, attach continuations, exits and kills interleave (websocket.ts):*)
(* unless an attach found the session gone under another viewer, the       *)
(* session has one live entry, the one activePtySessions holds, whoever    *)
(* waits is that entry's pending viewer, and a viewer that is gone has no  *)
(* live entry.                                                             *)
THEOREM TerminalHasOneOwner ==
    ASSUME None \notin Viewers
    PROVE  Spec => []OneOwner
  <1>1. Init => IInv
    BY InitIInv
  <1>2. IInv /\ [Next]_vars => IInv'
    BY NextIInv
  <1>3. IInv => OneOwner
    BY IInvOneOwner
  <1> QED
    BY <1>1, <1>2, <1>3, PTL DEF Spec

-----------------------------------------------------------------------------
(* No socket has gone from x to z.                                         *)
Stays(x, z) == \A w \in Viewers : z.sock[w] = "gone" => x.sock[w] = "gone"

(* None of the handlers' parts makes a socket go.                          *)
LEMMA OperatorsStay ==
    ASSUME None \notin Viewers, NEW x \in State, NEW v \in Viewers
    PROVE  /\ CloseWs(x, v) \in State /\ Stays(x, CloseWs(x, v))
           /\ CloseViewer(x, v) \in State /\ Stays(x, CloseViewer(x, v))
           /\ ClosePending(x, v) \in State /\ Stays(x, ClosePending(x, v))
           /\ Dies(x, v) \in State /\ Stays(x, Dies(x, v))
           /\ teardownPty(x) \in State /\ Stays(x, teardownPty(x))
           /\ \A p \in Viewers \cup {None} :
                 [x EXCEPT !.ent[v].pending = p] \in State /\ Stays(x, [x EXCEPT !.ent[v].pending = p])
           /\ \A p \in Phases :
                 [x EXCEPT !.ent[v].phase = p] \in State /\ Stays(x, [x EXCEPT !.ent[v].phase = p])
           /\ \A c \in Viewers \cup {None} :
                 [x EXCEPT !.cur = c] \in State /\ Stays(x, [x EXCEPT !.cur = c])
           /\ \A known \in BOOLEAN : beginAttach(x, v, known) \in State /\ Stays(x, beginAttach(x, v, known))
           /\ \A backend \in BOOLEAN :
                 setupNewPtyEntry(x, v, backend) \in State /\ Stays(x, setupNewPtyEntry(x, v, backend))
  <1>1. CloseWs(x, v) \in State /\ Stays(x, CloseWs(x, v))
    BY CloseWsFacts, Zenon DEF Stays
  <1>2. CloseViewer(x, v) \in State /\ Stays(x, CloseViewer(x, v))
    BY CloseViewerFacts DEF Stays
  <1>3. ClosePending(x, v) \in State /\ Stays(x, ClosePending(x, v))
    BY ClosePendingFacts DEF Stays
  <1>4. Dies(x, v) \in State /\ Stays(x, Dies(x, v))
    BY DiesFacts DEF Stays
  <1>5. teardownPty(x) \in State /\ Stays(x, teardownPty(x))
    BY TeardownFacts DEF Stays
  <1>6. ASSUME NEW p \in Viewers \cup {None}
        PROVE  [x EXCEPT !.ent[v].pending = p] \in State /\ Stays(x, [x EXCEPT !.ent[v].pending = p])
    BY SetPendingFacts DEF Stays
  <1>7. ASSUME NEW p \in Phases
        PROVE  [x EXCEPT !.ent[v].phase = p] \in State /\ Stays(x, [x EXCEPT !.ent[v].phase = p])
    BY SetPhaseFacts DEF Stays, SameOwner
  <1>8. ASSUME NEW c \in Viewers \cup {None}
        PROVE  [x EXCEPT !.cur = c] \in State /\ Stays(x, [x EXCEPT !.cur = c])
    BY SetCurFacts DEF Stays
  <1>9. ASSUME NEW known \in BOOLEAN
        PROVE  beginAttach(x, v, known) \in State /\ Stays(x, beginAttach(x, v, known))
    BY BeginAttachFacts DEF Stays, SameOwner
  <1>10. ASSUME NEW backend \in BOOLEAN
         PROVE  setupNewPtyEntry(x, v, backend) \in State /\ Stays(x, setupNewPtyEntry(x, v, backend))
    BY SetupFacts DEF Stays
  <1> QED
    BY <1>1, <1>2, <1>3, <1>4, <1>5, <1>6, <1>7, <1>8, <1>9, <1>10

LEMMA StaysTransitive ==
    ASSUME NEW x, NEW y, NEW z, Stays(x, y), Stays(y, z)
    PROVE  Stays(x, z)
  BY DEF Stays

(* A socket goes by its close event only.                                  *)
LEMMA OnlyCloseEventLeaves ==
    ASSUME None \notin Viewers, IInv, [Next]_vars, \A v \in Viewers : ~CloseEvent(v)
    PROVE  \A w \in Viewers : sock'[w] = "gone" => sock[w] = "gone"
  <1>1. Now \in State /\ waits \in Waits /\ Now.sock = sock /\ Now.cur = current
    BY DEF IInv, TypeOK, Now
  <1>2. CASE UNCHANGED vars
    BY <1>2 DEF vars
  <1>3. ASSUME NEW z, Become(z), Stays(Now, z)
        PROVE  \A w \in Viewers : sock'[w] = "gone" => sock[w] = "gone"
    BY <1>1, <1>3 DEF Become, Stays
  <1>4. ASSUME NEW v \in Viewers, NEW reset \in BOOLEAN, NEW backend \in BOOLEAN, Connect(v, reset, backend)
        PROVE  \A w \in Viewers : sock'[w] = "gone" => sock[w] = "gone"
    <2> DEFINE x == [Now EXCEPT !.sock[v] = "open"]
               y == IF reset /\ x.cur # None THEN teardownPty(x) ELSE x
    <2>1. x \in State /\ Stays(Now, x)
      <3>1. /\ x \in State
            /\ \A w \in Viewers : x.sock[w] = IF w = v THEN "open" ELSE Now.sock[w]
        BY <1>1, SetSockFacts, Zenon DEF Socks
      <3> HIDE DEF x
      <3> QED
        BY <3>1 DEF Stays
    <2> HIDE DEF x
    <2>2. y \in State /\ Stays(x, y)
      BY <2>1, OperatorsStay DEF Stays
    <2> HIDE DEF y
    <2>3. CASE y.cur = None
      <3>1. Become(setupNewPtyEntry(y, v, backend))
        BY <1>4, <2>3 DEF Connect, x, y
      <3> QED
        BY <1>3, <2>1, <2>2, <3>1, OperatorsStay, StaysTransitive, Zenon
    <2>4. CASE y.cur # None
      <3> DEFINE c == ClosePending(y, y.cur)
                 z == [c EXCEPT !.ent[y.cur].pending = v]
      <3>1. Become(z)
        BY <1>4, <2>4, Zenon DEF Connect, x, y
      <3>2. y.cur \in Viewers
        BY <2>2, <2>4 DEF State
      <3>3. c \in State /\ Stays(y, c)
        BY <2>2, <3>2, OperatorsStay
      <3> HIDE DEF c
      <3>4. Stays(c, z)
        BY <3>2, <3>3, OperatorsStay, Zenon
      <3> HIDE DEF z
      <3> QED
        BY <1>3, <2>1, <2>2, <3>1, <3>3, <3>4, StaysTransitive
    <2> QED
      BY <2>3, <2>4
  <1>5. ASSUME NEW v \in Viewers, NEW known \in BOOLEAN, Attach(v, known)
        PROVE  \A w \in Viewers : sock'[w] = "gone" => sock[w] = "gone"
    BY <1>1, <1>3, <1>5, OperatorsStay DEF Attach
  <1>6. ASSUME NEW v \in Viewers, NEW known \in BOOLEAN, NEW backend \in BOOLEAN, TakeControl(v, known, backend)
        PROVE  \A w \in Viewers : sock'[w] = "gone" => sock[w] = "gone"
    <2> DEFINE e == waits[v]
               a == cleanupPending(Now, v, e)
               b == CloseViewer(a, e)
               c == Dies(b, e)
               d == ClosePending(c, e)
               s == setupNewPtyEntry(d, v, backend)
               z == beginAttach(s, v, known)
    <2>1. Become(z) /\ e \in Viewers
      BY <1>1, <1>6 DEF TakeControl, performImmediateTakeover, Waits
    <2> HIDE DEF e
    <2>2. a \in State /\ Stays(Now, a)
      BY <1>1, <2>1, OperatorsStay DEF cleanupPending
    <2> HIDE DEF a
    <2>3. b \in State /\ Stays(Now, b)
      BY <2>1, <2>2, OperatorsStay, StaysTransitive, Zenon
    <2> HIDE DEF b
    <2>4. c \in State /\ Stays(Now, c)
      BY <2>1, <2>3, OperatorsStay, StaysTransitive
    <2> HIDE DEF c
    <2>5. d \in State /\ Stays(Now, d)
      BY <2>1, <2>4, OperatorsStay, StaysTransitive
    <2> HIDE DEF d
    <2>6. s \in State /\ Stays(Now, s)
      BY <2>5, OperatorsStay, StaysTransitive
    <2> HIDE DEF s
    <2>7. Stays(Now, z)
      BY <2>6, OperatorsStay, StaysTransitive
    <2> HIDE DEF z
    <2> QED
      BY <1>3, <2>1, <2>7
  <1>7. ASSUME NEW v \in Viewers
        PROVE  Stays(Now, [CloseViewer(Dies(Now, v), v) EXCEPT !.cur = None])
    <2> DEFINE a == Dies(Now, v)
               b == CloseViewer(a, v)
    <2>1. a \in State /\ Stays(Now, a)
      BY <1>1, OperatorsStay
    <2> HIDE DEF a
    <2>2. b \in State /\ Stays(Now, b)
      BY <2>1, OperatorsStay, StaysTransitive, Zenon
    <2> HIDE DEF b
    <2>3. Stays(Now, [b EXCEPT !.cur = None])
      BY <2>2, OperatorsStay, StaysTransitive
    <2> QED
      BY <2>3 DEF a, b
  <1>8. ASSUME NEW v \in Viewers, NEW found \in BOOLEAN, Listed(v, found) \/ Subscribe(v, found)
        PROVE  \A w \in Viewers : sock'[w] = "gone" => sock[w] = "gone"
    <2>1. \/ Become([CloseViewer(Dies(Now, v), v) EXCEPT !.cur = None])
          \/ \E p \in Phases : Become([Now EXCEPT !.ent[v].phase = p])
      BY <1>8 DEF Listed, Subscribe, Phases
    <2> QED
      BY <1>1, <1>3, <1>7, <2>1, OperatorsStay, Zenon
  <1>9. ASSUME NEW v \in Viewers, AttachFails(v)
        PROVE  \A w \in Viewers : sock'[w] = "gone" => sock[w] = "gone"
    <2> DEFINE c == CloseWs(Now, v)
               z == [c EXCEPT !.ent[v].phase = "none"]
    <2>1. Become(z)
      BY <1>9 DEF AttachFails
    <2>2. c \in State /\ Stays(Now, c)
      BY <1>1, OperatorsStay
    <2> HIDE DEF c
    <2>3. Stays(Now, z)
      BY <2>2, OperatorsStay, StaysTransitive, Zenon DEF Phases
    <2> HIDE DEF z
    <2> QED
      BY <1>3, <2>1, <2>3
  <1>10. ASSUME NEW v \in Viewers, Exited(v)
         PROVE  \A w \in Viewers : sock'[w] = "gone" => sock[w] = "gone"
    BY <1>1, <1>3, <1>10, OperatorsStay, Zenon DEF Exited, Phases
  <1>11. ASSUME NEW v \in Viewers, finishExit(v)
         PROVE  \A w \in Viewers : sock'[w] = "gone" => sock[w] = "gone"
    <2> DEFINE x == IF current = v THEN [Now EXCEPT !.cur = None] ELSE Now
               a == Dies(x, v)
               b == CloseViewer(a, v)
               z == ClosePending(b, v)
    <2>1. Become(z)
      BY <1>11 DEF finishExit
    <2>2. x \in State /\ Stays(Now, x)
      BY <1>1, OperatorsStay DEF Stays
    <2> HIDE DEF x
    <2>3. a \in State /\ Stays(Now, a)
      BY <2>2, OperatorsStay, StaysTransitive
    <2> HIDE DEF a
    <2>4. b \in State /\ Stays(Now, b)
      BY <2>3, OperatorsStay, StaysTransitive, Zenon
    <2> HIDE DEF b
    <2>5. Stays(Now, z)
      BY <2>4, OperatorsStay, StaysTransitive
    <2> HIDE DEF z
    <2> QED
      BY <1>3, <2>1, <2>5
  <1>12. ASSUME NEW v \in Viewers, ViewerFails(v) \/ BrokerUnavailable(v)
         PROVE  \A w \in Viewers : sock'[w] = "gone" => sock[w] = "gone"
    <2>1. PICK x \in {Now, ClosePending(Now, v)} : Become(teardownPty(CloseWs(x, v)))
      BY <1>12 DEF ViewerFails, BrokerUnavailable
    <2> DEFINE c == CloseWs(x, v)
    <2>2. x \in State /\ Stays(Now, x)
      <3>1. Stays(Now, Now)
        BY DEF Stays
      <3> QED
        BY <1>1, <2>1, <3>1, OperatorsStay
    <2>3. c \in State /\ Stays(Now, c)
      BY <2>2, OperatorsStay, StaysTransitive
    <2> HIDE DEF c
    <2>4. Stays(Now, teardownPty(c))
      BY <2>3, OperatorsStay, StaysTransitive
    <2> QED
      BY <1>3, <2>1, <2>4 DEF c
  <1>13. CASE KillRoute
    BY <1>1, <1>3, <1>13, TeardownFacts DEF KillRoute, Stays
  <1> QED
    BY <1>2, <1>4, <1>5, <1>6, <1>8, <1>9, <1>10, <1>11, <1>12, <1>13 DEF Next

(* For any set of viewers: the close event of a viewer, displaced, waiting *)
(* or in control, ends no entry but its own (detach checks                 *)
(* entryStillCurrent, cleanup withdraws a waiting viewer only).            *)
THEOREM LeaverEndsOnlyItsEntry ==
    ASSUME None \notin Viewers
    PROVE  Spec => LeaverEndsOwnEntry
  <1>1. Init => IInv
    BY InitIInv
  <1>2. IInv /\ [Next]_vars => IInv'
    BY NextIInv
  <1>3. ASSUME IInv, [Next]_vars
        PROVE  LeaverEndsOwnEntryStep
    <2> SUFFICES ASSUME NEW v \in Viewers, NEW w \in Viewers,
                        v # w, sock[v] # "gone", sock'[v] = "gone", ent[w].alive
                 PROVE  ent'[w].alive
      BY DEF LeaverEndsOwnEntryStep
    <2>1. PICK u \in Viewers : CloseEvent(u)
      BY <1>3, OnlyCloseEventLeaves
    <2>2. u = v
      BY <1>3, <2>1, CloseEventStep
    <2> QED
      BY <1>3, <2>1, <2>2, CloseEventStep
  <1> QED
    BY <1>1, <1>2, <1>3, PTL DEF Spec, LeaverEndsOwnEntry
=============================================================================
