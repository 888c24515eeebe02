---------------------------- MODULE SessionStream ----------------------------
(***************************************************************************)
(* What a session's output promises its readers, whatever buffers carry    *)
(* it (the contract in the comments of broker/src/output_bus.rs): the      *)
(* output is a log of numbered chunks, and a reader gets the unbroken run  *)
(* of chunks from the place it asked for, or is told that it cannot.       *)
(*                                                                         *)
(* No ring, no channel, no capacity.  OutputBus implements this module.    *)
(***************************************************************************)
EXTENDS Naturals, Sequences

CONSTANTS
    Readers,
    LiveOnly        \* what a reader asks for that wants new chunks only

VARIABLES
    last,           \* the chunks written so far are 1..last
    finished,       \* no chunk will be written
    state,          \* each reader: off, on, lagged or ended
    told,           \* it was told that what it asked for is gone
    from,           \* it gets the chunks after this one
    seen            \* what it got

vars == <<last, finished, state, told, from, seen>>

Init ==
    /\ last = 0 /\ finished = FALSE
    /\ state = [r \in Readers |-> "off"]
    /\ told = [r \in Readers |-> FALSE]
    /\ from = [r \in Readers |-> 0]
    /\ seen = [r \in Readers |-> <<>>]

Write ==
    /\ ~finished /\ last' = last + 1
    /\ UNCHANGED <<finished, state, told, from, seen>>

Finish ==
    /\ ~finished /\ finished' = TRUE
    /\ UNCHANGED <<last, state, told, from, seen>>

(* A reader starts after chunk s, after the last chunk, or, being told,    *)
(* later than it asked.                                                    *)
Open(r, s) ==
    /\ \E t \in BOOLEAN, f \in 0..last :
          /\ IF s = LiveOnly THEN ~t /\ f = last
             ELSE IF t THEN f > s ELSE f = s
          /\ told' = [told EXCEPT ![r] = t]
          /\ from' = [from EXCEPT ![r] = f]
    /\ state' = [state EXCEPT ![r] = "on"]
    /\ seen' = [seen EXCEPT ![r] = <<>>]
    /\ UNCHANGED <<last, finished>>

At(r) == from[r] + Len(seen[r])

(* The next chunk, and no other.                                           *)
Read(r) ==
    /\ state[r] = "on" /\ At(r) < last
    /\ seen' = [seen EXCEPT ![r] = Append(@, At(r) + 1)]
    /\ UNCHANGED <<last, finished, state, told, from>>

(* A reader that has not kept up may be told to start again.               *)
Lag(r) ==
    /\ state[r] = "on" /\ At(r) < last
    /\ state' = [state EXCEPT ![r] = "lagged"]
    /\ UNCHANGED <<last, finished, told, from, seen>>

(* The end is seen after everything that was written.                      *)
End(r) ==
    /\ state[r] = "on" /\ finished /\ At(r) = last
    /\ state' = [state EXCEPT ![r] = "ended"]
    /\ UNCHANGED <<last, finished, told, from, seen>>

Next ==
    \/ Write \/ Finish
    \/ \E r \in Readers : \/ \E s \in 0..last \cup {LiveOnly} : Open(r, s)
                          \/ Read(r) \/ Lag(r) \/ End(r)

Spec == Init /\ [][Next]_vars
=============================================================================
