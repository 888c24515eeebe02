--------------------------- MODULE MCOutputStream ---------------------------
(***************************************************************************)
(* The bounds of the runs of OutputStream.                                 *)
(***************************************************************************)
EXTENDS OutputStream

Limit(seqs, attaching, dropping, late, shared, broadcast) ==
    [seq |-> seqs, attach |-> attaching, drop |-> dropping, timeout |-> late,
     observers |-> shared, live |-> broadcast]

(* One attach whose subscription lags and whose connection breaks.         *)
LagLimits == {Limit(4, 1, 1, 0, FALSE, 1)}

(* A viewer alone that drops, times out and attaches again; a viewer that  *)
(* shares its session with an observer, where fewer chunks suffice; and a  *)
(* viewer that lags.                                                       *)
AttachLimits == {Limit(4, 2, 1, 1, FALSE, 4), Limit(2, 1, 1, 0, TRUE, 4),
                 Limit(3, 1, 0, 0, FALSE, 1)}

(* As many chunks as it takes for the observer's subscribe to lose one.    *)
SharedLimits == {Limit(3, 1, 1, 0, TRUE, 3)}
=============================================================================
