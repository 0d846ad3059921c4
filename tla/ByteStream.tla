----------------------------- MODULE ByteStream -----------------------------
(***************************************************************************)
(* What the receive side of the reliable stream promises (spec 4.6, 5):    *)
(* bytes arrive in any order, any number of times, but only inside the     *)
(* window of Window bytes above the read cursor, and the reader is handed  *)
(* the stream in absolute-offset order, each byte once.  A byte is named   *)
(* by its absolute offset, so the stream itself is 0, 1, 2, ...            *)
(***************************************************************************)
EXTENDS Naturals, Sequences

CONSTANTS Window, StreamLen

VARIABLES
  rcvd,  \* offsets received and not yet handed to the reader
  out    \* the bytes handed to the reader, in order

vars == <<rcvd, out>>

Delivered == Len(out)

Init ==
  /\ rcvd = {}
  /\ out = <<>>

\* Some bytes inside the window become available.
Receive ==
  \E S \in SUBSET ((Delivered .. (Delivered + Window - 1)) \cap (0 .. (StreamLen - 1))) :
    /\ rcvd' = rcvd \cup S
    /\ UNCHANGED out

\* The reader is handed the next n bytes, all of which had been received.
Deliver ==
  \E n \in 1 .. Window :
    /\ (Delivered .. (Delivered + n - 1)) \subseteq rcvd
    /\ out' = out \o [q \in 1 .. n |-> Delivered + q - 1]
    /\ rcvd' = rcvd \ (Delivered .. (Delivered + n - 1))

Next == Receive \/ Deliver

Spec == Init /\ [][Next]_vars
=============================================================================
