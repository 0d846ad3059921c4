-------------------------- MODULE StreamReassembler --------------------------
(***************************************************************************)
(* The reliable stream reassembler of stream_reassembler.go: a ring buffer *)
(* buf of Window bytes, a bitset readable marking slots that hold received *)
(* unread bytes, and the absolute read cursor off.  Stream data is         *)
(* abstracted to its position: the byte at absolute offset k is the value  *)
(* k, so a slot holding the wrong byte is visible.  NoByte stands for the  *)
(* zero bytes of a fresh buffer.                                           *)
(***************************************************************************)
EXTENDS Integers, Sequences

CONSTANTS
  Window,     \* Config.StreamReceiveWindow
  WordBits,   \* bits per bitset word (32 in the code)
  StreamLen,  \* bytes of the stream the peer may send (bound)
  MaxSegment, \* longest STREAM frame payload (bound)
  MaxRead     \* longest user read buffer (bound)

ASSUME Window \in Nat \ {0} /\ StreamLen \in Nat /\ MaxSegment \in Nat \ {0}
       /\ MaxRead \in Nat \ {0}

NoByte == -1

BS == INSTANCE Bitset WITH Size <- Window, bits <- {}, lastRun <- <<0, 0, 0>>

Slots == 0 .. (Window - 1)

Min2(a, b) == IF a < b THEN a ELSE b

\* A reassembler is a record [readable, buf, off]; newStreamReassembler:
New == [readable |-> {}, buf |-> [p \in Slots |-> NoByte], off |-> 0]

MaxOffset(a) == a.off + Window

CanBeRead(a) == BS!Test(a.readable, a.off % Window)

\* Mutant of WriteAt: the window check also refuses data that ends exactly
\* at MaxOffset.
WriteAtFullWindowOverflows(a, o, l) ==
  LET skip == IF o < a.off THEN a.off - o ELSE 0
      o2   == o + skip
      l2   == l - skip
      i    == o2 % Window
      j    == Min2(i + l2, Window)
      nn   == j - i
  IN  IF o < a.off /\ o + l < a.off THEN <<FALSE, a>>
      ELSE IF o2 + l2 >= a.off + Window THEN <<TRUE, a>>
      ELSE <<FALSE,
             [a EXCEPT !.readable = BS!Set(BS!Set(@, i, j), 0, l2 - nn),
                       !.buf = [p \in Slots |->
                                  IF i <= p /\ p < j THEN o2 + (p - i)
                                  ELSE IF p < l2 - nn THEN o2 + nn + p
                                  ELSE @[p]]]>>

\* Mutant of WriteAt: no window check at all.
WriteAtUnchecked(a, o, l) ==
  LET skip == IF o < a.off THEN a.off - o ELSE 0
      o2   == o + skip
      l2   == l - skip
      i    == o2 % Window
      j    == Min2(i + l2, Window)
      nn   == j - i
  IN  IF o < a.off /\ o + l < a.off THEN <<FALSE, a>>
      ELSE <<FALSE,
             [a EXCEPT !.readable = BS!Set(BS!Set(@, i, j), 0, l2 - nn),
                       !.buf = [p \in Slots |->
                                  IF i <= p /\ p < j THEN o2 + (p - i)
                                  ELSE IF p < l2 - nn THEN o2 + nn + p
                                  ELSE @[p]]]>>

\* WriteAt of the bytes at offsets o .. o+l-1.  Returns <<err, reassembler>>:
\* data entirely below the cursor is dropped; a head below the cursor is
\* skipped; data reaching past MaxOffset is "reassembler overflow"; the rest
\* is copied from o % Window to the end of the ring, and the remainder from
\* slot 0, marking the same slots readable.
WriteAt(a, o, l) ==
  LET skip == IF o < a.off THEN a.off - o ELSE 0
      o2   == o + skip
      l2   == l - skip
      i    == o2 % Window
      j    == Min2(i + l2, Window)
      nn   == j - i
  IN  IF o < a.off /\ o + l < a.off THEN <<FALSE, a>>
      ELSE IF o2 + l2 > a.off + Window THEN <<TRUE, a>>
      ELSE <<FALSE,
             [a EXCEPT !.readable = BS!Set(BS!Set(@, i, j), 0, l2 - nn),
                       !.buf = [p \in Slots |->
                                  IF i <= p /\ p < j THEN o2 + (p - i)
                                  ELSE IF p < l2 - nn THEN o2 + nn + p
                                  ELSE @[p]]]>>

\* Mutant of Read: the cursor advances by the buffer length, not by the
\* number of bytes read.
ReadAdvancesByBuffer(a, L) ==
  LET i == a.off % Window
      r == BS!ClearRun(a.readable, i, Min2(i + L, Window))
  IN  <<[q \in 1 .. r[1] |-> a.buf[i + q - 1]],
        [a EXCEPT !.readable = r[2], !.off = @ + L]>>

\* Read into a buffer of L bytes: returns <<bytes read, reassembler>>; at
\* most one contiguous segment of the ring is returned.
Read(a, L) ==
  LET i == a.off % Window
      r == BS!ClearRun(a.readable, i, Min2(i + L, Window))
      n == r[1]
  IN  <<[q \in 1 .. n |-> a.buf[i + q - 1]],
        [a EXCEPT !.readable = r[2], !.off = @ + n]>>

-----------------------------------------------------------------------------
(* The reassembler as a component: the peer's STREAM frames (any segment   *)
(* of the stream, old, duplicated or beyond the window) interleaved with   *)
(* the user's reads.                                                       *)

VARIABLES
  ra,        \* the reassembler
  out,       \* history: every byte returned by Read, in order
  overflowed \* WriteAt has reported "reassembler overflow"

vars == <<ra, out, overflowed>>

Init ==
  /\ ra = New
  /\ out = <<>>
  /\ overflowed = FALSE

\* handleStream: a STREAM frame carrying offsets o .. o+l-1.
ReceiveStream(o, l) ==
  LET r == WriteAt(ra, o, l)
  IN  /\ ra' = r[2]
      /\ overflowed' = (overflowed \/ r[1])
      /\ UNCHANGED out

\* Conn.Read: a read that returns data.
ReadStream(L) ==
  LET r == Read(ra, L)
  IN  /\ r[1] # <<>>
      /\ ra' = r[2]
      /\ out' = out \o r[1]
      /\ UNCHANGED overflowed

Next ==
  \/ \E o \in 0 .. (StreamLen - 1), l \in 1 .. MaxSegment :
       o + l <= StreamLen /\ ReceiveStream(o, l)
  \/ \E L \in 1 .. MaxRead : ReadStream(L)

Spec == Init /\ [][Next]_vars

TypeOK ==
  /\ ra.readable \subseteq Slots
  /\ ra.buf \in [Slots -> {NoByte} \cup (0 .. (StreamLen - 1))]
  /\ ra.off \in 0 .. StreamLen
  /\ out \in Seq(0 .. (StreamLen - 1))
  /\ overflowed \in BOOLEAN

(* The abstract stream: the offsets a readable slot stands for (the unique *)
(* offset in [off, off+Window) that maps to it) are the received bytes,    *)
(* and the bytes Read returned are the delivered ones.                     *)
Abs == INSTANCE ByteStream WITH
         rcvd <- {ra.off + ((p - ra.off) % Window) : p \in ra.readable},
         out <- out

(* The reassembler implements the in-order byte stream: every Read hands   *)
(* out exactly the next bytes of the stream, never a stale slot, a byte    *)
(* twice or a byte not yet received, across ring wrap-around and partial,  *)
(* duplicate and overlapping STREAM frames (WriteAt, Read, ClearRun).      *)
ByteStreamRefined == Abs!Spec
=============================================================================
