----------------------------- MODULE MsgChannel -----------------------------
(***************************************************************************)
(* The unreliable message channel of one direction of a connection: the    *)
(* sending user's WriteMsg / ReadMsgFrom, the sender's maybeSendMsg        *)
(* (output.go), a network that loses, reorders and duplicates packets, the *)
(* receiver's handleMsg (input.go) with its msgReassembler                 *)
(* (msg_reassembler.go), and the receiving user's SetMsgReceiveWindow and  *)
(* ReadMsg (conn.go).                                                      *)
(*                                                                         *)
(* Abstractions: byte i of the k-th message is <<k, i>>; a packet carries  *)
(* at most Room bytes of message data after the MSG frame header; one     *)
(* Wake composes one packet (the loop of wake() repeats it while packets   *)
(* come out full); a cwnd-limited packet carries no MSG frame, which is a  *)
(* wake that sends nothing; the reading user's buffer holds any message.   *)
(***************************************************************************)
EXTENDS Integers, Sequences, SequencesExt

CONSTANTS
  MsgLens,        \* MsgLens[k]: length of the k-th message the user sends
  Room,           \* message bytes that fit in one packet
  MsgWindow,      \* the n of SetMsgReceiveWindow(n)
  InitialMsgSeqs, \* msgSeq starts at rand.Int63n(3)
  Duplicating     \* whether the network duplicates packets

ASSUME /\ MsgLens \in Seq(Nat) /\ Room \in Nat \ {0} /\ MsgWindow \in Nat
       /\ InitialMsgSeqs \subseteq 0 .. 2 /\ Duplicating \in BOOLEAN

N == Len(MsgLens)

\* The bytes of the k-th message.
Bytes(k) == [i \in 1 .. MsgLens[k] |-> <<k, i>>]

---------------------------------------------------------------------------
(* msgReassembler: rb holds the last whole message, wb the one being      *)
(* assembled; both have capacity cap.                                      *)

NewMsgReassembler(n) == [rb |-> <<>>, wb |-> <<>>, cap |-> n]

\* Read: returns <<bytes, reassembler>>.
MsgRead(a) == <<a.rb, [a EXCEPT !.rb = <<>>]>>

MsgClear(a) == [a EXCEPT !.wb = <<>>]

\* Mutant of MsgWrite: no capacity check.
MsgWriteUnbounded(a, p) == <<FALSE, [a EXCEPT !.wb = @ \o p]>>

\* Write: appends what fits; returns <<short write, reassembler>>.
MsgWrite(a, p) ==
  LET n == Min({a.cap - Len(a.wb), Len(p)})
  IN  <<n < Len(p), [a EXCEPT !.wb = @ \o SubSeq(p, 1, n)]>>

MsgSwap(a) == [a EXCEPT !.rb = a.wb, !.wb = <<>>]

---------------------------------------------------------------------------
(* Sender side.                                                            *)

\* Mutant of MsgMaxDataLen: data exactly filling the room counts as not
\* fitting.
MsgMaxDataLenStrict(room, dataLen) ==
  IF room < 1 THEN 0
  ELSE IF room < dataLen THEN room
  ELSE Min({room - 1, dataLen})

\* wire.MsgMaxDataLen, with room the bytes left after the frame header
\* (n - overhead) and a one-byte explicit length: what fills the room, or
\* else the whole data, which is nothing when the data is empty.
MsgMaxDataLen(room, dataLen) ==
  IF room < 1 THEN 0
  ELSE IF room <= dataLen THEN room
  ELSE Min({room - 1, dataLen})

VARIABLES
  msgData,      \* c.msgData: what is left of the pending message
  msgSeq,       \* c.msgSeq
  msgContinued, \* c.msgContinued
  sndToken,     \* c.unrelsndready holds its token: a message is pending
  wm,           \* the sending user: [state, k] of its pending call
  net,          \* MSG frames in flight
  ra,           \* the receiver's msgReassembler
  msgRcvdSeq,   \* c.msgRcvdSeq
  rcvToken,     \* c.unrelrcvready holds its token
  rm,           \* the receiving user: "idle", "waiting" or "locking"
  got           \* history: what each ReadMsg returned

vars == <<msgData, msgSeq, msgContinued, sndToken, wm, net, ra, msgRcvdSeq,
          rcvToken, rm, got>>

Init ==
  /\ msgData = <<>>
  /\ msgSeq \in InitialMsgSeqs
  /\ msgContinued = FALSE
  /\ sndToken = FALSE
  /\ wm = [state |-> "idle", k |-> 0]
  /\ net = {}
  /\ ra = NewMsgReassembler(0)
  /\ msgRcvdSeq = -2
  /\ rcvToken = FALSE
  /\ rm = "idle"
  /\ got = <<>>

\* The user calls WriteMsg with the next message (from = FALSE), or
\* ReadMsgFrom whose io.Reader yields it or fails (from = TRUE).
CallWriteMsg ==
  /\ wm.state = "idle" /\ wm.k < N
  /\ \E from \in BOOLEAN :
       wm' = [state |-> IF from THEN "from" ELSE "write", k |-> wm.k + 1]
  /\ UNCHANGED <<msgData, msgSeq, msgContinued, sndToken, net, ra, msgRcvdSeq,
                 rcvToken, rm, got>>

\* WriteMsg / ReadMsgFrom: the send on unrelsndready that waits until no
\* message is pending.
PutSndToken ==
  /\ wm.state \in {"write", "from"} /\ ~sndToken
  /\ sndToken' = TRUE
  /\ wm' = [wm EXCEPT !.state = IF @ = "write" THEN "locking" ELSE "reading"]
  /\ UNCHANGED <<msgData, msgSeq, msgContinued, net, ra, msgRcvdSeq,
                 rcvToken, rm, got>>

\* ReadMsgFrom: r.Read, outside the lock, fails; the token is taken back
\* and the call returns.
ReadFromFails ==
  /\ wm.state = "reading"
  /\ sndToken' = FALSE
  /\ wm' = [wm EXCEPT !.state = "idle"]
  /\ UNCHANGED <<msgData, msgSeq, msgContinued, net, ra, msgRcvdSeq,
                 rcvToken, rm, got>>

\* WriteMsg / ReadMsgFrom under the lock: the message becomes pending.
SetMsgData ==
  /\ wm.state \in {"locking", "reading"}
  /\ msgData' = Bytes(wm.k)
  /\ msgContinued' = FALSE
  /\ wm' = [wm EXCEPT !.state = "idle"]
  /\ UNCHANGED <<msgSeq, sndToken, net, ra, msgRcvdSeq, rcvToken, rm, got>>

\* wake -> sendPacket -> maybeSendMsg: the next fragment goes out; the
\* last one releases unrelsndready (the code panics if it is not held).
SendMsg ==
  LET n == MsgMaxDataLen(Room, Len(msgData))
  IN  /\ n > 0
      /\ net' = net \cup {[seq |-> msgSeq, first |-> ~msgContinued,
                           last |-> n = Len(msgData),
                           data |-> SubSeq(msgData, 1, n)]}
      /\ msgContinued' = TRUE
      /\ msgData' = SubSeq(msgData, n + 1, Len(msgData))
      /\ msgSeq' = msgSeq + 1
      /\ sndToken' = IF n = Len(msgData) THEN FALSE ELSE sndToken
      /\ UNCHANGED <<wm, ra, msgRcvdSeq, rcvToken, rm, got>>

---------------------------------------------------------------------------
(* Receiver side.                                                          *)

\* Mutant of HandleMsg: no out-of-order check.
HandleMsgInAnyOrder(a, rs, m) ==
  LET a1 == IF m.first /\ rs < m.seq THEN MsgClear(a) ELSE a
      w  == MsgWrite(a1, m.data)
  IN  IF w[1] THEN <<w[2], rs, FALSE>>
      ELSE IF m.last THEN <<MsgSwap(w[2]), m.seq, TRUE>>
      ELSE <<w[2], m.seq, FALSE>>

\* handleMsg for frame m; returns <<reassembler, msgRcvdSeq, signal>>.
HandleMsg(a, rs, m) ==
  LET a1 == IF m.first /\ rs < m.seq THEN MsgClear(a) ELSE a
      w  == MsgWrite(a1, m.data)
  IN  IF ~(m.first /\ rs < m.seq) /\ rs + 1 # m.seq THEN <<a, rs, FALSE>>
      ELSE IF w[1] THEN <<w[2], rs, FALSE>>
      ELSE IF m.last THEN <<MsgSwap(w[2]), m.seq, TRUE>>
      ELSE <<w[2], m.seq, FALSE>>

ReceiveMsg(m) ==
  /\ m \in net
  /\ \E keep \in {FALSE, Duplicating} :
       net' = IF keep THEN net ELSE net \ {m}
  /\ LET r == HandleMsg(ra, msgRcvdSeq, m)
     IN  /\ ra' = r[1]
         /\ msgRcvdSeq' = r[2]
         /\ rcvToken' = (rcvToken \/ r[3])
  /\ UNCHANGED <<msgData, msgSeq, msgContinued, sndToken, wm, rm, got>>

LoseMsg(m) ==
  /\ m \in net
  /\ net' = net \ {m}
  /\ UNCHANGED <<msgData, msgSeq, msgContinued, sndToken, wm, ra, msgRcvdSeq,
                 rcvToken, rm, got>>

\* SetMsgReceiveWindow, called while no ReadMsg is in progress.
SetMsgReceiveWindow ==
  /\ rm = "idle" /\ ra.cap # MsgWindow
  /\ ra' = NewMsgReassembler(MsgWindow)
  /\ UNCHANGED <<msgData, msgSeq, msgContinued, sndToken, wm, net, msgRcvdSeq,
                 rcvToken, rm, got>>

CallReadMsg ==
  /\ rm = "idle" /\ rm' = "waiting"
  /\ UNCHANGED <<msgData, msgSeq, msgContinued, sndToken, wm, net, ra,
                 msgRcvdSeq, rcvToken, got>>

\* ReadMsg receives from unrelrcvready, before taking the lock.
TakeRcvToken ==
  /\ rm = "waiting" /\ rcvToken
  /\ rcvToken' = FALSE /\ rm' = "locking"
  /\ UNCHANGED <<msgData, msgSeq, msgContinued, sndToken, wm, net, ra,
                 msgRcvdSeq, got>>

\* ReadMsg under the lock: msgReassembler.Read.
ReadMsg ==
  LET r == MsgRead(ra)
  IN  /\ rm = "locking"
      /\ ra' = r[2]
      /\ got' = Append(got, r[1])
      /\ rm' = "idle"
      /\ UNCHANGED <<msgData, msgSeq, msgContinued, sndToken, wm, net,
                     msgRcvdSeq, rcvToken>>

Next ==
  \/ CallWriteMsg \/ PutSndToken \/ ReadFromFails \/ SetMsgData \/ SendMsg
  \/ \E m \in net : ReceiveMsg(m) \/ LoseMsg(m)
  \/ SetMsgReceiveWindow \/ CallReadMsg \/ TakeRcvToken \/ ReadMsg

\* The driver runs wake whenever WriteMsg signals it and keeps sending
\* while packets come out full, so SendMsg is weakly fair; each user
\* goroutine that can proceed does.
Fairness ==
  /\ WF_vars(SendMsg)
  /\ WF_vars(PutSndToken) /\ WF_vars(SetMsgData) /\ WF_vars(ReadFromFails)

Spec == Init /\ [][Next]_vars /\ Fairness

---------------------------------------------------------------------------
TypeOK ==
  /\ msgData \in Seq((1 .. N) \X Nat)
  /\ sndToken \in BOOLEAN /\ rcvToken \in BOOLEAN
  /\ wm.state \in {"idle", "write", "from", "locking", "reading"}
  /\ rm \in {"idle", "waiting", "locking"}
  /\ Len(ra.wb) <= ra.cap /\ Len(ra.rb) <= MsgWindow

(* Messages are delivered whole, at most once and in sender order: every  *)
(* non-empty ReadMsg result is exactly one message the user wrote, and    *)
(* each later one is a later message, whatever the network loses,         *)
(* duplicates or reorders (handleMsg's sequence checks, Clear and Swap).   *)
MsgWholeInOrder ==
  \A i \in DOMAIN got :
    got[i] # <<>> =>
      \E k \in 1 .. N :
        /\ got[i] = Bytes(k)
        /\ \A j \in 1 .. (i - 1) : got[j] # <<>> => got[j][1][1] < k

(* ReadMsg returns a message only when one has arrived: it never returns   *)
(* an empty message when every message sent is non-empty (ReadMsg's       *)
(* receive on unrelrcvready and its read of the reassembler).              *)
NoEmptyMsg == \A i \in DOMAIN got : got[i] # <<>>

(* A WriteMsg or ReadMsgFrom call always returns: the message pending      *)
(* before it is eventually sent and unrelsndready released (WriteMsg,      *)
(* maybeSendMsg).                                                          *)
WriteMsgReturns ==
  \A k \in 1 .. N : (wm.k = k /\ wm.state # "idle") ~> (wm.state = "idle")
=============================================================================
