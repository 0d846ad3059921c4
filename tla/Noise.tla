-------------------------------- MODULE Noise --------------------------------
(***************************************************************************)
(* The Noise IK handshake of internal/sec, as Mux runs it: the dialler's   *)
(* handshaker writes the initial and reads one reply (handshaker.go), the  *)
(* listener reads each initial and answers it with a fresh ephemeral key  *)
(* (receiveHandshake), and both Split the handshake into a Conn's keys.   *)
(*                                                                         *)
(* Cryptography is symbolic.  A public key is Pub(k) of a private key k,   *)
(* and X25519 of a private key and a public key is the set of the two     *)
(* private keys; Low is a low-order point, for which X25519 fails.  The   *)
(* hash is the sequence of what was mixed into it, the chaining key the   *)
(* sequence of what mixKey took, and an AEAD key is named by that         *)
(* sequence.  AEAD Open succeeds on a ciphertext sealed under the same     *)
(* key, nonce and additional data, or on one forged by the attacker if    *)
(* the attacker can derive the key: if it holds a private key of every    *)
(* DH result mixed into it.                                                *)
(*                                                                         *)
(* The attacker holds the private keys AttackerKeys, sees every message   *)
(* and may deliver any of them any number of times, and may forge         *)
(* initials and replies with any ephemeral it can name.  Its messages are *)
(* in the network from the start.                                         *)
(***************************************************************************)
EXTENDS Naturals, FiniteSets, Sequences

CONSTANTS
  IStatic,      \* the dialler's static private key (Config.PrivateKey)
  IEphemeral,   \* the ephemeral private key its WriteMessage generates
  RStatic,      \* the listener's static private key
  REphemerals,  \* ephemeral keys for the listener's WriteMessage calls
  AttackerKeys  \* private keys the attacker holds

VARIABLES
  ihs,        \* the dialler's handshake state
  iphase,     \* "start", "sent", "done" or "failed"
  iinitial,   \* the initial it wrote
  ireply,     \* the reply its handshaker read
  iconn,      \* the Conn DialContextAddrPort made: [recv, send, hash]
  sessions,   \* listener Conns: [initial, reply, peer, conn]
  initials,   \* handshake packets in the network
  replies     \* data packets answering them

vars == <<ihs, iphase, iinitial, ireply, iconn, sessions, initials, replies>>

---------------------------------------------------------------------------
(* Symbolic terms.                                                         *)

Pub(k) == [t |-> "pub", x |-> k]
Low    == [t |-> "pub", x |-> "low"]
Empty  == [t |-> "empty"]              \* the nil payload
None   == [t |-> "none"]

\* curve25519.X25519: fails on a low-order point.
DH(priv, p) == IF p = Low THEN [ok |-> FALSE, v |-> {}]
               ELSE [ok |-> TRUE, v |-> {priv, p.x}]

Knows(key) == \A i \in DOMAIN key.ck : key.ck[i] \cap AttackerKeys # {}

Forged(pt) == [t |-> "forged", pt |-> pt]

---------------------------------------------------------------------------
(* symmetric.go.                                                           *)

\* newSymmetric, then mixHash(prologue) in NewHandshake: a nilAEAD.
NewSymmetric == [k |-> [t |-> "nil", ck |-> <<>>], n |-> 0, ck |-> <<>>,
                 h |-> <<"Noise_IK_25519_ChaChaPoly_BLAKE2b", "prologue">>]

MixHash(s, d) == [s EXCEPT !.h = Append(@, d)]

\* mixKey: the chaining key and the AEAD key both derive from the input;
\* the nonce restarts.
MixKey(s, x) == [s EXCEPT !.ck = Append(@, x),
                          !.k = [t |-> "key", ck |-> Append(s.ck, x)],
                          !.n = 0]

\* Split: the two AEADs and the handshake hash.
Split(s) == [c1 |-> [t |-> "c1", ck |-> s.ck], c2 |-> [t |-> "c2", ck |-> s.ck],
             hash |-> s.h]

\* sealAndHash: a nilAEAD returns the plaintext.
SealAndHash(s, pt) ==
  LET c == IF s.k.t = "nil" THEN pt
           ELSE [t |-> "aead", key |-> s.k, n |-> s.n, ad |-> s.h, pt |-> pt]
  IN  [c |-> c, s |-> [MixHash(s, c) EXCEPT !.n = @ + 1]]

\* openAndHash: on failure the state is dropped with the handshake.
OpenAndHash(s, c) ==
  LET ok == \/ s.k.t = "nil"
            \/ c.t = "aead" /\ c.key = s.k /\ c.n = s.n /\ c.ad = s.h
            \/ c.t = "forged" /\ Knows(s.k)
  IN  [ok |-> ok, pt |-> IF s.k.t = "nil" THEN c ELSE c.pt,
       s |-> [MixHash(s, c) EXCEPT !.n = @ + 1]]

---------------------------------------------------------------------------
(* The two roles (handshake.go, handshake_initiator.go,                    *)
(* handshake_responder.go).  A handshake state is [sym, s, e, re, rs].     *)

Fail == [ok |-> FALSE]

\* NewHandshake(InitiatorRole): the known remote static key is mixed in
\* through the nilAEAD's openAndHash.
NewInitiator(rs) ==
  [sym |-> OpenAndHash(NewSymmetric, rs).s, s |-> IStatic, e |-> "none",
   re |-> None, rs |-> rs]

\* NewHandshake(ResponderRole): its own static key, sealed by the nilAEAD.
NewResponder ==
  [sym |-> SealAndHash(NewSymmetric, Pub(RStatic)).s, s |-> RStatic,
   e |-> "none", re |-> None, rs |-> None]

\* initiatorHandshake.WriteMessage: -> e, es, s, ss.
InitiatorWriteMessage(hs) ==
  LET s1 == MixHash(hs.sym, Pub(IEphemeral))
      es == DH(IEphemeral, hs.rs)
      c1 == SealAndHash(MixKey(s1, es.v), Pub(hs.s))
      ss == DH(hs.s, hs.rs)
      c2 == SealAndHash(MixKey(c1.s, ss.v), Empty)
  IN  IF es.ok /\ ss.ok
      THEN [ok |-> TRUE, msg |-> <<Pub(IEphemeral), c1.c, c2.c>>,
            hs |-> [hs EXCEPT !.sym = c2.s, !.e = IEphemeral]]
      ELSE Fail

\* Mutant of InitiatorReadMessage: the sealed empty payload is not opened.
InitiatorReadMessageNoOpen(hs, m) ==
  LET s1 == MixHash(hs.sym, m[1])
      ee == DH(hs.e, m[1])
      se == DH(hs.s, m[1])
      s3 == MixKey(MixKey(s1, ee.v), se.v)
  IN  IF ee.ok /\ se.ok
      THEN [ok |-> TRUE, hs |-> [hs EXCEPT !.sym = s3, !.re = m[1]]]
      ELSE Fail

\* initiatorHandshake.ReadMessage: <- e, ee, se, then the sealed payload.
InitiatorReadMessage(hs, m) ==
  LET s1 == MixHash(hs.sym, m[1])
      ee == DH(hs.e, m[1])
      se == DH(hs.s, m[1])
      o  == OpenAndHash(MixKey(MixKey(s1, ee.v), se.v), m[2])
  IN  IF ee.ok /\ se.ok /\ o.ok
      THEN [ok |-> TRUE, hs |-> [hs EXCEPT !.sym = o.s, !.re = m[1]]]
      ELSE Fail

\* Mutant of ResponderReadMessage: ss is not mixed in.
ResponderReadMessageNoSS(hs, m) ==
  LET s1 == MixHash(hs.sym, m[1])
      es == DH(hs.s, m[1])
      o1 == OpenAndHash(MixKey(s1, es.v), m[2])
      o2 == OpenAndHash(o1.s, m[3])
  IN  IF es.ok /\ o1.ok /\ o2.ok
      THEN [ok |-> TRUE, hs |-> [hs EXCEPT !.sym = o2.s, !.re = m[1], !.rs = o1.pt]]
      ELSE Fail

\* responderHandshake.ReadMessage: e, es, the sealed static key s, ss,
\* then the sealed payload.
ResponderReadMessage(hs, m) ==
  LET s1 == MixHash(hs.sym, m[1])
      es == DH(hs.s, m[1])
      o1 == OpenAndHash(MixKey(s1, es.v), m[2])
      ss == DH(hs.s, o1.pt)
      o2 == OpenAndHash(MixKey(o1.s, ss.v), m[3])
  IN  IF es.ok /\ o1.ok /\ ss.ok /\ o2.ok
      THEN [ok |-> TRUE, hs |-> [hs EXCEPT !.sym = o2.s, !.re = m[1], !.rs = o1.pt]]
      ELSE Fail

\* responderHandshake.WriteMessage with the ephemeral key e: -> e, ee, se.
ResponderWriteMessage(hs, e) ==
  LET s1 == MixHash(hs.sym, Pub(e))
      ee == DH(e, hs.re)
      se == DH(e, hs.rs)
      c  == SealAndHash(MixKey(MixKey(s1, ee.v), se.v), Empty)
  IN  IF ee.ok /\ se.ok
      THEN [ok |-> TRUE, msg |-> <<Pub(e), c.c>>, hs |-> [hs EXCEPT !.sym = c.s, !.e = e]]
      ELSE Fail

\* DialContextAddrPort: newConn(m, cid, c2, c1, raddr).
InitiatorConn(hs) ==
  LET k == Split(hs.sym) IN [recv |-> k.c2, send |-> k.c1, hash |-> k.hash]

\* Mutant of ResponderConn: the keys handed over in the dialler's order.
ResponderConnSwapped(hs) ==
  LET k == Split(hs.sym) IN [recv |-> k.c2, send |-> k.c1, hash |-> k.hash]

\* receiveHandshake: newConn(m, cid, c1, c2, raddr).
ResponderConn(hs) ==
  LET k == Split(hs.sym) IN [recv |-> k.c1, send |-> k.c2, hash |-> k.hash]

---------------------------------------------------------------------------
(* The network.                                                            *)

AttackerPubs == {Pub(a) : a \in AttackerKeys} \cup {Low}

\* Initials the attacker can make: any ephemeral it can name (the
\* dialler's included), claiming any static key.
ForgedInitials ==
  {<<e, Forged(s), Forged(Empty)>> :
     e \in AttackerPubs \cup {Pub(IEphemeral)}, s \in AttackerPubs \cup {Pub(IStatic)}}

ForgedReplies ==
  {<<e, Forged(Empty)>> : e \in AttackerPubs \cup {Pub(r) : r \in REphemerals}}

UsedEphemerals == {s.e : s \in sessions}

---------------------------------------------------------------------------
Init ==
  /\ ihs = NewInitiator(Pub(RStatic))
  /\ iphase = "start"
  /\ iinitial = <<>>
  /\ ireply = <<>>
  /\ iconn = None
  /\ sessions = {}
  /\ initials = ForgedInitials
  /\ replies = ForgedReplies

\* handshakeImpl's first block: WriteMessage into the handshake packet.
IWrite ==
  LET w == InitiatorWriteMessage(ihs)
  IN  /\ iphase = "start"
      /\ IF w.ok
         THEN /\ ihs' = w.hs
              /\ iphase' = "sent"
              /\ iinitial' = w.msg
              /\ initials' = initials \cup {w.msg}
         ELSE /\ iphase' = "failed"
              /\ UNCHANGED <<ihs, iinitial, initials>>
      /\ UNCHANGED <<ireply, iconn, sessions, replies>>

\* handshakeImpl's second block on a data packet, then, when the
\* handshake succeeded, DialContextAddrPort's Split into the Conn.
IRead ==
  /\ iphase = "sent"
  /\ \E m \in replies :
       LET r == InitiatorReadMessage(ihs, m)
       IN  /\ ireply' = m
           /\ IF r.ok
              THEN /\ ihs' = r.hs
                   /\ iphase' = "done"
                   /\ iconn' = InitiatorConn(r.hs)
              ELSE /\ iphase' = "failed"
                   /\ UNCHANGED <<ihs, iconn>>
  /\ UNCHANGED <<iinitial, sessions, initials, replies>>

\* receiveHandshake after the cookie check: a fresh responder handshake
\* reads the initial, writes the reply with a fresh ephemeral key, and the
\* Split keys become the new Conn.  A failed read or write returns and
\* changes nothing.  The listener's ephemeral keys are interchangeable,
\* so it takes them in a fixed order.
RHandle ==
  /\ UsedEphemerals # REphemerals
  /\ \E m \in initials :
       LET e  == CHOOSE x \in REphemerals \ UsedEphemerals : TRUE
           rd == ResponderReadMessage(NewResponder, m)
           wr == ResponderWriteMessage(rd.hs, e)
       IN  /\ rd.ok /\ wr.ok
           /\ sessions' = sessions \cup
                {[initial |-> m, reply |-> wr.msg, e |-> e,
                  peer |-> rd.hs.rs, conn |-> ResponderConn(wr.hs)]}
           /\ replies' = replies \cup {wr.msg}
  /\ UNCHANGED <<ihs, iphase, iinitial, ireply, iconn, initials>>

Next == IWrite \/ IRead \/ RHandle

Spec == Init /\ [][Next]_vars

---------------------------------------------------------------------------
TypeOK ==
  /\ iphase \in {"start", "sent", "done", "failed"}
  /\ iinitial \in initials \cup {<<>>}
  /\ ireply \in replies \cup {<<>>}
  /\ \A s \in sessions : s.initial \in initials /\ s.reply \in replies
  /\ UsedEphemerals \subseteq REphemerals

(* When the dialler's handshaker reads the listener's reply to its own     *)
(* initial, the handshake succeeds, and the two Conns agree: the keys the *)
(* dialler sends with are the keys the listener receives with and the     *)
(* other way round, and the handshake hashes are equal (DialContextAddrPort *)
(* and receiveHandshake each pass Split's c1 and c2 to newConn).          *)
HandshakeAgrees ==
  \A s \in sessions :
    s.initial = iinitial /\ s.reply = ireply =>
      /\ iphase = "done"
      /\ iconn.send = s.conn.recv
      /\ iconn.recv = s.conn.send
      /\ iconn.hash = s.conn.hash

(* The dialler's handshake succeeds only on a reply the listener holding  *)
(* the static key it dialled wrote to its own initial: no replayed,       *)
(* forged or spliced reply yields a Conn (initiatorHandshake.ReadMessage  *)
(* opening the sealed payload after ee and se).                            *)
ResponderAuthenticated ==
  iphase = "done" =>
    \E s \in sessions : s.initial = iinitial /\ s.reply = ireply

(* The listener makes a Conn with the dialler's static key as its peer    *)
(* only for the dialler's own initial, however often it is replayed: the  *)
(* attacker cannot claim the dialler's identity (responderHandshake        *)
(* .ReadMessage mixing ss before opening the payload).                     *)
InitiatorAuthenticated ==
  \A s \in sessions : s.peer = Pub(IStatic) => s.initial = iinitial
=============================================================================
