--------------------------------- MODULE Dial ---------------------------------
(***************************************************************************)
(* transportutil.DialContext against the servers it dials.                 *)
(*                                                                         *)
(* Client: one goroutine per resolved address runs up to Attempts          *)
(* attempts, each with its own jittered timeout; an attempt calls          *)
(* Mux.DialContextAddrPort and, on ErrAgain, calls it once more with the   *)
(* cookie the Retry left in the jar.  Each call registers a handshaker     *)
(* under a fresh connection id, starts the handshake goroutine            *)
(* (handshaker.go) and selects on its done channel and the attempt's      *)
(* context.  The goroutines report on the unbuffered results channel to   *)
(* DialContext's loop, which returns the first Conn (cancelling the rest) *)
(* or, after every attempt failed, the first error.                        *)
(*                                                                         *)
(* Server: one listening Mux per address.  Its read loop runs              *)
(* receiveHandshake: it renews the cookie key if the renewal ticker has   *)
(* ticked, answers an initial without a valid cookie with a Retry, and    *)
(* otherwise creates a Conn, stores it under the id unless one is there,  *)
(* and offers it on the accept channel of capacity Backlog without         *)
(* blocking, replying only if the offer was taken.  The application       *)
(* Accepts from that channel.                                              *)
(*                                                                         *)
(* A call's connection id is the call itself: <<address, attempt, k>>,    *)
(* k = 2 for the retry with a cookie (readConnID's 64 random bits are     *)
(* taken to be fresh).  Noise_IK and the cookie AEAD are abstracted: an   *)
(* honest client's initial is accepted by hs.ReadMessage, the server's    *)
(* reply by the client's, and a cookie verifies iff it was signed with    *)
(* the server's current key.  Datagrams may be lost or duplicated.        *)
(***************************************************************************)
EXTENDS Naturals, Sequences, FiniteSets

CONSTANTS
  IPs,       \* the addresses LookupNetIP returns, one server each
  Attempts,  \* attempts per address (dial.go attempts = 5)
  Backlog,   \* capacity of the server's accept channel (mux.go backlog = 3)
  MaxTicks,  \* ticks of each server's cookie renewal ticker
  Duplicates \* the network may duplicate an initial (once)

ASSUME Attempts \in Nat \ {0} /\ Backlog \in Nat \ {0} /\ MaxTicks \in Nat
       /\ Duplicates \in BOOLEAN

\* The k-th DialContextAddrPort call of attempt a to ip, and its cid.
Calls == IPs \X (1..Attempts) \X {1, 2}

\* A cookie: the key that signed it (0: none, the empty cookie of an empty
\* jar) and the ticker period it was signed in.
Cookies == [key : 0..MaxTicks + 1, at : 0..MaxTicks]
NoCookie == [key |-> 0, at |-> 0]

\* An initial in flight; spare: the network may still deliver it twice.
Initials == [cid : Calls, cookie : Cookies, spare : BOOLEAN]
\* gen: for a handshake reply, which server Conn for the cid wrote it (the
\* responder's fresh ephemeral key makes each Conn's keys its own); 0 for a
\* Retry.  A cid's initial reaches the server at most twice.
Replies == [kind : {"retry", "data"}, cid : Calls, cookie : Cookies, gen : 0..2]

VARIABLES
  \* the dialling Mux, per call
  caller,   \* "idle" (not called), "select", or what it returned: "conn", "again", "ctx"
  hs,       \* handshake goroutine: "idle", "write", "wait", "done" (sending on done), "exited"
  result,   \* what handshake returned: "none", "ok", "again", "ctx"
  closed,   \* the handshaker's closed channel is closed
  closeErr, \* the handshaker's closeErr: "none", "again", "ctx"
  in,       \* the handshaker's capacity-1 in channel: {} or {reply}
  cconns,   \* m.conns[cid]: "none", "handshaker", "conn", or "closed" (a Conn closed since)
  ctxDone,  \* the call's context (its attempt's dialCtx) is done
  jar,      \* m.jar[ip]: the cookie kept for the address
  keys,     \* the keys hs.Split() gives: the gen of the reply read, 0 if none
  \* DialContext
  g,        \* per ip, its goroutine: "call" (in cur[ip]), "send" (in the select), "exited"
  cur,      \* per ip, the goroutine's current call
  main,     \* DialContext's loop: "loop", or returned "conn" or "err"
  recvd,    \* failed results the loop received
  won,      \* the call whose Conn DialContext returned
  \* the listening Muxes, per ip
  skey,     \* m.auth: 0 (nil) or the number of the current key
  tick,     \* a tick of m.authRenewer is pending
  period,   \* ticker periods elapsed
  sconns,   \* the cids stored in m.conns
  queue,    \* m.accept: the cids offered and not yet Accepted
  admitted, \* history: [cid, cookie, at] of every Conn created
  \* the network
  toServer, \* initials in flight
  toClient  \* replies in flight

cVars == <<caller, hs, result, closed, closeErr, in, cconns, ctxDone, jar, keys>>
dVars == <<g, cur, main, recvd, won>>
sVars == <<skey, tick, period, sconns, queue, admitted>>
vars == <<cVars, dVars, sVars, toServer, toClient>>

\* DialContextAddrPort up to its select: the handshaker is stored under a
\* fresh cid and the handshake goroutine started.
StartCall(c) ==
  /\ caller' = [caller EXCEPT ![c] = "select"]
  /\ hs' = [hs EXCEPT ![c] = "write"]
  /\ cconns' = [cconns EXCEPT ![c] = "handshaker"]
  /\ cur' = [cur EXCEPT ![c[1]] = c]

\* DialContext: every address's goroutine starts its first attempt.
Init ==
  /\ caller = [c \in Calls |-> IF c[2] = 1 /\ c[3] = 1 THEN "select" ELSE "idle"]
  /\ hs = [c \in Calls |-> IF c[2] = 1 /\ c[3] = 1 THEN "write" ELSE "idle"]
  /\ result = [c \in Calls |-> "none"] /\ closed = [c \in Calls |-> FALSE]
  /\ closeErr = [c \in Calls |-> "none"] /\ in = [c \in Calls |-> {}]
  /\ cconns = [c \in Calls |-> IF c[2] = 1 /\ c[3] = 1 THEN "handshaker" ELSE "none"]
  /\ ctxDone = [c \in Calls |-> FALSE] /\ jar = [ip \in IPs |-> NoCookie]
  /\ keys = [c \in Calls |-> 0]
  /\ g = [ip \in IPs |-> "call"] /\ cur = [ip \in IPs |-> <<ip, 1, 1>>]
  /\ main = "loop" /\ recvd = 0 /\ won = <<>>
  /\ skey = [ip \in IPs |-> 0] /\ tick = [ip \in IPs |-> FALSE]
  /\ period = [ip \in IPs |-> 0] /\ sconns = [ip \in IPs |-> {}]
  /\ queue = [ip \in IPs |-> <<>>] /\ admitted = {}
  /\ toServer = {} /\ toClient = {}

---------------------------------------------------------------------------
(* The dialling Mux: one DialContextAddrPort call and its handshaker.     *)

\* handshaker.closeWithError: once, delete the cid from m.conns and close.
CloseWithError(c, err) ==
  IF closed[c] THEN UNCHANGED <<cconns, closed, closeErr>>
  ELSE /\ cconns' = [cconns EXCEPT ![c] = "none"]
       /\ closed' = [closed EXCEPT ![c] = TRUE]
       /\ closeErr' = [closeErr EXCEPT ![c] = err]

\* handshakeImpl's first block: the initial, with the jar's cookie for the
\* address, goes to raddr.
HsWrite(c) ==
  /\ hs[c] = "write" /\ hs' = [hs EXCEPT ![c] = "wait"]
  /\ toServer' = toServer \cup {[cid |-> c, cookie |-> jar[c[1]], spare |-> TRUE]}
  /\ UNCHANGED <<caller, result, closed, closeErr, in, cconns, ctxDone, jar, keys,
                 dVars, sVars, toClient>>

\* handshakeImpl's select takes a packet from in: a Retry stores its cookie
\* in the jar and fails with ErrAgain, on which handshake closes the
\* handshaker; the server's handshake message completes the handshake.
HsReceive(c) ==
  /\ hs[c] = "wait" /\ in[c] # {}
  /\ in' = [in EXCEPT ![c] = {}] /\ hs' = [hs EXCEPT ![c] = "done"]
  /\ LET p == CHOOSE p \in in[c] : TRUE IN
       IF p.kind = "retry"
       THEN /\ jar' = [jar EXCEPT ![c[1]] = p.cookie]
            /\ result' = [result EXCEPT ![c] = "again"]
            /\ CloseWithError(c, "again")
            /\ UNCHANGED keys
       ELSE /\ result' = [result EXCEPT ![c] = "ok"]
            /\ keys' = [keys EXCEPT ![c] = p.gen]
            /\ UNCHANGED <<jar, closed, closeErr, cconns>>
  /\ UNCHANGED <<caller, ctxDone, dVars, sVars, toServer, toClient>>

\* handshakeImpl's select sees closed and returns closeErr.
HsClosed(c) ==
  /\ hs[c] = "wait" /\ closed[c]
  /\ hs' = [hs EXCEPT ![c] = "done"] /\ result' = [result EXCEPT ![c] = closeErr[c]]
  /\ UNCHANGED <<caller, closed, closeErr, in, cconns, ctxDone, jar, keys, dVars, sVars,
                 toServer, toClient>>

\* The unbuffered send on done meets the caller's receive: on success the
\* caller makes the Conn and replaces the handshaker in m.conns.
DoneReceived(c) ==
  /\ hs[c] = "done" /\ caller[c] = "select"
  /\ hs' = [hs EXCEPT ![c] = "exited"]
  /\ IF result[c] = "ok"
     THEN caller' = [caller EXCEPT ![c] = "conn"] /\ cconns' = [cconns EXCEPT ![c] = "conn"]
     ELSE caller' = [caller EXCEPT ![c] = result[c]] /\ UNCHANGED cconns
  /\ UNCHANGED <<result, closed, closeErr, in, ctxDone, jar, keys, dVars, sVars,
                 toServer, toClient>>

\* Mutant of CtxDoneReceived: the caller returns without closing.
CtxDoneReceivedNoClose(c) ==
  /\ caller[c] = "select" /\ ctxDone[c]
  /\ caller' = [caller EXCEPT ![c] = "ctx"]
  /\ UNCHANGED <<hs, result, in, ctxDone, jar, keys, closed, closeErr, cconns, dVars, sVars,
                 toServer, toClient>>

\* The caller's select takes ctx.Done(): it closes the handshaker and returns.
CtxDoneReceived(c) ==
  /\ caller[c] = "select" /\ ctxDone[c]
  /\ caller' = [caller EXCEPT ![c] = "ctx"] /\ CloseWithError(c, "ctx")
  /\ UNCHANGED <<hs, result, in, ctxDone, jar, keys, dVars, sVars, toServer, toClient>>

\* The attempt's timeout, rand.Int63n(1s << i) and possibly 0, passes, or
\* DialContext's cancel reaches it.
CtxExpires(c) ==
  /\ caller[c] = "select" /\ ~ctxDone[c]
  /\ ctxDone' = [ctxDone EXCEPT ![c] = TRUE]
  /\ UNCHANGED <<caller, hs, result, closed, closeErr, in, cconns, jar, keys, dVars, sVars,
                 toServer, toClient>>

\* handshaker.handlePacket: a non-blocking send on in.
HandshakerHandlePacket(c, p) == IF in[c] = {} THEN {p} ELSE in[c]

\* The dialling Mux's read loop receives a reply: Mux.handlePacket passes it to whatever m.conns holds under the
\* cid; a Conn fails to open it and nothing stored drops it.
ClientReceive(p) ==
  /\ p \in toClient /\ toClient' = toClient \ {p}
  /\ in' = IF cconns[p.cid] = "handshaker"
           THEN [in EXCEPT ![p.cid] = HandshakerHandlePacket(p.cid, p)] ELSE in
  /\ UNCHANGED <<caller, hs, result, closed, closeErr, cconns, ctxDone, jar, keys,
                 dVars, sVars, toServer>>

---------------------------------------------------------------------------
(* DialContext: a goroutine per address and the loop collecting results.  *)

\* The goroutine's DialContextAddrPort returned: on ErrAgain from the first
\* call of the attempt it calls again (same dialCtx, the new cookie);
\* otherwise it goes to the select on results and ctx.Done().
CallReturned(ip) ==
  /\ g[ip] = "call"
  /\ LET c == cur[ip] IN
       /\ caller[c] \notin {"idle", "select"}
       /\ IF caller[c] = "again" /\ c[3] = 1
          THEN StartCall(<<ip, c[2], 2>>) /\ UNCHANGED g
          ELSE g' = [g EXCEPT ![ip] = "send"] /\ UNCHANGED <<caller, hs, cconns, cur>>
  /\ UNCHANGED <<result, closed, closeErr, in, ctxDone, jar, keys, main, recvd, won,
                 sVars, toServer, toClient>>

\* Mutant of SendResult: the goroutine returns after any result.
SendResultThenReturn(ip) ==
  /\ g[ip] = "send" /\ main = "loop"
  /\ LET c == cur[ip] IN
       IF caller[c] = "conn"
       THEN main' = "conn" /\ won' = c /\ UNCHANGED recvd
       ELSE /\ recvd' = recvd + 1 /\ UNCHANGED won
            /\ main' = IF recvd + 1 = Cardinality(IPs) * Attempts THEN "err" ELSE "loop"
  /\ g' = [g EXCEPT ![ip] = "exited"]
  /\ UNCHANGED <<caller, hs, cconns, cur, result, closed, closeErr, in, ctxDone, jar, keys,
                 sVars, toServer, toClient>>

\* The send on results meets the loop's receive.  A Conn is returned (the
\* goroutine returns, and DialContext's deferred cancel ends ctx); an error
\* is counted and kept if first, and the goroutine starts its next attempt
\* or, after the last, returns.  The loop stops after len(ips) * attempts
\* results.
SendResult(ip) ==
  /\ g[ip] = "send" /\ main = "loop"
  /\ LET c == cur[ip] IN
       IF caller[c] = "conn"
       THEN /\ main' = "conn" /\ won' = c /\ g' = [g EXCEPT ![ip] = "exited"]
            /\ UNCHANGED <<recvd, caller, hs, cconns, cur>>
       ELSE /\ recvd' = recvd + 1
            /\ main' = IF recvd + 1 = Cardinality(IPs) * Attempts THEN "err" ELSE "loop"
            /\ UNCHANGED won
            /\ IF c[2] < Attempts
               THEN StartCall(<<ip, c[2] + 1, 1>>) /\ g' = [g EXCEPT ![ip] = "call"]
               ELSE g' = [g EXCEPT ![ip] = "exited"] /\ UNCHANGED <<caller, hs, cconns, cur>>
  /\ UNCHANGED <<result, closed, closeErr, in, ctxDone, jar, keys, sVars, toServer, toClient>>

\* Mutant of CtxCancelled: the goroutine drops the Conn without closing it.
CtxCancelledKeepsConn(ip) ==
  /\ g[ip] = "send" /\ main # "loop"
  /\ g' = [g EXCEPT ![ip] = "exited"]
  /\ UNCHANGED <<caller, hs, result, closed, closeErr, in, cconns, ctxDone, jar, keys,
                 cur, main, recvd, won, sVars, toServer, toClient>>

\* DialContext has returned, so nobody receives and ctx is done: the
\* goroutine closes the Conn it got, if any (Conn.Close deletes it from
\* m.conns), and returns.
CtxCancelled(ip) ==
  /\ g[ip] = "send" /\ main # "loop"
  /\ g' = [g EXCEPT ![ip] = "exited"]
  /\ cconns' = IF caller[cur[ip]] = "conn"
               THEN [cconns EXCEPT ![cur[ip]] = "closed"] ELSE cconns
  /\ UNCHANGED <<caller, hs, result, closed, closeErr, in, ctxDone, jar, keys,
                 cur, main, recvd, won, sVars, toServer, toClient>>

---------------------------------------------------------------------------
(* The listening Mux of each address.                                     *)

\* Mutant of Renewed: the ticker is never looked at.
RenewedNever(ip) == IF skey[ip] = 0 THEN 1 ELSE skey[ip]

\* The key receiveHandshake verifies and signs with: a pending tick of
\* m.authRenewer sets m.auth to nil, and a nil m.auth is replaced by a new
\* authenticator.
Renewed(ip) == IF tick[ip] \/ skey[ip] = 0 THEN skey[ip] + 1 ELSE skey[ip]

\* How many Conns were created for cid: the last one is the Conn m.conns
\* stores under it.
TableGen(cid) == Cardinality({a \in admitted : a.cid = cid})

\* Mutant of Offer: m.conns.Store instead of LoadOrStore, so a repeated
\* initial replaces the stored Conn.
OfferStores(ip, m) ==
  IF Len(queue[ip]) < Backlog
  THEN /\ sconns' = [sconns EXCEPT ![ip] = @ \cup {m.cid}]
       /\ queue' = [queue EXCEPT ![ip] = Append(@, m.cid)]
       /\ admitted' = admitted \cup {[cid |-> m.cid, cookie |-> m.cookie, at |-> period[ip],
                                   gen |-> TableGen(m.cid) + 1]}
       /\ toClient' = toClient \cup {[kind |-> "data", cid |-> m.cid, cookie |-> NoCookie,
                                     gen |-> TableGen(m.cid) + 1]}
  ELSE UNCHANGED <<sconns, queue, admitted, toClient>>

\* Mutant of Offer: the reply goes out even when the accept channel is
\* full and the Conn is deleted again.
OfferRepliesWhenFull(ip, m) ==
  IF m.cid \notin sconns[ip] /\ Len(queue[ip]) < Backlog
  THEN /\ sconns' = [sconns EXCEPT ![ip] = @ \cup {m.cid}]
       /\ queue' = [queue EXCEPT ![ip] = Append(@, m.cid)]
       /\ admitted' = admitted \cup {[cid |-> m.cid, cookie |-> m.cookie, at |-> period[ip],
                                   gen |-> TableGen(m.cid) + 1]}
       /\ toClient' = toClient \cup {[kind |-> "data", cid |-> m.cid, cookie |-> NoCookie,
                                     gen |-> TableGen(m.cid) + 1]}
  ELSE IF m.cid \notin sconns[ip]
  THEN /\ toClient' = toClient \cup {[kind |-> "data", cid |-> m.cid, cookie |-> NoCookie,
                                     gen |-> TableGen(m.cid) + 1]}
       /\ UNCHANGED <<sconns, queue, admitted>>
  ELSE UNCHANGED <<sconns, queue, admitted, toClient>>

\* Mutant of Offer: a blocking-style send that ignores the capacity.
OfferIgnoresBacklog(ip, m) ==
  IF m.cid \notin sconns[ip]
  THEN /\ sconns' = [sconns EXCEPT ![ip] = @ \cup {m.cid}]
       /\ queue' = [queue EXCEPT ![ip] = Append(@, m.cid)]
       /\ admitted' = admitted \cup {[cid |-> m.cid, cookie |-> m.cookie, at |-> period[ip],
                                   gen |-> TableGen(m.cid) + 1]}
       /\ toClient' = toClient \cup {[kind |-> "data", cid |-> m.cid, cookie |-> NoCookie,
                                     gen |-> TableGen(m.cid) + 1]}
  ELSE UNCHANGED <<sconns, queue, admitted, toClient>>

\* After the cookie checked: newConn, m.conns.LoadOrStore, and the
\* non-blocking send on m.accept; only a Conn the send took is kept and
\* gets the handshake reply, otherwise it is deleted again.
Offer(ip, m) ==
  IF m.cid \notin sconns[ip] /\ Len(queue[ip]) < Backlog
  THEN /\ sconns' = [sconns EXCEPT ![ip] = @ \cup {m.cid}]
       /\ queue' = [queue EXCEPT ![ip] = Append(@, m.cid)]
       /\ admitted' = admitted \cup {[cid |-> m.cid, cookie |-> m.cookie, at |-> period[ip],
                                   gen |-> TableGen(m.cid) + 1]}
       /\ toClient' = toClient \cup {[kind |-> "data", cid |-> m.cid, cookie |-> NoCookie,
                                     gen |-> TableGen(m.cid) + 1]}
  ELSE UNCHANGED <<sconns, queue, admitted, toClient>>

\* Mux.handlePacket hands an initial to receiveHandshake; a datagram that
\* is duplicated (once) leaves its copy in the network.  An initial whose cookie does not verify gets a Retry with
\* a fresh cookie, signed for the address in the current period.
ReceiveHandshake(m, dup) ==
  /\ m \in toServer /\ (dup => Duplicates /\ m.spare)
  /\ toServer' = (toServer \ {m}) \cup IF dup THEN {[m EXCEPT !.spare = FALSE]} ELSE {}
  /\ LET ip == m.cid[1]
         key == Renewed(ip)
     IN /\ skey' = [skey EXCEPT ![ip] = key]
        /\ tick' = [tick EXCEPT ![ip] = FALSE]
        /\ IF m.cookie.key # key
           THEN /\ toClient' = toClient \cup
                     {[kind |-> "retry", cid |-> m.cid, cookie |-> [key |-> key, at |-> period[ip]],
                       gen |-> 0]}
                /\ UNCHANGED <<sconns, queue, admitted>>
           ELSE Offer(ip, m)
  /\ UNCHANGED <<cVars, dVars, period>>

\* The application's Accept takes a Conn from m.accept.
AppAccept(ip) ==
  /\ queue[ip] # <<>> /\ queue' = [queue EXCEPT ![ip] = Tail(@)]
  /\ UNCHANGED <<cVars, dVars, skey, tick, period, sconns, admitted, toServer, toClient>>

\* cookieAuthRenewalInterval passes: the ticker's channel holds one tick
\* (later ones are dropped until it is received).
Tick(ip) ==
  /\ period[ip] < MaxTicks
  /\ period' = [period EXCEPT ![ip] = @ + 1] /\ tick' = [tick EXCEPT ![ip] = TRUE]
  /\ UNCHANGED <<cVars, dVars, skey, sconns, queue, admitted, toServer, toClient>>

LoseInitial(m) ==
  /\ m \in toServer /\ toServer' = toServer \ {m}
  /\ UNCHANGED <<cVars, dVars, sVars, toClient>>

LoseReply(p) ==
  /\ p \in toClient /\ toClient' = toClient \ {p}
  /\ UNCHANGED <<cVars, dVars, sVars, toServer>>

Next ==
  \/ \E c \in Calls :
       \/ HsWrite(c) \/ HsReceive(c) \/ HsClosed(c)
       \/ DoneReceived(c) \/ CtxDoneReceived(c) \/ CtxExpires(c)
  \/ \E ip \in IPs :
       CallReturned(ip) \/ SendResult(ip) \/ CtxCancelled(ip) \/ AppAccept(ip) \/ Tick(ip)
  \/ \E m \in toServer, dup \in BOOLEAN : ReceiveHandshake(m, dup)
  \/ \E p \in toClient : ClientReceive(p)
  \/ \E m \in toServer : LoseInitial(m)
  \/ \E p \in toClient : LoseReply(p)

\* The steps of the dialler's goroutines.
Goroutines ==
  \/ \E c \in Calls :
       \/ HsWrite(c) \/ HsReceive(c) \/ HsClosed(c)
       \/ DoneReceived(c) \/ CtxDoneReceived(c) \/ CtxExpires(c)
  \/ \E ip \in IPs : CallReturned(ip) \/ SendResult(ip) \/ CtxCancelled(ip)

(* Every goroutine that can proceed eventually does, and every attempt's   *)
(* timer eventually fires: each goroutine step moves its goroutine forward *)
(* and none repeats, so fairness on their disjunction is fairness on each.*)
(* The network, the servers' tickers and the application's Accept calls   *)
(* are not assumed to make progress.                                       *)
Spec == Init /\ [][Next]_vars /\ WF_vars(Goroutines)

---------------------------------------------------------------------------
TypeOK ==
  /\ caller \in [Calls -> {"idle", "select", "conn", "again", "ctx"}]
  /\ hs \in [Calls -> {"idle", "write", "wait", "done", "exited"}]
  /\ result \in [Calls -> {"none", "ok", "again", "ctx"}]
  /\ closeErr \in [Calls -> {"none", "again", "ctx"}]
  /\ \A c \in Calls : in[c] \in {{}} \cup {{p} : p \in Replies}
  /\ cconns \in [Calls -> {"none", "handshaker", "conn", "closed"}]
  /\ keys \in [Calls -> 0..2]
  /\ jar \in [IPs -> Cookies] /\ g \in [IPs -> {"call", "send", "exited"}]
  /\ main \in {"loop", "conn", "err"} /\ recvd \in 0..Cardinality(IPs) * Attempts
  /\ skey \in [IPs -> 0..MaxTicks + 1]
  /\ \A ip \in IPs : Len(queue[ip]) <= Backlog /\ sconns[ip] \subseteq Calls
  /\ toServer \subseteq Initials /\ toClient \subseteq Replies

(* When a DialContextAddrPort call has returned, the dialling Mux's table  *)
(* holds the Conn it returned (or nothing, once closed), or nothing under  *)
(* its cid when it failed: no closed handshaker is left to swallow         *)
(* packets, whichever of the handshake, the Retry and the attempt's        *)
(* timeout won.                                                            *)
TableMatchesResult ==
  \A c \in Calls :
    /\ caller[c] = "conn" => cconns[c] \in {"conn", "closed"}
    /\ caller[c] \in {"again", "ctx"} => cconns[c] = "none"

(* A Conn the dialler got has its peer in the server's table, with the    *)
(* same keys: receiveHandshake replies only after the accept channel took  *)
(* the Conn, whatever else the backlog holds, and LoadOrStore ignores a    *)
(* duplicated initial for a stored cid instead of storing a Conn with new  *)
(* keys that the dialler, holding the first reply's, cannot talk to.       *)
ClientConnHasServerPeer ==
  \A c \in Calls :
    cconns[c] \in {"conn", "closed"} => c \in sconns[c[1]] /\ keys[c] = TableGen(c)

(* A server Conn is only created for a cookie signed in the current        *)
(* renewal period: cookieAuthRenewalInterval bounds a cookie's life, as    *)
(* the comment on it says, although the key is renewed lazily, on the      *)
(* first initial after a tick.                                             *)
CookieWithinRenewalInterval == \A a \in admitted : a.cookie.at = a.at

(* DialContext returns, whatever the network loses: every attempt has a   *)
(* timeout and the loop receives every goroutine's results.                *)
DialReturns == <>(main # "loop")

(* Eventually the only open Conn the dialler holds is the one DialContext  *)
(* returned: a goroutine that got a Conn after another won closes it.      *)
OnlyReturnedConnSurvives ==
  <>[](\A c \in Calls : cconns[c] = "conn" => main = "conn" /\ c = won)

(* Every handshake goroutine a call starts eventually exits.              *)
HandshakeGoroutineExits == \A c \in Calls : hs[c] # "idle" ~> hs[c] = "exited"
====
