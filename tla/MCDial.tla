------------------------------- MODULE MCDial -------------------------------
(***************************************************************************)
(* Dial checked in three configurations, each small enough for the         *)
(* liveness checks; they share no state, so a behaviour runs one of them   *)
(* (part) and the states checked are those of the three, side by side.     *)
(*                                                                         *)
(*   Dup:   one address, two attempts, a network that duplicates initials; *)
(*   Renew: one address, two attempts, a tick of the cookie key's renewal  *)
(*          ticker;                                                        *)
(*   Race:  two addresses dialled concurrently, one attempt each.          *)
(*                                                                         *)
(* Two attempts let an attempt's late Conn fill the backlog of one before  *)
(* the next attempt arrives; the backlog of 1 stands for 3.                *)
(***************************************************************************)
EXTENDS Naturals

VARIABLES
  part,
  caller1, hs1, result1, closed1, closeErr1, in1, cconns1, ctxDone1, jar1, keys1, g1, cur1, main1, recvd1, won1, skey1, tick1, period1, sconns1, queue1, admitted1, toServer1, toClient1,
  caller2, hs2, result2, closed2, closeErr2, in2, cconns2, ctxDone2, jar2, keys2, g2, cur2, main2, recvd2, won2, skey2, tick2, period2, sconns2, queue2, admitted2, toServer2, toClient2,
  caller3, hs3, result3, closed3, closeErr3, in3, cconns3, ctxDone3, jar3, keys3, g3, cur3, main3, recvd3, won3, skey3, tick3, period3, sconns3, queue3, admitted3, toServer3, toClient3

Dup == INSTANCE Dial WITH
      IPs <- {"a1"}, Attempts <- 2, Backlog <- 1, MaxTicks <- 0,
      Duplicates <- TRUE,
      caller <- caller1,
      hs <- hs1,
      result <- result1,
      closed <- closed1,
      closeErr <- closeErr1,
      in <- in1,
      cconns <- cconns1,
      ctxDone <- ctxDone1,
      jar <- jar1,
      keys <- keys1,
      g <- g1,
      cur <- cur1,
      main <- main1,
      recvd <- recvd1,
      won <- won1,
      skey <- skey1,
      tick <- tick1,
      period <- period1,
      sconns <- sconns1,
      queue <- queue1,
      admitted <- admitted1,
      toServer <- toServer1,
      toClient <- toClient1

Renew == INSTANCE Dial WITH
      IPs <- {"a1"}, Attempts <- 2, Backlog <- 1, MaxTicks <- 1,
      Duplicates <- FALSE,
      caller <- caller2,
      hs <- hs2,
      result <- result2,
      closed <- closed2,
      closeErr <- closeErr2,
      in <- in2,
      cconns <- cconns2,
      ctxDone <- ctxDone2,
      jar <- jar2,
      keys <- keys2,
      g <- g2,
      cur <- cur2,
      main <- main2,
      recvd <- recvd2,
      won <- won2,
      skey <- skey2,
      tick <- tick2,
      period <- period2,
      sconns <- sconns2,
      queue <- queue2,
      admitted <- admitted2,
      toServer <- toServer2,
      toClient <- toClient2

Race == INSTANCE Dial WITH
      IPs <- {"a1", "a2"}, Attempts <- 1, Backlog <- 1, MaxTicks <- 0,
      Duplicates <- FALSE,
      caller <- caller3,
      hs <- hs3,
      result <- result3,
      closed <- closed3,
      closeErr <- closeErr3,
      in <- in3,
      cconns <- cconns3,
      ctxDone <- ctxDone3,
      jar <- jar3,
      keys <- keys3,
      g <- g3,
      cur <- cur3,
      main <- main3,
      recvd <- recvd3,
      won <- won3,
      skey <- skey3,
      tick <- tick3,
      period <- period3,
      sconns <- sconns3,
      queue <- queue3,
      admitted <- admitted3,
      toServer <- toServer3,
      toClient <- toClient3

v1 == <<caller1, hs1, result1, closed1, closeErr1, in1, cconns1, ctxDone1, jar1, keys1, g1, cur1, main1, recvd1, won1, skey1, tick1, period1, sconns1, queue1, admitted1, toServer1, toClient1>>
v2 == <<caller2, hs2, result2, closed2, closeErr2, in2, cconns2, ctxDone2, jar2, keys2, g2, cur2, main2, recvd2, won2, skey2, tick2, period2, sconns2, queue2, admitted2, toServer2, toClient2>>
v3 == <<caller3, hs3, result3, closed3, closeErr3, in3, cconns3, ctxDone3, jar3, keys3, g3, cur3, main3, recvd3, won3, skey3, tick3, period3, sconns3, queue3, admitted3, toServer3, toClient3>>
vars == <<part, v1, v2, v3>>

Init == part = "none" /\ Dup!Init /\ Renew!Init /\ Race!Init

\* A step of configuration p, which the behaviour then sticks to.
Step(p, A, others) == part \in {"none", p} /\ part' = p /\ A /\ UNCHANGED others

Next ==
  \/ Step("dup", Dup!Next, <<v2, v3>>)
  \/ Step("renew", Renew!Next, <<v1, v3>>)
  \/ Step("race", Race!Next, <<v1, v2>>)

\* Each configuration's goroutines are fair once the behaviour runs it.
Spec ==
  /\ Init /\ [][Next]_vars
  /\ WF_vars(Step("dup", Dup!Goroutines, <<v2, v3>>))
  /\ WF_vars(Step("renew", Renew!Goroutines, <<v1, v3>>))
  /\ WF_vars(Step("race", Race!Goroutines, <<v1, v2>>))

---------------------------------------------------------------------------
TypeOK == Dup!TypeOK /\ Renew!TypeOK /\ Race!TypeOK

(* A returned DialContextAddrPort call leaves its Conn, or nothing, under  *)
(* its cid in the dialling Mux's table (DialContextAddrPort, handshaker    *)
(* closeWithError).                                                        *)
TableMatchesResult ==
  Dup!TableMatchesResult /\ Renew!TableMatchesResult /\ Race!TableMatchesResult

(* Every Conn the dialler holds has as its peer the Conn a server stored  *)
(* and offered to Accept, with the same keys (receiveHandshake replies     *)
(* only after the accept channel took it, and LoadOrStore ignores a        *)
(* duplicated initial).                                                    *)
ClientConnHasServerPeer ==
  Dup!ClientConnHasServerPeer /\ Renew!ClientConnHasServerPeer /\ Race!ClientConnHasServerPeer

(* A server admits only cookies signed since the last tick of the renewal  *)
(* ticker (receiveHandshake's lazy renewal of m.auth).                     *)
CookieWithinRenewalInterval == Renew!CookieWithinRenewalInterval

(* DialContext returns, in whichever configuration runs.                   *)
DialReturns == <>(main1 # "loop" \/ main2 # "loop" \/ main3 # "loop")

(* Only the Conn DialContext returned stays open; another address's late   *)
(* Conn is closed by its goroutine.                                        *)
OnlyReturnedConnSurvives == Race!OnlyReturnedConnSurvives /\ Dup!OnlyReturnedConnSurvives

(* Every handshake goroutine a dial starts eventually exits.              *)
HandshakeGoroutineExits == Dup!HandshakeGoroutineExits
=============================================================================
