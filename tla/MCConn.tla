------------------------------- MODULE MCConn -------------------------------
EXTENDS Conn
CONSTANTS A, B,
  MaxNet,  \* datagrams the network holds at once (both directions)
  MaxPNA,  \* packets A may send
  MaxPNB   \* packets B may send
MCEndpoints == {A, B}
MCMaxPN == (A :> MaxPNA) @@ (B :> MaxPNB)
NetBound == Cardinality(net[A]) + Cardinality(net[B]) <= MaxNet
=============================================================================
