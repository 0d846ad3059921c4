\* Two addresses, the peer moves once; a cooldown of 2 time units.
CONSTANTS
  a1 = a1
  a2 = a2
  NoAddrValue = NoAddrValue
  Addrs <- MCAddrs
  NoAddr <- NoAddrValue
  Interval = 2
  MaxPN = 3
  MaxPeerPN = 3
SPECIFICATION Spec
PROPERTY ProbeWhenDue
