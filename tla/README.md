# TLA+ models of quic-at-home

This directory holds TLA+ models of the Go QUIC-like transport in `src/`.
Each module is written from the source, and each definition names in
`PROJECT.json` ("map") the lines it translates. TLC checks the modules
through the `MC*.tla` modules and the `.cfg` files listed below.

## The system

A `Mux` owns one UDP socket. It dispatches datagrams by connection id to
`Conn`s, and it runs the Noise handshake (`handshaker.go`, `internal/sec`)
and the cookie check (`internal/cookie`) for new connections.

A `Conn` carries two channels:

- a reliable, flow-controlled byte stream: `Write` and `Read`;
- an unreliable message channel: `WriteMsg`, `ReadMsg` and `ReadMsgFrom`.

Three kinds of caller drive a `Conn`, and all of them take `c.mu`:

1. **The user goroutines.** Each calls `Write`, `Read` and the message
   calls. When there is no progress to make, they drop the lock and wait
   on the one-slot channels `relsndready` and `relrcvready` (and
   `unrelsndready` and `unrelrcvready` for messages).
2. **The `Mux` read loop.** It calls `handlePacket` → `handlePacketImpl` for
   each datagram. The handlers for the frames are:
   - ACK: `handleAck`, which acks or nacks in-flight packets;
   - MAX_STREAM_DATA: `handleMaxStreamData`;
   - STREAM: `handleStream`, which feeds the `streamReassembler`;
   - MSG: `handleMsg`;
   - CLOSE.
3. **The `Conn.run` goroutine.** It calls `wake` on a timer or on the
   `wakeup` channel. `wake` does two things in turn:
   - it scavenges packets whose loss timeout has expired;
   - it composes packets with `sendPacket` (ACK, MAX_STREAM_DATA, STREAM
     and MSG frames) for as long as they come out full.

The `congestionController` limits what is in flight, and the `rttFilter`
sets the timer durations.

### Inventory

| Component | State | Operations | Correctness |
|---|---|---|---|
| bitset (`bitset.go`) | words of 32 bits | `Set`, `Test`, `ClearRun` | `ClearRun` clears and counts exactly the run of set bits |
| stream reassembler (`stream_reassembler.go`) | ring `buf`, `readable` bitset, `off` | `WriteAt`, `Read`, `MaxOffset`, `CanBeRead` | in-order delivery of each byte exactly once; overflow only beyond the window |
| packet number ranges (`internal/wire/packet_number.go`) | sorted disjoint ranges | `Max`, `Contains`, `TrimLesser` | highest first, disjoint |
| congestion controller (`congestion_controller.go`) | `cwnd`, `congested`, `validated` | `Ack`, `Loss`, `CwndLimited`, `Validate` | the window is never below `initialCwnd`; at most one reduction per loss episode |
| connection engine (`conn.go`, `input.go`, `output.go`) | `seq`, received ranges, in-flight packets, `inFlightBytes`, timeout, `sendAckBy`, `sentTailAck`, stream send queue and offsets, flow-control offsets | `Write`, `Read`, `wake`, `sendPacket`, `handlePacketImpl`, `handleAck`, `handleMaxStreamData`, `handleStream`, `maybeScavengeTimedOutPackets` | no protocol error between correct peers; no byte lost; exact accounting; no lost wakeup |
| message channel (`msg_reassembler.go` and the msg parts of the engine) | msg reassembler, `msgRcvdSeq`, `msgData`, `msgSeq` | `WriteMsg`, `ReadMsg`, `ReadMsgFrom`, `handleMsg`, `maybeSendMsg` | whole messages only; no deadlock of writers |
| packet number guessing (`guess_packet_number.go`) | none | `guessPacketNumber` | returns the candidate nearest to `maxRcvdPN+1` |
| RTT filter (`rtt_filter.go`) | RTT samples | `Update`, `PTO`, `LossDurationThreshold` | timer values only |
| migration (`input.go`, `output.go`) | `migrationAddr`, probe cooldown, `raddr` | probing, `setRemoteAddr` | probes rate-limited; the path changes only on an acked probe |
| mux and handshaker (`mux.go`, `handshaker.go`) | connection table, the handshaker's `in` and `closed`, the dial's `done` channel | `DialContextAddrPort`, `run`, `handlePacket`, the handshake goroutine | a dial returns, leaves only what it returned in the table, and leaks no goroutine |
| cookie, UDP, other wire codecs, demos | socket, keys | accept, encode and decode | outside this project's reach, or pure I/O |

### Hard behaviours

- Three goroutines interleave on `c.mu`. The user calls drop the lock
  around a channel wait.
- The network loses, reorders and duplicates datagrams. The code has no
  duplicate detection below `maxRcvdPN`.
- Loss is detected in two ways: by nack (a packet below the largest acked
  number) and by timeout. A timeout can race a late ACK.
- Lost fragments are requeued at the head of the send queue, unsorted.
- Flow control: the `MAX_STREAM_DATA` frames and the ACKs of them can be
  lost or reordered. A STREAM frame counts as an implicit ACK of the
  window.
- The counters `inFlightBytes` and `streamBytesInFlight` are kept in step by
  hand.

`PROJECT.json` ("hazards") lists each hazard at its line, with the property
that covers it.

## Modules

| Module | Models | State (code) | Actions (code) |
|---|---|---|---|
| `Bitset` | `bitset.go` | `bits` (the set bits); `lastRun` (the last `ClearRun` call and its result) | `SetBits` (`Set`), `ClearRunBits` (`ClearRun`, as the three loops `ClearHead`, `ClearWords`, `ClearTail`) |
| `ByteStream` | abstract spec | `rcvd` (the bytes received within the window); `out` (the bytes delivered) | `Receive`, `Deliver` |
| `StreamReassembler` | `stream_reassembler.go` | `ra` (`readable`, `buf`, `off`); `out`; `overflowed` | `ReceiveStream` (`WriteAt` via `handleStream`), `ReadStream` (`Read`). It implements `ByteStream` under the mapping of readable slots to offsets. |
| `PacketNumber` | `guess_packet_number.go`, the packet-number part of `handlePacketImpl` | `maxRcvdPN`; `last` (the last arrival: the maximum before it, its number, the guess) | `ReceivePacket(pn)` for any number the sender can use, in any order |
| `MsgChannel` | `msg_reassembler.go`, `handleMsg`, `maybeSendMsg`, `MsgMaxDataLen`, `WriteMsg`, `ReadMsgFrom`, `ReadMsg`, `SetMsgReceiveWindow` | the pending message (`msgData`, `msgSeq`, `msgContinued`); `sndToken`, `rcvToken` (`unrelsndready`, `unrelrcvready`); `ra` (the reassembler); `msgRcvdSeq`; `net` (MSG frames); `wm`, `rm` (the user calls); `got` (what each `ReadMsg` returned) | `CallWriteMsg`, `PutSndToken` (the channel send), `ReadFromFails` (`r.Read` fails in `ReadMsgFrom`), `SetMsgData` (the locked part); `SendMsg` (`maybeSendMsg`); `ReceiveMsg` (`handleMsg`), `LoseMsg`; `SetMsgReceiveWindow`, `CallReadMsg`, `TakeRcvToken` (the channel receive), `ReadMsg` (the locked part) |
| `Wire` | `internal/wire/varint.go`, `ack.go`, `stream.go`, `msg.go`, the `Reader` of `buffer.go`; the sizing step of `maybeSendStream` and `maybeSendMsg` | `last`: the codec call just made and its result | `RoundTripAck` (`Ack.Encode` then `DecodeAck`), `DecodeRaw` (`DecodeAck` of arbitrary bytes), `RoundTripVarint`, `SendStream` and `SendMsg` (size a frame with `StreamMaxDataLen` or `MsgMaxDataLen`, encode it, decode it with what follows it in the packet); each behaviour is one call |
| `RTTFilter` | `rtt_filter.go`, its calls in `handleAck` and `setRemoteAddr` | `rf` (the filter's fields); `now`; `measured` (the samples taken since the filter was made, a history variable) | `Sample` (`Update`), `Reset` (`setRemoteAddr`), `Tick` |
| `LossRecovery` | `Conn.run`, `wake`, `maybeScavengeTimedOutPackets`, `sendPacket` with `maybeSendAck` and `maybeSendMaxStreamOffset`, the ACK-deadline part of `handlePacketImpl`, `handleAck`, `congestion_controller.go` | `timer` (time left, or `NoTime` when stopped), `wakeup`, `pc` (idle, or inside one `wake`); `flight` (packet → age, size, `old`, `msd`, data); `inFlightBytes`, `cwnd`, `validatedAge`, `timeout`, `timeoutBackoff`, `sendAckBy`, `sentTailAck`, `rcvd`; the window and `maxStreamOffAcked`/`InFlight`; `queued` | `Fire` (`timer.C`), `Wakeup` (`c.wakeup`), each followed by `Scavenge`; `SendPacket`, `SendNothing`, `SendBound` (one `sendPacket` of the wake loop; the last arms the timer with `wake`'s `sleepUntil`); `ReceivePacket`, `ReceiveAck` (the peer's packets); `UserWrite`, `UserRead`; `Tick` |
| `Migration` | the migration parts of `handlePacketImpl`, `handleAck`, `sendPacket`, `wake`, `setRemoteAddr` | `raddr`, `migrationAddr`, `cooldown`, `seq`, `flight` (packet → probe address), `maxPNAcked`, `maxRcvdPN`; the peer's address and counters; the network | `SendPacket`, `Receive`, `DeliverToPeer`, `PeerSend`, `PeerMoves`, `Tick` |
| `Dial` | `transportutil.DialContext`, `Mux.DialContextAddrPort`, `Mux.run`/`handlePacket`, `handshaker.go`, `Mux.receiveHandshake`, `Mux.Accept` | per call (cid): `caller`, `hs` (its handshake goroutine), `result`, `closed`, `closeErr`, `in`, `cconns` (the dialler's table entry), `ctxDone`, `keys` (which server Conn's reply the handshake read); `jar`; per address: `g`, `cur` (DialContext's goroutine), and the server's `skey`, `tick`, `period`, `sconns`, `queue` (the accept channel); `main`, `recvd`, `won` (DialContext's loop); `admitted` (history); initials and replies in the network | `HsWrite`, `HsReceive`, `HsClosed`, `DoneReceived`, `CtxDoneReceived`, `CtxExpires` (a call); `CallReturned`, `SendResult`, `CtxCancelled` (an address's goroutine); `ReceiveHandshake` (with `Renewed`, `Offer`), `AppAccept`, `Tick` (a server); `ClientReceive`, `LoseInitial`, `LoseReply` |
| `Noise` | `internal/sec` (`symmetric.go`, `handshake*.go`), the handshake parts of `handshaker.go`, `DialContextAddrPort` and `receiveHandshake` | `ihs`, `iphase`, `iinitial`, `ireply`, `iconn` (the dialler's handshake, its initial, the reply it read, its Conn's keys); `sessions` (the listener's Conns: initial, reply, peer key, keys); `initials`, `replies` (every packet sent, forged ones included) | `IWrite` (`WriteMessage` of the initial), `IRead` (`ReadMessage` of one reply, then `Split` into `newConn`), `RHandle` (a fresh responder's `ReadMessage`, `WriteMessage`, `Split`) |
| `Conn` | `conn.go`, `input.go`, `output.go`, `congestion_controller.go`, ranges | `conn[e]` (the `Conn` fields); `net[e]` (datagrams to `e`); `botched`; `wr`, `rd` (the user calls); `out` (what has been read) | `Write`, `WriteWake` (a `Write` resumed by `relsndready`), `Read`, `ReadWake`, `Wake` (`wake`: optional scavenge, then the send loop), `Receive` (`handlePacket`), `Lose` (the network) |

Notes on `Conn`:

- **Operators.** Each handler is a pure operator on a connection record,
  in the order the code calls them. `HandlePacket` applies ACK, then
  MAX_STREAM_DATA, then STREAM frames, then updates the received ranges and
  `sendAckBy`.
- **Go map iteration.** The loops over `inFlightPackets` (`AckLoop`,
  `ScavengeLoop`) run in any order, because Go map iteration order is
  random.
- **One `Wake`.** A `Wake` is one call of `wake` with its whole send loop,
  and its packets join the network together.

### Abstractions

- **Stream bytes.** A stream byte is named by its offset.
- **Time.**
  - `Wake` may happen at any moment.
  - A delayed ACK is either due (`due`) or not.
  - An expired loss timeout loses the in-flight packets below some packet
    number (`cutoff`), since send times grow with packet numbers.
  - The congestion controller's `congested` time is the packet number
    current at the loss.
  - The number of PTO periods since the last validation is chosen in
    `0..MaxIdlePTOs`.
- **Packet sizes.** Every ack-eliciting packet counts as `MaxPacketSize`
  bytes, and a packet holds at most `Room` stream bytes. A packet is full,
  so `wake` keeps sending, when it carries `Room` stream bytes.
- **Left out.**
  - `maxPNAcked`: besides packet-number encoding, `handleAck` reads it
    (input.go:155) only to decide whether the ACK samples the RTT and
    adopts a migration probe, both left out here; `Migration` models it.
  - `timeoutBackoff`: it only feeds timer durations.
  - The RTT filter, migration, MSG and CLOSE.
  - Forged packets: they fail the AEAD open and are dropped.
  - The 32-bit packet-number truncation: numbers stay tiny here;
    `PacketNumber` checks it.

Notes on `LossRecovery`:

- **Relative time.** The code only subtracts, adds and compares times, so
  each time is kept as its distance from now. `Tick` ages packets and
  counts deadlines down to 0 (due). The zero `time.Time` is `NoTime`, and
  `zero.Sub(now)` is `ZeroSub`, the most negative `Duration`, as in Go.
- **The run goroutine.** `pc` is `"sending"` from the wake-up until the
  last `sendPacket` of the loop; time does not pass inside `wake`, which
  holds the lock and reads `now` once.
- **The RTT filter** is summarised by `PTO` and by a loss threshold chosen
  from `LossThreshs` at each wake: it exceeds `PTO` after a latency spike
  (see `RTTFilter`).
- **The congestion epoch.** `congested` is only compared with send times, so
  each packet carries `old` (sent before the last reduction).

A related divergence is not a run of its own: `handleAck` resets
`timeoutBackoff` only when packets remain in flight (`input.go:215`), while
the spec resets it on any ACK that clears packets. It only lengthens the
next timeout; `PacketEventuallyResolved` shows loss detection still
completes.

`Dial` composes the dialler and the servers it dials. One goroutine per
address runs the attempts of `transportutil.DialContext`; each attempt calls
`DialContextAddrPort`, and calls it once more after a Retry. A call's
connection id is the call itself, `<<address, attempt, k>>`. Each address
has its own listening `Mux`, which runs `receiveHandshake`:

- it renews the cookie key lazily, on the first initial after a tick;
- it answers a bad cookie with a Retry;
- otherwise it stores a `Conn`, offers it on the accept channel without
  blocking, and replies only if the channel took it.

Noise and the cookie AEAD are abstracted here: an honest peer's message is
accepted, and a cookie verifies if the current key signed it. What Noise
gives `Dial` is that each reply the listener writes comes with keys of its
own, from a fresh ephemeral key. So a reply carries the generation of the
server Conn that wrote it. The dialler keeps the generation of the reply it
completed with (`keys`), and `ClientConnHasServerPeer` requires the table's
Conn to be that one. Initials may be
lost or duplicated once; replies may be lost. `MCDial` checks three
configurations side by side, as `MCPrimitives` does, because their product
is too large for the liveness checks:

- `Dup`: one address, two attempts, duplicated initials;
- `Renew`: one address, two attempts, one tick of the renewal ticker;
- `Race`: two addresses, one attempt each.

Two attempts with a backlog of 1 let a Conn from an abandoned attempt fill
the backlog before the next attempt arrives.

## Runs

| Run | Bounds | Checks | Shows |
|---|---|---|---|
| `primitives` (`MCPrimitives.cfg`) | See below | `TypeOK`, `ClearRunCorrect`, `ByteStreamRefined`, `GuessRecoversWindow`, `GuessInRange`, `AckRoundTrip`, `DecodedAckWellFormed`, `VarintRoundTrip`, `FrameRoundTrip`, `HandshakeAgrees`, `ResponderAuthenticated`, `InitiatorAuthenticated`, `SmoothedKeepsSample`, `LatestNotBelowMin`, `SmoothedWithinMeasured` | The components under the engine, each checked on its own (a behaviour exercises one of them; the state space is the sum of theirs). See below. |
| `conn` (`MCConn.cfg`) | See below | `TypeOK`, `NoProtocolError`, `NoStreamByteLost`, `StreamBytesInFlightExact`, `NoLostWakeup` | Under loss and reordering: no optimistic-ack or overflow error; every written byte is queued, in flight or received; `streamBytesInFlight` is exact; a blocked `Read` or `Write` that could progress always has its token. |
| `msg_channel` (`MCMsgChannel.cfg`) | messages of 1, 2 and 3 bytes, 1 byte per packet, receive window 2, duplication on, `msgSeq` starting at 0 or 2 | `TypeOK`, `MsgWholeInOrder`, `WriteMsgReturns` | Every non-empty `ReadMsg` result is one whole message, later results are later messages, and every `WriteMsg` or `ReadMsgFrom` returns. The 3-byte message overflows the window, the 2-byte one is split, and the window starts at 0. |
| `msg_empty_read` (`MCMsgChannelEmptyRead.cfg`) | as `msg_channel`, no duplication | `NoEmptyMsg` (violated) | `ReadMsg` returns an empty result: finding 1 below. |
| `msg_empty_write` (`MCMsgChannelEmptyWrite.cfg`) | messages of 1, 0 and 1 bytes | `WriteMsgReturns` (violated) | After an empty `WriteMsg` the next one never returns: finding 2 below. |
| `loss_recovery` (`MCLossRecovery.cfg`) | 3 packets of size 1 or 2, `MaxPacketSize` 2, `PTO` 2, loss threshold 1, ACK delay 2, backoff cap 1, window 1..2, 1 queued unit, 2 peer packets | `TypeOK`, `WindowNotStranded`, `DecayNeverBlocks` | Losing the packet that carried the latest MAX_STREAM_DATA (by nack or timeout) never leaves an un-acked window with no MAX_STREAM_DATA in flight and no resend due; `validatedCwnd`'s halving never makes a sender with room cwnd-limited. Three packets let ACKs grow `cwnd` far enough to halve. |
| `loss_liveness` (`MCLossRecoveryLive.cfg`) | 2 packets, loss threshold 1 or 3 | `PacketEventuallyResolved` | Every packet sent is eventually acked or declared lost, even when the threshold exceeds `PTO` so that a scavenge finds nothing old enough. |
| `loss_timer_busy_loop` (`MCLossRecoveryTimer.cfg`) | as `loss_liveness` | `TimerArmedForDeadline` (violated) | Finding 3. |
| `migration_probe` (`MCMigrationProbe.cfg`) | 2 addresses, the peer moves once, cooldown 2, 3 packets each way | `ProbeWhenDue` (violated) | Finding 4. |
| `dial` (`MCDial.cfg`) | `Dup`, `Renew` and `Race` (see above); backlog 1; 162,786 states | `TypeOK`, `TableMatchesResult`, `ClientConnHasServerPeer`, `CookieWithinRenewalInterval`, `DialReturns`, `OnlyReturnedConnSurvives` | `DialContext` always returns. It leaves open only the Conn it returned: a late Conn from another address is closed. Every call leaves its Conn or nothing in the table. Every client Conn has a server Conn that was offered to `Accept`, even with a full backlog. That server Conn is the one whose keys the client holds, even when the initial was duplicated. No cookie signed before the last renewal tick is admitted, although renewal is lazy. |
| `dial_leak` (`MCDialLeak.cfg`) | as `dial` | `HandshakeGoroutineExits` (violated) | Finding 5. |
| `conn_duplicating` (`MCConnDup.cfg`) | Duplication on; both endpoints send at most 2 packets; otherwise as `conn` | `NoProtocolError`, `NoStreamByteLost`, `StreamBytesInFlightExact`, `NoLostWakeup` (the type invariant is the `conn` run's) | Re-applying ACK, MAX_STREAM_DATA and STREAM frames of duplicated packets is harmless. |

The `primitives` run (`MCPrimitives.tla` instantiates each module with
these values):

- **Bitset:** 6 bits in words of 2. Every `ClearRun`, from every reachable
  bitset and for every `i < k`, equals the reference `RunLength` and clears
  exactly those bits; words of 2 over 6 bits give head, whole-word and tail
  phases in every alignment.
- **StreamReassembler:** window 4 in words of 2, 9 stream bytes, segments
  of at most 3 bytes, reads of at most 3. It implements `ByteStream`; the
  inputs cover segments that wrap the ring, start below the cursor,
  duplicate or overlap data, or overflow.
- **PacketNumber:** `Width` 3 (for 32), `MaxPacketNumber` 31 (for
  2^62-1). Every number within half a window of the next expected one is
  recovered, at 0, at every epoch boundary and next to the maximum, and no
  guess leaves `0..MaxPacketNumber`.
- **Wire:** ACKs of every non-empty set of numbers 0..6, delays 0, 2 and 3
  with cap 2, limits 1, 2 and 8; all 19,531 frame bodies of up to 6 bytes
  from {0, 4, 8, 12, 1}; varints at 0, 1, 63, 64, 16383, 16384, 2^30 - 1,
  2^30 and 2^31 - 1. An ACK decodes back to its highest `limit` ranges,
  an accepted ACK from any bytes has well-formed ranges, and varints
  round-trip in `VarintLen` bytes. STREAM and MSG frames: rooms 0..70,
  offsets and sequence numbers 0, 63, 64 and 16384 (headers of 2, 3 and
  5 bytes), data of 1, 2 and 62..65 bytes (both sides of the one/two-byte
  length), followed by nothing or a PING. The frame fits the room (so
  `Encode` never fails and the sender never panics), carries a byte
  whenever the header and a byte fit and all the data whenever it fits
  with its length, and the peer reads back the offset or sequence number,
  the First/Last flags and exactly the bytes sent. An implicit-length
  frame must fill the room, or the peer would take the PING as data.
- **Noise:** the dialler (static key `i`), the listener (`r`, three
  ephemeral keys) and an attacker holding `m`. The network starts with
  every initial and reply the attacker can forge: ephemeral `m`, the
  low-order point or the dialler's ephemeral public key, claiming static
  key `m`, `i` or the low-order point. Any packet may be delivered any
  number of times. Three listener ephemerals let it answer the dialler's
  initial, a replay of it and the attacker's own initial. The dialler
  completes only on the listener's reply to its own initial, and then both
  Conns hold the same keys crosswise and the same hash. The listener takes
  `i` as its peer only on the dialler's initial. Each property is broken
  by one plausible slip:
  - skipping the open of the reply's empty payload;
  - skipping `ss` in the responder;
  - passing `c1`/`c2` to `newConn` in the other order.
- **RTTFilter:** samples 0, 1, 2, 9; delays 0, 1, 4; window 2; times 0..3.
  The smoothed RTT never returns to 0 once a positive RTT was measured,
  the ACK delay never takes a sample below the window minimum, and the
  smoothed RTT stays between the smallest and largest RTT measured since
  the filter was made, so PTO and the loss threshold never fall below
  every real RTT. Sample 9 against 1 and 2 gives lerps that round both
  ways.

The run does not check deadlock: a codec call is one step, after which the
behaviour stops.

Bounds of the `conn` run:

- Endpoint A writes 2 bytes and B reads them.
- The window is 2 bytes.
- `Room` is 1, so a 2-byte write is split.
- At most 2 bytes are in flight, and `MaxPacketSize` is 2.
- At most 2 received ranges are kept.
- A sends at most 3 packets and B at most 2 (`MaxPN`).
- At most 2 datagrams are in the network at once (`NetBound`).
- `MaxIdlePTOs` is 0.

Within these bounds TLC reaches all of the following:

- a nack loss and a timeout loss;
- a retransmission;
- an out-of-order arrival;
- a cwnd-limited sender and a tail ACK;
- a writer blocked by flow control;
- a gap in the received ranges;
- full delivery.

Deadlock is not checked in the `conn` runs: once every endpoint has used
its `MaxPN` packet numbers, only network losses remain. That stop is an
artefact of the bound, not of the code.

Every property of every run has a mutant in `PROJECT.json`: a plausible
bug in a mapped definition that TLC catches with that property. The mutants
are the operators marked "Mutant of ..." in the modules.

### Findings

1. **`ReadMsg` can return an empty message** (`conn.go:292`). `ReadMsg`
   takes the coalesced `unrelrcvready` signal, then the lock. If message 2
   completes in between, `handleMsg` swaps it in and signals again. This
   `ReadMsg` reads message 2, and the next one takes the leftover signal and
   reads an empty buffer: `(0, nil)` though no empty message was sent.
2. **An empty `WriteMsg` blocks every later one** (`output.go:168`).
   `WriteMsg(nil)` takes the `unrelsndready` semaphore. `MsgMaxDataLen`
   returns 0 for empty data, so `maybeSendMsg` returns before it releases
   the semaphore, and every later `WriteMsg` or `ReadMsgFrom` waits until
   the connection closes.
3. **The driver spins when a deadline is unset** (`conn.go:437`). `wake`
   takes `min` over `t.Sub(now)` for `timeout` and `sendAckBy` without an
   `IsZero` check. An unset deadline gives the minimum `Duration`, so
   `timer.Reset` fires at once. Trace: the first send sets `timeout` while
   `sendAckBy` is zero, and the timer is armed at 0 instead of at `PTO`.
4. **Migration never probes** (`output.go:52`). `sendPacket` probes only
   while `!migrationProbeCooldown.Before(now)`, i.e. before the cooldown has
   elapsed. `newConn` sets the cooldown to year 1, so no probe is ever sent
   and the connection keeps sending to the old address after a rebinding.
5. **A timed-out dial leaks its handshake goroutine** (`mux.go:114`). When
   `ctx` ends first, the caller closes the handshaker and returns. The
   goroutine then returns the close error and blocks forever sending on the
   unbuffered `done`. `transportutil.DialContext` times out each attempt, so
   every attempt that times out leaks one; `dial_leak` shows it inside
   `DialContext`.

`dial` does not check deadlock: a finished dial stops. The
`msg_channel` and `msg_empty_*` runs do not check deadlock: after the last
message the users stop calling, and a connection with nothing to do
idles.

## Fairness and liveness

`MsgChannel` assumes weak fairness of `SendMsg`, because `WriteMsg`
signals `wakeup` and `wake` keeps sending while packets come out full. It
also assumes weak fairness of the writing user's steps after its channel
send: a goroutine that can take the lock eventually does. No fairness is
assumed of the network or the reading user.

`LossRecovery` assumes strong fairness of `Tick` (time passes; it is
disabled while a `wake` runs, so weak fairness would not force it) and weak
fairness of `Fire`, `Wakeup` and the send steps: the run goroutine takes a
fired timer or a wakeup and finishes its loop. The peer and the user get no
fairness. `Dial` assumes weak fairness of the dialler's goroutine steps, which
include each attempt's timer firing. Every such step moves its goroutine
forward and none repeats, so fairness on their disjunction amounts to
fairness on each. Nothing is assumed of the network, the servers' tickers or
the application's `Accept`.

The `Conn` runs check safety only. The code's scheduling would justify weak
fairness of `Wake`, because the timer re-fires and `wakeup` is signalled on
every input. Liveness, for example that every written byte is eventually
read, is planned. It needs unbounded packet numbers, which means a model
where `seq` is taken modulo a window, or a bound that stops only when
everything has been delivered.

## Not modelled, and the plan

Done: `PacketNumber`, `MsgChannel`, `Wire` (varints, ACK, STREAM, MSG), `RTTFilter`,
`LossRecovery` (timers, congestion control), `Migration` and `Dial` (the
dial helper, the handshaker and the accept path). Left out of `Dial`:
`Mux.closeWithError` with `Accept`'s closed case, and server Conns
closing. A duplicated initial is modelled, but server Conns are only ids,
but a second Conn under the same id would carry new keys, which
`ClientConnHasServerPeer` tells apart. An attacker presenting other
addresses' cookies is not modelled either. `Noise` keeps the AEADs
symbolic: ChaCha20-Poly1305, BLAKE2b and X25519 are taken to be perfect,
and an attacker opens or forges only under keys it can derive. The AEAD's
per-packet use in `Conn` (the packet number as nonce) is not modelled.
The MAX_STREAM_DATA, PING and CLOSE codecs are a type byte and at most
one varint, which `VarintRoundTrip` covers; they are not modelled
separately. `DecodeStream`'s check of `Off + len > MaxVarint` is modelled,
but with offsets far below 2^31 it never fires. Next:

1. **Liveness of `Conn`**: every written byte is eventually read, under
   weak fairness of `Wake` (see "Fairness and liveness").

The cryptographic primitives themselves (beyond `Noise`'s symbolic
model), UDP socket options (`internal/udp`) and the demo programs stay out
of scope: they are I/O or arithmetic on keys that TLC cannot say anything
about.
