# Guarch in TLA+

Guarch is a tunnel: a client takes SOCKS5 connections and carries each as a
stream to a server, which dials the target. Three protocols carry the streams:

- **Guarch**: TLS, inside it an encrypted packet connection (`SecureConn`), on it
  a stream multiplexer (`Mux`);
- **Grouk**: the project's own reliable streams over UDP;
- **Zhip**: QUIC streams (quic-go).

Around them are cover traffic that imitates a browser, a server that shows a
decoy site to probes, a mobile engine (gomobile) and a Flutter app.

These modules model the parts where goroutines, timers and a network meet, and
the conversions a stream depends on. They are translated from the Go source;
`PROJECT.json` names the lines behind each definition, the components and their
hazards, the runs, one plausible bug ("mutant") for every property of every
passing run, and the theorems.

## The system

| component | source | state | operations | what is hard |
|---|---|---|---|---|
| Grouk stream | `pkg/transport/grouk.go` | `sendBuf`, `sendWin`, `cwnd`, `recvBuf`, `recvNext`, `readCh`, `closed`/`doneCh` | `Write`, `Read`, `Close`, `handleRecv`, `handleAck`, `retransmitLoop`, `deliverOrdered` | loss, duplicates, two goroutines that deliver, a window shared without a lock, giving up |
| Grouk session | `grouk.go`, `cmd/grouk-*` | `streams`, `acceptCh`, `closed`/`closeCh` at either end | `OpenStream`, `AcceptStream`, `handleData`, `Close` | OPEN is sent once, a sweep of the map racing those who fill it, one read loop for all sessions |
| Grouk handshake, listener | `grouk.go`, `cmd/grouk-server` | maps of pending and live sessions, `pendingCount`, `acceptCh`, rate limiter | client handshake with resends, `readLoop`, `handleHandshake`, `cleanupPending`, `cleanupSessions`, accept loop | lost packets, counters and maps changed in separate steps, timeouts racing AUTH |
| Mux | `pkg/mux` | stream map, `acceptCh`, `closeCh`; per stream `readCh`, `closed`, `doneCh` | `OpenStream`, `AcceptStream`, `Write`, `Read`, `Close`, `readLoop`, `keepAlive`, padding, `Mux.Close` | full channels block the read loop, closes crossing, closing in the middle of a call |
| SecureConn | `pkg/transport/conn.go` | packet number, last number received, message and byte counts | `Handshake`, `Send`, `SendPacket`, `RecvPacket` | number order, wrap, limits counted differently at the two ends |
| Interleaver | `pkg/interleave` | `sendCh`, `seq` | `Send`, `SendDirect`, `sendLoop`, `idleLoop` | numbers taken before the sending lock |
| Codecs | `pkg/protocol`, `pkg/socks5`, `cmd/internal/cmdutil` | none | `Marshal`, `Unmarshal`, `Validate`; SOCKS5 request, `SplitTarget`, `ConnectRequest` | lengths in narrow fields, a target that is text at one end and an address at the other |
| Clients | `cmd/guarch-client`, `zhip-client`, `grouk-client` | the shared tunnel, `connectBackoff`, `mu` | `getOrCreate…`, `connect`, `handleSOCKS`, `close` | reconnecting while others use the tunnel, sleeping with the lock held |
| Servers | `cmd/guarch-server`, `zhip-server`, `grouk-server` | connection slots | accept loop, `handleConn`, `handleStream` | slots held by dead connections |
| Adaptive cover | `pkg/cover/adaptive.go` | window of samples, level, pending level and its time | `RecordTraffic`, `recalculate` on a ticker | hysteresis, cutting the window |
| Cover manager | `pkg/cover/manager.go` | `running`, a worker per domain | `Start`, `domainWorker`, `sendRequest` | a level that changes under the workers, stopping all of them |
| Shaper, padding, statistics | `pkg/cover/{shaper,smart_padding,stats}.go` | window of sizes | `PaddingSize`, `FragmentSize`, `IdleDelay`, `Calculate`, `Record` | bounds at the edges, random draws, repeated cuts |
| Mobile engine | `mobile` | `status`, `cancel`, the protocols' tunnels, `listener` | `Connect`, `Disconnect`, `connectAsync`, `startSOCKS` | calls during a connection attempt, which reports without the lock |
| Pool, FEC | `pkg/transport/pool.go`, `pkg/fec` | idle connections; packets of a group | `Get`, `Put`, `Close`; `Add`, `Recover` | libraries without a caller in the programs |
| Crypto, probe detection, decoy, health, config, log, app | see `PROJECT.json` | | | |

How they interact: a SOCKS request (`handleSOCKS`) asks the client's tunnel for a
stream, writes a CONNECT request on it and reads one status byte; then two
goroutines per end copy bytes. The Mux calls `SecureConn.Send` under its own lock
and its `readLoop` is the only caller of `RecvPacket`. The Grouk listener owns one
UDP socket and hands packets to sessions and, inside them, to streams, all on one
read loop; every stream has a retransmission goroutine of its own. Traffic is
recorded in the adaptive cover, whose level steers the cover workers and the
padding.

What makes each correct: a Grouk stream and a Mux stream deliver what was written,
in order, once; counters agree with the sets they count; a stream or session that
one end closes ends at the other; the receiver never takes an honest packet for a
replay; a packet and a target survive their conversions; the cover level follows
only sustained traffic and the workers follow the level; every SOCKS request is
answered and the client leaves no tunnels behind.

## Modules

| module | models | checked in | proved in |
|---|---|---|---|
| `ReliableStream` | the abstract promise of a stream: a counter of chunks written and the sequence delivered, which only ever grows by the next chunk | refined by `GroukStream` and `Mux` | `GroukStreamProofs`, `MuxProofs` |
| `GroukStream` | one direction of a Grouk stream with both ends' goroutines and the network | `MCGroukStream` | `GroukStreamProofs` |
| `GroukSession` | all streams of one session, both ends, the listener's loop and the closing of the session | `MCGroukSession` | `GroukSessionProofs` |
| `GroukListener` | handshake, session tables, timers, the server's accept loop | `MCGroukListener` | `GroukListenerProofs` |
| `Mux` | both ends of a Mux, the connection between them, and the relay programs | `MCMux` | `MuxProofs` |
| `SecureConn` | one direction of a SecureConn with the Mux or the Interleaver sending | `MCSecureConn` | `SecureConnProofs` |
| `Packet` | packets and requests and their conversions, as operators | assumptions of `MCSecureConn` | `ShapingProofs` |
| `TunnelClient` | a client's shared tunnel, its requests, and the server's slots, for all three protocols | `MCTunnelClient` | `TunnelClientProofs` |
| `AdaptiveCover` | the traffic window and the hysteresis | through `CoverManager` | `ShapingProofs` |
| `CoverManager` | the cover workers, composed with `AdaptiveCover` | `MCCoverManager` | `ShapingProofs` |
| `Shaping` | sizes, paddings and pauses of the cover traffic, as operators | assumptions of `MCCoverManager` | `ShapingProofs` |
| `MobileEngine` | the application's calls and the connection attempts they start | `MCMobileEngine` | `MobileEngineProofs` |

One action is one step that other goroutines can observe: a whole handler where
it runs under a lock or touches shared state once, and several actions where the
code lets others in between (`deliverOrdered` is `DeliverLoad`, `DeliverTake`,
`DeliverPush`, `DeliverAdd`; `OpenStream` of the Mux is `OpenCheck`, `OpenStore`,
`OpenSend`; `cleanupPending` is `ExpireLoad`, `Expire`). Blocking is a guard: a
full channel or a full connection disables the step of the goroutine that waits.
Payloads are numbers: a chunk is its sequence number.

Correspondence of the less obvious parts:

- `GroukStream`. `known` is the session's `streams` map, `done` a stream's
  `closed` flag and `doneCh`, `rtx` the sender's `retransmitLoop` between its
  check of an entry and its store of the halved window. The opening side matters:
  `OpenStream` uses up number 1, so `FirstData` is 2 there (`setting`). Numbers,
  losses and duplicates are bounded by `MaxSeq`, `MaxLoss`, `MaxDup`. Left out:
  the ACK of a CLOSE (nobody waits for it) and the moment in which a counter
  and the map it counts differ inside `handleAck` and `Write`, which no other step
  of the model reads.
- A network is *timely* when it duplicates nothing, delivers every ACK, and no
  packet is so late that its sender takes it for lost: a chunk is only
  retransmitted when its packet was lost, and arrives once. The refinement is
  stated for timely networks, because the code does not keep order on others
  (second finding below).
- `GroukSession`. A stream carries one chunk, from the client. At the client a
  stream is a single object; at the server every OPEN that arrives makes one, so an
  object is its stream and a number (`made`), `smap` says which one the map holds,
  `live` which are not marked closed, `late` which were stored after the sweep of
  `Close`. `loop` is the listener's read loop: it waits in `accept` when the
  session's queue is full, and in `close` when it ran into a `Close` under way
  (`sync.Once`). An *ordered* network delivers all packets in order; the other
  one is a set of packets in flight, any of which may come next, come again or
  never come, which covers loss. PING and PONG, and the ACKs of OPEN and CLOSE,
  change nothing and are left out.
- `GroukListener`. A session ID is the client and the number of its INIT.
  `Verify` has two outcomes, by whether the client has the right PSK. A *timely*
  network there means that an answer arrives before the client's next try, and
  that no AUTH is on its way when its session is 30 s old. The
  listener itself is never closed.
- `Mux`. `muxPc` follows `Mux.Close` through its three steps; `app` is what the
  programs at both ends do with a stream; the settings say which streams there
  are, whether both ends write ("duplex"), whether a mux may be closed at any
  moment ("closes") and whether keys have limits ("keyEnds"). A send fails in two
  ways (`SendFails`): on a connection that is broken, which closes the mux; and when
  the counts of the sending key are over a limit, which leaves the mux open. The end
  is then in `spent`, each of its later sends fails, and what the callers do with
  the error is the code's: `OpenStream` forgets its stream, `Write` returns,
  `keepAlive` ends, `Stream.Close` and the read loop's PONG do not look. Which packet
  reaches a limit is not counted here (that is `SecureConn`): any may.
- `SecureConn`. `task` holds a packet between the moment its number is taken and
  the moment it is sent; sizes are plaintext sizes, the receiver adds `Overhead`.
- `Packet`. Header fields stay fields, and the bytes behind them a sequence. A host
  is known by its kind, its length and the colons of its text: colons are what the
  code splits targets at.
- `TunnelClient`. A tunnel is a pair of ends, each `open`, `spent` or `closed`.
  `spent` is an end that is up and can open no more streams: a used-up key of
  Guarch, or a Grouk session out of stream ids. `stuck` are the ends held up by a
  relay whose program does not take its data: the Mux's read loop waits behind it,
  and at last the other end's, whose writes fill the connection (`Stall`); the
  deadlock of two read loops that both wait to send is such a state as well. The
  program may read on (`Resume`) or never do so. A mux that is held up does not see
  its connection end (`Listens`): the read loop is not reading, and `keepAlive`
  closes nothing. `used` counts the QUIC streams that
  the server holds against `MaxStreams`. The lock `c.mu` is held from `StartDial`
  to the dial's end, across the sleep; `cancelled` is a Zhip dial begun after the
  signal, whose context is done. Probe detection, a full server, a wrong PIN or PSK
  all are failed dials; a dial may fail after the server has taken a slot
  (`GuarchAuthCut`, `ZhipAuthCut`, `GroukAuthCut`). The programs differ in what
  they do with a closed tunnel (`GuarchGet`, `ZhipGet`, `GroukGet`), in how a server
  without a slot refuses (Grouk: after its handshake), and in what they notice: a
  Grouk client hears of the server's end only if a CLOSE arrives. What becomes of a
  relayed stream, and that `Mux.OpenStream` and `Mux.Close` race, is left to `Mux`
  and `GroukSession`: here opening a stream is one step.
- `CoverManager`. A worker is `looping` when it looks at the context and the level.
  `adaptive` is whether the manager was given an `AdaptiveCover`: the programs give
  it one, the mobile engine does not. A step of the traffic or the ticker
  (`CoverStep`) leaves the workers alone.
- `Shaping`. A random draw is the set of values it may have; the limits and the
  intervals of modes, levels and domains are parameters.
- `MobileEngine`. An attempt is the goroutine of one `Connect`. `call` is what
  the holder of `e.mu` does, in steps, because attempts set the status without the
  lock. `field` stands for `muxConn`, `groukSession` with `groukUDP`, and
  `zhipConn`; `e.cancel` is that of the last attempt. `use` is how the engine is
  called: in any order, as a gomobile library may be, or as `AppProvider` does,
  which offers Disconnect when it was told "connected" (`Offered`). The callback
  is taken to deliver the status at once; `MainActivity` does not install it.
  `overlapped` records that some call met an attempt under way.

## Runs

The larger runs have some 10^5 distinct states; each takes less than two minutes
with two workers.

| run | question | bounds |
|---|---|---|
| `grouk_stream` | Does one direction of a stream keep its window's accounts, lose nothing, implement `ReliableStream`, and get every chunk read? | two chunks, `readCh` of one, window 1 to 2, one loss, one duplicate, one retransmission before giving up, closing from both sides |
| `grouk_any_network` (violation) | Is delivery in order when a copy arrives during delivery? | the same, network not timely |
| `grouk_opener` (violation) | Is what the opening side writes read? | the same, sender is the opener |
| `grouk_session` | Which stream objects escape `Close`, can the shared loop be stuck, is a writer told that its stream was never made, does a close reach the server? | two streams on an ordered network; one stream, one duplicate and one retransmission on any other; accept queue of one |
| `grouk_listener` | Do handshakes end, are counters exact, is a session accepted once, are losses repaired, do dead sessions go? | two clients, one pending place, one accept place, one server session, two or three tries, one loss |
| `mux` | Do streams that share a connection hold each other up for ever, do they stay reliable while muxes close, can a reader be left that nobody will close, do both ends close? | two streams of one chunk with one PING or padding per end; one stream of two chunks each way; one stream of two chunks on muxes that close at any time; one stream of one chunk, one way with a PING and both ways, on keys that reach a limit at any packet; all buffers of one |
| `secure_conn` | Can an honest packet be taken for a replay; who stops first at the limits; is everything received in order? | five chunks, five messages or eight bytes per key, numbers modulo seven, the Mux or the Interleaver sending |
| `cover` | Is a level taken up only after it lasted, do the newest samples survive the cut, does silence lead to idle and to the idle level's domains, do all workers stop? | three levels, window 2, hysteresis 2, three samples kept, four recorded, two domains |
| `tunnel_client` | Is every request answered that does not wait where the code has no deadline, is the pause exact, how many tunnels leak, does the client exit? | each protocol, two requests with two attempts each, three tunnels, one or two slots, two streams |
| `tunnel_client_key_limit` (violation) | Does a used-up key force the client to reconnect? | the same, Guarch only |
| `grouk_reconnect` (violation) | Does the client leave a tunnel whose server has gone? | the same, Grouk only |
| `mobile_engine` | Is what the application is told true, does Disconnect reach everything it should close, does it end what served? | three attempts, two protocols, one address |

Why the bounds are enough to see the interesting cases: one place in a channel
makes "full" happen with the second item; two chunks make order and gaps visible;
window 1 to 2 has both the floor and the ceiling; a retransmission limit of one
reaches giving up; the key limit of five lies below the modulus of seven by more
than one message, as 2^30 lies below 2^32, and the packet after the limit is tried
too; three samples are cut when the fourth comes; a hysteresis of two ticks fits a
level that flaps within it; with two domains one is dormant at the lower levels;
three tunnels are what the race of two retrying requests takes; a Guarch server
with two slots keeps a forgotten tunnel beside its successor, and with the single
slot of the others the successor meets the limit; two streams are the one that
Zhip authenticates with and one more; with three attempts, one that was given up
can fail over the second and let in a third. The window bound for several
concurrent writers is not exercised by TLC (one writer) but proved for any number
of them.

The operators of `Packet` and `Shaping` have no states. `MCSecureConn` and
`MCCoverManager` evaluate them at their edges in named assumptions
(`SomePacketsSurvive`, `HostsAreDialled`, `EveryEdgeIsPadded`, ...), and the
theorems below hold for all inputs.

`CHECK_DEADLOCK FALSE` is set because each modelled system may stop: all traffic
is bounded, sessions and muxes end, clients exit, the workers' context gets done.

### Fairness

- `GroukStream`: every goroutine is scheduled, packets not lost arrive, the
  reader reads. Losing, duplicating, writing and closing are never forced.
- `GroukSession`: goroutines run, the server's program accepts, and on the ordered
  network packets arrive. On the other network nothing has to arrive. Programs
  need not write, close or return.
- `GroukListener`: goroutines and timers run and packets that are not lost are
  read. The timers are `time.Ticker`s without an exit but the listener's closing.
- `Mux`: goroutines run, and the relay closes a stream whose reader has ended
  (`RelayStream`, `handleStream`'s defer). Liveness is stated for one writing end:
  with both ends writing into full buffers, both read loops may wait to send a
  PONG, or for a reader that waits for its own connection, and the two ends can
  wait on each other.
- `CoverManager`: the ticker fires, `recalculate` runs and every worker's timer
  goes off. Strong fairness of `BeginRequest` stands for chance: a worker skips a
  turn once in twenty, and so does not skip for ever.
- `TunnelClient`: pauses, dials and handshakes are bounded by timers (10 or 15 s for
  a dial, at most 30 s for the handshake); `sync.Mutex` hands the lock to a waiter
  that has waited for a millisecond. What a request writes and reads on its stream
  has no timer: neither `OpenStream` and `Write`, which may wait for the connection,
  nor the read of the status (`guarch-client/main.go:304`). `Exchange` is therefore
  fair only while no end of the request's tunnel is stuck (`Flows`): then the
  server's handler gets the request, and it dials with a timeout of 10 s. An end of
  a TCP or QUIC connection hears that the other has closed, unless it is held up,
  and a Grouk server forgets a silent client. Nothing of the kind is assumed of a
  Grouk client. Connections breaking, relays stalling, going on and ending, keys
  running out and the signal are never forced. Weak fairness is enough for the lock,
  since each of the finitely many requests takes it at most three times.
- `MobileEngine`: calls return, attempts go on (dials, handshakes and the
  authentication have timeouts). The accept loop wakes up for sure only when its
  listener is closed; nobody has to connect to it or to call Disconnect.

### What the runs show

*Hold.* The congestion window's counter equals the number of unacknowledged
chunks through every interleaving of acknowledgements, timeouts and writers; no
chunk disappears between the sender's buffer, the receiver's buffer, the two
deliverers and `readCh` while both ends are open. A stream object of a Grouk
server is in the map of a session that its `Close` has yet to sweep, except a
second object for a repeated OPEN and one stored after the sweep
(`ObjectsReachable`); the read loop that all sessions share gets on
(`LoopFree`), and who writes to a stream that the server never made gets its
stream closed. `pendingCount` is exact on a timely network although the read loop,
the handshake goroutines and the cleanup each touch it apart from the map. Stream
maps at the two ends of a Mux agree whenever it is quiet and neither key is used up,
however opens and closes cross (`MapsAgree`, which says it of each end by itself: one
that can send leaves nothing behind at the other); a slow reader delays other streams
but not for ever. A Mux's packets are never taken for replays, also at the end of a key. A level changes only after it
was proposed for the whole hysteresis, and once the user is silent only the idle
level's domains are fetched from. The client dials one at a time, its pause is
exact, and it exits after a signal. The mobile engine tells the truth as long as
no call meets an attempt under way (`StatusIsTrue`), and the application's rule is
enough for that (`AppNeverOverlaps`). With calls in any order it does not: an
attempt that was given up reports over the next one, and serves after Disconnect.
What then still holds is that its listener can be closed (`ListenerReachable`).

*Do not hold* (findings):

1. `OpenStream` of Grouk takes number 1 for OPEN, and the receiver waits for 1 as
   the first chunk: what the opening side writes is acknowledged and never read.
2. `deliverOrdered` runs in two goroutines without a lock; when a second copy of a
   chunk arrives at the wrong moment, a chunk is handed over twice and another is
   skipped.
3. A Grouk client reconnects only when a CLOSE arrives. A session that the server
   has forgotten otherwise is handed to every further request.
4. Nothing forces a reconnection when a Guarch key is used up, as the table "Key
   Limits" of the repository's README says. Only sending fails; the mux stays open,
   and a request that waits for its status waits until the connection breaks
   (`ForcesReconnect`). `NeedsRotation` (`conn.go:342`) is never called, and looks at
   messages only, so nobody is warned.

*Limits of the properties.* The client may have several tunnels, although the
repository's README says that all streams share one: of two requests that hold the
same closed mux, the second to fail forgets the tunnel the first has just dialled,
which stays open, with its padding and its server slot, until the connection breaks.
`LeakIsBounded` says how far this goes: one tunnel for each request that retried, and
no other way to leak one. `StreamsAreReliable` is restricted to a receiving mux
that is open: while a mux closes, the read loop's `select` may drop a chunk and
the next one still be delivered. CLOSE may overtake data in both protocols, so
nothing is promised to the reader of a stream that is being closed.
`MapsAgree` and `CloseIsSeen` except what is closed by an end whose key is used up:
`Stream.Close` ignores that its CLOSE was not sent (`mux.go:301`), and the other end
keeps the stream, and its reader, until the mux closes. `WrittenIsRead` takes it that
who reads goes on reading; the relay's `conn.Write` has no deadline (`mux.go:347`).
`EveryoneAnswered` has the exceptions of `Hangs`, each a wait without a deadline on a
tunnel that stays open: an end of the tunnel is held up by another request's relay
(for Zhip, a request that still waits to open its stream is not affected); the key of
a Guarch server is used up (finding 4); what a Grouk client writes is not delivered
(finding 1), so that its requests wait for a status; and a Zhip request waits while
`MaxStreams` streams are open, which refused requests count towards for as long as
the connection lives. What is left to it: no request waits for the lock, a dial, a
pause or another's `Drop` for ever, none stays on a tunnel that has closed, and one
on a tunnel that was held up goes on with it.
`NoFalseReplay` and `ReceivedInOrder` are stated for one numbering goroutine
(`Alone`): with `sendCh` full, `Interleaver.Send` sends beside `sendLoop` and
numbers may leave out of order. No program runs an Interleaver.
`LossIsRepaired` excludes a lost DONE, which nothing repairs: the
server has the session, the client times out. The branch at `adaptive.go:197` is
in the model and never taken: `PendingHasTime` shows why.

## Proofs

Proved with TLAPS for every value of the constants that the named assumptions
(`ConstantsOK` of each module, `SessionConstantsOK`, `ClientAssumption`,
`EngineAssumption`, `ManagerAssumption`) allow. They ask that capacities, limits and
window sizes are positive, that the sets of clients and of settings make sense (there
is a client; Mux ids are positive, since id 0 is the frames' own), and for
`SecureConn` that numbers do not wrap sooner than one message after the limit.

**Every invariant that a run checks, every action property and both refinements are
also theorems.** What is left to TLC is liveness. Type correctness of `GroukStream`,
`GroukListener`, `SecureConn`, `TunnelClient`, `MobileEngine` and the cover workers is
proved and therefore not checked again by a run.

- `GroukStreamProofs`. `TypeCorrect`, `WindowAccounted`, `NoChunkLost`. The
  invariant behind the last, `LossInv`, adds what the property does not say: an
  ACK in flight is only ever for a chunk the receiver holds, and so is the number
  `readLoop` is about to acknowledge, so that removing a chunk from `sendBuf` loses
  nothing. The lemma `HeldStays` shows that no step of an open receiver drops a
  chunk: it moves from `recvBuf` into a deliverer's hand and from there to
  `delivered` or back, whatever the two deliverers do to each other. None of this
  assumes a timely network. `StreamRefinesReliableStream` does, in two layers:
  `OnceInv` says that a chunk is never on the network after it was stored, nor about
  to be sent again; `OrderInv` that `readCh` was given 1, 2, ... and that of what is
  stored only the next chunk can be in a deliverer's hands, in one deliverer's.
  Neither holds where a second copy of a chunk may arrive: that is the second finding.
- `GroukSessionProofs`. `TypeCorrect` and `UnclosedAreReachable`. The type
  invariant is not inductive alone: that the server makes no more objects of a stream
  than one and one per duplicate needs `OpenInv`, that the program sends one OPEN per
  stream and that what was made and what is still in flight add up. The step that
  needs care in `ReachStep` is the removal of a packet from the middle of the
  network (`RemovePacket`), and `UnclosedAreReachable` goes through every place
  where the map entry or the session's state changes.
- `GroukListenerProofs`. `TypeCorrect`, `PendingIsExact` and
  `SessionsAcceptedOnce`. `PendingExact` alone is not inductive. `PendingInv` adds that a session waits for AUTH only after its
  handshake stored it, that an admitted number is used once, and, on a timely
  network, that the AUTH of an old session is gone; hence the read loop never
  verifies a session that the cleanup is about to expire, which is where the
  counter would be decremented twice. `SessionsAcceptedOnce` assumes nothing of the
  network. `OnceInv` keeps the sessions that may still be verified apart from those
  handed on, and says that the handshake of either kind is over, so that nothing
  that was handed on is stored in `pendingAuth` again. (With the run's accept queue
  of one, that no session is in it twice rests on the proof alone.)
- `MuxProofs`. `TypeCorrect`, `ReadersReachable`, `MapsInAgreement` and
  `MuxStreamsAreReliable`, from one invariant `Inv` that `InvKept` shows of all
  actions. Its parts say where a stream's frames can be: none before the stream has
  begun (`UnbegunInv`), no trace at the server before OPEN arrived (`UnopenedInv`),
  and on a connection nothing of a stream before its OPEN, and its chunks in order
  (`WireInv`). `OrderInv` counts: as long as the receiver's stream is open, what is
  delivered, in the read loop's hands and on the wire are exactly the chunks
  written, so that each direction of each stream refines `ReliableStream` while the
  receiving mux is open. `MapInv` says of a
  stream that one map has and the other has not what is still to happen: its OPEN
  or a CLOSE is in flight, or about to be sent; or the end that has it not is in
  `spent`, and its CLOSE will never come. When all is quiet nothing is under way,
  which leaves `MapsAgree`. The lemma `SpentMoves` says that an end stays in `spent`.
- `SecureConnProofs`. `TypeCorrect`, `LimitsHold`, `NoReplayReported` and
  `DataInOrder`, in three layers. `CountInv` says that the messages received and
  those on the connection are together no more than were sent, nor than the limit.
  `NumberInv` says that while one goroutine numbers packets, the numbers on the wire
  increase, lie above the last one received, and stay below the next one, which has
  not wrapped: that needs `MsgLimit + 1 < SeqMod`, with room for the message after
  the limit that is numbered and not sent. The idle loop takes numbers from the same
  counter at any time, for padding that the receiver does not check. `DataInv`
  lines up what was received, what is on the wire, what `sendLoop` holds and what is
  queued. Its point is the end of a key: a refused packet leaves a gap, and none
  follows it, since a key that is used up stays so.
- `TunnelClientProofs`. `TypeCorrect` (with the server's slot limit and Zhip's
  stream limit), `OneDialAtATime` and `LeakBounded`, for the three protocols.
  `LeakIsBounded` alone is not inductive: that a successful dial leaves nothing
  behind needs that the tunnel it replaces is closed or forgotten, which holds
  because it was so when the lock was taken and only the lock's holder replaces it;
  and that `Drop` adds at most one needs that a request drops once. `BackoffExact`
  rests on `FailureDoubles`, which says that doubling and capping after each failure
  is the same as capping the power of two.
- `MobileEngineProofs`. `TypeCorrect`, `StatusTrue`, `AppIsCalm`, `TunnelsClosed`
  and `ListenersKept`. The invariant `CalmInv` says that while no call met an
  attempt, attempts follow each other, and what the last one holds (port, field,
  listener) is determined by how far it is; three of the properties follow from it.
  `PortInv`, for one address, does without that condition: a socket that is open
  and not yet registered keeps every other attempt from listening.
- `ShapingProofs`, on packets: what the constructors make is valid
  (`ConstructedIsValid`), what is valid survives `Marshal` and `Unmarshal`
  (`RoundTrip`), also out of a stream (`StreamRoundTrip`), whatever `Unmarshal`
  accepts is valid (`DecodedIsValid`), and a packet fits what `sendRaw` admits
  (`FitsConnection`). `DialledAsAsked`: a target without colons is dialled with the
  host and port of the SOCKS5 request. `Ipv6NeverDialled`: one with an IPv6 address
  never is, since `socks5.go:114` and `handshake.go:27` join host and port without
  brackets.
- `ShapingProofs`, on sizes and pauses: `EveryPayloadIsPadded` (between 1 byte and
  the limit, whatever is drawn; a payload that fills its bucket goes on to the next
  multiple of 1460), `PaddedAsDrawn` (the interleaver's packets, the only ones padded
  by the shaper's `PaddingSize`), `FragmentsFit` (the padding packets of the
  programs), `NewestSizes` and `PausesAreBounded`.
- `ShapingProofs`, on the cover: `PendingIsTimed` and `LevelsAreSustained`. The
  invariant ties the pending level's age to how long `recalculate` has proposed
  nothing else (the history variable `streak`); the action property follows from it
  and the guard of the last branch of `Decide`. `NewestKept`: samples are in the
  order of their times, so that what `recalculate`'s loop keeps is an end of the
  window (`ValidSamplesIs`), and `SamplesInv` says that this end is also one of the
  traffic's (`KeptIn`), with one lemma each for recording, cutting, time passing and
  dropping. `ManagerImplementsCover`: composed with any number of workers the
  adaptive cover is still one, every other step being a stutter, and so the three
  theorems hold in the composition as well. `WorkersTypeCorrect` adds that a worker
  stops only when the context is done.

Two proofs are inductions over data: over the failures in a row (`BackoffExact`), and
over the rounds of a loop (`ValidSamplesIs`). The library's induction theorems take
an operator and cannot be used; the lemma `Least` (a set of natural numbers has a least
element, from the library's well-foundedness of `<`) takes their place, applied to the
set of counterexamples. `PowersOf2` and `ValidSamples` are recursive functions for
that reason.

Left to TLC: all liveness (`WrittenIsRead`, `WriterNotStuck`, `LoopFree`,
`WriterIsTold`, `CloseReaches`, `HandshakeEnds`, `LossIsRepaired`, `DeadSessionsGo`,
`CloseIsSeen`, `PeerCloses`, `QuietBecomesIdle`, `CoverFollowsLevel`, `WorkersStop`,
`EveryoneAnswered`, `ExitsAfterSignal`, `DisconnectEndsServing`), which needs fairness
and `ENABLED`; and the total of a window's bytes, a fold, of which the proofs use only
that some level is proposed.

## Not modelled

- quic-go, TLS and the cryptographic primitives: external, assumed correct. The
  key exchange and authentication of `SecureConn` and of Zhip appear by their
  outcomes, which are the ways a dial of `TunnelClient` ends.
- `Pool` and `fec`: no program uses them, so that there are no interleavings of
  theirs to be faithful to. The same goes for the goroutines of `relay.go`.
- The probe detector: all of it runs under one lock. Its verdict is a dial that
  fails. The decoy's pages, the health counters, logging, and the configuration
  package (which no program imports).
- The TUN device and the statistics of the mobile engine, and the app's user
  interface: of the provider only the rule for calling the engine is modelled. One
  listed hazard, the list of servers indexed after an await, lies there.
- The limit on pending Grouk sessions is approximate in the code, by as many as
  there are handshakes under way; no property states it.
