# hiddenlink in TLA+

Specifications of hiddenlink, a point-to-point tunnel that sends IP packets over UDP or over connections that look like
HTTPS, with TLC configurations that check them on small instances and TLAPS proofs that hold for every instance. Paths
below are relative to the repository (`src/transport/udp/mod.rs` and so on); `PROJECT.json` maps every definition to its
lines.

## The system

One process runs on either side of the tunnel. Its parts, with what each of them keeps, does and has to get right:

| Part | State | Operations | Hard because | Correct when |
|---|---|---|---|---|
| Controller (`controller.rs`, `tunnel.rs`) | the ordered list of transports, their names | `new()` names and makes the transports; `handle()` reads a packet from the tun device, selects the first transport that is ready, awaits its `send()` | readiness changes between any two questions; names are given, numbered or refused | a transport that stays ready is not passed over; of the names only given ones make `new()` fail |
| Connections of an HTTP transport (`transport/connections.rs`, `transport/http/client/mod.rs`) | the registry, a hash key | `ready_for_sending()`, `select()` by addresses | connections come and go while they are asked | the packets of a flow stay on one connection |
| UDP transport (`transport/udp/mod.rs`) | `State` (last ingress packet and its marker, last egress time, an owed acknowledgement), a `Notify` | receiver and pinger tasks, `send()` from the controller | three tasks over one lock; lost, late, reordered and duplicated datagrams; restarts | "connected" is recent news; a calm network means connected; no storm of keep alive messages |
| UDP securer (`transport/udp/securer.rs`) | session, packet counter, cached session of the peer | `encrypt()`, `decrypt()` | two tasks encrypt at once, wrapping counter, clocks that differ or are set, restarts | no nonce twice in a session; what `decrypt()` says depends on the packet and the time alone |
| Packet writer (`transport/http/common.rs`) | a slot with a connection; each connection's lock, socket and error sender | `replace()`, `close_matching()`, `close()`, `send()`, `shutdown()` | controller, readers and shutdown tasks share one connection; partial writes | the stream stays parseable; errors reach the reader |
| Packet reader (`transport/http/common.rs`) | buffer, packet size, preread data, error receiver | `read()` | packets cut anywhere by reads; end of stream; errors of the writer | packets come out as they went in |
| HTTP client (`transport/http/client/`) | current and previous connection, reconnect time | `handle()` with TTL rotation, `process_connection()`, aborts | late ends of old connections, waits for shutdowns and locks, aborts anywhere | the slot holds the newest live connection; nothing leaks; it always reconnects |
| HTTP server (`transport/http/server/`, `transport/connections.rs`) | permits, gauge, registry of connections by name | accept loop, a task per connection, `send()` | connections that end out of order, failed accepts, handshakes that hang | permits are conserved, the newest connection of a name is registered |
| Server handshake (`server_connection.rs`, `router.rs`) | bytes read so far | routing by prefix, hiddenlink handshake | headers in parts, timeouts | the first bytes decide, however they are cut |
| Proxy (`protocols/proxy.rs`, `proxy_protocol.rs`) | two directions, a `Notify` | copy both ways, half-close, timeout | either side may end first or break | it ends, delivers what was sent before an orderly end, and cuts nobody off before that |
| TLS domains (`transport/http/tls.rs`) | domains of certificates | `select()`, `get_config()` | ties and suffixes | the most specific domain wins |
| Crawler (`crawler/`) | queue, set of crawled resources, client with a capacity | the crawl loop, `add()`, `client()` | limits, redirects, errors at every step | bounded queue and number of requests, no page visited twice (redirects aside), gauge right |

The controller owns the transports and calls `send()` of one at a time. Received packets go from a transport's task to
the tun device directly. Transports do not know each other. Within the HTTP transports the packet writer is the point
where tasks meet: the controller sends through it, the connection's handler replaces or closes its connection, and the
reader of a connection learns of failed writes through a oneshot channel that the connection holds. A client's handler
gives each new connection to the writer and keeps at most one older connection alive; the server's registry keeps one
connection per name and lets a replaced one end on its own.

## Modules

```
UdpTransport ─┬ UdpHistory ─┬ UdpProofs         PacketWriter ── HttpClient ── HttpClientProofs
              └ UdpTimely  ─┘                   HttpServer   ─┬ HttpServerProofs
UdpSecurer ── UdpSecurerProofs                  Handshake    ─┘
Controller ── ControllerProofs                  PacketPipes ◁ HttpTunnel ─┬ HttpTunnelProofs
Crawler ── CrawlerProofs                                    PacketReader ─┘
Proxy ── ProxyProofs
```

`──` is EXTENDS, `◁` that the right one implements the left one. The HTTP transports are looked at from three distances:
`PacketWriter` and `HttpClient` at the locks and aborts of one end, `HttpServer` at permits and the registry, and
`HttpTunnel` at both ends and the wire between them, with the packets that are under way.

Each `MC*` module instantiates one of them for TLC and defines the symmetry of its runs, if they use one.

### UdpTransport

Two peers, `A` and `B`, with all three tasks of each process and the network between them.

* State. `last_ingress_packet`, `last_egress_packet_time`, `needs_connection_acknowledge` are the fields of `State`;
  `ping_needed` is the permit in the `Notify`; `next_ping_time` the pinger's variable; `keep_alive` the message between
  the pinger's locked section and the return of `send_to()`; `notifying` says that the receiver is between the unlock
  and `notify_one()` of `on_ingress_packet()`; `receiving` that the receiver task has not left its loop; `net` is the set
  of datagrams in flight. An `Instant` is kept as an age (or as a remaining time) that saturates where the code can no
  longer tell two values apart, so `None` and "timed out" are one value.
* Actions. `Receive` is an iteration of `receiver()` up to the unlock, `NotifyPinger` the rest of it, `ReceiverFails` the
  `break` on a socket error. `PingerPostpones` and `PingerPings` are the two ways through the pinger's locked section,
  each after either branch of the `select!`; `PingerSends` is the return of `send_to()`. `Send` is the controller: the
  transport is selected if `connected()` and a packet is sent. `Restart` is `UdpTransport::new()` in a new process; the
  time for which a process is down is time in which it does nothing. `Lose` and the two outcomes of `Receive` (the
  datagram stays or goes) are a network that loses, duplicates, delays and reorders.
* Time. `Tick` is a second or any other unit. Nothing forces a task to run before a tick in `Spec`, so that any
  scheduling delay is possible. Timestamps of packets are truncated to the same unit as everything else: what the code
  decides at a granularity of nanoseconds the model decides at one of ticks.
* Securer. `decrypt` is the window of timestamps, `TimeDiff` with a clock of `B` that is `BAhead` ticks ahead. A packet
  that is accepted was made by the other peer, in this process's life or its predecessor's: nonces and ciphers are taken
  to work.

`UdpHistory` adds two history variables, `heard` (when a peer last took in a packet) and `pings` (keep alive messages in
this tick), and the properties that need them. `UdpTimely` adds a calm: from some moment on no process restarts, tasks
with something to do run before the next tick, datagrams take at most `MaxDelay` ticks and at most `MaxLosses` in a row
are lost.

### UdpSecurer

`encrypt()` of one peer and `decrypt()` of the other. A task first reads the timestamp (`ReadTimestamp`) and then takes
its packet id (`TakePacketId`), so that the pinger and the controller may take ids in another order than they have read
the clock. `packet_id` starts anywhere and wraps at `Ids` (2^32 in the code). `SetClock` sets the sender's clock forward
or back, `Restart` is a new process with a new session, `PeerRestarts` forgets the cached session of the other peer.
`decrypt()` may get any packet that has been sent, any number of times, and packets that nobody with the secret has made
(`Strange`). What the ciphers compute is left out: a packet is decrypted by the cipher of its session and by no other.
`encrypted` is a history variable.

### PacketWriter

The slot (`writer`) and, for each connection, its lock (`Locked`), its `error_sender`, the `error` in its channel, what
has been written to its socket (`stream`) and where its shutdown is (`shutting`). `sending` and `target` are the
controller's `send()`: fetched from the slot, awaiting the lock, writing. `handle[c]` says that the task that reads from
`c` and will call `close_matching()` has not ended. A packet's write is two steps, so that whatever can happen during a
partial write does. Connections are an unbounded supply: an element of `Conns` that nobody refers to is taken again.

### HttpClient

`handle()` of a client connection over the `PacketWriter`: `handler` is its place in the loop (connecting, awaiting the
previous connection's shutdown, waiting for the end or the TTL, closing the previous connection, sleeping), `current` and
`previous` its local variables, `draining` the connection whose shutdown it awaits. A connection's task is alive while it
reads (`handle`) or awaits the shutdown it asked for (`closing`). `Abort` is `JoinHandle::abort()`: wherever the task is,
also inside a shutdown, whose lock it releases. `process_connect()` is one step that succeeds or fails. Every step is a
step of `PacketWriter` or leaves its variables alone, so `PacketWriter` is the abstract specification that the client
implements; this is proved (`ClientImplementsWriter`), and the writer's safety theorems hold for the client.

### HttpServer

The accept loop, the task of every connection and the controller's `send()` over the registry. `task[c]` is the
connection's place in `ServerConnection::handle()` and in the closure of `HttpServerTransport::handle()`; the gauge's
decrement and the permit's release are separate steps, as other tasks see them. `latest` is a history variable: the
connection registered last under a name, until it has been handled. A hiddenlink connection's packet writer is reduced
to "in its slot" and "a write has failed": its slot is filled once and emptied once, and the races inside it are those of
`PacketWriter`.

### HttpTunnel and PacketPipes

Both ends of all connections that are made under one name. The client's `handle()` is `attempt`, `current` and
`previous`, its task for a connection `reader[c]`, its half of a connection `shut[c]`; `slot` and `sending` are the
packet writer and a `send()` that has fetched a connection. The server's task for a connection is `task[c]`; `active`
is what is registered, `served` the connections whose writer is in its slot, `serving` what a `send()` of the server has
selected. Between them `wire` holds the packets under way in each direction and `fins` the ends of streams behind them.
The network may break a connection at any moment, and an attempt may time out when the server has already answered
(`AttemptTimesOut`); `MaxFaults` bounds how often.

`PacketPipes` is what users of the transports may rely on: a connection is a pair of pipes; what was put in comes out
once, in order, also after the pipe's end. It is lost only if the network breaks the connection, or if the connection has
been given up (its TTL) and its successor is given up too, which is when the code aborts the older task. `HttpTunnel`
implements it under a refinement mapping that reads ends and ages of pipes off the states of the two ends.

### Controller

`new()` makes the transports one after the other (`MakeTransport`) or refuses the configuration (`RefuseConfig`). A name
is a sequence: what is given or what the kind is called, followed by the numbers that the code puts behind `#`. `handle()`
is `Receive`, then one question after the other (`AskConnection`, `SelectTransport`, `NextTransport`), for HTTP
transports the second pass of `select()` (`SelectAsks`, `Select` or `SelectFails`), and the send. Between any two of
these steps connections become ready or cease to be, and those of a server come and go (`RegistryChanges`) unless the
registry is locked, as it is during each of the two passes but not between them (`IsLocked`). `steady` and `route` are
history variables. `Configs` is any set of configurations. Of the names that `new()` refuses by themselves `"Blackhole"`
stands for all, those with a `#` included.

Two things that the model shows and that are easily overlooked. A client that somebody names `HTTP client` and gives
several connections calls them `HTTP client #1`, `#2` and so on, which are also the names of clients without names,
although `#` is reserved (`controller.rs:77`); `ConnectionNamesDistinct` therefore has a hypothesis. And when a
transport has been selected and all its connections cease to be ready before `select()` asks them, the packet is dropped
(`SelectFails`) even if a later transport is ready; `SteadyNotPassedOver` says what is promised instead.

### PacketReader

`PacketReader::read()` and `read_data()` on a stream of messages (packets, fake responses, anything else) that is cut at
any byte. A byte is a message and a place in it, so what the header says is read off the message, and a buffer that holds
bytes of two packets would be seen. `Init` chooses what the peer writes, how much of it the connection will carry, how it
ends, and how much came together with the handshake (`preread_data`); `Arrive` and the sizes of `ReadSocket` cut it into
pieces. `phase` is the place in `read()`: before a message, in a fake response, after it. `ReceiveError` is the second
branch of the biased `select!`. The reference is `PacketsIn` and `Verdict`, which look at the stream as a whole.
`Streams` is any set of sequences of messages, each with the places where its messages end (`ends`, a sum that is given
and not computed, so that proofs can use it); `MCStreams` is all of them up to a length.

### Handshake

The bytes that a client sends after the TLS handshake, through `Router::route()` and `process_hiddenlink_handshake()`.
`stage` is the loop that reads (the header, the static part, the rest), `buf` the bytes read, `decision` and `preread`
the `RoutingDecision`. The size of the fake request is one byte and the suffix any sequence; a negotiated protocol other
than HTTP/1.1 is an input. The reference is the set of all handshakes a client may send.

### Proxy

`ProxiedConnection`: `stage` is each direction's place in `proxy_connection()` and in the two blocks of `try_join!`;
`sent`, `taken` and `delivered` count what the source has sent, `copy()` has read, and the destination has. A request
begins with what the router has read. `client_shutdown` is the permit of the `Notify`. A client that closes its
connection without a TLS close_notify counts as a broken connection, as it does for the TLS library.

`seen` is what the destination of each direction has learnt: that it has ended (`shutdown()`), or that it is cut off.
When `try_join!` fails both connections are dropped and nobody shuts them down (`Interrupt`). Over TLS that cannot be
taken for an end, unless a shutdown that was under way had just done its work. The connection to the upstream server of
Trojan is plain TCP (`server_connection.rs:213`): its drop is a FIN, or a reset if something was left to read, so that
server may take an interrupted request for a complete one (`Dropped`). `EndMeansAll` therefore excepts it. `CutOnlyLate`
says when a proxying without broken connections may be interrupted at all: after the client has been told of the end of
the response and has all of it, and before the request's end has been passed on. That is so if the client goes on; but a
client that has ended is cut off as well if the upstream server has stopped reading its request.

### Crawler

`run()` with `add()`, `process()` and `client()`: one task, whose steps are the pieces between its awaits. The site is
arbitrary: each response fails, is an asset, or refers to any resources in any order (`Add`, until `EndProcessing`). Time
is reduced to whether a task waits before its request. `visited` and `requests` are history variables: the resources of
the tasks that have been requested, and the number of all requests (which is counted up to one more than the bound).

Redirects are followed by the HTTP client inside `send()` (`Redirect`), if they stay within the site and are not too
many; otherwise the request fails (`FetchNothing`). Their targets do not become crawled resources and cost nothing, so a
resource may be requested more than once in a crawl: as the task of one request at most (`VisitedOnce`, which is
proved), and besides as the target of redirects. What holds of all requests is a bound: `CrawlBounded`.

`RequestsAreUsable` says that a request without a delay always finds a client that it can use, and that one with a delay
never finds one that it cannot: the branch of `client()` that drops a used-up client (`crawler/mod.rs:236-238`) is never
taken.

## What is checked

| Run | Instance | Shows |
|---|---|---|
| `udp_history` | interval 1, timeout 2, packets accepted for 1 tick, sends may block for a tick | `AcknowledgeNotForgotten`: an owed acknowledgement always has a wake-up stored or about to be; `ConnectedIsFresh`: who says it is connected was heard within `FreshnessBound`; `NoPingStorm`: at most two keep alive messages in a tick |
| `udp_timely` | interval 1, timeout 3, every second datagram may be lost | `SettledConnected` after any past |
| `udp_calm` | interval 1, timeout 3, two datagrams in flight, one clock ahead by 1, sends of data may fail for ever | `SettledConnected` when packets overtake each other; `Recovers` (liveness): failing sends do not keep the peers apart |
| `udp_securer` | 2 tasks, 3 ids, 2 sessions, a clock that may be ahead by 1 | `NonceUnique`, `VerdictIgnoresOrder` |
| `http_client` | 2 connections, TTL | `StreamsIntact`, `TornIsReported` of the writer; `SlotAgreesWithTasks`; `Reconnects`: no circle of waits; `BrokenConnectionLeaves` (liveness) |
| `http_server` | 3 connections, 2 permits, 1 name | `PermitsConserved`, `RegisteredIsHandled`, `LatestRegistered`; `AcceptsAgain`, `BrokenUnregistered` (liveness) |
| `http_tunnel` | 2 connections at a time, 2 packets, 2 of them under way on a connection, 1 fault | `ImplementsPipes`: the refinement, with its liveness; `SlotNeverEmpties`, `RotationCostsOne`; `StaysAgreed`, `AgreesAgain`: both ends use the same connection |
| `packet_reader` | up to 3 messages of up to 4 bytes, cut anywhere | `ReturnsWhatWasSent`, `EndsAsSent`, `NothingHeldBack` against the reference |
| `handshake` | all short streams, and streams that begin with the secret, up to 9 bytes | `RoutedByContent`, `PassedIsHandshake`, `RefusedIsNone`, `NoNeedlessWait` |
| `proxy` | up to 3 bytes in a direction | `EndMeansAll`, `CutOnlyLate`, `ProxyEnds` (liveness) |
| `crawler` | 5 resources, 4 of which may be known, clients of capacity 1 or 2, 2 redirects in a row | `CrawlBounded`, `RequestsAreUsable`, `CrawlEnds` (liveness) |
| `controller` | 12 configurations of 1 to 3 transports, 2 flows | `RefusedForAName`, `ConnectionNamesDistinct`, `SteadyNotPassedOver`, `FlowSticks` |

The type invariants are parts of the inductive invariants that are proved. For each property a mutant is recorded in `PROJECT.json`: a definition of the
model changed as a plausible bug would change the code (the `\* Mistaken:` definitions next to the right ones), under
which TLC finds the property violated.

Bounds, and why they are enough.

* Intervals and timeouts are small but keep the order of events they have in the code (a timeout longer than the
  intervals that may be lost); the proofs hold for all of them. Ages saturate, so time itself is unbounded.
* `MaxInFlight` bounds the *distinct* datagrams in flight to a peer. A datagram that finds the network full is lost, as
  it may be anyway; reordering needs two, which `udp_calm` has. Larger values change nothing in the properties
  that are proved (below).
* `MaxSendDelay` bounds for how long a keep alive message may wait in `send_to()`.
* Two connections are enough for the client to rotate, and the client's safety properties are proved for any number. Elements of `Conns` are reused, so the number of reconnections is unbounded.
* `HttpTunnel`: a connection, its predecessor and, as names are reused, any number of them one after the other. A second
  packet tells a lost one from a repeated or an overtaken one. One fault is enough to leave the two ends with different
  connections. What the safety properties say is proved for any number of connections, packets and faults.
* `UdpSecurer`: three ids wrap within the seconds in which one timestamp may be used, which is just what
  `IdsAssumption` allows. The code's counter has 2^32, far more than the packets of such a time.
* `HttpServer`: three connections of one name are the registered one, one it replaced and one that is on its way; with
  two permits the third has to wait. The safety properties are proved for any number of names, too.
* `Controller`: up to three transports in configurations that were chosen for their names (given, numbered, given twice,
  the name of a kind) and for connections of every kind before and behind one another. Two hash functions give indices
  that agree and that differ.
* Three messages of two to four bytes are enough for a packet to be cut in its header and in its body, to be followed by
  what is left of another one, and for something to follow a fake response. Nine bytes are enough for a handshake with a
  name, a payload and a first packet behind it. In a direction of a proxied connection three bytes are enough for some to
  be with the destination, some in `copy()` and some not read.
* The site of the crawler has a resource more than a crawl may know, and a client's capacity is smaller than a crawl, so
  both limits are reached.
* Symmetry is used for peers only where their clocks agree, for the tasks of `UdpSecurer`, and in no run with liveness.

Fairness.

* `UdpTimely`: in a calm, a tick happens only when no task has anything to do and no datagram is late, and ticks go on
  (`TimePasses`). Progress of tasks is thus a matter of time, as it is on a machine whose scheduler keeps up;
  `SettledConnected` is then a safety property with a deadline.
* `HttpClient`: tasks that can go on do (weak fairness); writes end because of `TCP_USER_TIMEOUT`
  (`pre_configure_hiddenlink_socket`), attempts to connect because of `CONNECTION_TIMEOUT`; infinitely many attempts
  include a successful one, and a TTL may be so long that it never expires. A reader sometimes has nothing to read
  (strong fairness of `ReceiveError`). This is an assumption about the peer and not something that the code ensures: a
  peer that keeps the socket filled for ever would keep the biased `select!` from looking at the error. What
  `BrokenConnectionLeaves` shows under it is that a failed write is always sent to the task, and that the task, when it
  finds it, gives the connection up, wherever the handler, the shutdown and other sends are.
* `HttpServer`: the same, for `BrokenUnregistered`; a handshake ends because of `CONNECTION_TIMEOUT`, a proxied
  connection because the upstream server ends it, which the code says it relies on (`server_connection.rs:230-235`).
* `HttpTunnel`: tasks that can go on do, an attempt is answered or times out, and packets on the wire are read (weak
  fairness only: none of these steps is disabled by somebody else for ever). The TTL expires sooner or later.
  `AgreesAgain` and `StaysAgreed` assume `RegistersInTime`: the server registers a connection before the client's TTL for
  it has passed. Without a TTL, or with one shorter than the server's delay, a late registration of an older connection
  can leave the server with a connection that the client has already left, until that one ends.
* `Proxy`: the response is read, and writes to the client end because of `TCP_USER_TIMEOUT`; of the upstream server
  nothing is assumed, so that it may have stopped reading the request when it ends the response.
* `Crawler`: requests have a timeout (`crawler/client.rs:44`) and responses are finite; the site may refer to resources
  for as long as it likes, as every one counts only once.

## What is proved

For all values of the constants that satisfy the named assumptions of the modules:

* `UdpProofs`: `TypeCorrect`, `HistoryTypeCorrect`; `AcknowledgeRemembered` (the flag is raised together with
  `notifying`, and the pinger cannot consume the wake-up without clearing the flag); `Freshness` and `NoStorm`.
  *Freshness* rests on `FreshnessInv`, which follows a piece of news on its way: what a peer believes about hearing the
  other (`FreshIngress`), the marker in the message that the pinger holds (`FreshInHand`), the markers of all datagrams in
  flight with their ages (`FreshInFlight`) and the marker that the receiver has believed (`FreshConfirmation`). The
  property alone is not inductive, because it says nothing of packets that have not arrived; a packet's age, bounded by
  the window of `decrypt()`, carries the bound across the network. *NoStorm* rests on `StormInv`: after one message of a
  tick the next is not due, so a second one acknowledges a first packet, after which no packet of this tick is a first
  one. `CalmConnects` and `CalmStartConnects` are `SettledConnected`, after any past and from the start, for any
  intervals, delays and losses that satisfy `TimesAssumption` and `CalmAssumption`. The argument is one of counting
  (`SettledInv`): for as long as a peer hears nothing, the other one makes a packet in every `KeepAliveInterval`
  (`PingsInTime`), each of which has been lost or is still under way, so that the silence is no longer than `losses` and
  the packets under way account for (`Heard`); in a calm a packet under way is never late (`InTime`). No silence is then
  longer than `Silence`, from which follows that packets made later say so (`Marked`), and `MaxDelay` later that the last
  one taken in was such a packet (`Confirmed`). For a packet that overtakes others the bound has to be kept for every
  datagram under way (`ComingBefore`), not for the peer alone.
* `UdpSecurerProofs`: `SecurerTypeCorrect`, `NoncesAreUnique` and `VerdictsIgnoreOrder`, for any number of tasks. An id
  does not return before all others have been taken (`CounterInv`, `IdsOfPairs`); two packets with one timestamp were
  encrypted within `MaxStep + MaxStall + 1` seconds (`StallInv`, `StampInv`), in which the rate does not allow as many
  packets as there are ids (`RateInv`, `RateOfPairs`, `IdsAssumption`). The assumption is about the machine (packets per
  second, the longest stall, how far the clock is set), not about the code, which guards against none of these.
* `HttpClientProofs`: for the writer `WriterTypeCorrect`, `StreamsStayIntact`, `ErrorsAreReported`, `SlotIsNotShutDown`,
  all from `WriterInv`: the error sender is there exactly as long as nothing has failed and no shutdown has begun, and
  only the holder of the lock has a packet under way. For the client `ClientTypeCorrect`, `ClientImplementsWriter`
  (`ClientSpec => Spec`), and `SlotAndTasksAgree` and `AtMostTwoLive`, from `ClientInv`, which adds that the previous
  connection has left the slot whenever there is a current one, so that its task can be aborted without leaving the slot
  to nobody.
* `HttpTunnelProofs`: `TunnelInvariance`, `SlotStaysFull`, `RotationIsCheap`, `AgreementStays` and `TunnelImplementsPipes`
  (`TunnelSpec => Pipes!PipesSafety`). `TunnelInv` relates the two ends: which task of the client may still run for a
  connection (`TaskOf`), what can be on the wire of a connection in each of the server's states (`WireOf`), and where the
  handler's connections are (`HandlerInv`). Each action is then shown to be a step of `PacketPipes`: rotation is
  `GiveUp`, reading the last packet before an end is `Deliver`, a shutdown is `End`. For
  `AgreementStays` the invariant is joined by `ServedInv`: the client keeps its half of a connection in the slot open, so
  the server reads no end of it, and the late end of another connection removes only that one.
  The same module has the proofs about `PacketReader`: `PacketsReturnedWhole`, `EndToldFromStream` and
  `ArrivedIsReturned`, for any stream, cut anywhere and into any pieces. `ReaderInv` says that the buffer, the rest of
  `preread_data`, the socket and what is to arrive are, one behind the other, the stream from where the message that is
  being read begins (`DataInv`), and what each phase knows of this message (`PhaseInv`): that a header's size is taken
  once and from the right message is what keeps `Base` at the beginning of a message for ever. That the reference agrees
  (`Returned`, `DrainedVerdict`, `InvalidVerdict`) follows because ends of messages grow (`EndsGrow`), so that a byte
  belongs to one message only (`ByteIs`).
* `HttpServerProofs`: `ServerTypeCorrect`; `PermitsAreConserved` and `GaugeStaysWithinLimit`, by counting the tasks that
  hold permits and those that are counted (`PermitsInv`: each step moves one task into, out of or within these sets);
  `RegisteredHasTask` and `LatestStaysRegistered` from `RegistryInv`, which adds that a name without a latest connection
  has no registered one.
  The same module has the proofs about `Handshake`: `StreamsRoutedByContent`, `TunnelsHaveHandshakes`, `RefusedHasNone`
  and `WaitsAreNeeded`, for any secret, suffix, request and stream. `HandshakeInv` says that what has been read, followed
  by what has not, is the stream (`ReadInv`), that routing reads on only while the bytes are the beginning of a header
  (`RoutingInv`), and that a tunnel's header and the parts verified so far are in the buffer (`TunnelInv`). Of the rules
  they assume that no header is the beginning of another rule's (`RulesAssumption`): hiddenlink's begins
  like an HTTP request, Trojan's are hexadecimal digests. `RefusedHasNone` and `WaitsAreNeeded` need more than
  an invariant: that a decision about some first bytes is the decision about all streams that begin with them.
* `CrawlerProofs`: `TypeCorrect`, and a theorem for each safety property, from `CrawlerInv`. `QueueInv` says that tasks
  without a delay come first and exist only while there is a client: a client is dropped only when the next task has a
  delay, and then no other task is without one. `ClientInv` bounds what a client has been used for, and `OnceInv` says
  that what waits is distinct, known and not yet visited, which bounds the queue by the set of known resources.
  `RequestsInv` counts a request and its redirects for every visited resource, which bounds the requests of a crawl.
* `ProxyProofs`: `ProxyTypeCorrect`, `EndsMeanAll`, `CutsAreLate`, from `ProxyInv`: what `copy()` has finished is complete
  (`CopiedAll`), the permit is there from the end of the request until the response has taken it (`NotifyInv`), so the
  timeout cannot come after the request's end has been passed on, and who has learnt of an end has learnt it from a
  direction that was copied, or from the drop of a plain TCP connection (`SeenInv`).
* `ControllerProofs`: `ControllerInvariance`, `RefusalsHaveReasons`, `ConnectionNamesDiffer` and `SteadyIsServed`, for
  all configurations. Names are compared by their form: a numbered name is longer than a given one, and numbers of one
  kind grow with the position (`NumbersGrow`, by counting). `AheadInv` says that a connection which has been ready since
  `recv()` is still to be asked or has been found, whatever the registry's iteration order becomes when it changes.
  `FlowsStick` is `FlowSticks` for any hash functions. `RouteInv` says that what is remembered of a flow is what
  `select()` would return for it now (`ConnectionOfFlow`); that its pass over the connections finds all that are ready,
  in the order that the registry has, is followed connection by connection (`ReadyOf`, `InOrderOf`).

Proved only, with no run of their own: the type invariants, `SlotNotShutDown`, `OnlyTwoLive`, `VisitedOnce`,
`GaugeAgrees` and the other properties that the theorems above state and the table does not.

Every safety property that a run checks is also proved. Only model-checked are the liveness properties: `Recovers`,
`BrokenConnectionLeaves`, `Reconnects`, `AcceptsAgain`, `BrokenUnregistered`, `ProxyEnds`, `CrawlEnds`, `AgreesAgain` and
the liveness part of `ImplementsPipes`. These need fairness, which the proof system's version in use cannot reason about
(`ENABLED`).

## What is not modelled

* Contents of packets, encryption, TLS, HTTP masking, logging, statistics, metrics, configuration and start-up. Nothing
  of the modelled behaviour depends on them, except that a packet that cannot be decrypted is one that never arrives.
* The choice of a TLS domain (`transport/http/tls.rs`): a look-up by name and by its parent domain, without state. The
  rest of the file loads certificates.
* Buffers of the TLS library: a write is what reaches the connection. (The code does not flush after `write_all()`, so
  the end of a packet may stay in the library's buffer while the socket's is full.)
* The TLS handshake, the choice of the ALPN protocol, the set-up of the connection to an upstream server and the proxy
  protocol's header, which is formatted text.
* The crawler's cache of resource types, which only steers a guess, and the parsing of HTML and XML. Where a redirect
  leads is left out too: any resource of the site, as its target is not remembered.
* That a transport's constructor fails in `Controller::new()` (for want of an address, a certificate or a secret): the
  program does not start then. `RefusedForAName` is about names only.
* In `UdpTransport`, what may happen between the steps of `send()` (`udp/mod.rs:281-299`: the check, the marker,
  `send_to()` and the note of the packet sent) when it sends data; they are one step. The pinger's are separate, so a
  marker that grows old before it is sent is modelled there.
* In `Handshake`, the characters of a connection's name: a name is valid by the bytes at its ends.
* `connected()` of the HTTP transports, which only the metrics ask for, and the checks of their configuration.
* The small helpers of `protocols/` and `util/`: constants, encodings, socket options.
* In `UdpTransport`, clocks that are set: `now_timestamp()` of one peer is a constant distance from the other's there.
  `UdpSecurer` has a clock that is set.
* Panics. The code's assertions and `unwrap()`s on the modelled paths are taken to hold.

## What could follow

1. The client's side of the handshake, composed with `Handshake`, so that what a client writes is what a server accepts.
2. `HttpTunnel` with several names and permits, that is, composed with the accept loop of `HttpServer`.
3. The selection of a TLS domain as an operator against a reference definition.
