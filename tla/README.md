# A TLA+ model of MorphProtocol

MorphProtocol carries WireGuard packets in UDP datagrams that look like another
protocol. A client asks the server's main port for a session with a *handshake*;
the server opens a socket for the session, answers with its port, and from then
on relays between that socket and its local WireGuard. This directory holds the
specification of the TypeScript server and client, of the Android client, and of
what each does to a packet; what TLC checks of them on small instances; and
proofs, checked by TLAPS, of what holds on every instance.

## Running it

    tlc -workers 2 -config MCUdpServer.cfg MCUdpServer    # one run
    tlapm UdpServerProofs.tla                             # one set of proofs

`PROJECT.json` lists all runs, which definition models which lines of the source,
the hazards the properties are for, and for every property a mutant: a plausible
bug (the operator defined just before the original) that makes the property fail.

## Inventory

| part | source | state it keeps | operations | modelled |
|---|---|---|---|---|
| UDP server | `src/transport/udp/server.ts`, `src/server.ts` | sessions, `ipIndex`, session sockets, byte counters, `lastSeen` | handshake, reconnect, close, bind callback, relay both ways, traffic and inactivity intervals, shutdown | `UdpServer` |
| rate limiter | `src/core/rate-limiter.ts` | count and end of window per address | `isAllowed`, `cleanup`, `getCount`, `reset` | `RateLimiter` |
| TypeScript client | `src/transport/udp/client.ts` | module globals: identifier, socket, three intervals, session port, time of the last packet | start, handshake interval, message handler, heartbeat, inactivity check, stop | `UdpClient` |
| the system | both | datagrams in flight | delivery, loss, NAT rebinding | `MorphSystem` |
| backend API | `src/api/client.ts` | none | HTTP posts, failures only logged | as a ledger in `UdpServer` |
| packet security | `src/core/packet-security.ts` | none; the caller keeps the last sequence number | HMAC, timestamp and sequence checks | `PacketSecurity` |
| obfuscator and functions | `src/core/obfuscator.ts`, `function-registry.ts`, `functions/` | key, tables | eleven byte transformations, one to four layers, header and padding | `ObfuscationFunctions`, `Obfuscator` |
| protocol templates | `src/core/protocol-templates/` | 16-bit sequence number | encapsulate, decapsulate, header recognition | `ProtocolTemplates` |
| data path | `server.ts`, `client.ts`, `MorphUdpClient.kt` | the session's parameters at both ends | wrap, unwrap, heartbeat | `DataPath` |
| Android client | `android/plugin/.../client/network/MorphUdpClient.kt` | socket, port, handshake timer, two alarms, shared by threads | start, handshake task, answers, inactivity check, stop | `AndroidUdpClient` |
| Android service and plugin | `android/plugin/.../capacitor/` | the current client, `isConnected`, pending calls | connect, disconnect, connect thread, callback | `AndroidService` |
| Android obfuscation, templates, encryption | `android/plugin/.../client/core/`, `crypto/` | as in TypeScript | as in TypeScript | `AndroidObfuscator` |
| iOS client, plugin, tunnel | `ios/plugin/` | socket, port, timers on dispatch queues | as the TypeScript client | no |
| encryptor, health check, logger, configuration | `src/crypto/`, `src/utils/`, `src/config/` | none that steers anything | library calls, input and output | no |

How they interact. Client and server share nothing but datagrams: *handshake*
and *close* to the main port; the answer (`port`, `clientID`, `status`) and
*inactivity* from it; *heartbeat* and data to and from the session's port. The
server calls the rate limiter before it looks at a datagram and the API client
when sessions start, end and report. Everything runs in callbacks of an event
loop, one at a time, so the interleavings that matter are those of callbacks:
`bind` and `send` complete later than the code that called them, timers fire
between any two datagrams, and datagrams are lost, late and out of order. The
Android client has real threads instead, which share fields without locks.

What is hard here, part by part, and the properties that make it correct:

* **Server.** Two maps and a set of sockets must stay in step through moves,
  closes, time-outs and late bind callbacks (`IndexesAgree`, `SocketsAgree`,
  `BindsAgree`, `OrderAgrees`, `RepliesUsable`); sessions must end in time although
  the timer is periodic and late (`IdleBounded`); bytes and clients must be
  accounted for once, whatever ends the session (`TrafficConserved`,
  `ClientNumAgrees`).
* **Limiter.** Deleting entries must change no verdict (`ImplementsWindow`), and
  bursts around a window's end stay bounded (`TwoWindowsAtMost`).
* **Client.** Timers outlive what they use. Who owns the repeated handshake
  (`HandshakeOwned`), does every start settle (`StartSettles`), may a heartbeat run
  without a port (`PortlessIsQuiet`)?
* **System.** Both sides forget each other independently. Does the server get
  rid of a client that is gone (`AbandonedExpires`), and does the client notice
  that its session is (`LossNoticed`)?
* **Data path.** Two ends, perhaps written in two languages, that agreed on eleven functions, up to four layers in one
  of 7920 orders, tables, a template and an identifier must undo each other's work
  byte for byte, while sessions change under datagrams in flight (`ArrivesAsSent`);
  a header must give away whose packet it is (`HeaderRecognised`).
* **Packet security.** Replay protection by numbers that wrap must not shut out what
  is fresh (`FreshAccepted`), nor let in what is not (`TakenInOrder`).
* **Android client.** Alarms, timers, checks, answers and stops interleave statement
  by statement: is the client left with neither a timer nor a port (`NotStranded`),
  does it get a port or give up (`Settles`), does a stopped one come to rest
  (`Quiesces`)?
* **Android service.** Connects, disconnects, connect threads and callbacks cross: is
  there a client nobody can stop (`OneClient`, `Disconnectable`), and is each call
  answered (`ConnectSettles`)?

## Modules

`UdpServer` — one action per callback. `activeSessions` is a partial function
from client identifiers to records with the fields of `ClientSession` that steer
anything; `older` is the Map's insertion order, which `handleCloseMessage` depends
on; `sockets` maps each bound port to the identifier its handler closes over;
`binding` holds the `bind` calls not yet called back. `lastSeen` is modelled by its
age, `idle`. `Ignored` stands for every datagram the main handler drops before its
first assignment: over the limit, undecryptable, unparsable, or with parameters
the obfuscator or `createTemplate` refuses. `out` holds what the callback sends.
`relayed`, `billed`, `forfeited`, `clientNum` and `orphaned` are history variables: the
calls of the API client, and what a process takes with it when it ends.

Two points a reader of the code may stumble on. `src/server.ts` registers its
SIGTERM handler before it loads `udp/server.ts`, and that handler calls
`process.exit(0)`, so `gracefulShutdown` never runs: `Exit` loses the sessions
without a word. And `session.socket.address()` throws while the socket is not
bound: the model's `Reconnect` then updates the session and answers nothing.

`RateLimiter` — the limiter with a clock. Two histories count, for each stretch of time that
is as long as a window, the requests of an address that were admitted (`admitted`) and the
resets of that address (`resets`).
`WindowLimiter` is the abstract specification: a window that ends by itself, no
table, no clean-up.

`UdpClient` — the module's globals, and what the promise of each start on the present socket
has come to. `handlers` names the starts whose message handlers are on that socket; each
handler settles its own start's promise, and a second start, which clears the first one's
interval and rejects only itself, leaves the first one's pending. `leaked`
counts heartbeat intervals that no variable refers to any more: a second answer
overwrites `heartBeatInterval` without clearing it. `alive` becomes false when a
callback throws; nothing in the client process catches that. Deobfuscation may throw for
a packet that was not wrapped for the current identifier and template. The socket is `none`
(`client = null`), `open`, or `closed` but still in `client`. The order of the
first `bind` and its callback is not split: they are one step with the start. The command-line
program `src/client.ts` starts once, exits when the start is rejected and never stops;
`startUdpClient` and `stopUdpClient` are exported for embedding, and the model lets a
caller use them in any order, waiting for a stop before the next call.

`MorphSystem` — both modules by `INSTANCE`, and a network. A step's `sent` or `out`
goes into `network`; delivering a datagram is the handler of the receiver; `Lose`
drops one; `Rebind` gives the client another public address. The server may exit and
start again under a running client. It then has another key (`server.ts:26`), numbered
here by its process, while the client keeps the one its start was given: `key`. What reaches
an end under another key is `Unreadable` for the server, which drops it, and `Garbled` for
the client, whose handler decrypts outside its `try` and so ends the process. `TenMinutesPass` is the
server's clock: it waits for everything that takes less than half the server's
time-out (ten minutes with the default configuration), namely datagrams, bind
callbacks, the handshake (`MAX_RETRIES` times five seconds) and the client's
90-second check. That is the model's assumption about time, and it is what rules
out, for example, an *inactivity* that overtakes minutes of handshakes.

`ObfuscationFunctions` — the eleven pairs of `functions/` on sequences of bytes; a
byte is a number, and its bits are taken out and put together with arithmetic.
`Obfuscator` — the registry, the permutations in the order in which
`calculatePermutations` lists them (computed from the index instead of listed), the
layers, and the frame of header, body and padding. Random bytes, the padding and its
length are parameters. `ProtocolTemplates` — the three headers byte by byte, with what
the clock or a random generator puts into them as `noise`. `AndroidObfuscator` — the same for the Kotlin client, as far as it is written in
another way: a key table of 256 bytes instead of one as long as the packet, an inverse
table instead of a search, its own KCP header and check of the QUIC flags. Its functions
and permutations are listed in the order of the TypeScript ones and its frame is the same,
so it uses those definitions. These four modules have no variables.

`DataPath` — one client, in TypeScript or on Android, that opens sessions one after the other, each with an
identifier, a template and an obfuscator of its own, and the server that keeps
the earlier ones. A datagram carries its bytes; `packet`, which no action of the
program reads, remembers what was wrapped, and `arrival` what came of it. Answers to
handshakes are not in the network: any answer may come at any time. An answer for an
earlier session sets the port although its identifier does not match
(client.ts:247-258), and from then on the two ends use different parameters; the
history variable `misled` says so. The Android client reads what comes from the server,
and what comes from its local WireGuard, into a buffer of `ReceiveBuffer` bytes (2048,
MorphUdpClient.kt:488); `Received` is what is left of a longer one, and the history `arrival`
tells whether that happened. `extractHeaderIDFromPacket`, which `HeaderRecognised`
is about, is called nowhere in the server at present.

`PacketSecurity` — a sender, a receiver and a network that may also damage a field.
No part of the program calls this layer; the caller that counts and remembers is the
one docs/SECURITY.md describes. The HMAC is a function that gives no value twice.

`AndroidUdpClient` — a thread is the list of statements it has still to execute, and
statements of different threads interleave. A function that starts or stops one timer
or alarm is one statement. Registering a receiver that is registered changes nothing;
heartbeat threads change no field and are left out; `stop()` on a client that another
thread is stopping repeats what that one does. `overlapped` becomes true when an
inactivity check reconnects while an answer is handled or another check reconnects.

`AndroidService` — the app's calls as messages to the main looper, a connect thread
for each call, and clients reduced to what `AndroidUdpClient` shows of them. Looper,
connect threads and callbacks interleave, and each of their steps reads or writes one of
the fields they share: accepting a connect and making its client, `stop()`, `isConnected =
false` and `morphClient = null` of a disconnect, reading `morphClient`, taking the callback
and setting `isRunning` in a connect thread. The two histories are the two orders of events
in which a client gets out of reach. `overlapped` becomes true when a connect is accepted while an
earlier client, not yet connected, is still at work; `missed` when the `stop()` of a disconnect
comes while a connect thread has yet to start its client. A connect whose parameters or
constructor throw is answered with an error (`ConnectFails`). The `catch` of the connect
thread (MorphProtocolService.kt:260-270) is left out: `start()` catches every exception itself.

`MCUdpServer`, `MCMorphSystem` and `MCDataPath` only define small instances.

Planned, in this order: a composition with two clients;
the delivery of API reports, which are not retried.

## Runs

| run | instance | shows |
|---|---|---|
| `server` | 2 identifiers, 2 addresses, 2 ports, 2 users, time-out 2, one packet of 1 byte, one restart | tables, sockets, binds and replies agree; sessions end in time; clients and bytes are reported once |
| `limiter_window` | 2 keys, 2 requests per window of 2, 5 instants, 1 reset of a key in a stretch | implements `WindowLimiter`; at most two windows' worth, and one more for a reset |
| `client_timers` | 3 identifiers, 2 ports, 2 retries, 2 leaked intervals | handshake ownership; a start settles unless a stop, a second start or the end of the process comes first |
| `system_client` | 2 identifiers, 2 addresses, 1 port, 2 datagrams in flight, 1 restart | the client, driven by the real server, stays within `UdpClient` |
| `system_liveness` | 2 identifiers, 1 address, 1 port, 1 byte, 1 restart | abandoned sessions expire; losses are noticed, a restart's too |
| `packet_security` | 6 numbers, 5 packets, age 1, clocks equal or 1 apart, 2 in flight | packets that validateTimestamp calls fresh are never shut out; nothing is taken twice or late while the numbers stay on one side of the middle |
| `data_path` | 2 sessions out of 6 proposals (3 TypeScript, 3 Android), WireGuard packets of 4 and 34 bytes, a buffer of 32 on Android, 2 random headers, 2 paddings | what arrives uncut is what was sent; headers are recognised |
| `android_client` | 2 retries, 2 handshake timers, 1 check at a time | no interleaving strands the client, but the overlap named in the property; it settles, and a stopped one comes to rest |
| `android_service` | 3 connects, 2 answers per client | but for two orders of events: one client, which can be disconnected; calls are answered |
| `server_migration`, `system_reconnect`, `system_close` | as above | each refutes one statement of a document or comment; see below |

Why the bounds suffice. In `server`, two identifiers and two ports let two sessions
share an address, one wait for a port that is not there, and a port be used again;
two addresses are enough for a move and a move back. With a time-out of two units
the check runs every unit. Two users, one of them the empty one, show the call that
is skipped. What three sessions, a late check or longer packets add is not left to the
run: all its properties are proved for every size (a slack of one was also checked
once, 1.1 million states). Five instants, 0 to 4, let a window of two that opens at 0, one that opens at 3, and a stretch
that reaches into both occur, and one reset in a stretch a third window's worth. `MaxLeaked` = 2 is one more than the least that shows the loss of a
handle. In the composition two identifiers are one reconnection, and one restart is what
makes two keys. `MaxBytes` bounds what
WireGuard sends: its keepalives refresh `lastSeen`, so without a bound a session whose
client is gone would never expire, which is the code's behaviour and the reason
`AbandonedExpires` says so. `MaxInFlight` = 2 lets an answer and an *inactivity*, or two
answers, overtake each other; a datagram beyond it is lost, which UDP allows.

With six sequence numbers, five packets from any start wrap and cross the middle.
In `data_path` two sessions are one reconnection; the six proposals cover, for
either client, the three templates, and between them two and four layers and identifiers that
make KCP and QUIC look like the game once the top bits are dropped; the two random headers choose eight of
the eleven functions with four layers, and the other three with two. The longer packet fits the
Android client's buffer neither on its way in nor on its way out. One datagram in flight is enough there, because a receiver keeps nothing
between two datagrams and a delivered one may stay to be delivered again. Sequence
numbers modulo 2, on Android's KCP modulo 4, are enough to wrap, since no receiver reads
them. One value for QUIC's four random bits is enough for the same reason. WireGuard's messages have
even lengths (148, 92, 64, or a multiple of 16), which `DataPathAssumption` states, and
session ports are not given out twice. In `android_client` two timers are the first
handshake and one reconnection, and two retries are the least with which a client can
connect at all. Two overlapping checks are allowed for by `MaxChecks` = 2, with which the
safety properties were checked once (4.8 million states). Three connects let a call
come before, during and after another's handshake.
Deadlock is not checked: identifiers are drawn once each, bounds on restarts, time
and bytes run out, and a crashed or stopped client does nothing.

Fairness. Weak fairness stands for what the event loop promises: a running
interval fires, a pending `bind` or `send` calls back, time passes. Weak fairness of `Lose`
stands for a datagram not staying in flight. `system_liveness` assumes no delivery at
all: its properties hold over a network that loses everything. Only `system_reconnect`, to
refute its statement on the best of terms, adds strong fairness of the deliveries, a network
that does not lose every copy of what is sent again and again (`SpecFairLossy`). No fairness is
assumed of WireGuard, of the callers of start and stop, of `Rebind`, or of a server that exited
starting again. `UdpClient` alone needs only that the handshake interval fires. On Android the threads
run (weak fairness of each), a live timer fires again, and alarms go off: they are set with
`setExactAndAllowWhileIdle`. No fairness is assumed of answers, packets, silence or the app. The
service's clients get an answer or give up, which is `Settles` of `AndroidUdpClient`.

### What the code does not keep

| run | statement | what happens |
|---|---|---|
| `server_migration` | README.md:10 "seamless IP address changes without reconnection" | data from a new address is accepted and keeps the session alive; the answers go to the old address |
| `system_reconnect` | architecture.md:74 "Auto-reconnection" | one handshake, never repeated |
| `system_close` | server.ts:60 "Find session by IP:port" | the older session at the address is ended instead |

Other disagreements, and surprises, that the models contain and no run states.

On the server and the TypeScript client:
* DEPLOYMENT.md:18 promises that a shutdown "Notifies all connected clients"; the
  process has exited before it would.
* client.ts:129 says "Clear heartbeat interval"; the interval of an earlier answer goes on,
  and throws on port 0.
* The clean-up of DEPLOYMENT.md:268 ("Sessions are automatically cleaned up after
  inactivity") of a session the client left closes the client that uses the new one.
* The limiter's windows are fixed, where SECURITY.md:103 says "Sliding window algorithm".
* An answer that arrives while `stopUdpClient` waits for its datagram starts the heartbeat
  and the inactivity check again.
* A second `startUdpClient` without a stop is rejected, because `bind` throws on the
  socket it means to reuse. It has by then cleared the handshake interval of the first
  (client.ts:85-87), whose promise stays pending for good unless an answer is already
  under way.
* An answer for an earlier identifier sets the port before the mismatch is logged
  (client.ts:247-258).
* SECURITY.md:287-288 recommends "Restart server periodically to rotate keys" and says that
  "Clients will reconnect with new keys". A client keeps the key of its `startUdpClient` and
  has no way to learn another; a message under the new key ends its process.

On the data path:
* `divideAndSwap` does not restore a packet of odd length, where tests/README.md:107 expects
  a round trip. WireGuard sends none.
* `obfuscation` returns an empty packet as it is, which `deobfuscation` then refuses.
* A packet that is exactly 300 seconds old is accepted (packet-security.ts:88 compares with
  `<=`), where SECURITY.md:53 says "`abs(serverTime - packetTime) < 300`". `FreshAccepted` and the
  run go by the code.
* The Android client cuts a datagram of more than 2048 bytes short, the server's as well as the
  local WireGuard's (MorphUdpClient.kt:488): the first is then unwrapped to something else or
  refused, the second reaches the server without its end. WireGuard's default packets are shorter;
  `ArrivesAsSent` excepts what was cut.
* The game's signature is compared after decoding as `'ascii'`, which drops the top bit of each
  byte (base-template.ts:93, generic-gaming-template.ts:61): a KCP packet whose identifier is
  `C7 C1 CD C5` is taken for the game's. The Kotlin template compares whole bytes.
* Once the sequence numbers have crossed 2^31, a late packet from before it is taken
  again, against SECURITY.md:143; `TakenInOrder` makes exactly that exception.

On Android:
* `Obfuscator.setKey` would fill the key table without the factor 37 that the constructor
  and the server use (Obfuscator.kt:40, 156); it is called nowhere. The mutant of `KeyTable`
  is that table.

Also on Android, each of them an exception the properties name; without it they fail:
* A check that reconnects while the receive thread handles an answer leaves the client
  with port 0 and no timer.
* The last handshake is not waited for. With one retry a client can never connect, and
  the last `stop()` may hit a client that has just connected.
* A connect during another's handshake orphans the first client, and a disconnect
  during a handshake is refused.
* A callback of an earlier client that comes late, during the next connect, sets `isConnected` and
  so lets a disconnect in. If its `stop()` comes before the new client's `start()` it does nothing,
  and the client then runs although the service has dropped it: nobody can stop it
  (MorphProtocolService.kt:296-301, 234).
* `isConnected` stays true after the client has stopped itself, and a connect whose
  handshake fails gets no reply.

## Proofs

`UdpServerProofs` proves all nine properties of the server for every set of identifiers,
addresses, ports, users and templates, every time-out and every bound. The assumptions
are those of `UdpServer`: `NoPort` is no port, the time-out is at least two units, the
empty user is a user, and no two identifiers share a header prefix (they are random;
only `IndexesAgree` needs it). Each property has an inductive invariant of its own on
top of the type invariant:

| invariant | adds to the property | because |
|---|---|---|
| `TypeInv` | the set of live sessions is finite | the client count subtracts its cardinality |
| `IndexInv` = `IndexesAgree` and `HeadersOwned` | a session's header is a prefix of its own identifier | two sessions at one address must have different keys, or ending one removes the other's |
| `SocketInv` = `SocketsAgree` and `BindsAgree` | each needs the other | a bind callback gives a port to the session of its identifier, which must be live and have none |
| `IdleInv` | no idle time reaches the time-out plus the time since the last check, and the check is at most the slack late | what holds right after a check must be kept by every tick until the next |
| `TrafficConserved`, `ClientNumAgrees`, `OrderAgrees` | nothing | inductive as they stand |

`RepliesUsable` is an action property; it follows from `SocketInv` in both states of a
step.

`RateLimiterProofs` proves the type invariant and that every step of the limiter is a
step of `WindowLimiter` or leaves its variables alone; the clean-up is the case that
stutters, because an entry it deletes is one `isAllowed` treats as absent.
`BurstsBounded` is `TwoWindowsAtMost` for every limit, window and stretch. By itself
that is not inductive: a stretch may already hold a window's worth when the next one
opens. `BurstInv` adds where the requests are: a stretch that begins with the open
window or later holds at most its count, one that reaches into it from before at most
that and one window more, and no stretch that has not begun holds any; each of these
bounds grows by one window for every reset in the stretch (`Extra`), because a reset
makes room for a window that no one foresaw.

`UdpClientProofs` proves the type invariant, `HandshakeOwned` and `PortlessIsQuiet`. Its
invariant `Inv` adds that no handshake interval runs during a stop, that an open socket
has a handler, that only finitely many starts have one, and that a client with an open socket
has drawn an identifier. `HandshakeOwned` says that exactly one start waits while the handshake
repeats, so it must be kept by second starts too, which end the repetition.

`MorphSystemProofs` composes server and client. `ServerInSystem` and `ClientInSystem`
say that each side of `MorphSystem` runs as its own module says, so `ImplementsClient`
holds for all numbers of restarts, addresses and datagrams in flight. For the server
that is a matter of matching actions. For the client it is not: `UdpClient` has no step
in which *inactivity* arrives at a client that is still repeating its handshake.
`HandshakeInv` says why none comes: meanwhile no session at the client's address has
been silent for a tick, since `TenMinutesPass` waits for the handshake, and no
*inactivity* for that address is in flight. `ClientSafeInSystem` and
`ServerSafeInSystem` then carry the theorems of the two modules over to the composition.
The assumption is `SystemAssumption`, what the two modules assume of their parameters.

`DataPathProofs` begins with the obfuscator and proves `RoundTrip`: deobfuscation undoes
obfuscation for every non-empty packet of even length, all parameters, header bytes and
paddings. It goes from the bits of a byte (exclusive or, rotation and reversal undo
themselves or each other) to bytes, to the eleven functions, to the layers in reverse
order, and to the frame. It also proves `AndroidAgrees`: with the same draws the Kotlin
client makes the very bytes the TypeScript code makes, and undoes what the server made.
The key tables are the reason it needs arithmetic: one is read modulo 256, the other
holds as many entries as the packet, and they agree because 37 times 256 is a multiple
of 256. So the theorem also covers packets of more than 256 bytes, which no run reaches.

It builds the data path on that. `Decapsulation` is the same statement about the
templates. `PacketsArrive` is `ArrivesAsSent` for either client and any number of
sessions and datagrams: its invariant `PathInv` says that each datagram in flight
unwraps, unless a buffer cut it short, to what was sent with the parameters of the session *whose port it has*, and
that a client which no answer misled has the port of its present session or none.
`SessionsRecognised` is `HeaderRecognised`: the same invariant remembers that each
datagram is marked with the template and the identifier of the session it was wrapped
for. `TypeCorrect` says more than its name: every byte that is wrapped fits a byte and
every number its header field, and a client that was misled, and takes a datagram apart
with another session's parameters, or one whose end is missing, still gets bytes, whatever they are. The assumptions
are those of `DataPath`: WireGuard packets of even length that still fit a UDP datagram when
they are wrapped, a receive buffer of an even number of bytes, whatever it is, and session
ports that are not used again.

`PacketSecurityProofs` proves the three properties of the layer for any half of at least
two, any clocks, and a network that does anything short of making an HMAC. `Authentic`
adds that the HMAC of every packet in flight is one the sender made. `FreshAccepted`
follows from arithmetic of remainders; `TakenInOrder` needs, besides, that until the
numbers cross the middle they have not wrapped (`OrderInv`), so that the number is the
place in the order.

`AndroidServiceProofs` proves `OneClient` and `Disconnectable` for any number of calls
and answers, in every interleaving of the looper's, the threads' and the callbacks' steps. Its
invariant adds `Order` (calls are made in their order and clients
follow them, so there are never more clients than calls) and `Reported` (a client knows
its call only once the thread of that call has taken it, so a client that starts late cannot
meet a success that was reported before it). As long as neither excepted order of events has
come about (`Regular`) it also has `Current`: a thread that has yet to start its client is the
only one, and its client is the one the service refers to; and between the test in a connect and
the making of its client, or after the `stop()` of a disconnect, no client runs and no thread is
about to start one.

`AndroidUdpClientProofs` proves `NotStranded` for any number of retries, timers and
checks, in every interleaving. The property is about a client at rest; what must be
shown is that while threads are half-way through their statements, one of them still has
the statement that helps. `Programs` says that each thread's list is the rest of a
program of its own. `TimersBounded` keeps a timer for every check that has passed its
test. On top of that `SafeInv` has three parts: `Unstopped` (a running client has no
thread past the first statement of `stop()`), `InTurn` (without an overlap an answer at
work has set the port, and a check has it until it is about to start the handshake) and
`Alive` (a running client has a thread about to stop, or a check about to start the
handshake, or a live handshake timer if it has no port, or, for each alarm, the alarm
itself, the answer that will start it or the looper that will set it again). TLC checked
the same invariant with one and with two checks at once before it was proved.

All invariants and step properties of the runs are proved. Only model-checked: liveness
(`StartSettles`, `AbandonedExpires`, `LossNoticed`, `Settles`, `Quiesces`,
`ConnectSettles`), which needs fairness. What the three runs refute is refuted on one
instance.

## Not modelled

* **iOS.** What is there is the sketch of a client. In `MorphUdpClient.swift` only heartbeats
  call `sendToNewServer`, so nothing carries packets of a local WireGuard; each of those calls
  opens a connection of its own and nothing receives on it; the timers are scheduled
  from a dispatch queue, which has no run loop. `PacketTunnelProvider.swift` uses members
  that `MorphClient` does not have (`sendPacket`, `onPacketReceived`, `clientId`, `serverPort`).
  A module would have to invent the program it is about. The hazards visible in the sketch are
  in `PROJECT.json`. Its obfuscator and templates follow the TypeScript ones; with no
  relay around them there is nothing to compose them with.
* **A reconnection in the middle of a packet.** The Android client replaces port, identifier,
  template and obfuscator one after the other while another thread may be
  wrapping. `AndroidUdpClient` has those steps, but packets have no content there; in
  `DataPath` they have, but a packet is taken in one step.
* **Cryptography.** AES, scrypt and HKDF are libraries. In all modules but those of the
  data path a datagram is what the receiver makes of it.
* **Logging, health check, configuration.** Input and output.
* **Parts of the server and client.** The `server_full` message, which the clients handle, is in
  their modules, but no server sends it. `updateServerInfo` at start-up changes
  nothing in the process. The default branch of the header-length switch cannot be
  reached, because `createTemplate` throws first.
* **Parts of the Android plugin.** Binding the service, `getStatus`, which only reads, the notification, and
  the close message of `stop()`, whose failure is caught and which changes no field.
