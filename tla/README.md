# Pacetun: a TLA+ verification project

Pacetun carries IP packets between two hosts through a CDN. The *Iran client*
and the *foreign server* each own a TUN device; packets are sealed into records
(ChaCha20-Poly1305, increasing sequence numbers), the records travel in
WebSocket messages (or TLS, or the experimental HTTP carrier of the Go adapter)
and are opened, checked against replay and written to the other TUN device.
The source is under `src/cdn`. This directory holds TLA+ modules of its core
logic, TLC configurations that check them on small instances, and TLAPS proofs
of the properties that should hold for every instance.

Run a check with `tlc -config X.cfg MCModule`, a proof with
`tlapm ModuleProofs.tla`. `PROJECT.json` lists the runs, the source lines of
every definition, the hazards, the findings and the theorems.

## Inventory

| Part | Source | State it keeps | Operations | What is hard |
|---|---|---|---|---|
| Flow scheduler | `include/pacetun/flow_scheduler.hpp` | vector of flow entries, packet and byte counts, two cursors, turn count | push, pop, drop_expired, clear, lazy pruning | counts and cursors under any sequence of calls; starvation |
| Server admission | `src/admission.cpp` | pending and ready queues, claimed slots, stop flag; acceptor and worker threads | accept, authenticate, claim, take, destroy | threads, condition variables, shutdown at any step |
| Handshake and warm handover | `src/websocket.cpp`, `src/runtime.cpp` | per connection: step of the exchange; client: active and background connection; server: tunnel, ready queue | dial, trial, commit, swap, take, switch | deadlines racing answers, either end closing first |
| Padding budgets | `include/pacetun/traffic.hpp` | data budget, control budget, token bucket | allowance, spend | caps over every window of time, shared by lanes |
| Carrier loop | `src/runtime.cpp` (`carrier_tunnel_loop`) | plaintext queue, record queue, message being sent, sequence numbers, probe | read TUN, seal, batch, flush, decode, answer, probe, time out | drops between sealing and sending, watchdog against own queue |
| HTTP carrier | `adapter/httpcarrier.go` | session table, remembered nonces, per session: next number, write lock, reader flag | create, POST, GET, DELETE, cleanup, shutdown; the client's session | a CDN that repeats, delays and loses requests; dialling outside the lock |
| Connection pool | `src/runtime.cpp` (`pool_tunnel_loop`), `pool.hpp` | lanes, flow affinity, dial under way, lane being replaced | attach, detach, drain, replace, choose lane | drains racing failures, flows changing lanes |
| WebSocket framing | `src/websocket.cpp` | frame queue with offsets, partial frames, prefetched messages | send, flush, read, close | partial writes, frames arriving together |
| TLS tunnel loop | `src/runtime.cpp` (`tunnel_loop`) | record queue, the write SSL wants repeated, decoder, times of last read and write | read TUN, flush, drop, decode, answer, probe, keep alive | a write to be repeated while its record may be dropped; half-open sessions |
| Recovery timers | `traffic.hpp` (`RecoveryBackoff`, `LatencyRenewal`) | next time, failures, samples | started, failed, succeeded, observe | order of outcomes |
| Adapter: address selection | `adapter/transportpolicy/dial.go` | per address: cool-downs after TCP and TLS failures, latencies; turn | order, budget, record, RecordTLS | one deadline shared by all addresses, memory outliving a redial |
| Adapter: local proxy | `adapter/main.go`, `startup.go` | session slots, startup gate, per session: step, deadlines, two connections | accept, dial, handshake, startup requests, readiness message, copy both ways | early returns, clients that leave, a CDN that does not read, restart |
| Records and keys | `src/record.cpp` | receive buffer, highest sequence number | encode, feed | cryptography, byte layout |
| Configuration, control socket, statistics, log, TUN, entry point | `src/config.cpp`, `src/runtime.cpp`, `src/platform`, `src/main.cpp` | settings, counters | parsing, reporting, system calls | sequential |

How they interact: the acceptor and the workers of admission run in threads of
their own and hand connections to the main loop through `ready_`; the client
dials replacements in an asynchronous task and looks at its outcome in the
`tick` callback of the carrier loop; the carrier loop (or one lane of the pool)
owns a connection, its record queue and the flow scheduler; padding budgets are
consulted by `encode` for every record. The Go adapter is a separate process
behind a local socket (client) or in front of the server (HTTP hub).

Two notes on the source as it stands: `adapter/httpcarrier.go` has a stray `=`
at the start of lines 326 and 395, so that file does not compile as committed;
the model reads the lines without it. `CMakeLists.txt` names a `tests/`
directory where the repository has `test/`.

## Modules

| Module | Models | Extended or instantiated by |
|---|---|---|
| `FlowFifo` | abstract: one FIFO line per flow, limits, expiry | instantiated by `FlowQueue` |
| `FlowQueue` | class `FlowQueue` | `LimitProofs`, `MCFlowQueue` |
| `Admission` | `AdmissionServer`, its threads, the main loop that takes, `~AdmissionServer` | `LimitProofs`, `MCAdmission` |
| `Handover` | the single tunnel end to end: both ends' handshake, client loop, server loop | `HandoverProofs`, `MCHandover` |
| `Padding` | `PaddingBudget`, `ShapeBudget` and the two `encode` functions | `LimitProofs`, `MCPadding` |
| `Carrier` | `carrier_tunnel_loop` at both ends of one connection, `feed_aead`'s replay rule, `ReplyWatchdog` | `CarrierProofs`, `MCCarrier` |
| `HttpHub` | `httpHub` with concurrent handlers, `proxyHTTP` | `HttpHubProofs`, `MCHttpHub` |
| `Pool` | `pool_tunnel_loop` at both ends, `PoolAffinity`, the claim of admission | `PoolProofs`, `MCPool` |
| `WsSession` | the frames of `websocket.cpp` at both ends of one connection | `WsProofs`, `MCWsSession` |
| `TlsLoop` | `tunnel_loop` at both ends of one TLS connection, `RecordDecoder::feed`'s rules | `TlsLoopProofs`, `MCTlsLoop` |
| `EdgeSelector` | `Selector` of the adapter | extended by `Adapter` |
| `Adapter` | `main` and `proxy` of the adapter, the client's dial through it and its back-off | `AdapterProofs`, `MCAdapter` |

Definitions keep the names of the code. A definition whose comment starts with
"A bug:" is a deliberately wrong version of the definition after it; putting it
in its place makes a property fail, which shows that the property depends on
that line of the code. No specification uses them.

### FlowQueue

The six fields are the six variables. `Push`, `Pop` and `DropExpired` are the
three methods the loops call; `PruneIfNeeded` and `Clear` are applied inside
them exactly where the code calls them. A packet carries its age instead of a
time stamp: the code only compares the difference with the limit on a clock
that does not go back. `FlowFifo` states what a user may rely on; the
refinement maps the vector of entries to one line per flow. Flows and packets
only differ by name, so a new one takes the lowest name that is free (`Lowest`);
this loses no behaviour up to renaming and needs no symmetry, which liveness
would not allow.

### Admission

A section under `mu_` is one step, enabled when `mu_` is free. The wait on
`pending_cv_` is two steps, test and block, because the destructor sets `stop_`
and notifies without `mu_`. `take` polls (`take(0)`, or 250 ms), so the ready
condition variable needs no model: the main loop looks again. A connection that
has failed authentication is answered with the HTTP fallback and closed.
The server is configured with one of `PoolSizes` (variable `pool`, constant in a
behaviour): 1 is the single-connection server, which gives its tunnel up when
another connection is ready; larger values are the pool, which takes up to one
lane more than it has so that a replacement can overlap.

### Handover

Every connection runs a lock-step exchange (upgrade with hello and key
confirmation, measured rounds, commit and acknowledgement), modelled by the
number of requests sent and answered. The client keeps an active and a
background connection, the server a tunnel and the ready queue. What no end can
control draws on a budget of faults: a path that dies silently, a deadline that
passes although the answer is on its way, a watchdog that fires although the
peer lives. Failures the peer causes are noticed without it. Cryptography is
abstract: only the peer can give the right answer. The worker limit of
admission is there, its threads are in `Admission`. The recovery timer is left
open except for its length: it outlasts the server's next tick, so the client
starts no second trial before the server has taken the first.

### Padding

Budgets are doubles in the code and exact here: rates in units of one tick, the
data budget in hundredths of a byte. `EncodeData` and `EncodeControl` are the
calls of `encode`, for the single carrier and for the pool (constant `Pool`);
the random amount of padding is any amount the encoders can choose. `Mark`
starts an arbitrary window of time, so a property about windows is an
invariant.

### Carrier

One turn of the loop at each end is the phases head (watchdog, expiry, flush,
drain), tun (burst from TUN), read (messages, records, pongs) and timers
(probe, keep-alive, last flush); the two ends and the clock interleave between
phases, and between records within a read. Records have one size, so byte and
packet limits coincide; the socket takes one message more when the peer has read. The
flow scheduler is a queue here, its order is `FlowQueue`'s subject. The time of
packets in it is not kept: any prefix may expire. A session is one of `Setups`
(variable `setup`, constant in a behaviour): whether `flow_scheduler` is on
(`scheduled`), how many packets each end has to send and after how many records
it falls silent. A turn reads up to `ReadBudget` packets, since with adaptive
batching the loop reads up to `adaptive_batch_max_packets`; `Batch` is
`batch_packets`, the budget of `drain_pending`, and the sizes of a batch
(`BatchSizes`) are independent of it, smaller or larger. With shaping, `BurstShaper` may hold data
back while the front of the queue is younger than a tick (`MayHold`), because
its delay is bounded by `shaping_delay_ms`. WebSocket ping and pong and the byte counters of the socket
are left out. `ReplyTimedOut`, a record refused as `Replayed`, `PeerClosed` and `Fail` are the ways
a session ends; `Fail` collects those that depend on what is not modelled.

### HttpHub

Each handler is a goroutine with its steps: looking up under the lock, and what
it does after. The network keeps every request ever sent and delivers each any
number of times, at any time or never; the client may read any answer to its
request, or give up. Creation is three steps (nonce and limits under the lock,
dial without it, installation under it), a POST two (lock and number, write).
Writing can succeed, or write a part and fail, which removes the session.
Cleanup, shutdown and the end of a stream's request happen at any time.
Signatures are valid: requests come from the client, possibly late or again.
Checking the stamp and looking the nonce up are one step, though the code checks
the stamp before it takes the lock: nonces are kept for 5 s longer than a stamp
can be valid, which is far more than the time between the two.

### Pool

An action is one part of a turn of `pool_tunnel_loop`; parts communicate only
through the variables, so their order is left open. The client's dial is one
asynchronous task with its stages; the server answers it before a worker claims
a slot, and the claim may refuse it as busy. A replacement sends a DRAIN record
on the lane it retires and both ends run a timer for it, in ticks; a turn takes
milliseconds and a tick is a second, so no tick passes while a drain that is
over waits for its turn. The affinity table is a sequence in the order of last
use, so eviction takes its head; packets whose entry was evicted are marked,
because the code gives up keeping their flow together. `OneLane` exempts them:
it says that no other flow is split and that the table keeps to its cap. Which healthy lane is best
is left open. `next_dial` and `next_replacement` put a step off and are left out.
A pool is one of `Setups` (variable `setup`, constant in a behaviour), which bounds
the connections there are, the flows each end has packets of, and the failures
that no end causes.

### WsSession

A frame is a header unit and its payload units. A write takes any number of
units that the socket has room for; the budget of `websocket_flush` only says
when the next write happens. A read is several steps (start, one per frame,
return), because the other end goes on writing or closes meanwhile; the reader's
own end does nothing else during it. The first message of each end is the key
confirmation, and what arrives with it is kept in `prefetched`. A throw makes
the session failed, and its owner closes it; closing drops the queue and writes
a close frame after whatever part of a frame is already out, whose bytes then
count as payload of that frame (`cut`). A close frame is one unit here and 2 or 6
bytes in the code. A read or a write may fail at any moment (`IoFails`, also a TLS
stream that ends without `close_notify`), and the session then ends without
parsing what that read had buffered; so `CloseAfterData` speaks about sessions that
end by a close frame or an orderly end of the stream. The path between the ends may split a
message and let a ping or pong pass between the parts, as a CDN may. Only the
client pings: the answer is the same code at both ends.

### TlsLoop

A turn of the loop is one step of its end: the thread shares nothing but the
two directions of the socket, and it reads before it writes. `SSL_write_ex` is
external: it takes a record whole, or keeps its ciphertext and wants the same
buffer again. The loop compares nothing of the kind, and the delay limit or a
full queue may drop that front in between. The next front has another address,
which ends the session ("bad write retry"), unless it was allocated after the
drop and got the freed memory; then the kept ciphertext goes out in its place,
with the rest of a longer record behind it. Which of these happens is a choice.
A path may stall once, for any time, the end of the stream included. A tick is
longer than a turn, and what goes out in one tick arrives in the next.

### EdgeSelector and Adapter

Deadlines and cool-downs are ticks left, so the clock needs no bound, and time
does not pass while a step that takes none is due (`Due`). An address of the CDN
is good, fails the handshake, refuses or hangs, and may change. Latencies only
matter by the 50 ms bucket they fall in, one per address for TCP and TLS.
`order` is sorted with a total order, so its result is the only sequence that
`Order` admits. A lookup ends at any moment up to its limit, which is also what
the cache of answers looks like. Every early return of `proxy`, `connectCDN` and
`startupRequests` is `Return`: the deferred calls close what is open and free
the slot. Closing is `shutdown` of both sides; a copy ends when its source has
ended or its own write fails, and one that writes to a CDN that does not read
(`stuck`) ends only when that connection is closed. The client is
`dial_websocket` with the `utls` backend and the loop around it: connect, wait
for the message, be up, and after a failure or the end of its tunnel pause for a
jittered delay that doubles up to its limit and is reset by a tunnel that
lasted. A hello that cannot be built (a profile without ALPN) is not modelled:
it depends on the build alone. A process that died runs again after `RestartDelay`
(`RestartSec` of its unit); dials meanwhile fail at once (`ConnectFails`), so the
client's delay grows. A signal ends the process like `Crash`, without
waiting for its sessions. Startup requests are made if there are any (`Startup`)
and the gate is open. Times are divided in whole ticks as the code divides them in
nanoseconds: in the code a tick is the unit of division, in the run it is coarser.
A lookup that uses up the whole dial timeout, which `options.go:110` allows (1 s
or 2 s against a limit of 2 s), leaves no time for any address and `Resolved` returns.

## Runs

| Run | Configuration | Shows |
|---|---|---|
| `flow` | 4 flows, 3 packets, 2 sizes, limits of 2 packets and 3 bytes, slack 2 | exact counts, one entry per flow, cursors in range, refinement of `FlowFifo`, no packet starved by turns, cursors or their resets |
| `admission` | 3 sockets, 2 workers, queue of 2, one tunnel and a pool of 2 | slots exact and within the limit, one owner per socket, queued sockets served, ready ones taken, clean exit, shutdown ends unless a wake-up is missed |
| `admission_shutdown` | 1 socket, 1 worker | *violation*: shutdown need not end |
| `handover` | 3 connections, 1 measured round, 2 faults | commit order, no cold dial without a fault, recovery |
| `handover_keeps` | 3 connections, 3 rounds, 1 fault | *violation*: a rejected candidate displaces the live tunnel |
| `padding` | small rates and caps, 2 sizes, 3 limits | share and rates of padding in every window |
| `carrier` | shaping, queue of 2, delay limit 1, `batch_packets` 1, batches of 1 and 2, reply timeout 3, time to 4; busy (3 packets, flow scheduler on and off) or quiet (no packets, keep-alives) | no honest record is taken for a replay, order, at most once, probes resolved, queues empty again |
| `http` | 2 handlers, 2 session ids, 1 client, 1 chunk, clocks apart by the window | creation once, exact upload, acknowledged means written, no orphan |
| `pool` | pool of 2, affinity cap 1, queue of 2, drain 1 and grace 1 tick; 3 connections with packets of 2 flows, 3 with 1 flow and 1 fault, or 4 without packets and 1 fault | pool size, one lane per flow, drains ended by the client first, pool refills |
| `websocket` | 2 messages each way of 2 units, 1 ping, queue of 4 units, socket of 2, stall after 1 tick | messages exact, counts and stall clock exact, fragment rules, data before close, never stuck |
| `tls` | queue of 2, batches of 2, socket of 1, delay limit 1, keep-alive 1, probes every 2, idle timeout 2, 2 packets, time to 5 | no honest end accused, order, quiet sessions kept, a lost end noticed |
| `adapter` | 2 addresses, 1 client, 2 connections, 1 slot, dial of 3 ticks, lookup at most 1, cool-down 5, pause at most 2 and jitter, restart after 2, 1 fault | time for every address, slots and connections exact and given back, the client is served |

Why the bounds are enough. In `flow` four flows are the fewest that exceed
two packets' worth of entries and the slack, so pruning happens with packets
queued and with none. In `admission` two workers race for a slot and for a
notification, and the single server has fewer slots than sockets.
In `handover` three connections are one active, one in trial and one that the
server has not let go of yet; two faults are, for instance, a deadline at the
commit and a dead path after it. The `padding` caps are reached within the
window: the burst is spent and refilled. In `carrier` the queue limit, the
delay limit and a full socket all occur, and a batch may be larger than
`batch_packets`. A probe can be answered or time out; it can be dropped by the delay
limit in the client's queue, and its answer in the server's, before the watchdog
(3 ticks) is due. Not reached are a probe pushed out by the queue limit and the stop of `drain_pending` at twice
`batch_bytes`. In `http` the single client's requests are all
repeatable, so two handlers hold the same request at once; the clock runs past
the end of the nonce's retention. The session limit itself is not reached there,
and with one chunk the order between chunks rests on the theorem `UploadsAreExact`.
In `pool` three connections are the pool and one overlapping replacement, which
is also the server's limit; with a fourth the client can dial while the server
still holds three, and that candidate is refused as busy. Two flows exceed the
cap of one. Packets, a fault and a fourth connection all at once exceed five
minutes: packets of two flows meet drains and replacements, packets of one flow
meet a failure too, and what becomes of a refused candidate does not depend on packets. In `websocket` a message of two units and its header exceed the
socket, so every message is written in parts, the queue limit is exceeded by a
second message, and messages, the ping and its pong are on the wire together.
In `tls` a socket of one record makes SSL keep a write, a queue of two and a delay
of one tick drop it in both ways, and packets, pings, pongs and keep-alives have
different lengths, so each outcome of a repeated write occurs; only the client
probes and sends packets, the server's loop is the same code and answers. In
`adapter` two addresses in all combinations of the four kinds put a broken one
before the working one by latency, by turn or by neither; one slot and two
connections let a client meet the slot it has left behind; the fault is a change
of an address, a failed lookup, a stall or a crash at any moment. The lookup leaves
a tick for every address in the run; that a dial whose lookup uses up the timeout
returns and leaks nothing is covered by the theorems alone.

`Served` holds when a pause and a lookup are shorter than the cool-down and the
lookup leaves time for every address (`DnsLimit` + number of addresses within `Timeout`). With
`DelayMax` = `Cooldown` = 5 TLC finds the client kept out for ever: each redial
comes when the failure of the near address has just been forgotten, its handshake
fails again, and the working address is never tried, because a dial tries one
handshake only. `failureCooldown` is 20 s; the default of `reconnect_max_ms` is
15000, but the shipped configurations (`config/iran-pool2-utls.conf:46`) set 30000,
which is outside the condition. No document or test claims the contrary of either.

Constants that bound a run and are not in the code: `MaxFaults`, `MaxTime`,
`MaxPackets` of `TlsLoop`, `MaxPayload` of `Padding`,
`packets` and `records` in `Setups` of `Carrier`, `MaxClients`, `MaxChunks`
and `MaxTime` of `HttpHub`, `Setups` of `Pool`, `MaxSent` and `MaxPings` of
`WsSession`. Deadlock is not checked where a run ends at such a
bound or where the system may stop (shutdown, a closed session).

### Fairness

`FlowQueue`: the loop pops on every pass that can send, so weak fairness of
`Pop`; arrivals are free. `Admission`: threads are scheduled and their polls and
upgrades have deadlines, so weak fairness of each; strong fairness of the steps
that need `mu_`, because a thread that finds the mutex free again and again
gets it at last. Arrivals, failures, the signal and spurious wake-ups are free.
`Handover`: both loops run and every failure already caused is noticed (close
frames, deadlines, watchdogs); faults and the wish for a replacement are free.
`Carrier`: both loops turn and time passes; what is on the wire arrives while
the reader keeps reading, which is strong because reading is only one phase of
the loop. Ending a session by `Fail` is free. `Pool`: both loops turn, the
dialling task and the workers are scheduled, timers run out and a closed
connection is noticed, each at each end separately (one end noticing candidates
that were refused again and again does not excuse the other). A pass over the
lanes takes all that are due, of which a step takes one; replacements are free, so
`PoolRefills` speaks about runs in which they end. `WsSession`: every turn of the client's loop tests the clock
and writes, between two reads, hence strong fairness of both; a read ends and
time passes. Nothing is assumed of the server, which may hang. `TlsLoop`: both
loops turn (their poll waits at most 10 ms) and time passes; a stalled path may
stay so for ever. `Adapter`: goroutines and clients run, deadlines pass and a
connection to the CDN that stalls resumes. The last is an assumption on the CDN:
`proxy` copies without a write deadline, and TCP keep-alive does not end a
connection whose peer answers and keeps its window at zero. Faults, failing startup requests and clients that end their tunnel are free.

## Findings

* `admission_shutdown` (`src/admission.cpp:15`): `stop_` is set and
  `pending_cv_` notified without `mu_`. A worker that has tested its predicate
  and not blocked yet misses both; the destructor waits for it for ever. The
  shutdown test asserts an exit with status 0. `ShutdownUnlessMissed` shows
  that this window is the only way shutdown fails to end.
* `handover_keeps` (`src/runtime.cpp:1456`, `:1489`): the client's deadline can
  pass after it has sent the commit. It reports "Keeping existing link"; the
  server acknowledges, queues the dead connection and closes the live one.
  `Recovers` shows that the two ends meet again, after a cold dial.

## Proofs

`LimitProofs` holds the proofs of the three small components that keep a limit:
`Admission`, `FlowQueue` and `Padding`.

For `Admission` it proves for any number of sockets, workers, queue places and
lanes: `TypeOK` (in particular `claimed` is never negative: no slot is given
back twice), `OneOwner` and `ClaimsExact`. None of them is inductive alone: a
worker's claim keeps sockets apart only if the worker holds a socket at all in
the steps "upgrade" and "claim", and the count needs that a socket taken from
`ready` is not among `lanes`. The inductive invariant is `TypeOK`, `Holding`
(who holds a socket in which step), `OneOwner` and `ClaimsExact`; there is one
lemma per thread and one step per action. Assumed: `AdmissionAssumption`
(positive limits, finitely many sockets, `None` distinct). `CleanExit` needs in
addition what the threads leave behind while the destructor runs (`Winding`):
only a worker about to block owns `mu_`, the main loop's lanes are gone before
the destructor starts, and after the joins both queues are empty; with
`ClaimsExact` the count is then zero.

For `FlowQueue` it proves for any flows and packet sizes, every limit and every
age limit: `Accounting` and `ImplementsFifo`, the whole refinement of `FlowFifo`.
The invariant (`FlowInv`) compares the counters with the lines `FlowFifo` sees,
not with the vector of entries: the packets are counted by the set of places in
the lines and the bytes by the set of their octets, so that pruning and
reordering the vector change nothing that is counted (`SameLines`, `PruneSound`).
`CountAppend` and `CountShrunk` say how both sets change when a packet joins a
line or a prefix leaves one. In every line older packets come first (`Aged`):
without it, the prefix `drop_expired` removes would not be all that has expired.
Each action is shown to do one thing to the lines (`LinesStep`): nothing, one
packet joins, one leaves from the front, the expired prefixes leave, or all age;
`StepRefines` reads that as a step of `FlowFifo`. That pruning keeps exactly the
entries with packets, and so leaves at most one entry per packet, is shown by
induction over the vector (`OccupiedFacts`, `OccupiedBound`). Assumed: `FlowQueueAssumption`.

For `Padding` it proves for every rate, burst, share, size and clock: `BudgetTypes`,
`ShapeCap`, `DataShare` and `ControlCap`. The caps speak about what was sent in
a window; the ledgers that make them inductive count budget not yet spent as
spent (`ShapeLedger`, `ControlLedger`, `DataLedger`): a refill moves the right
side, a spend moves between the terms on the left. The lemma `Bucket` is the
argument for both token buckets. Assumed: `PaddingAssumption`.

`AdapterProofs` proves for every list of addresses, every dial timeout and lookup
limit and any number of clients and connections: `EveryEdgeHasTime` and
`NothingLeaks`. The first needs that whenever an address is tried its share leaves
a tick per later address (`TimeLeft`) and, from `~Due` in `Tick`, that no
deadline is passed over; `BudgetLeavesTime` is the arithmetic of `edgeBudget`,
which is where the test for a positive share is used.
The second is inductive with the types: `Kept` is a step that leaves a goroutine
as it is, `Returned` the deferred calls, `AcceptInv` the slot taken, each
counting by one. Assumed: `SelectorAssumption` and `AdapterAssumption`, which relate
no two times to each other.

`HandoverProofs` proves for every number of connections, rounds and faults:
`CommittedOnly` and the action property `NoColdRedial`. The first rests on
`LockStep` (answers never ahead of requests, and each end moves on only when the
commit is sent, respectively answered), with what the client holds in each mode
(`Roles`) and the server's queue (`Queue`). The second speaks about behaviours
whose budget of faults is untouched; the invariant `Calm` describes those:
connections the client gave up went no further at the server (`Known`), at most
one connection waits in `ready` (`OneQueued`), and while a trial is not queued
the old tunnel is still the server's (`Covered`). That is why a switch never
leaves the client without a connection. Assumed: `HandoverAssumption`.

`HttpHubProofs` proves for any number of handlers, sessions, clients, chunks and
any choice of limits: `NoOrphan`, `UploadExact`, `AckedWritten` and
`CreatedOnce`. A request may be delivered at any later time, so each conjunct of
the invariant speaks about every request and answer ever sent. `Named` and
`Working` tie them and the handlers to the sessions they name; `Writing` (one
writer per session, in turn, everything whole while the connection is open)
carries `UploadExact`; `Answered` carries `AckedWritten`; `Remembered` carries
`CreatedOnce`: a used nonce stays in `seen` until its stamp has expired. The
last is where `Retain >= 2 * Window` of `HttpHubAssumption` is used: a stamp may
be ahead by the window when the nonce is stored. In the code a
nonce is kept for 65 s and the window is 30 s.

`PoolProofs` proves for every number of connections, lanes, flows, queue places,
every drain time and grace: `PoolSize`, `ClientClosesFirst` and `OneLane`. The
sizes need that a dial has a place, a free one or that of the lane it replaces
(`Sizes`), and that the connection being dialled is nobody's lane yet
(`Dialling`). `ClientClosesFirst` needs that whatever the server drains or has
been told to drain, the client drains with less time left (`Retired`); here
`Grace` of at least one tick is used, the server's 5 s on top of the client's
drain. `OneLane` needs that every packet is on the lane its flow's entry names,
unless the flow lost the entry, and that a flow has one entry (`Placed`).
Assumed: `PoolAssumption`.

`CarrierProofs` proves for every queue limit, delay limit, choice of batch sizes
(adaptive ones above `batch_packets` included), number of packets read in a turn
and socket size, with and without the flow scheduler and shaping: `NoFalseReplay` and
`DeliveredInOrder`. The invariant describes a direction as one line (`Chain`):
the message being decoded, the messages on the wire, the message to be written
and the queue. Along it sequence numbers and packets increase, all numbers lie
above the highest that was accepted and below the next to be sealed, and packets
not sealed yet come later (`Waits`). Dropping from anywhere keeps the line in
order; what has to be shown is that nothing is sealed early and put behind
something sealed later. Assumed: `CarrierAssumption`.

`WsProofs` proves for every frame size, queue limit, socket size and number of
messages: `TxExact`, `MessagesExact` and `CloseAfterData`. `TxExact` is about the
sum over the queue, and is inductive with the types (`SendInv`). For the messages
a direction is followed by marks, two for each message: the receiver's mark is
where it stands (twice the messages it has, plus one inside a fragmented one),
each frame on the wire or in the queue leads from one mark to the next
(`Linked`), and the last mark is twice the messages sent (`Flow`). `TxShape` and
`WireShape` say which frame may be written in part, and that only the last frame
of a closed peer is cut; `Receipt` says what the receiver has when it sees the
close or the end. A part of a message is written only at the head of the queue
and at the end of the wire, which is where both meet. Assumed: `WsAssumption`.

`TlsLoopProofs` proves for every queue limit, delay limit, batch, socket size and
choice of timers: `StreamHonest` and `QuietKept`. For the first a direction is
again a line: the wire, the record whose ciphertext the TLS library has kept, the
queue. Records along it increase (`InOrder`), are newer than what the receiver has
accepted and than every delivered packet (`Fresh`), and lie below the next number
(`Below`). What makes this more than the carrier's argument is the kept
ciphertext: its record may have been dropped from the queue and may still go out
in place of another. It then precedes everything sealed since, so the numbers
stay in order, and the leftover behind it is only there when the write was torn
(`Way`), which is why a mismatch is blamed on a torn write and a replay never
happens (`Blame`). A turn reads everything that arrived before it writes;
`ReadKeeps` is by induction over what was read, and `TurnKeeps` composes
the parts of a turn in the order of the code. For `QuietKept` the invariant adds
`Timely`: while the path has not stalled, the sender wrote within `KeepAlive`
ticks, or something is on the wire, or the receiver heard it a tick ago; so the
receiver heard something within `KeepAlive + 1`. That this is within `Idle` is a
hypothesis of `QuietKept`: `config.cpp:241` checks the two settings one by one.

Where a proof needs induction over a sequence it is done with sets: the library's
`WFMin` gives a set of numbers its least element, from which `PoolProofs`,
`WsProofs`, `LimitProofs` and `TlsLoopProofs` derive induction for a set and the
existence of a recursively defined function (`Recursion`), so that `OffLane`, the
sum over the frame queue, the pruning of the flow queue and a turn that reads any
number of records are covered for every length.

Every safety invariant, action property and refinement that a passing run checks
is stated by a theorem. Only model-checked is liveness under fairness, which the
prover does not do: `PacketLeaves`, `PendingServed`, `ReadyTaken`,
`ShutdownUnlessMissed`, `Recovers`, `ProbeResolved`, `QueuesEmpty`, `PoolRefills`,
`NeverStuck`, `EndNoticed`, `SlotReturned` and `Served`. (`TxExact` does state when
the stall clock runs; what follows from a stall is left to TLC.) The single
carrier's two-byte padded form is not in the `padding` run and is covered by the
proof, which holds for both values of `Pool`.

## Plan

`WsSession` as the channel below `Carrier`: a refinement to a message channel, so
that the messages `Carrier` sends are the frames `WsSession` writes.

## Not modelled

* `RecoveryBackoff` and `LatencyRenewal`: they decide when a trial starts, which
  `Handover` and `Pool` leave open.
* `HttpHub` at its session and nonce limits: two clients at a limit of one exceed
  ten million states. Sessions abandoned by their client need a clock without a
  bound, which the nonces do not allow in the same run.
* What the models have and no document promises: an acceptor that ends on a
  listener error without `POLLIN` while the process goes on
  (`src/admission.cpp:24`), messages parsed by a read that ends in a cut-off frame
  (`src/websocket.cpp:630`), a reconnect command given while no session is up,
  which ends the next one (`src/runtime.cpp:653`), and a queued PING dropped by
  the delay limit, after which the armed watchdog ends the session of a peer that
  has answered all it got (`src/runtime.cpp:657`; run `carrier` goes through it, and
`ProbeResolved` allows it).
* The socket file of the adapter: it is looked at and removed in two steps
  (`adapter/main.go:234`, `:323`), which two adapters started together could
  interleave; the unit runs one. The bytes of the startup requests
  (`adapter/startup.go:93` reads the body through a second buffer, which the check
  at line 108 does not see).
* Configuration parsing, log and statistics, the TUN system calls, cryptography
  and byte layout, install scripts, units and the decoy site (sequential, static
  or outside what a model of steps can say), `edge_selection.hpp` (a sequential
  choice), and the `xhttp` and `icmp` directories, which hold no code.
