# TinyTelegram in TLA+

A chat system: Go gateways that hold the users' WebSockets, a Go message-service that numbers and stores
messages, Redis for presence and numbers (PTS), Postgres for messages, a web client, and the scripts of four
experiments that measure and plot it. This directory models the parts with state and concurrency, checks
them with TLC and proves the safety properties with TLAPS. Paths below are relative to the repository.

## 1. Inventory

| Component | State | Operations | Interacts with |
|---|---|---|---|
| Persistence: `message-service/grpc/server.go`, `store/redis.go`, `store/migrations` | `user:<id>:pts` counters, `messages` table, connection pools | `PersistMessage`, `AllocatePTSWithWait`; reads `GetDiff`, `GetUserPts` | called by gateways over gRPC (5 s), uses Redis (INCR, INCR, WAIT 1 100) and Postgres (INSERT) |
| Sessions: `gateway/handler/websocket.go`, `gateway/grpc/server.go`, `gateway/store/redis.go` | `connMap` per gateway, `presence:<user>` keys (TTL 15 s), one heartbeat goroutine per session | connect, `RegisterUser`, `StartHeartbeat`, `RegisterConn`, deferred cleanup (`UnregisterConn`, `UnregisterUser`) | other sessions of the user, through both maps |
| Delivery: the read loop, `DeliverLocal`, `DeliverMessage`, `gateway/peer/client.go` | channels of 64 messages, writer goroutines, RPCs in flight | read, persist, ack, look up, deliver here or through a peer (3 s) | Sessions (whose maps it reads and whose channels it uses), Persistence |
| Catch-up: `GetDiff`, `GetUserPts` | none | a query, then a GET of the counter | the table and the counters, while Persistence changes both; `gateway/msgclient` wraps it, nobody calls the wrapper |
| Web client: `web-client/public/app.js` | `localPts`, `messages`, `pendingAcks`, `reconnectAttempts`, localStorage | send, ack, incoming, close and reconnect, save and load | WebSockets to gateways, more than one when the form and a timer both connect; localStorage, shared by all tabs and by whoever uses the browser |
| Registry: `RegisterGateway`, heartbeat, `UnregisterGateway`, `DiscoverGateways` | `gateways` hash, `gateway:<id>:alive`, the message-service's `clients` | start, heartbeat, stop, poll every 3 s | nothing uses what it discovers |
| Experiments: `scripts/experiment1` to `experiment4` | variables of a k6 test function, metric points (JSON), rows (CSV), figures | connect, receive, count; sample, crash, stop; load, bin, sum, draw | WebSockets of the gateways; a script reads what a test and a shell script wrote |
| The rest | none of interest | health, metrics, `taskmeta.go`, migrations runner, `dbcheck`, static server, nginx, CDK, deployment scripts, slides, generated protobuf | |

Behaviours that are hard to test here:

* calls of `PersistMessage` interleave between their Redis commands, each on a pooled connection;
* Redis fails over and forgets numbers; the service dies between number and row; INSERTs fail with an
  unknown outcome, are sent again by the driver, or outlive their call;
* a user has several sessions (tabs, a reconnect before the old handler has noticed) that share a `connMap`
  entry or a presence key, and clean up whatever they find there;
* heartbeats write keys late; gateways die without cleaning up;
* `DeliverLocal` uses a channel after it has given up the lock; peers are called from one goroutine per
  message; channels fill up; calls time out although they did their work;
* rows are committed in another order than their numbers are drawn, while a device pages through them with a
  limit and compares its place with a counter that is read later, elsewhere;
* the page matches acks to messages by order alone, over lost messages, lost connections, second sockets and
  reloads, and advances one `localPts` from acks and messages both, saved under a key that all tabs write;
* an experiment's verdict is computed far from what it is about: counters in a test, rows in a shell script,
  bins and quantiles in a plot.

What makes each component correct: numbers are unique and ascending for each user and answers tell the truth
(Persistence); the maps name open channels, a connected user is found, one who left is forgotten (Sessions);
a message is stored before it is shown, shown once, to its receiver, in order as far as one gateway is
concerned, and slow receivers hold up nobody (Delivery); a device that catches up misses nothing that was
there to be had, and can tell when it is done (Catch-up); an ack marks its own message, what the page passes
it shows or announces, `localPts` goes back only to what another tab saved, a lost connection ends in a new
one or in a notice (Web client); a figure says what happened (Experiments).

## 2. Modules

| Module | Models | Runs, theorems |
|---|---|---|
| `MessageService` | `PersistMessage` step by step over a replicated Redis, the go-redis pool and Postgres | `persist`, `pooled_wait`, `role_duplicates` |
| `MessageLog` | abstract: what `PersistMessage` promises its callers | refined by `MessageService` (`ImplementsLog`) |
| `Stream` | abstract: `PersistMessage` as one user's stream of numbers and rows | the ground of `Sync` and `WebClient` |
| `MessageStream` (EXTENDS `MessageService`) | what one user sees of `MessageService`; refines `Stream` (`ImplementsStream`) | `user_stream` |
| `MessageService_inv`, `MessageService_proofs` | the inductive invariant; the proofs, `MessageService` implements `MessageLog` and each user's `Stream` | 9 theorems |
| `Sessions` | sessions, connection maps, presence, heartbeats | `sessions`, `reconnect` |
| `Sessions_proofs` | the inductive invariant and the proofs | 4 theorems |
| `Delivery` (EXTENDS `Sessions`) | the read loop, routing, channels, writers, panics and crashes | `delivery`, `delivery_live`, `pts_order`, `leaver` |
| `MessageFeed` | abstract: what a receiver is promised | refined by `Delivery` (`ImplementsFeed`) |
| `Delivery_inv`, `Delivery_proofs` | the inductive invariant; the proofs, `Delivery` implements `Sessions` and `MessageFeed` | 5 theorems |
| `Sync` (EXTENDS `Stream`) | `GetDiff` and `GetUserPTS` against `PersistMessage`, for one user | `catchup` |
| `WebClient` (EXTENDS `Sync`) | the page of one user, and the read loop of its gateway | `catchup` |
| `Sync_proofs`, `WebClient_proofs` | the inductive invariants and proofs; `WebClient` implements `Sync` | 4 and 5 theorems |
| `Plots` | the figures of the Python scripts, as functions of points and rows | used by `Experiments` |
| `Experiments` (EXTENDS `Plots`) | the k6 tests and the recording shell scripts | `experiments` |
| `Finite_proofs` | least and greatest elements, sizes of finite sets | lemmas for the modules around it |
| `Plots_proofs` | what the operators of `Plots` return, for lists of any length | lemmas for `Experiments_proofs` |
| `Experiments_inv`, `Experiments_proofs` | the inductive invariant, the proofs | 10 theorems |
| `MC_MessageService`, `MC_MessageStream`, `MC_Delivery`, `MC_WebClient`, `MC_Experiments` | instances for TLC | |

Definitions whose comment begins with "Mutant:" are in no specification. Each is a plausible bug of the
definition that follows it; put in its place it breaks one of the properties, which shows that the property
depends on the code.

### MessageService

One call is one goroutine. `pc` says where it is: `incrReceiver`, `incrSender`, `wait`, `insert`, `inserted`
(its row is committed, and it does not know yet) or `adrift` (it is over, and its INSERT may still arrive).
A Redis command is two steps, sending (a connection is taken from the pool and Redis executes the command)
and the reply (the connection goes back), because only that lets two calls swap connections. The pool is
last in, first out, as go-redis's is by default.

`data` is the replication stream as snapshots: `data[1]` is what the replica has, the last element what the
primary has, and each INCR appends one. `behind[c]` counts the snapshots the replica must still apply before
it has the last write of connection `c`; WAIT on `c` is acknowledged when that is 0, which on a connection
without writes is at once. A failover keeps `data[1]` only.

Errors: a reply may be lost with its connection, after which go-redis sends the command again (`MaxRetries`)
or gives up. The INSERT has steps of its own: `Insert` commits the row, `InsertOk` brings the answer;
`InsertDuplicate` is a constraint's. `InsertError` may find the row committed, or never to be, or still on
its way (`LateInsert`). If the connection breaks after the commit, `database/sql` may send the INSERT again
(`InsertResent`): the primary key rejects it, `isUniqueViolation` takes that for a duplicate number, and a
stored message is answered Unavailable. The process may die anywhere (`Crash`), and leaves committed rows
without an answer and INSERTs adrift. `Return` forgets the numbers of a failed call, as the code does.
History variables: `via` (one connection carried all commands so far), `sound`, `earlier`, `resent`.

Abstractions: the replica's acknowledgement and its application are one step; one replica; an INSERT that is
sent again before it was committed looks like one that took longer.

### Sessions

A session is one run of `WebSocketHandler`; `pc` walks through `register` (RegisterUser and StartHeartbeat),
`open` (RegisterConn), `reading`, `unregister` (UnregisterConn) and `delete` (UnregisterUser). User and
gateway of each session are free, and so is which gateways have `GATEWAY_GRPC_ADDR` or `GATEWAY_ADDR` in
their environment (`GRPCAddr`, `Addr`): without either the handler goes on with an empty address and
overwrites the user's key with it, which whoever looks the user up takes for no key. `connMap` holds the
session in place of its channel, `closed` the sessions whose channel is closed. A heartbeat's SET is two
steps, so it can arrive after the session, or its gateway, is gone. A failed SET leaves the heartbeat
`failing`; the key may expire only if every heartbeat of the user has ended, is failing or hangs in its SET,
as three intervals fit in a TTL. `Crash` runs no deferred function. The history variable `crowded` collects
the places where two sessions of a user overlapped on one gateway.

### Delivery

`Delivery` adds the messages to `Sessions`; `SessionStep` guards `ReadError` with "no message in hand"
because the read loop reads again only when it is done. A message goes through `persisting`, `stored`,
`acked`, `finding` (before `connMap` is read), `sending` (the lock is given up, the channel found) and
`done`. It is in its handler's hand to the end if it is delivered locally and up to the lookup if a
goroutine takes it to a peer. `SendPanics` is a send on a closed channel: net/http recovers it in a handler,
whose deferred cleanup runs, and nothing recovers it in a gRPC handler, so there it is the gateway's crash.

`Ack` has no deadline in the code, and waits for `writeMu`, which a write to the same client may hold: it is
enabled but never has to happen, so a handler can stay there for ever. `MessageFeed` has the same `feed` as
`Delivery`, the sequence of what was written to each session, so a message written twice on one session is a
step it forbids.

Abstractions: `PersistMessage` is one step that draws the receiver's next number (without failover;
`MessageService` has the detail); the writer takes a message and writes it in one step, so the message in
its hand does not count against the channel; what is in the channel of a broken connection stays there; the
ack is written or fails, and is not kept in `feed`. The cache of peer clients is left out: two goroutines
that miss at once dial twice and keep one.

### Stream, MessageStream and Sync

`Stream` is one user's timeline. `stage` says how far `PersistMessage` has come with each message, from
`unsent` over `drawn` (it has this user's number) to `stored` or `failed`; a message to oneself draws two
numbers and has a stage `half` between them. An INCR that is sent again draws anew (`DrawReceiver` and
`DrawSender` may happen twice), a call that ends without a row loses its numbers, and a crash ends several
calls at once (`Burn`). A failover takes the counter back (`Lose`), but not below a number that WAIT has
confirmed: `firm` are the messages whose WAIT ran, or still can, on the connection of their INCRs, and those
that have a row stay firm. A connection that breaks, or a command that leaves over another one, takes a
message out of `firm` (`Doubt`). There is no pool, no replica and no other user in it: `MessageStream` maps
the calls of `MessageService` that are about one user, `Me`, to it. `stage` comes from the table, `pc` and
the numbers a call holds (`StageOf`), `firm` from `sound` and `via` (`FirmCalls`), the counter is the
primary's. `ImplementsStream` is what makes the theorems about `Sync` and `WebClient` say something about
`PersistMessage`.

`Sync` is the device. `GetDiff` is two steps because it reads two stores: `Query` (the SELECT with its
clamped limit) and `Answer` (the GET of the counter). `Pages` is what the SELECT may return: lowest rows
after `client_pts`, `limit` of them or all there are; a failover may leave two rows under one number, and
nothing says which of them comes first. The device asks again from the highest number it has; it is not in
the repository, and what it may do between two calls is free. History: `seen` and `flight` (what was stored,
and what was on its way, when the query ran), `passed` (what was on its way when the device's cursor passed
its number).

`passed` is the point: no property can say that a device misses nothing, because it does. A number is drawn
before its row is committed, so a page may hold number 5 while 4 is on its way, and the device's next call
asks for what is above 5. A failover adds one way more: a number it forgets is drawn again, for another
message and below the device's cursor. `Excused` is what can be missed so: a message whose own number WAIT
did not confirm, or one with a number up to that of such a message which the device has. `NothingSkipped`
says that there is no third way to miss a row, and `EndIsEnd` and `CatchesUp` have the same exceptions;
`CurrentNotBehind` leaves out the rows that are in doubt themselves (`Unsure`). Without a failover `Unsure`
and `Excused` are empty.

Abstractions: one user, since no step of `GetDiff` looks at another; `GetUserPts` alone changes nothing.

### WebClient

`conn` is the state of the page's `this.ws`. `connect` asks nothing of the socket that was there before, so
`others` counts the sockets still connecting, `open` has the connections that are open and `timers` counts
the timers of `onClose`; each socket's `onClose` sets one. The login form shows until the page is connected,
and may be submitted again with a connection under way (`crowded`). `up[s]` is what the gateway still has to
deal with of connection `s`, `down[s]` what the page has not read. A message of the page gets its first
number only while it is in its gateway's hand, but goes on by itself afterwards, to its row or to an end
without one (`PersistFails`); it is acked and then routed (`Acked`), or neither (`NotAcked`), as in
`websocket.go`. A message to the user is `due` once it is stored and routed, and comes in any order or never
(`Delivery` has the way there). `HandleAck` removes the oldest pending message whatever the ack was about;
the page's notices are the set `announced`. All tabs save under one key: `OtherTabSaves` overwrites it at
any time, and `Reload` (`beforeunload`, then `loadState`) takes what is there. `marked`, `acked`, `shown`,
`order`, `earlier`, `foreign` (another tab saved last) and `found` (the highest `localPts` the page found
that was not its own) are history.

`watched` is chosen at the start and says whether a behaviour is about the page or about a device that
catches up over the same stream. The product of the two would show nothing more: neither changes what the
other sees, as the page calls `GetDiff` nowhere.

Abstractions: the texts, the rendering and the saved `messages` map; a form that is submitted again has the
same user and an address the browser accepts; what the user sends from another tab or device shows here only
as numbers that are used up; a message is sent from the page once.

### Plots and Experiments

A behaviour is one experiment, `test`, with one virtual user. The k6 functions are the actions `Iterate`,
`Open`, `Close` and `Frame` with `vu`, their variables, fresh in every iteration (`Fresh`). The shell
scripts append `rows`, and run beside each other: the background loop reads the time (`SampleTime`), asks a
gateway (`SampleAsk`) and writes a row (`SampleRow`), while `run_failover.sh` reads the time (`KillTime`),
stops the gateway (`KillStop`) and writes its row (`KillRow`). `clock` moves when a script reads it, by a
second or not at all. `Plots` turns `points` and `rows` into figures: whether a figure is drawn at all, its
verdict and ticks, its histogram, quantiles, windows and totals. `Percentile` is numpy's linear
interpolation, in hundredths. The frames a client may see are those the system can send: acks of one user
ascend, messages come in any order, a number comes once.

`consistency_test.js` does not parse as committed (a line of its `options` is commented out, its closing
brace is not), so `consistency` is the code as it would run; the recorded results come from the simple
client. Abstractions: wording, colours and layout; the times of requests are whole microseconds, finer than
which a Python `datetime` has none, and the rounding of its floats is left out; a sample's cells are present
or empty; the order in which containers start. Two figures are drawn from values that are typed in
(`plot_bottleneck.py` and the bars of `plot_timeseries.py`), so there is nothing in them to check.

## 3. Runs

| Run | Instance | States | Shows |
|---|---|---|---|
| `persist` | 2 users, 2 calls with any senders and receivers, 2 connections, 2 failovers | 737 k | types, `OneTimeline`, `AnswerIsTrue`, `SoundWaitIsDurable`, `SoundTimeline`, `LaterCallHigherPts`, `ImplementsLog` |
| `user_stream` | a user who writes a note to himself and a message to another, 1 connection, commands sent again once or 1 failover | 469 k | `ImplementsStream` under INCRs sent again and counters that go back, `EveryCallReturns` when calls compete for the pool |
| `pooled_wait` | no failover | | violates `PersistedPtsIsDurable` |
| `role_duplicates` | 1 failover | | violates `NoDuplicatePts` |
| `sessions` | 1 user, 2 sessions on any of 3 gateways, one of which has no address | 16 k | `MapOnlyLive`, `OwnChannel`, `LastSessionHeard`, `GoneForgotten` |
| `reconnect` | 1 user, 2 sessions, 1 gateway | | violates `ReconnectHeard` |
| `delivery` | a sender, a receiver with 2 sessions, 2 gateways, 2 messages, channels of 1 | 414 k | types with the channels' bound, `LocalFifo`, `ImplementsFeed` |
| `delivery_live` | the same with 1 session of the receiver | 170 k | `SenderNotHeldUp`, `QueuedIsWritten` |
| `pts_order` | channels of 2 | | violates `PtsOrder` |
| `leaver` | 1 message | | violates `SendsOnOpen` |
| `catchup` | one message sent, one received, one to oneself; limit 2; asks 0, 1 and 3; 2 connections, 2 under way at a time, 1 attempt, 1 reload; `localPts` 0 or 2 at first, 2 in other tabs; numbers up to 4; failovers as below | 916 k | `NothingSkipped`, `EndIsEnd`, `CurrentNotBehind`, `CatchesUp`; `AckIsForIts`, `MissedIsAnnounced`, `LocalPtsKept`, `ReconnectsOrTells` |
| `experiments` | 5 numbers, 2 connections, 3 rows, 4 points, requests that end after 3, 3.5, 8 and 13 s, durations 1, 2, 5, 3 gateways | 344 k | the eight properties of the table below |

The properties of `experiments`, each on the figure as a function of what really happened:

| Property | Says |
|---|---|
| `VerdictExact` | PASS is exactly "no connection saw a lower number after a higher one, but for a message after an ack" |
| `QuietMeansContiguous` | when PASS and "perfect continuity" are both drawn, nothing is missing from the first message of a connection on |
| `ContinuityNeedsSizes` | with the simple client "no gaps" is drawn whatever happened, as it emits no sizes |
| `LossCounted` | the failover test never reports less loss than numbers jumped over and never seen |
| `DropMarked` | of the samples that found the gateway stopped at most one is drawn before the mark of the stop |
| `QuantileTrue` | the drawn percentiles are percentiles of what was measured |
| `WindowsPartition` | every request that can be read is in one window, but the last ones if a window ends with them; nothing is drawn if all end at once |
| `TotalsTrue` | the total drawn for a round is that of the gateways that answered in it |

Bounds. Two calls are the smallest number that swap connections, collide on a number or insert out of order;
two failovers let a number be lost, drawn again and lost once more. Two sessions of a user are enough for
every overwrite and every foreign cleanup; users meet nowhere in `Sessions`, so one is enough. A channel of
1 is full with one message, and two messages are enough to overtake or to be lost. One connection for two
calls makes every call wait for the other. Three messages, one of each kind, let a row be committed late
behind a page that is full, and an ack be missing before one that comes; limit 2 is cut below what is asked
(3) and is less than what there is; one reload and two connections give every place where state is saved,
lost or restored; with one attempt the page tries again and gives up; two connections under way are a second
socket of one page, and `localPts` 2 of another tab is higher or lower than the page's own; four numbers are
what three such messages take, so that an INCR sent again, which uses up one, makes another message end
without a row. Five numbers are enough for a gap between two numbers that come late. Three rows are two
samples and the mark of the stop. The requests end within one window, on its border and in the next; the
first half a second after another. Crashes are not bounded.

Action constraints of `delivery` and `delivery_live` keep the graph small: the sender has no presence key
(`SenderUnseen`: nobody writes to him), Redis answers the receiver's SETs (`RedisAnswers`: failing ones are
in `sessions`, and `delivery_live` has them), and the sender's session ends only by a panic (`SenderStays`).
In `user_stream` a behaviour has commands that are sent again or a failover that breaks connections, not
both (`OneOutage`), and the replica is at most three writes behind (`ShortLag`). In `catchup` a behaviour
about the device has two of the three messages, numbers up to 3 and any number of failovers (`TwoForDevice`:
two messages are enough for a number to be forgotten, drawn again and passed); one about the page has all
three without a failover, or two with a failover and one connection, and a reload with two connections only
without one of the messages (`SimplePage`): nothing in the page depends on what is firm. Other tabs save
while a reload is to come and there is one connection, and a page with two sockets has two messages and no
reload (`FewTabs`). In `experiments` a client runs or a shell script does (`OneSide`): neither reads what
the other writes. The safety properties all these concern are proved without them (section 5).

Deadlock is not checked: when all calls are done, sessions over and messages settled, the system stops.

Fairness. Goroutines are scheduled and blocking calls have a bound: WAIT 100 ms, the pool and dial timeouts
of go-redis, 5 s for PersistMessage, 3 s for a peer. So steps of a call (`Step`), of a handler, of the read
loop (`Route`) and of `DeliverLocal` (`Deliver`) are weakly fair; tickers fire and a Redis key expires. The
exception is what a gateway writes to a WebSocket, which has no deadline: `Ack` and `Write` are not fair.
`Beat` is strongly fair: Redis does not fail every SET for ever. Nothing is assumed of clients, failures,
crashes or replication. In `WebClient` a timer of the browser fires and an attempt to connect ends in a
connection or an error (`WF` of `Timer` and of `OnOpen` or `Refused`), no more. Three properties have a
premise about the client: `SenderNotHeldUp` (`FairAck`: the sender reads his acks, so that the write of each
ends), `QueuedIsWritten` (`FairWriters`: the receiver reads), and `CatchesUp` (`PatientDevice`), since a
device must go on asking and be answered now and then.

## 4. What the code does otherwise than its documents say

* `pooled_wait`: INCR, INCR and WAIT run on three connections of the pool; the comment at
  `message-service/store/redis.go:74` argues about one. A stored message's number may be on no replica. With
  one connection the argument is right (`SoundWaitIsDurable`).
* `role_duplicates`: a number drawn once as receiver and again, after a failover, as sender violates no
  constraint; the deployment design (5.3) takes "0 duplicate PTS values" as guaranteed by them.
* `reconnect`: the cleanup of a user's old session removes the entry of his new one on the same gateway,
  which then receives nothing for as long as it lives.
* `pts_order`: messages to a peer overtake each other; the testing guide expects no order violation.
* `leaver`: a send on a channel closed since it was found, which panics where the code for an absent
  receiver answers `Delivered: false`.

The passing runs show more of it, in what their properties have to except:

* `web-client/public/app.js:115-116` relies on "acks arrive in send order". They do, but a message without
  an ack shifts every later one to the message before it, until the page is reloaded (`AckIsForIts`).
* `message-service/grpc/server.go:74` takes any unique violation for a duplicate number. When the driver
  sends an INSERT again whose first attempt was committed, a stored message is answered Unavailable, and a
  client that retries stores it twice (`AnswerIsTrue` excepts `resent`, `MessageLog` has `Disown` for it).
* GetDiff is meant for recovery without gaps; a row that is committed after a higher one was handed out is
  never handed out to that device. Nor is one that has a number drawn again, after a failover that forgot
  it, below the highest the device has; and when WAIT has confirmed something else (`pooled_wait`), the
  forgotten number can be that of a stored row (`NothingSkipped`).
* An ack moves `localPts` past numbers that were never shown without a notice, and `localPts` of one user of
  a browser is taken over by the next (`MissedIsAnnounced`). The tabs of a browser share one `localPts`: a
  page that is loaded again may find a lower one, or a higher one that another tab has reached
  (`LocalPtsKept`, `MissedIsAnnounced`).
* A login form that is submitted twice leaves the page with two sockets, whose acks come in any order
  (`AckIsForIts` excepts it).
* Experiment 4: `consistency_test.js` does not parse as committed (lines 35-39); the client that was used
  instead reports no sizes and counts messages without looking at their numbers, hence "No gaps"
  (`ContinuityNeedsSizes`). `run_consistency.sh:88` writes the word `timestamp`, so the figure of the run
  with the crash cannot be drawn (`Restart`, `ConsistencyFigure`).
* Experiment 3 keeps the start of a reconnect in a variable of the iteration that the connection opens once
  in (`failover_test.js:49-55`), so it never times one. Its mark may be drawn after a sample that found the
  gateway stopped (`DropMarked`).
* Experiment 2: `plot_timeseries.py` has the values of its bars typed in, as `plot_bottleneck.py` has all of
  its own, and leaves the newest requests out of its curves (`WindowsPartition`). `bottleneck_test.js` and
  `load_test.js` post to `/message`, for which the message-service registers no handler any more
  (`main.go:28-31`).

## 5. Proofs

All theorems hold for every value of the constants. Assumptions: `NoConn`, `NoSession` and `NoGateway` are
outside their sets, `MaxRetries` and `MaxFailovers` are natural numbers, `Addr` and `GRPCAddr` are sets of
gateways, `ChanCap` is positive, `Msgs` of `Sync` is finite, and its `Numbers` (the bound of the counter)
are natural numbers, perhaps all of them; the bounds of `Experiments` are natural numbers, and so are the
times and durations. Every safety property, action property and refinement that a passing run checks is a
theorem.

* `MessageService_proofs`. The invariant `IInv` (`MessageService_inv`) has the types and four parts.
  *Control*: which numbers, connections and answers go with each place in the code. *Replication*: snapshots
  ascend along the stream, and the snapshot `behind[c]` steps ahead of the replica's holds the numbers of a
  call that has kept to connection `c`; that is what makes WAIT's answer a statement about them
  (`SoundWaitCorrect`). *Numbering*: a row that is not inserted yet counts with the numbers its call holds
  (`Drawn`), which are distinct and no higher than the primary's counters while nothing failed over; looking
  at `rows` alone would not be inductive, as two calls could hold one number. *Firmness*: what of that is
  left when Redis has failed over. A row is `Firm` if WAIT has confirmed it on the connection of its INCRs,
  or still can; a failover closes every connection and keeps every confirmed number, so the firm rows stay
  distinct and below the counters. From it: `TypeCorrect`, `TimelineCorrect`, `SoundTimelineCorrect` (no two
  such rows share a number, whatever failed), `OrderCorrect`, `AnswerCorrect`. `LogCorrect`, the refinement
  of `MessageLog`: an INSERT that is executed, in time or late, is the log's `Store`, its answer an
  `Accept`, an error a `Doubt`, one that the driver sent again a `Disown`; a duplicate, a timed-out WAIT or
  a Redis error is a `Reject`, every other step changes nothing of the log (`LogStep`). A crash tells nobody
  anything. What a call has told nobody and what of it is in the table is known from where it is
  (`NothingTold`, from `Control`). `StreamCorrect` is the refinement of `Stream`, for any user and across
  failovers. A failover is a `Lose`: the calls WAIT has confirmed have their numbers on every copy
  (`SoundCallIsDurable`), and a firm row is a confirmed one once its call is over (`FailoverLoses`, which
  needs that a row's sender and receiver are its call's, `OwnRows`). A lost connection, or a command over
  another one, is a `Doubt` (`DoubtsSeen`). An INCR on the user's key is a draw (`ReceiverDraws`,
  `SenderDraws`), a row that is inserted, in time or late, a `Commit` (`InsertCommits`), and any other end
  of a call, or of all running calls at once, a `Burn` (`EndingBurns`). Every other step, and every step of
  a call that is not about him, he does not see: `Unseen` says what must stay the same for that. From
  `Control` it needs that a call has its first number before it draws the second, and both before the
  INSERT.
* `Sessions_proofs`. `IInv` adds to the properties that a closed channel belongs to a session past
  `RegisterConn`, and that in a place that was never crowded at most one session is alive (without it
  `OwnChannel` would not survive `UnregisterConn`). From it: `SessionsTypeCorrect`, `MapCorrect`,
  `ChannelCorrect`.
* `Delivery_proofs`. `DeliveryImplementsSessions`: every step of `Delivery` is one of `Sessions` or leaves
  its variables alone, so that the theorems about `Sessions` hold in `Delivery` too. The local panic needs
  the invariant: a message in hand means the handler is in its read loop, hence the panic is a `ReadError`
  there. `LocalFifoCorrect`: `LocalFifo` speaks of what was written; the invariant speaks of what is in
  hand, in a channel and written, in that order (`HeldIsNext`, `QueueOrder`, `FeedBeforeQueue`,
  `FeedOrder`), and of the fact that a found channel is the receiver's, which rests on `MapOnlyLive`.
  `DeliveryTypeCorrect` contains the bound on the channels. `FeedCorrect`, the refinement of `MessageFeed`:
  `Write` is the feed's `Show`, the end of `persisting` its `Store` (`FeedStep`). A message must not be
  shown twice, nor before it is stored; for that `Once` says that a message is in one place of one channel
  and has not been shown while it is there, and `PassedDone` that a message in a channel is out of every
  hand, so no second copy can come.
* `Sync_proofs`. The messages are any finite set, the cap any positive number (`SyncAssumption`). That the
  cursor moves to the number of a row is reasoning about finite sets (`HighestIsHighest`, from `Greatest` of
  `Finite_proofs`: of finitely many numbered things one has the greatest number). `NothingSkipped` is not
  inductive, as it says nothing of a row that is not committed yet; `Covered` speaks of everything numbered
  up to the cursor. Failovers divide the numbers: those that are `Sure` are distinct and no higher than the
  counter (`Numbering`, `Distinct`), and nothing is said of the others. What keeps `Covered` when a low
  number is drawn again is `Reach`: the cursor is the number of a row the device has, so if the counter is
  below it, that row is in doubt, and whatever is drawn up to the cursor is excused. A step of the stream
  only adds to the exceptions or commits what was covered already (`Settles`). `Snapshot` keeps what a page
  is while rows are committed between the query and the answer: whatever is numbered by then and was neither
  seen nor on its way has a higher number. From it: `SyncTypeCorrect`, `NothingSkippedCorrect`,
  `CurrentCorrect`, `EndCorrect`.
* `WebClient_proofs`. `WebClientImplementsSync`: every step of the composition is one of `Sync` or none, so
  the theorems above hold in it. The invariant has three layers, each proved from the one before. `Base`
  holds of every page, whatever sockets it has; from it `WebTypeCorrect`, `MissedCorrect` and
  `LocalPtsKeptCorrect` (by `Saved`: unless another tab has saved since, a reload finds what the page had).
  `OneSocket`: a page whose form was submitted in time has one socket or one timer. `Ordered`, for such a
  page, is the hard part, which `AckCorrect` needs: the property relates marks to acks, the invariant speaks
  of queues. `InSendOrder`: the acks the page has had, those on their way and the messages still at the
  gateway are in send order; `Pending`: the pending messages are what is left of the sent ones; `Marks`:
  each of the first messages has one mark, by an ack for itself or a later message, and later acks mark
  later messages. Were an ack on another message's mark with every ack before it there, or on its own with
  one missing, a least or a greatest such place would contradict `Marks` (`AllAckedMeansOwn`,
  `OwnMeansAllAcked`).
* `Plots_proofs`. What a figure does with a list is defined without recursion: the value of rank `k` is the
  one with at most `k` values below it and more than `k` not above it (`Ranked`), a sum the number of pairs
  of an index and a number from 1 to the value there (`Total`). So the facts follow from facts about finite
  sets, for lists of any length: there is a value of each rank (`RankedIs`), ranks ascend, a quantile
  divides the values as it says (`PercentileBounds`, `MarkerIs`), a time is in the window that its quotient
  by the width names, or in none (`WindowOf`), sums split and grow with their parts (`TotalSplit`,
  `TotalChange`).
* `Experiments_proofs`. `XInv` (`Experiments_inv`) relates the variables of a test's function to what its
  connection showed, which none of the properties mentions. *Experiment 4*: as long as there is no
  violation, `localPts` is the highest number of the connection and `last` that of a message (`HighWater`),
  from which a new violation is exactly a lower number (`FrameVerdict`); as long as there is no gap either,
  the connection has every number from its first message to its highest (`Contiguous`), which needs the case
  of acks alone. *Experiment 3*: what the client compares with is a number of this connection
  (`LossAnchor`); a frame reports the numbers it jumps over (`Skipped`), and what is newly "never seen" is
  among them. The drop: `MarkedStop` says that the time of the mark is no later than what the clock has
  shown, so that a sample begun after it is not early; the sample under way at that moment is the one that
  may be, and while it is, there is no other (`EarlyRows`). *Files*: a round's rows are those of the
  gateways that answered (`RoundRows`). The last three theorems below need nothing else but `Plots_proofs`.
  From it: `TypeCorrect`, `VerdictCorrect`, `ContinuityCorrect`, `SizesCorrect`, `LossCorrect`,
  `DropCorrect`, `QuantilesCorrect`, `WindowsCorrect`, `TotalsCorrect`.

Only model-checked: liveness (`EveryCallReturns`, `LastSessionHeard`, `GoneForgotten`, `SenderNotHeldUp`,
`QueuedIsWritten`, `CatchesUp`, `ReconnectsOrTells`), which is out of the prover's reach.

## 6. Not modelled, and why

* Registry and discovery (`RegisterGateway`, its heartbeat, `UnregisterGateway`, `DiscoverGateways`):
  nothing reads the clients it discovers, so there is no promise it could break.
* The write mutex with the socket's buffer, and the message in a writer's hand: when a write blocks is
  decided by the kernel and the client. `Ack` and `Write` may stay undone for ever, which is all that the
  others see of it.
* The cache of peer clients (two misses at once dial twice and keep one).
* `NextUserPTS`, used for one benchmark key by `GET /redis-only`, and the message-service's
  `GetUserGateway`, which has no caller.
* Health and metrics handlers, the static server: stateless answers. `taskmeta.go`, the migrations runner:
  run once before anything else. `dbcheck`: a read-only query for rows that the two constraints exclude.
* nginx, docker-compose, CDK, the deployment and cloud scripts: configuration and calls of command line
  tools. Which gateway a client reaches is a free choice in `Sessions`.
* `scripts/generate_ppt.py`, `experiment2/plot_results.py` and `plot_bottleneck.py`: layout of slides and
  charts of numbers that are typed in. `experiment2/bottleneck_test.js` posts to a handler that is gone.
* Generated protobuf code.
