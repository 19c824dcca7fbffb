# DistributedIM in TLA+

TLA+ models, TLC runs and TLAPS proofs for the instant-messaging gateway of this
repository. Paths are relative to the repository's root.

## 1. The system

The program that carries the logic is the C++ gateway, `gateway/`. A deployment runs
several gateways that share one Redis database; clients hold a TCP or WebSocket
connection to one of them. Around it are a Go HTTP API (`services/http-api`), a
Python AI proxy (`services/ai-service`) and a Vue front end (`frontend`).

One gateway is one thread in `EpollServer::loop` (`gateway/src/EpollServer.cpp:686-763`).
Each turn handles, in this order: the events of `epoll_wait`, finished AI requests,
metrics, the retries of unacknowledged messages (`checkAckRetries`), the priority
queue, the mailboxes in Redis (`pushOfflineMessages`), time-outs, and the load report.
Two more threads exist: the worker of the audit log and the heartbeat of the gateway
registry. All other concurrency is between processes: gateways and Redis, gateways and
clients.

| Component | State | Operations | Meets others through | What is hard |
|---|---|---|---|---|
| Session registry (`RedisClient.cpp:114-368`) | `user:<name>` device sets, `online_users` | `userLogin`, `userLogout`, `getUserGateway`, `getAllOnlineUsers` | Redis, shared by all gateways | several devices, several gateways, lost replies, crashes |
| Mailboxes (`RedisClient.cpp:375-484`) | lists `msg_queue:<name>`, index `pending_msgs` | `pushMessage`, `popMessages`, `drainPendingUsers` | Redis | push against drain against pop; the index is shared by all gateways |
| Event loop, sessions, routing (`EpollServer.cpp`) | `connections_`, `user_map_`, `priority_q_` | accept, login, disconnect, `send`, `chat`, `sendToUser`, the turns of the loop | everything | lookups go stale between two Redis commands; descriptors are reused |
| Acknowledgement (`AckTracker.cpp`) | `pending_acks_` | `trackMessage`, `acknowledgeMessage`, `getPendingRetries`, `markRetryDone`, `drainDeadLetters` | the loop calls it, dead letters go to Redis | the clock ticks between the calls; copied-out vectors |
| Connection output (`EpollServer.cpp:1080-1096, 1335-1442`) | `write_buffer`, `write_pending`, the EPOLLOUT interest | `sendToClient`, pong, `handleWrite`, `disconnectClient` | the kernel's socket buffer | partial writes, EAGAIN, lost wake-ups |
| Audit log (`AuditLogger.cpp`) | `queue_`, `running_` | `log`, `flushBatch`, `workerLoop`, `shutdown` | two threads, HTTP API | batching, loss, shutdown |
| Read path (`EpollServer.cpp:791-1078`, `WebSocketCodec.cpp`) | `read_buffer`, the protocol, the parser's state per connection | lines, `/metrics`, the upgrade, `tryParseFrame`, reassembly, encoders | the handlers behind it, which may close the connection | lines and frames split over reads, length boundaries, a connection destroyed by its own request |
| Groups (`GroupManager.cpp`) | `room:<id>`, `room:<id>:members`, `user:<name>:groups`, `group_counter` | create, join, leave, `isMember`, `getMembers`; the four handlers | Redis | each operation is several commands, and no answer is looked at |
| Gateway registry (`GatewayRegistry.cpp`) | the set `active_gateways`, hashes `gateway:<id>` with the last heartbeat | register, unregister, heartbeat, `discoverGateways`, `selectBestGateway` | Redis, a thread of its own | eviction races a heartbeat; crashes between two commands |
| Rate limiter (`RateLimiter.cpp`) | a token bucket per connection | `tryConsume`, `retryAfterSeconds` | `handleMessage` asks it before each request | rounding and the brim |
| AI client (`AIServiceClient.cpp`) | `pending_requests_`, `curl_to_request_` | `addRequest`, `performAction`, `processCompletedRequests`, `tryFailover` | the loop, libcurl's multi handle, the handlers' callbacks | who drives a transfer; completion against fail-over; exceptions of a callback |
| End-to-end encryption (`E2EECrypto.cpp`) | key pairs, sessions, ratchets | | | nothing generates a key pair, so no session is ever made |
| Metrics, configuration, logging, JSON | counters, parsed files | | | none the other parts depend on |

What makes each modelled component correct:

- **Registry**: `online_users` and the device sets agree; what a gateway holds in memory
  and what Redis says of it agree, but for devices a crash, a refused logout or an unheard
  login left behind; a logged-in connection can be found.
- **Mailboxes and routing**: a waiting message is indexed or in the hands of a
  gateway that is popping it, unless a fault took the name from the gateway; a message is in
  one place per user; a mailbox whose name was not lost that way is served.
- **Acknowledgement**: one outcome per message, bounded and spaced retries, no copy of
  a message acknowledged before, everything settled in the end.
- **Output**: bytes arrive in order, whole, each once; text in the buffer always has
  somebody waiting for EPOLLOUT.
- **Read path**: whatever `read(2)` returns, lines come in order and whole and none is held
  back; frames come in order and the parser never loses their boundaries. That frames come whole and
  as soon as they are complete is what the parser's comments say and the code does not do (section 4).
- **Audit log**: an event is stored or dropped with its batch, once, in order; the queue
  moves; shutdown returns.
- **Groups**: the two indexes of the membership agree with each other and with what the user
  was told, as long as handlers about one user and group do not overlap and none is cut short; an
  id belongs to one group; of the users of the sender's gateway, a message goes to the members,
  neither more nor fewer.
- **Gateway registry**: a gateway that beats in time stays in the set, whoever is in the set
  can be dated, and nobody is chosen who has not been heard of for the time-out. That a gateway leaves
  the set when it ends is a comment, and does not happen (section 4).
- **Rate limiter**: no stretch of time lets more through than burst and rate; `retry_after`
  is long enough.
- **AI client**: one answer per request, and an answer in the end while clients are active.

`PROJECT.json` lists the hazards behind these properties, each at its line.

## 2. Modules

    RedisClient ---> GatewayCluster ---> MCGatewayCluster        (runs)
                                    \--> GatewayClusterProofs    (proofs)

    AckTracker  ---> MCAckTracker, AckTrackerProofs
        \ refines  ReliableDelivery
    WritePath   ---> MCWritePath,  WritePathProofs
        \ refines  ByteStream
    AuditLogger ---> MCAuditLogger, AuditLoggerProofs
    WebSocketReader ---> ConnectionReader ---> MCWebSocketReader, ConnectionReaderProofs

    RedisCommands ---> GroupManager    ---> MCGroupManager, GroupManagerProofs
                  \--> GatewayRegistry ---> MCGatewayRegistry, GatewayRegistryProofs
    RateLimiter ---> AIServiceClient ---> MCAIServiceClient, AIServiceClientProofs

**RedisClient.** One operator per Redis command or Lua script, because Redis runs each
atomically. `devices` are the sets `user:<name>`, `online` is `online_users`, `queue` the
mailboxes, `pending` is `pending_msgs`. `popMessages` is a loop of single LPOPs, so its
operator is one LPOP.

**GatewayCluster.** All gateways and the database. `conn`, `userMap` and `pq` are
`connections_`, `user_map_` and `priority_q_`. The place of the thread in its loop is
`pc`: `io` (events), `lookup` and `route` (inside the handlers of `send` and `chat`),
`flush` (the priority queue), `pop` (`pushOfflineMessages`). An action is what a thread
does up to its next Redis command, since until then it touches its own memory only.
`job`, `names`, `route`, `toPop` and `cur` are the local variables that live across a
Redis command. `userMap` counts how often a descriptor is in a name's vector, because
`performLogin` pushes without looking and `std::remove` takes all copies away.
`ChatLookup` pairs names and replies freely: the code sends the SRANDMEMBERs in the order
of SMEMBERS and reads the replies in the order of an `unordered_map`; the commands of the
pipeline are one step. `Disconnect` also stands for `checkTimeouts`, which runs at the end of
the loop and has no effect but disconnections. `Room` is the bound on logins.

Faults are a crash, a lost Redis connection (hiredis never reconnects, `"cut"`), a lost reply of
the login, drain or pop command, and a Redis that answers a gateway with errors for some time
(`"refused"`, until `Recover`). A logout Redis does not carry out leaves the device there while
`user_map_` forgets the user, as in `disconnectClient`. A crash takes all of the process's
memory, `toPop` too; `Restart` brings it back **under the old id**, which is what happens in a container
(section 6). Two history variables keep what such faults leave behind: `left` are the devices in Redis their
gateway does not know, `forgotten` the names a gateway drained and lost, with the answer, by an error of
LPOP or by dying, before it saw their mailbox empty. The properties name these two sets and allow nothing else.

**AckTracker.** The `send` and `ack` handlers, the tracker and the loop that drives it on
one gateway. `acks` is `pending_acks_`; `due` and `dead` are the vectors
`getPendingRetries` and `drainDeadLetters` return. The model keeps the seconds left
(`wait`) where the code keeps the instant `next_retry`, and the clock may tick between
any two steps. Phases `io`, `retry`, `dead`, `flush` follow the loop. All devices of a
user share the message's id, so the entry of the last device stays.

**ReliableDelivery** is the promise: each message waits, is retried at most
`MAX_RETRIES` times and is acknowledged or given up, once. AckTracker implements it with
`fate` and `tries` read off `acks` and the history.

**WritePath.** One connection whose protocol is settled. `hand` is the rest of the
text in the running write loop, `sock` the kernel's buffer; every `write(2)` takes any
part that fits, and the client may read between two of them. **ByteStream** is the
promise: a FIFO of bytes that may break and then loses a suffix.

**AuditLogger.** The event loop's thread and the worker, with the lock around the queue as
the atomic steps. A POST succeeds or fails; the code looks at neither outcome.

**WebSocketReader.** The input of one connection once it is a WebSocket: `read(2)`
takes any part of what has arrived, `tryParseFrame` is one action per stage, and a
frame that is returned is reassembled and handled. A byte is the number of its frame and
its position, so a frame that is cut, left in the buffer or measured wrongly shows as a
byte out of place. `Shifted` is what the loop over the extended length computes: behind
the marker 126 two bytes give `126 * 65536 + length`, behind 127 eight bytes push the marker
out of the 64 bits. The three limits 125, 65535 and 65536 are constants and small in the runs.
A `Destroy` during the loop, by a close frame or the handler's own write error, leaves
it with a dangling reference, so it stops or goes on with the old bytes.

**ConnectionReader.** The same connection from its first byte, with the client being one of
three: it sends lines, asks for `/metrics`, or upgrades and then is the client of WebSocketReader.
`TcpRead` is `read(2)`; before lines are cut the text read so far is searched for a whole
request (`AnswerMetrics`, `UpgradeDone`, `UpgradeFails`). A header of which only a part
has arrived is not waited for: `NoRequest` goes on to the lines, and `NextLine` hands
the header's lines to `handleMessage` (section 4). A handler may close the connection
under `NextLine` (`AfterLine`), as under WebSocketReader's `Parse`.

**RedisCommands.** Hash, set and counter commands as `RedisClient` wraps them, with what the
wrapper returns when the connection is lost.

**GroupManager.** One action per Redis command of `group_create`, `group_join`, `group_leave` and
`group_send`, so a handler on one gateway interleaves with handlers on others; inside a
gateway handlers run one at a time. `op` is the handler being run and where it is; `to`
is what it hands to `sendToUser`. Only a create without Redis fails visibly; the other answers are
not looked at, so a handler goes on after a lost connection. The history
variables: `belief` is what the user was last told of being in the group, or `"spoiled"` once
two handlers about the same user and group overlapped or one was cut short; `stay`
and `ever` are the members all through a handler and at some time of it.

**GatewayRegistry.** Processes, their heartbeat threads, and one reader that runs
`selectBestGateway`, with a clock. Nothing in the program calls `selectBestGateway`
or `discoverGateways`: the reader is a caller of the library. `age` is
the time since the `last_heartbeat` of a hash, `left` the rest of a thread's sleep, `stamp` the age of the
time in a heartbeat that was read from the clock and not yet sent, `reader.elapsed` the time since
`discoverGateways` read its "now". A command is carried out, finds no connection or is refused by Redis
(`Executed`). `Unregister` is modelled with its two commands, and they do nothing: `~EpollServer` disconnects
from Redis before the registry is destroyed, so a gateway leaves the set by eviction only. `Restart` starts the
process again under its id. `undone` are the ids whose hash a registration that failed at SADD took back: if
the life before had left the id in the set, it is then a member without a hash. `late` are the ids that let more
than the time-out pass since a beat.

**RateLimiter.** A bucket in integers: one tick of the clock is one unit, a token is `Cost` units, and
`Second` ticks are a second. The code counts in doubles over microseconds; the model keeps the arithmetic and the
rounding up of `retryAfterSeconds`, and leaves out the doubles' own rounding.

**AIServiceClient** has the buckets in front of all
requests, and the requests to the AI service behind them. `start` calls `integrateWithEpoll`
before the epoll instance is created (`EpollServer.cpp:626`), so libcurl's sockets are never
watched, and its timer callback sets nothing: transfers advance only in `performAction`, which
the loop calls after an event of a client. Hence phase `perform`, entered from client events only.
`Perform` lets libcurl finish any set of transfers in any way, and fails those past
`CURLOPT_TIMEOUT_MS`. The body of a successful one may be JSON, text that `ai_analyze` cannot parse, or bytes that no
callback can put into a JSON text (`dump` throws on what is not UTF-8). The constructor puts one URL in `provider_urls_`; `tryFailover`
therefore never finds another provider, and `Failover` is there for what the code says
it does with more. `granted[f][w]` is history: the requests of connection `f` let through in
the last `w` ticks, for each `w` up to `Window`.

Definitions called `...NoScard`, `...Peek`, `...Early` and so on, each marked "Mutant of",
are wrong versions of the definition after them; no specification uses them. They exist
to show that a property notices such a bug.

## 3. Runs

| Run | Instance | Shows | Distinct states |
|---|---|---|---|
| `cluster` | 2 gateways, 2 users, 1 descriptor, 1 message, a name twice or two names on a connection, 1 fault, fairness | registry, `user_map_`, connections and mailboxes agree under all interleavings of logins, second logins and disconnections, with a crash and restart, a cut, a refusal or a lost reply at any point; every mailbox that is not forgotten is emptied | 359 768 |
| `cluster_pop` | 1 message | **violated**: a gateway pops mail of a user another gateway serves | finding |
| `cluster_misdelivery` | 1 message | **violated**: a message is written to another user's connection | finding |
| `ack` | 2 messages, 2 descriptors, 1 user with both, `MAX_RETRIES` = 2, fairness | `ReliableDelivery`, its liveness, back-off, no stale retry | 147 944 |
| `write_path` | 3 messages of 3 bytes, a socket buffer of 2, fairness | `ByteStream`, no lost wake-up, delivery | 1 833 |
| `ws` | up to 3 lines of length 1, 3 or 4 with 2 characters left over allowed, or `/metrics`, or an upgrade and 3 frames out of eight kinds, limits 2, 3 and 4 for 125, 65535 and 65536, fairness | lines and messages in order and whole, frames in order, frame boundaries, every line is handed on | 337 904 |
| `ws_held` | the same frames | **violated**: a whole frame in the buffer waits for the next read | finding |
| `ws_split` | the same frames | **violated**: the payload of a frame that comes in two reads loses its first part | finding |
| `audit` | 5 events in batches of 2, fairness | one place per event, order, progress, shutdown | 1 233 |
| `groups` | 2 gateways, 2 users, 2 groups, 4 requests, 1 fault | the indexes agree unless spoiled, ids are not shared, messages go to the members | 925 169 |
| `registry` | 2 gateways, a beat every second, stale after 2, a reader that takes up to 1 second, restarts, 1 fault | no eviction in time, no member without data, nobody chosen who is stale | 2 478 366 |
| `ai` | 1 connection, 2 requests, a bucket of 2 tokens of 2 units, 3 units a second, a time-out of 2 ticks, fairness | one answer each, rate bound, `retry_after`, an answer in the end | 89 711 |

Why the bounds suffice. Two gateways give every race between a gateway and another; the
code has no step that involves three. One descriptor, reused, gives the stale entries; two descriptors,
several devices of a user on a gateway, are in `ack` and, for the registry, in the proofs
(section 5), which hold for any number. Two users tell a right
recipient from a wrong one. `MaxCopies` = 2 is the shortest duplicate in a vector of
`user_map_`; `MaxFaults` = 1 puts one fault anywhere, with the gateway back afterwards where the
code comes back; any number of faults is in the proofs. One message is enough for a mailbox to be filled,
drained and popped by either gateway, and a `chat` puts it in two mailboxes. With two retries the delays 1 s and 2 s differ,
an entry passes the states first, middle and last, and the code's 3 adds one more
middle; the proofs hold for any number. A message longer than the socket buffer makes each
write partial; three frames put one in front of and one behind a frame that is cut, and the
kinds cover every length class on both sides of each limit, fragments, control frames and a
frame without a mask; the lengths of lines lie on both sides of what the buffer may keep; five
events make batches full, partly full and the last one overfull. Four group requests are a
create, a join and two that race, or two groups of two; two groups are the least for a
shared id. In `registry` the reader may be slow by as much as a beat takes, and `Timeout` is twice the
interval (three times in the code), so a beat can be missed and made up for. In `ai` neither a second nor a
refill is a multiple of a token, so a rounding up happens, with `retry_after` 0 or 1 s; other values of it are in the proof; `Window` = 4 is the time the bucket takes to
fill; two requests give one that finishes before, with and after another.

`groups`, which checks invariants only, uses symmetry: gateways and users are interchangeable, as the
specification never names one. `write_path`, `ws`, `audit`, `groups` and `ai` may stop (a closed
connection; a joined worker; no request left to make; a process that has ended), so they
do not check deadlock; the other runs do.

**Fairness.** A gateway's loop is weakly fair as a whole: no step of it waits for a client,
`epoll_wait` has a time-out of 100 ms, a batch of events is bounded, Redis calls return or
fail. Nothing is assumed of clients, except that the reader of `write_path` keeps reading,
and nothing of faults. The clock of `ack` and `ai` ticks. In `ws` the loop reads
what has arrived, since epoll is level-triggered; clients need not send, and `InputIsServed`
says what happens to the lines if they do. The worker of the audit log is a thread
of its own, its sleep and its POST end (`CURLOPT_TIMEOUT`). `registry` checks safety only: nobody need call
the reader, and heartbeat threads may be late for ever. In `ai` the loop goes on
with the work it has, and `AnsweredWhileActive` supposes that clients go on causing events, because
without one nothing drives a transfer.

## 4. Findings

Four places where the code does not do what a comment beside it says; each is a run that
TLC finds violated, and `PROJECT.json` quotes the lines.

1. `pushOfflineMessages` says it delivers to local online users, and pops the mail of users
   other gateways serve (`cluster_pop`). `MailboxIsServed` still holds: the mail leaves the
   mailbox, it does not arrive.
2. Delivery goes by descriptor number: after a second login under another name, or reuse
   of the number, a message for one user is written to another (`cluster_misdelivery`).
3. The parser says it works across `read()` calls. Payload bytes of a call that ends inside
   the payload go into a frame object that is thrown away (`ws_split`); the frame
   boundaries survive (`InStep`), the content does not.
4. `tryParseFrame` says `false` means that the data is incomplete (`WebSocketCodec.h:127-129`). It returns
   `false` also when it has taken a basic header (`WebSocketCodec.cpp:274`), with the rest of the frame in the buffer, and
   `handleWsRead` then waits for another read (`ws_held`). The same property is broken, for good, by two kinds of frames
   TLC meets later: a 16-bit length is shifted in behind the marker 126 (`:284`) and comes out above the limit (`:312`), and a
   frame without payload finds `avail == 0` (`:329`). The close with 1009 that the header announces for a frame
   above the limit (`WebSocketCodec.h:86`, `EpollServer.cpp:1034`) is not reached, since the stage is still the mask key's.

Two more places contradict a comment. The models show them; no run of their own is spent on them, because what
fails needs no interleaving, only the reading of two lines.

5. `~GatewayRegistry` is to take the gateway out of the registry (`GatewayRegistry.cpp:75-79`, `:125-126`,
   `GatewayRegistry.h:51-53`, `:63-65`). It is a member of `EpollServer`, whose destructor disconnects Redis first
   (`EpollServer.cpp:77`), so `Stop` clears `link` and `Unregister` changes nothing. A gateway that is gone stays
   in `active_gateways` until a reader evicts it, and nothing in the program calls
   `discoverGateways` or `selectBestGateway`.
6. libcurl's sockets are to be registered with epoll (`EpollServer.cpp:623-627`, `AIServiceClient.h:50-53`); at that
   point `epfd_` is still -1. `AnsweredWhileActive` is what remains: without client events an AI request that
   has been sent is not answered, not even by its time-out.

What else the models show, and no comment speaks of:

- A fault can make mail wait: the names a gateway drained are forgotten with the answer, by an error of LPOP, or with
  the process, and their mailboxes wait until the next message for the name (`forgotten`, `DrainReplyLost`, `PopFails`, `Crash`).
- A registration that fails at SADD deletes the hash, also when the life before left the id in the
  set (`undone`); a reader then passes over a member it can never date (`AddFails`).
- `NoRequest` in ConnectionReader: a request for an upgrade whose header comes in two reads is cut into
  lines before it is complete. If its `Upgrade` line went in the first read the connection
  never becomes a WebSocket; if only the lines in front of it went, it does.
- `PushDeadLetter` in AckTracker: a dead letter is pushed under the name `dead_letter:<user>` with
  `pushMessage`, which also enters that name into `pending_msgs`; `pushOfflineMessages`, later in
  the same turn, pops it for a user of that name, whom nobody is (`EpollServer.cpp:1458-1479`).
- `Die` in AIServiceClient: an answer to `ai_analyze` that is not JSON, or any answer that is not UTF-8, makes a
  callback throw, through `processCompletedRequests` and the loop, and the process ends (`EpollServer.cpp:589`, `:529`, `:562`).
- With two providers `AnsweredOnce` would fail: see section 5.

## 5. Proofs

All for every value of the constants, from the named assumptions beside them:
`BoundsAssumption` and `DistinctAssumption` (GatewayCluster), `RetriesAssumption`,
`AckDistinctAssumption` and `DelayAssumption` (AckTracker), `SizeAssumption` (WritePath),
`AuditAssumption`, `GroupAssumption`, `RegistryAssumption`, `RateAssumption`, `AIAssumption`,
`FramesAssumption` and `LinesAssumption`. They say that bounds are natural numbers, that the
values standing for "none" are no others, and of the limits of a frame what holds of 125, 65535 and
65536. TLC evaluates each of them on every run of its module. `DelayAssumption` states facts of
arithmetic about the delays (they are natural numbers, the first is 1, none is longer than the
longest), because the provers know nothing about powers. One theorem, `AnswersOnce`, has a hypothesis of
its own, explained below.

All invariants that passing runs check, the two refinements and the action properties are theorems.

- **GatewayClusterProofs.** `TypeCorrect` goes with `LoopConsistent` (`TypeInv`): a message that is popped or handed
  on has a name only because of where the thread is. `OnlineAgrees` needs the types alone.
  `RegistryMirrored` and `SessionsReachable` are inductive together: a descriptor is given up by the name its connection has,
  so a connection that is logged in keeps what leads to it. `RegistryMirrored` says that the devices left behind
  are the only difference between memory and Redis, are still in Redis, and that a login on the same descriptor ends
  it, also after a restart under the old id.
  `QueueIndexed` needs `LoopConsistent`: a popping gateway still holds the
  name it pops, so a name is let go when its list was seen empty, or is counted as forgotten. `OnePlace` needs
  that a message is requested once and that a handler holds no user it has served.
- **AckTrackerProofs.** The invariant is `TrackerInv == TypeOK /\ TurnOfLoop /\ NoStaleRetry /\
  OneFate`. None of the parts is inductive alone: `retry_count` stays in its range because only
  entries with retries left are retried, and that is known because the vector of retries is
  non-empty only in a turn in which no acknowledgement is read. `TrackerImplementsDelivery`
  maps each action to one of ReliableDelivery's, or to a stutter. `RetriesBackOff` needs `Spaced`: what
  an entry has waited and has still to wait cover its delay, and an entry once found due has
  waited all of it, although the clock runs on before it is sent.
- **WritePathProofs.** The invariant adds `Loops` (a write loop runs on an open
  connection, handleWrite's with EPOLLOUT registered; a closed connection has an empty
  buffer) to the types and `NoLostWakeUp`. `WritePathImplementsStream` then shows that what is
  under way, `sock \o Waiting`, is the same before and after each step of the gateway,
  grows at its end when a message is handed over, loses a prefix when the client reads and
  a suffix when the connection breaks; two lemmas about prefixes and concatenation carry it.
- **GroupManagerProofs.** `Placed` says what handler is where. `CreatorsKept` needs `FreshIds`: an id above
  the counter has no creator, and of the handlers still making a group no two have the same id, so
  INCR gives a fresh one. `IndexesAgree` needs `AllInHand`: while the membership of a user in a
  group is not spoiled, at most one handler is at work on it, Redis hears that handler, and
  its place tells which of the two indexes is already changed (`Halfway`); without a handler the
  indexes and the user agree. The step of a handler is
  proved once for the pair it is about and once for all others. `MembersTold` needs `Watched`: the members at the moment
  lie between those all through the handler and those at some time of it.
- **GatewayRegistryProofs.** `MembersDated` needs `Enrolling`: a gateway is in the set only after its hash was
  written, and only a registration that failed at SADD takes one back, because a process that unregisters has lost its
  connection first.
  `EvictionJust` needs `Punctual` (a hash older than the time-out belongs to a gateway that is late by
  then, and the time in a heartbeat being sent is no older than the one it replaces) and `ReaderRight`:
  what the reader evicts was late when it read the hash, and lateness is for ever. The time the
  reader takes between its "now" and its look at a hash makes a hash look younger, never
  older. `ChosenBeats` needs the same arithmetic turned round (`Fresh`): what was found within the time-out has aged since by
  no more than the call has taken, a beat makes it younger, and a second look starts from nothing.
- **AuditLoggerProofs.** The invariant `Flow` takes the three sequences an event passes through, `stored`, `batch`
  and `queue`: each is rising, each lies before the next, and with `dropped` they hold every
  event logged, once. `EventsInOrder` and `EventsOnce` both follow; the lemmas are about
  rising sequences, their concatenation and the head and rest of one.
- **AIServiceClientProofs.** The bucket first, as lemmas about `refill`, `tryConsume` and the clock: a tick adds
  one unit below the brim, a request let through costs `Cost`, waiting `retryAfterSeconds` covers what is missing. `RateBounded`
  needs `Metered`: for every length of window at once, what was let through in it and what is in
  the bucket are no more than the burst and the rate together; `RetryHonoured` needs `Promised`. For the
  requests, `Numbered` (transfers are for requests that were made, at most one each) and `Served` (every request has its
  transfer or its answer). `AITypeCorrect` also says that there is always a handle for a new request.
  `AnswersOnce` supposes `Providers = 1`, which is what the constructor makes: it puts
  one URL in `provider_urls_` and nothing adds to it. With a second provider the property is false: `tryFailover`
  makes a new transfer under the number of a request that `processCompletedRequests` then erases.
- **ConnectionReaderProofs.** `Whole` is about a sequence of pieces (number of the frame or line, position in it): item after item,
  each whole but perhaps the first. `Framed` says that the buffer and the wire together are such a
  sequence, that it ends with the last frame sent and begins where the parser is. It holds however
  `read(2)` cuts the bytes, since moving them from one to the other leaves the concatenation as it
  is. `Staged` says that what the parser holds in each of its stages is about the
  current frame; `Returned` that the frames handed on are the first ones sent. These three and the types
  make `Reading`, from which `ParserInStep` and half of `InputHandedOn` follow. `Lined` is `Framed` again for
  the characters of a connection that sends lines; a request ends with its blank line, the last one sent, so
  taking it leaves nothing in the buffer that belongs to a line. `MessagesWhole` needs, besides, `InTurns` (the number of a
  frame's message is that of the messages ended before it) and `Reassembled` (the fragments kept are the frames of the
  current message so far).

Only model-checked: the liveness properties `MailboxIsServed`, `DeliverySettles`,
`MessageArrives`, `EveryEventIsPosted`, `ShutdownReturns`, `InputIsServed` and
`AnsweredWhileActive`, since fairness and ENABLED are out of the prover's reach; and the four
runs that find a property violated, which are counterexamples.

## 6. Abstractions and what is left out

- Payloads, JSON, logging and metrics are left out. Message priorities are left out and every
  order of the priority queue is allowed, which includes the code's.
- Ids. A gateway is `(getpid() * 31 + port) % 100000` in the sessions (`EpollServer.cpp:63`) and `gw_<pid>_<port>` in the
  registry (`:61`). A restarted container (process 1, port 8888, `restart: unless-stopped` in `deploy/docker-compose.yml`)
  has the ids it had, which `Restart` models. Two running gateways could have the same id too: in two containers of the same
  port they do. The models assume that two running gateways have different ids; without that a gateway takes
  another's users for its own, and `HandOn` would find none of them. In the registry an eviction under way may meet the next
  life of an id; `EvictedOnlyIfLate` therefore counts lateness in any life of it.
- Time. The ages of the registry are those of one clock. The code compares `time(nullptr)` of the host that beats
  (`GatewayRegistry.cpp:178`) with that of the host that reads (`:200`); a difference of the two clocks adds to every age, and
  one of more than the time-out evicts whoever beats in time.
- Redis. An error reply is modelled as a gateway that is refused for some commands in a row, in the
  registry as a command that is. Eviction of keys under memory pressure (`allkeys-lru` in `deploy/docker-compose.yml`) is
  not modelled: it may take any key at any time.
- Each connection of the AckTracker model logs in once; second logins are in GatewayCluster.
- The WebSocket handshake and the `/metrics` page write to the socket directly, before any
  message of the connection; WritePath starts after them. `epoll_ctl` is taken not to fail on
  a registered descriptor.
- A client that upgrades sends no frame before the answer to its request; the code that moves what lies behind the
  request to the parser (`EpollServer.cpp:966-974`) is therefore not reached.
  Fragments of different messages are not interleaved, as RFC 6455 has it.
  The pong is in WritePath; the bytes 1024 of one `read(2)` are no limit in the small instance.
- `write_buffer` has no limit, as in the code.
- In GroupManager `sendToUser` ends at the queue; what then happens to an entry of it is
  GatewayCluster's. When Redis answers INCR with an error, `generateGroupId` returns an empty id and `createGroup` goes on
  with the keys `room:` and `room::members`; this is left out, only the missing connection is modelled. Nothing in the code carries a group's message to another gateway, so `to` is cut down to
  the users of this one.
- In GatewayRegistry loads are left out: `Choose` may return any candidate, which includes the
  one with the least load. Regions are the set `Region`.
- In AIServiceClient the rate limiter is taken to be enabled (`Config::rateLimit().enabled`). The model of libcurl is what its documentation promises of
  `curl_multi_socket_action` and `curl_multi_info_read`. `CURLOPT_POSTFIELDS` is given a pointer into a temporary
  that is gone when libcurl sends (`AIServiceClient.cpp:248`): what the provider is asked is
  then arbitrary, which the arbitrary outcome covers; a crash by it is not modelled.

**Not modelled.**

- End-to-end encryption. `generateIdentityKeys` and `loadKeyPair` are reached from nowhere, so `key_pairs_`
  stays empty, `handleKeyResponse` returns before it makes a session (`E2EECrypto.cpp:501`), messages go
  out as they are and one of type `e2ee` is dropped; the ratchet is code that never runs. What it would
  compute is cryptography.
- The heartbeat thread and the loop share one hiredis context without a lock. That is
  a data race with undefined outcome in a library's memory; a model of it would be
  a model of hiredis. It is among the hazards, without a property.
- The handlers `react` (one `sendToUser`) and the key exchange (one reply, one `sendToUser`), `ping` and `who`
  (no state), the encoders and the digest of the handshake (formatting).
- `AckTracker::purgeExpired`, `GroupManager::dissolveGroup` and `getUserGroups`,
  `GatewayRegistry::gatewayCount` and `isSameRegion`, `RateLimiter::setRate`, `reset` and the getters,
  `RedisClient::setSize` and `keyExists`: called by nobody, or only by each other.
- Configuration, logging, metrics and JSON: start-up and formatting.
- The HTTP API, the AI service and the web client: stateless handlers in front of a database
  or a provider, and a user interface.

## 7. Plan

Done: every component whose code runs and keeps state, each with its safety and, where
something must happen, its liveness; and a proof of every safety property of theirs. Left:

1. **AIServiceClient with several providers**: what `AnsweredOnce` becomes if `provider_urls_` is ever filled,
   so that the proof no longer needs `Providers = 1`.
2. **ConnectionReaderProofs**: the longest of the proofs; the steps of the parser share most of their facts about
   dropping the head of a `Whole` sequence and could share more.
3. The code that is reached from nowhere (section 6), when something calls it.
