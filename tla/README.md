# A TLA+ verification of BtTracker

BtTracker is a UDP BitTorrent tracker (BEP 15) in C.  One main thread receives
datagrams, a GLib thread pool handles them, and all shared state lives in Redis.
This directory holds TLA+ modules translated from the source, TLC configurations
that check them on small instances, and proofs checked by TLAPS that hold for
every instance.

## The system and its parts

| Part | Source | State | Operations | Module |
|---|---|---|---|---|
| Announce handling, the swarm | `announce.c`, `data.c` | Redis: peer keys with expiry, `downs`, white/black list; per worker: handler locals | the Redis commands of `bt_handle_announce` | `Swarm` |
| Receive loop, pool, contexts, shutdown | `bttracker.c`, `pool.c`, connect/ping in `data.c`, `error.c` | `si_other`, job queue, pool, socket, per worker Redis context | receive, push, take, ping, connect, replace, handle, send, the steps of `on_sigterm` | `Pool` |
| Connections | `connect.c`, `handshake.c`, connection keys in `data.c` | Redis: connection keys | connect, validity check, expiry | `Session` |
| Scrape | `scrape.c` | per worker: hashes left, entries | check of the list, statistics, hash by hash | `Session` |
| Wire format | `net.c`, `byteorder.h`, the buffer in `bttracker.c` | the receive buffer, its clones | receive, read, write | `Session` |
| Random subset of peers | `random.c`, shuffle in `bt_peer_list` | an array | one round of the shuffle | `PeerSample`; its result is `Sampling`, which `Swarm` uses |
| Configuration | `conf.c` | none after start | parse | not modelled; its values are CONSTANTS |

Three modules are abstract specifications and translate no code: `PeerTable` is what
the swarm promises, `Requests` what the pipeline promises, `Exchange` what the
sender of a datagram is promised.

How they meet: `main` copies a datagram, writes the sender's address to one
struct `si_other`, and pushes a job that points to that struct.  A worker makes
sure that its thread's Redis context works, runs the handler, and sends the
answer to whatever `si_other` holds by then.  Workers meet only in Redis.  A
signal handler on top of `main` stops the pool, waits, closes the socket, dies.

What makes this hard, and hardly reachable by a test: two workers interleaving
their Redis commands on one torrent; keys expiring between two commands; replies
lost after the command took effect; a connection breaking in the middle of a
pipeline, after which the code frees pointers it never set; a crash between two
commands while Redis keeps what was written; announces duplicated or reordered;
the shared address; a signal at any instruction of `main`.  `PROJECT.json` lists
these as hazards, each at its line.

## Module Swarm

One torrent.  The keys of different torrents are disjoint and no command names
two of them.  `ttl[k]` is the remaining life of key `k = <<role, peer>>`, 0 when
there is no such key; what the key holds (an address) is not distinguished.
`pc[w]` says which Redis command worker `w` runs next:

| Action | Code |
|---|---|
| `Begin` | a worker takes the announce up, its connection just pinged or renewed |
| `Validate`, `Admit` | `bt_connection_valid`; `bt_info_hash_blacklisted` |
| `Insert`, `Remove`, `Promote`, `IgnoreEvent`, `Increment` | `bt_update_peer_list`: SETEX, DEL, RENAME, nothing; HINCRBY |
| `List`, `Get`, `GetMissing`, `Fill` | the two `bt_peer_list` calls: KEYS, each pipelined GET, the NULL read |
| `CountSeeders`, `CountLeechers`, `ReadDownloads`, `WildFree` | `bt_get_torrent_stats`; the free of an unset pointer |
| `Answer` | the response is returned and the locals are gone |
| `Lose`, `Tick`, `EditList`, `Restart` | environment: broken connection, clock, operator, supervisor |

Redis is modelled from how the code uses it: a command is atomic; RENAME carries
the expiry over and fails without a source key; KEYS lists only live keys.  A
command on a broken connection gets no reply.  A command in `Refusals` may be
answered with an error.  Lost effects: a command whose effect was applied and
whose reply was lost is the command followed by `Lose`, except RENAME, whose
reply decides about HINCRBY and which therefore has that case of its own.
Undefined behaviour is a choice: after a failed `redisGetReply` the process dies
(`WildFree`) or goes on with the count unset (`Uninit`).  Any request may begin
at any time and again, which covers loss, duplication and reordering.

Left out: an error reply to the GET of a peer key (its text would be read as an
address); failing `malloc`, after which the code exits; the content of
responses, except which peers and which counts; and the length check of
`bt_valid_request`, which drops a request before any Redis command (it is in
`Session`).  `Selections` is the set of results of the shuffle, and `WildShuffle`
its draw past the end of the array; `PeerSample` shows that there is no third case.

History variables record what the properties talk about and influence nothing:
`fresh` (time left until PeerTTL has passed since a peer's last announce),
`last` (the last command that touched a peer's keys), `joins` (leecher keys that came into being), `permitted`, `calm`
(no key came or went since a worker's first KEYS and its connection held), and
`room` (the keys there were when a worker counted the seeders, and those that came
until it counted the leechers).

The refinement: `ImplementsPeerTable` instantiates `PeerTable` with the keys, the
counter, and as downloads owed the number of workers between a successful RENAME
and their HINCRBY.  Every step of `Swarm` is then one refresh, drop, promotion,
count or tick of one table, or leaves the table alone: the interleaving of the
workers' commands cannot be seen in Redis, except that a download may be lost.

## Module Pool

`main` runs `boot -> recv -> copy -> push -> locked -> recv`; `locked` is the
time `g_thread_pool_push` holds the lock of the queue.  `handler` is the position
of `on_sigterm`; while it is not `off`, `main` stands still, because the handler
runs on its stack.  A worker runs `idle -> (ping) -> (connect -> replace) ->
handle -> (send) -> idle`.  While `main = "copy"`, the kernel is writing
`si_other`, and a read of it gives the old address, the new one or `Torn`, a mix.
`from`, `sent` and `stored` are history.

GLib is modelled from how the code uses it: the pool is exclusive, so its threads
stay; `g_thread_pool_free(pool, immediate, wait)` lets running jobs end, starts
none, drops the queue and returns when no worker is busy.  Process signals reach
the main thread.  Left out: a second signal of the other kind while the first is
handled; other locks that the handler may find taken (of `malloc`, of `syslog`);
the end of idle threads after the pool is freed, which the end of the process
overtakes.  So `ShutdownCompletes` is about a signal that meets none of these locks.
A failing `recvfrom` changes nothing and is a stuttering step.

The refinement: `ImplementsRequests` says where each datagram is (absent, queued,
with a worker, answered or left in silence) and that this changes as `Requests`
allows: taken up in the order of arrival, at most one worker each, at most as many
as there are workers, and never again once it is done.

## Module Session

From the bytes of a datagram to the bytes of its answer.  A datagram is a length
and a buffer of fields: connection id, action, transaction id, and blocks of 20
bytes.  An integer, or an info hash, is two bytes: enough to have a byte order
(`Swap`), a sign, and two hexadecimal digits per byte (`Hex`).  `Start` and `End`
are the real offsets, so the lengths the code compares are the real ones.  The
numbers of an announce, from byte 56 on, are two such blocks, read as integers.

`Receive` is the loop of `main`: `recvfrom` overwrites the buffer up to the length
of the datagram and leaves what was there behind it (`Overlay`; the one field that
is cut can come out in three ways), and the clone goes to a worker.  The worker
runs `Begin` (read the header, dispatch, the checks of `bt_valid_request` that
need no Redis), then

| Request | Actions | Code |
|---|---|---|
| connect | `Insert` | `bt_handle_connection`: random id, SETEX (which may take effect and its reply be lost), answer whatever came of it |
| announce | `Check`, `ReadAnnounce`, `Announced` | validity, `bt_read_announce_request_data`, and the rest (`Swarm`) as an answer or an error |
| scrape | `Check`, `ReadScrape`, then `Look` and `Stats` per hash, `Scraped` | `bt_handle_scrape` |
| error | `BeginDies` | `bt_send_error` without a message |

and `Send`.  `Expire` and `EditList` are the environment.  An invalid memory access
(`BeginDies`, `AnnounceDies`, `ReadScrapeDies`, `StatsDies`) sets `dead`, and the
model stops there, since nothing can be said of what follows.  `missed`, `allowed`
and `stored` are history, and so are `checked` and `permitted` of an entry: `allowed` starts
anew with each round of the loop of `bt_handle_scrape`, so that `ScrapesPermitted` gives each
torrent only its own round in which to have been permitted.  `StatsDies` is the free of
a pointer left from a lost reply; the same lost reply can also be survived (`Stats`).  Left out: the port of an announce, which lies
across the grid of blocks; the values of the statistics (an entry is filled by a
reply or not; `Swarm` counts); the text of errors.

The refinement: `ImplementsExchange` instantiates `Exchange` with the datagram each
worker deals with, the answer it is about to send, and the connection ids in Redis.
In `Exchange` there are no buffers, clones, host byte order, commands or lists: a
datagram is asked, gets at most one answer, an error or the answer to what it asks
in the bytes of the wire, and is done with; ids become known by being told in the
answer to a connect.  A datagram without a whole header is answered by an error or
not at all, although its header was completed from older bytes.  The process may
stop by an invalid access, after which nothing is promised.

## Modules Sampling and PeerSample

`Sampling` says what `bt_peer_list` picks: any set of as many keys as wanted, or
all.  `PeerSample` is the loop that picks them, with `randr` drawing from every
value of `rand()`.  `randr` computes with doubles; with RAND_MAX = 2^31 - 1 the
products are far below the precision of a double, so rounding does not carry a
quotient over an integer, and the exact integer division is what is modelled.

## Runs

| Run | Result | What it shows |
|---|---|---|
| `swarm` | holds | `TypeOK`, `NoGhostPeers`, `KeptForPeerTTL`, `WithinNumWant`, `DownloadsBacked`, `CalmAnswerExact`, `NoKeyCountedTwice`, `NeverPermittedNeverTracked`, `ImplementsPeerTable` |
| `swarm_live` | holds | `AnnouncesFinish`, `SwarmDrains` |
| `swarm_peer_ttl` | violated | after COMPLETED a peer leaves before PeerTTL, against `bttracker.conf` |
| `swarm_read` | violated | a listed key can be gone when it is read, and the NULL of the nil reply is dereferenced |
| `swarm_stopped` | violated | STOPPED under the other role leaves the peer in the swarm, against `data.h` |
| `pool` | holds | `TypeOK`, `ContextOwnership`, `HandlersHaveContext`, `SocketOpenForWorkers`, `StraysOnlyForward`, `ProcessedOnce`, `ImplementsRequests`, `JobsServed`, `ShutdownCompletes` |
| `pool_sender` | violated | an answer is sent to another client |
| `pool_signal` | violated | a signal inside `g_thread_pool_push` hangs the process |
| `sample` | holds | `TypeOK`, `SampleValid`, `WildOnlyAtRandMax`, `EveryPeerHasAChance`, `EvenChances` |
| `sample_randr` | violated | `randr` returns max + 1 at RAND_MAX, against `random.h` |
| `session` | holds | `TypeOK`, `AnswersOwnDatagram`, `ToldIdStored`, `ScrapesPermitted`, `GarbageOnlyLast`, `ImplementsExchange`, `RequestsFinish` |
| `session_exists` | violated | an id that was never handed out is accepted, against `data.h` |

Bounds of `swarm`: two workers, two peers, PeerTTL of two ticks (a key can be
fresh, aged, gone), MaxNumWant 2 (fewer, as many and more peers than wanted), two
announces out of four (a joining leecher, COMPLETED, STOPPED, an unknown event),
SETEX and RENAME refused at times.  A joining seeder is left out: its SETEX is as
the leecher's, and seeder keys come from RENAME and `MCInit`.  Two announces are enough for every pair of commands to
interleave; longer pasts come in through `MCInit`: Redis outlives the tracker, so
it starts empty, or with a peer under both roles and a seeder, as earlier
announces leave it.  Workers are interchangeable, which the symmetry uses.
The three violations have all five announces to choose from; the liveness run has one peer's STARTED, COMPLETED and STOPPED (which names the role the peer is not stored under), no populated start and no symmetry.
Bounds of `pool`: two workers, two clients, two datagrams, three contexts, so both
workers are busy at once or one serves two jobs, reconnects with a context in
hand, and the address is overwritten under a job; when no context is free,
connecting fails, which the code handles.
Bounds of `sample`: up to three keys, num_want up to four, RAND_MAX 5, so there are
fewer keys than wanted, as many, and more, and draws that divide evenly and not.
Bounds of `session`: two workers, two datagrams out of five (a connect, an
announce cut in its last block, a scrape of two hashes, of three where there is
room for two, and ten bytes that say they are an error), a buffer of five blocks
for the code's 74, room for two hashes for the code's eight, one edit of the list,
a white list.  Two datagrams are enough for one to be read over the leftovers of
the other and while it is handled.

Deadlock is not checked: the bounded inputs run out, the process may exit, and
the hang of `pool_signal` is a finding.  The violated properties are
the quoted documentation, and each counterexample is a behaviour of the code.

## Fairness

`Swarm`: weak fairness of each worker's next command and of the clock.  A worker
waits for nothing but Redis; hiredis returns a reply or an error.  (The code sets
no timeout for commands, so a server that neither answers nor closes the
connection is excluded here; it would hold a worker, and the shutdown, for ever.)
`Session`: weak fairness of each worker, on the same ground.
`Pool`: weak fairness of main's own steps, of each worker's and of the handler's.
Neither datagrams nor signals are fair.

## Proofs

The proofs hold for any number of workers, peers, clients, contexts, keys and
blocks, any datagrams and any bounds.  They rest on `SwarmAssumption`,
`PoolAssumption`, `SampleAssumption` and `SessionAssumption` (finite worker, peer and key sets, distinct
placeholders, PeerTTL at least one tick, no more keys than RAND_MAX, a buffer that
holds the first four blocks of an announce and all the hashes there is room for).

They are in `SwarmProofs` and, for the exact answer, the counts and the stay of a peer,
`SwarmCalmProofs`; in `PoolProofs` and, for the refinement of `Requests` and the number
of contexts, `PoolServiceProofs`; in `PeerSampleProofs`; and, for `Session`, in
`SessionTypes` (types, the invariant `Inv`), `SessionScrapes` (what a step leaves of
`Inv`, the steps of a scrape) and `SessionProofs` (every step keeps `Inv`, what follows,
and the refinement of `Exchange`).

| Theorem | Inductive invariant and why it is needed |
|---|---|
| `TypeCorrect` (all four) | the types; in `Pool` with `FromInv`: a job's id is an index of `from` |
| `NoGhostPeersHolds` | `GhostInv`: also `fresh <= PeerTTL`, or a new SETEX could leave the peer's other key ahead of `fresh` |
| `KeptForPeerTTLHolds` | the property itself with the types: SETEX sets key and `fresh` alike, a tick takes one from both, and RENAME and DEL of a peer's keys are recorded in `last` |
| `WithinNumWantHolds` | `ListInv`: peers collected plus GETs outstanding stay within num_want |
| `DownloadsBackedHolds` | `DownsInv`: downloads counted, promotions about to be counted and leechers present together are at most the joins |
| `NeverPermittedNeverTrackedHolds` | `PermitInv`: a worker past the list check found the torrent permitted; assumes that SISMEMBER is not refused |
| `CalmAnswerExactHolds` | `CalmInv`: at each point of a calm announce, what was collected and is still to be read is a selection of the present keys, and a count once taken is that of the present keys |
| `NoKeyCountedTwiceHolds` | `CountInv`: from the count of seeders on, that count and the leechers present together stay within `room`; a promotion takes a leecher away, SETEX adds one to both sides (`LeechersGrow`) |
| `ImplementsPeerTableHolds` | each action maps to one of `PeerTable`; the number of workers owing a count changes by one |
| `SocketOpenForWorkersHolds` | `SocketInv`: past `g_thread_pool_free` no worker is busy and the pool starts no job |
| `ContextOwnershipHolds`, `HandlersHaveContextHolds` | `ContextInv`: what `redis` and the thread local context are at each point of `bt_request_processor` |
| `StraysOnlyForwardHolds` | `SenderInv`: `si_other` is the last sender, or the one before during the copy, and no job is newer |
| `ProcessedOnceHolds` | `OnceInv`: the queue holds the latest datagrams pushed, in order; each one before them is with one worker or done |
| `ImplementsRequestsHolds` | from the same: the head of the queue is the oldest, and the workers in work are at most all |
| `FewContextsHolds` | from `ContextOwnership`: the open contexts are values of two functions on workers, so they are no more than these |
| `SampleValidHolds` | `SampleInv`: the array stays a bijection onto the keys, since a round swaps |
| `WildOnlyAtRandMaxHolds`, `EveryPeerHasAChanceHolds` | arithmetic of the division in `randr`; for the second a value of `rand()` is given for each slot |
| `EvenChancesHolds` | the draws of a slot are an interval between two quotients rounded up, whose length is the share or one more (`RoundedUp`, `RandrShares`) |
| `AnswersOwnDatagramHolds` | `Inv`, per worker `CloneInv`, `RequestInv`, `AnnounceInv`, `ScrapeInv`, `AnswerInv`: what was read so far is the worker's own datagram as far as that goes, entry by entry |
| `ToldIdStoredHolds`, `ScrapesPermittedHolds`, `GarbageOnlyLastHolds` | from the same invariant; for `GarbageOnlyLast` also that an unfilled entry leaves the connection down |
| `ImplementsExchangeHolds` | `Inv`, of which `RequestInv` and `AnswerInv` say that past `bt_valid_request` the request is well-formed for the length, so that its header lies within the datagram (`AnswerFits`); `Rests`: an idle worker has no datagram; then every action takes a datagram, goes on, answers or leaves (`StepKinds`), and each of these is a step of `Exchange` or none |
| `HexTellsApart` | different hashes have different names: the mask makes up for the sign of the shifted byte |

Only model-checked: the liveness properties `AnnouncesFinish`, `SwarmDrains`,
`JobsServed`, `ShutdownCompletes` and `RequestsFinish`, which are out of the
prover's reach; and the violations, which are counterexamples.

## Not modelled

- `conf.c`: reads an INI file once, before there is any thread; its values are
  CONSTANTS here, and no state changes later.
- `bt_ipv4_udp_sock` and `bind` are one step of `Pool` that succeeds or ends the
  process.
- Redis databases: there is one, so a failed SELECT is not seen.
- `bt_random_int64`: any id of a set.  How well it is distributed is no property of
  states or steps.
- The bytes of interval, counts and peer addresses in an answer, and failures of
  `malloc`.
- One module for all: `Swarm`, `Session` and `Pool` meet at named places (`Announced`
  and `AnnounceDies` stand for `Swarm`, `Handle` and `HandlerDies` for any handler) and
  are checked apart, because their product is beyond TLC and no property needs it.
