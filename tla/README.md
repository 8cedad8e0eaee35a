# A TLA+ model of the RDMA key-value stores

The repository holds three in-memory key-value stores that clients reach by
RDMA (`FaRM/`, `HydraDB/`, `Pilaf/`) and benchmark drivers for two that they
reach by TCP (`Redis/`, `Memcached/`). In the three stores a network card reads
and writes the memory of a process while that process runs, with no lock
between them: what the server sees in a request slot, and what a client reads
from the table, depends on timing that no test controls. That is what this
project models.

## Inventory

| Component | State | Operations | What is hard | What makes it correct |
|---|---|---|---|---|
| FaRM request channel (`FaRM/main.c`) | one request slot per client, one response area per client | PUT (RDMA write into the slot), GET (RDMA read of buckets), the server's scan, update, mark, acknowledge, clear | slots are written by the NIC at any moment; acknowledgements are not waited for; slots are indexed by client id, connections by order of accepting | only what was asked is applied, once and in order; only an overwritten PUT is lost; no slot starves |
| FaRM hopscotch table (`FaRM/hopscotch.c`) | buckets with a key, data, versions, lock, hop bitmap | lookup, update, insert with displacement, remove, resize | long sequences of calls; displacement moves keys of any home, because the bitmaps start full | a lookup returns what was stored last |
| FaRM one-sided reads (`hopscotch_update` against RDMA reads) | one bucket, the fields of a read | the stores of an update in any order, the NIC's fetches | torn reads, the one-byte version that wraps | an accepted read is whole, or at most one write old |
| HydraDB table (`HydraDB/hash.c`) | slots pointing to items of a pool, the next unused item | insert, search, update (retire, publish), delete | readers keep addresses of retired items; freed slots keep addresses; the pool ends | an unflagged item is current; items are not shared; the table is a map |
| HydraDB client and server (`HydraDB/main.c`) | request slots, a cache of locations with leases | PUT, GET by slot and by cached location | four looks at a slot that the NIC writes; locations that are stale after an update; answers that nobody waits for | requests are served once, as what they are; a stale item is recognisable; no slot starves |
| HydraDB allocator (`HydraDB/metalloc.c`) | a list of blocks in one static array | allocate with splitting, free with merging | nothing calls it | not modelled |
| Pilaf flow control (`Pilaf/main.c`) | counts of RECVs and of signalled work requests on both sides, queues, the request area | PUT as SEND and reply, GET as a chain of READs, batched RECVs, polls | messages are lost; counts are kept by hand; all requests land in one place | polls are fed, queues fit, a PUT is served at most once and answered after it |
| Pilaf cuckoo table (`Pilaf/cucko.h`) | three tables in one array, each overlapping the next by a bucket | place, lookup | displacement chains that give up; clients read buckets by an address of their own | no placed key is dropped or doubled; a key without rivals is where clients read it |
| Connection setup (`*/conn.c`, `main`) | queue pairs, registered areas, what was read from each peer, listening sockets | connect, accept, exchange of stags and attributes, RTR, RTS, Pilaf's alert | processes start in any order; messages without tags; clients that are refused | what is read is what was meant; queue pairs are connected before they are used; the set-up ends |
| Verbs setup (`*/common.c`) | queues, registered memory | creation | none: calls into a library | part of Connection |
| Redis and Memcached clients (`redis_client_struct.c`, `memcached.c`) | two flags, per thread a count, a sum of latencies and two time stamps | the loop of a thread, the alarm, main's barrier, join and sum | signals between any two tests of a flag; shared time stamps; times of zero | each counted request is timed once, with its own stamps; main adds up when all have ended |
| Result collection, checksum, random numbers | none | files and arithmetic | none | not modelled |

How they interact: a client's request is an RDMA write (FaRM, HydraDB) or a
SEND (Pilaf) that the NIC places in the server's memory; the server calls its
table and answers the same way; a GET bypasses the server and reads the table's
memory. An alarm signal ends a client's loop.

## Modules

| Module | Models |
|---|---|
| `PutLog` | abstract: each client's PUTs are applied at most once and in order |
| `FarmChannel` | the request path of FaRM, one server, `NumClients` clients |
| `MCFarmChannel` | the same with the clients accepted in the order of their ids |
| `FarmBucket` | one bucket updated in place while it is read |
| `FarmProofs` | theorems about `FarmChannel` and `FarmBucket` |
| `Hopscotch` | the hopscotch table, one round of displacement a step |
| `HopscotchProofs` | theorems about `Hopscotch` |
| `HydraHash` | the compact hash table of HydraDB, an update in two steps |
| `MCHydraHash` | the same with only the calls that the server makes once the table is filled |
| `HydraHashProofs` | theorems about `HydraHash` |
| `HydraStore` | HydraDB's clients and server, on an instance of `HydraHash`; implements `PutLog` for requests of both kinds |
| `HydraStoreProofs` | theorems about `HydraStore` |
| `PilafRpc` | abstract: a call that is served at most once and returns after it |
| `PilafFlow` | the flow control of Pilaf, one server, `NumClients` clients |
| `PilafFlowProofs` | theorems about `PilafFlow` |
| `PilafTable` | Pilaf's table as the server fills it and clients read it |
| `PilafTableProofs` | theorems about `PilafTable` |
| `Connection` | the set-up of all three stores: what each process calls, up to its first request |
| `ConnectionProofs` | theorems about `Connection` |
| `Bench` | the threads, alarms and main of the Redis and Memcached benchmarks |
| `BenchProofs` | theorems about `Bench` |

Each module of state has a `TypeOK`. Two runs check it; elsewhere the runs spend
their time on the properties that would fail with it. It is proved for every
module, as a part of the inductive invariant.

### FarmChannel

`slot` is `server_req_area`, `resp[c]` the first word of a client's
`client_resp_area`, `wire` and `ack` the RDMA writes that the NICs carry. The
client's program counter `cpc` has a value for each place where `run_client`
waits; the server's `spc` one for each of its accesses to the slot (lines 111 to
122), because the NIC may write the slot between any two of them. `DeliverPut`
and `DeliverAck` are the NIC's writes. A write of a request (at most one per
client, since the client polls for the completion) is atomic. The `seq` of a
request is not in the code; it tells two PUTs of one key apart. `asked`,
`applied`, `acked` and `raced` are history variables.

### FarmBucket

A bucket is one cache line. Some NICs fetch it in one piece and some do not:
`lineAtomic` chooses, once, at the start. The three stores of an update lie
between two compare-and-swaps, which order them against the lock but not among
themselves: `Store` takes them in any order. The bucket test of `run_client` is
in a comment in the code; `Accepted` is that test, and the properties say what
it would be worth.

### Hopscotch

`hopinfo` is the set of one bits. `HopBits` is the number of bits the model
has; it is above `HopSize`, as 32 is above 6, so that bits that the search never
looks at exist and stay set. `dict` is what the calls that succeeded say of each
key. `hopscotch_resize` always fails, as free buckets are inserted as well, and
it leaves the table as it was.

### HydraHash

`update_hash_key` is two steps, `Retire` (the flag) and `Publish` (the new
item). The server calls only `update_hash_key` and `hashtable_search` after the
initialisation; insertion and deletion are there because the module has them.
`SearchMissing` is the null pointer that a request for an absent key leads to,
after which the server does nothing more; this is why deadlock is not checked in
the runs of this module.

### HydraStore

The path is that of `FarmChannel` with two kinds of request. `run_server` looks
at a slot four times (key, kind, kind again, key: lines 114, 116, 127 and 117 or
128) and each look is a step, so a request may be replaced between its kind and
its key. An update is the two steps of `HydraHash`; the instance shares its
variables. `read[c]` is the last one-sided read of a client: the key, which is
also the index of the item, and what landed. Its fields `after` and `quiet`, and
`asked`, `served`, `acked` and `raced`, are history. `cache[c]` is the set of
keys whose entry of `local_cache` holds the key; whether a lease has run out is
left open, as it depends on the clock. The pool is large enough here; that the
real one is not is the subject of `HydraHashPool`.

### PilafFlow

Every count of `run_client` and `run_server` is a variable of the same name.
`posted`, `arrived`, `due` and `cq` are the NIC's side: RECVs in a receive queue,
completions of RECVs, signalled work requests on their way, completions of
those. A message may be lost at any time, and is lost if it meets an empty
receive queue. READs and SENDs have no order between them.

### PilafTable

`place` calls itself after each displacement; `hand` holds the arguments of the
call that runs, so that a displacement is a step and clients may read between two
of them. `hash` is the same remainder for each of the three tables, and the
tables lie `MAXN - 1` buckets apart: `At` keeps both. The memory is filled with
bytes of 1: `Fill` is that key as the bucket holds it, `FillKey` what `int dis`
makes of it, which is then placed like a key. The branch of `place` for an empty
bucket (`INT_MIN`) cannot be reached. `asked` has the keys of requests,
not the ones that `place` carries on. `ReadAt` is the address that `run_client` computes for a GET.

### Connection

The set-up is sequential code in each process and concurrent between them. A
process is a script, the sequence of its calls: `FarmMain`, `PilafServerExch`
and the others are the functions of the same names, with a call as a record and
a loop as `ForEach`: the rounds one after another, as a function of the position
in the loop rather than a concatenation, which is recursive in the library and
could not be proved about. The actions are what a call does: `Connect`, `Accept`,
`DoWrite` and `DoRead` on sockets, `ReadyToReceive` and `ReadyToSend` on queue
pairs. FaRM's and HydraDB's `conn.c` are the same text; both are there since they
are two files. A message is the record of what it tells about
(`Datum`), so that a property can ask whether it is held under the right name.
`store` chooses the program. What a `connect()` finds depends on whether the
server listens yet: `Refused` is the early client, which FaRM and HydraDB let go
on with a dead socket (`ReadRefused`, `WriteRefused`) and Pilaf ends. `lost` has
the queue pairs where Pilaf's alert met no RECV, because its client was slow
(the server only sleeps ten seconds) or, with two servers, because alerts go by
the order of accepting and clients wait by their ids.

### Bench

`tpc` has a value for each place of `my_thread` between which an alarm may
strike: the two tests of `start_counting` and the statements behind them are
steps. `stamp` holds, for `start` and `end`, the thread and the round that
stored them last instead of a time. `StampOf` is the difference between the two
programs: variables of the thread in Redis, global ones in Memcached. `samples`
counts what was added to `lats[t].time`, and `foreign` those additions whose two
stamps were not of the thread's own last request. `testtime` and `warmup` take
every combination of `Times`, since `alarm(0)` sets no alarm. `ThreadFails` and
`CreateFails` are the calls whose failure ends the process.

## Runs

| Run | Question | Bounds |
|---|---|---|
| `FarmChannelSlots` | what the server may apply, what may be lost, does any request wait for ever | 2 clients, 2 PUTs each, keys 0 and 1 (0 looks like an empty slot, 1 like the server's mark), any number of GETs, of key 0 (a GET's key reaches nothing that the properties see) |
| `FarmBucketReads` | what a read that passes the test returned | `c_ver` of 4 values, 9 writes: the version comes round twice |
| `HopscotchMap` | is the table a map | 4 buckets, neighbourhood of 3, 5 keys of which 4 share a home: displacement, and every way out of its loop, happens |
| `HydraHashMap` | is the table a map, may a reader trust the flag | 2 buckets of 2 slots, 5 items, 5 keys |
| `HydraStorePaths` | what becomes of requests that meet, what a read past the server returns, is every slot served | 2 clients, 2 requests in all (so two of one client, or one of each), keys 0 and 1, any number of cached reads |
| `PilafFlowPair` | are the counts right | 2 clients, 2 requests each, receive queues of 3, refilled below 2 |
| `PilafFlowLive` | does every wait end | 1 client, 6 requests: several refills and polls |
| `ConnectionSetUp` | does each process hold what its peers meant, and does the set-up end | 2 servers, 2 clients, each store |
| `BenchThreads` | what is counted, timed and added up | 2 threads, 3 counted requests each, times 0 to 2 |
| `PilafTablePlace` | is a placed key found, is it where clients read | 5 buckets per table, 9 keys: two of a remainder, and a third rival over the shared bucket |
| `HopscotchLost` | is an inserted key found | violated, on 4 buckets with a neighbourhood of 2 |
| `HydraHashPool` | does the pool suffice for the calls of `run_server` | violated by the first update: 2 loaded keys, no others, and a pool of 2 items |

Why the bounds are enough: two clients are needed for one slot to be written
while the server is at another, and for two requests to meet in Pilaf's one
request area; two PUTs for a request to overwrite, or to be overwritten by, its
neighbour in program order. In the channel a client influences another only
through the server's position, so a third client adds no new kind of meeting;
the proofs hold for any number. In Pilaf the counts repeat with period 2 (the
signalling) and `QDepth - SDepth + 1` (the refill): six requests of one client go
through several of both. In `HopscotchMap` four keys share a home with three
places, so that insertions displace, and also give up.

In `HydraStorePaths` two requests are enough for one to replace another between
any two looks of the server, and for one client to read what another updated.

In `ConnectionSetUp` two clients are needed for the order of accepting, and two
servers for a client to be at one while the other server waits for it; a third
of either only repeats a loop. In `BenchThreads` two threads share what
Memcached's threads share, and three requests leave one before, one under and
one after each alarm. `PilafTablePlace` has fewer keys than twice the buckets of
a table, as the code has (4 000 000 against 2 500 000): no more than two keys of
a remainder, so a chain of three displacements ends; the keys at the two ends of
a table, which have a rival more, are among the nine.

`MaxPut`, `MaxAsk`, `MaxRequests`, `MaxWrites`, `MaxVersion`, `MaxItems` and
`MaxOps` are bounds of the model, not of the code.

Deadlock is not checked where the code stops: after a crash in `HydraHash`, when
a process is dead or all processes run in `Connection`, and when the program has
ended or `MaxOps` is reached in `Bench`.

The code disagrees with what it says of itself in these places; `PROJECT.json`
quotes the lines under `findings`. Two have a run of their own:

* a hopscotch insertion with displacement can lose sight of a key
  (`common.c:277` sets all bits of all bitmaps); the loader of FaRM fills the
  table in order and never displaces, so the shipped program does not meet it;
* the first update of HydraDB writes past its pool (the release of retired items
  is commented out in `hash.c:144`): `HydraHashPool` takes `ServerSpec`, where
  nothing is inserted after the table is filled, and its trace is `Retire`,
  `Publish`.

The others are the condition of a property that holds only with it:

* a FaRM client does not wait for its acknowledgement (`main.c:198` tests a
  pointer instead of a value), so a PUT can be lost: `PacedPutsAreKept` excludes
  clients for which `raced` is set;
* a PUT of Pilaf can be answered without having been placed (all RECVs land in
  one area, `main.c:139` and `main.c:177`): `UncrossedIsPlaced` excludes clients
  for which `crossed` is set;
* the latencies of Memcached's threads are made of shared time stamps
  (`memcached.c:49`): `SamplesAreOwn` is about Redis, and is violated when
  Redis shares them too.

Some cases are in the model and outside the properties, because the code has no
answer to them. A request for key 0 looks like an empty slot (`PacedPutsAreKept`
and `PacedPutsAreApplied` exclude it). The acknowledgement goes to the connection
accepted i-th, whoever that is (`HeldIsMeant` does not compare it with the
client's id). A client of Pilaf that posts its RECVs after the alert, or loses a
message, waits for ever (`RecvIsThere`, `PutsReturn` and `SetUpEnds` exempt it),
and so do servers whose client died. Once `c_ver` has come round, `AcceptedIsRecent`
promises nothing; no code runs the test it is about.

## Fairness

`FarmChannel!Fairness`: the server never blocks in its loop and the connections
are reliable, so the server's next step and each delivery are weakly fair.
Nothing is assumed of clients: a client may stop at any point.

`HydraStore!Fairness` is the same.

`PilafFlow!Fairness`: server and clients spin in their loops, signalled work
requests complete and READs (reliable connections) land. The SENDs run over
unreliable connections: `Lose` is never forced and may always happen, so
`PutsReturn` promises an answer only if nothing of this client was lost.
`ClientFinish` is the alarm, which may never ring.

`Connection!Fairness`: each process is run by its operating system and TCP
delivers, so a process whose next call can return makes it. Nothing says that a
server listens before a client connects, or that a client of Pilaf is quick.

`Bench!Fairness`: an alarm that is set strikes, main and the threads run, and the
calls of the client libraries return. `ThreadFails` and `CreateFails` are not
fair: no call need fail.

## Proofs

Every safety property of the passing runs is a theorem, for all values of the constants that the modules' assumptions admit.
In each case the property itself is not inductive. The proof module defines the
inductive invariant `IInv` that follows things through the places where they can
be, has one lemma for each action that shows that it is kept, and derives the
properties (and, where there is an abstract module, the mapping of each step).

| Module | Theorems state | What `IInv` adds |
|---|---|---|
| `FarmProofs` | of `FarmChannel`: `TypeOK`, `AppliedWasAsked`, `AppliedInOrder`, `PacedPutsAreKept`, `ImplementsLog` | a request is newer in each place than in the places after it |
| `FarmProofs` | of `FarmBucket`: `AcceptedIsWhole`, `AcceptedIsRecent` | which store of an update each fetched field has seen |
| `HopscotchProofs` | `TypeOK`, `NothingIsDropped`, `MapUntilDisplaced` | no key of the map is in the bucket in hand; bitmaps tell where keys are |
| `HydraHashProofs` | `TypeOK`, `ItemsAreOwned`, `TableIsMap` | used slots come first, a key is in one slot |
| `HydraStoreProofs` | `TypeOK`, `PacedRequestsAreKept`, `LocationsStay`, `UpdatedIsFlagged`, `QuietReadStays`, `ImplementsLog` | the index of a key leads to its item until that is flagged; each service is acknowledged once |
| `PilafFlowProofs` | `TypeOK`, `PollsAreFed`, `CompletionsAreTaken`, `RecvsFit`, `RecvIsThere`, `UncrossedIsPlaced`, `ImplementsRpc` | each completion to be polled for is owed once; one request or answer of a client |
| `PilafTableProofs` | `TypeOK`, `LoneStaysHome`, `PlacedIsFound` | where a chain of displacements can lead |
| `ConnectionProofs` | `TypeOK`, `HeldIsMeant`, `PeerIsReady`, `DeadLeaveNoExchange`, `RunsOnLoadedTable` | what has passed between two processes follows from how many calls of the round each has made |
| `BenchProofs` | `TypeOK`, `CountsTogether`, `RequestsAreSampled`, `SamplesAreOwn`, `ReportIsComplete` | the balance of counts and latencies at each place of the loop |

**FarmChannel.** For any number of clients and PUTs and any sets of keys, `Loaded`
among them. `AppliedInOrder` says nothing of requests that are not applied yet. `IInv`
follows a request from the wire to the slot, to the server's register and to the
table: `WireIsNewest`, `SlotIsNewer`, `RegisterIsNewer`. The slot is exempt while the
server is between reading and clearing it (it then holds the old request or the
mark); that is harmless because the server clears the slot before it scans
again, and if the NIC writes a newer request meanwhile, `raced` records it.
`PacedPutsAreKept` needs in addition that a client posts a request only when its
last one has left the wire (`WireIsFree`): the completion of a write, which
`run_client` polls for, is after its landing. `StepRefines` maps each step to a
step of the log.

**FarmBucket.** For any number of values of `c_ver` and any number of writes. A
NIC that fetches fields one by one takes the lock after the data and `c_ver` after
the lock; once the lock is down, the `c_ver` to come is of a write that is not
older than the data. Two numbers of writes that agree modulo `CVer` and are less
than `CVer` apart are equal, which is why the property excludes longer reads.

**Hopscotch.** For tables and neighbourhoods of any size. `KeptInv` says that each
key of the map is in a bucket other than the one that an insertion has in hand,
so that neither a copy into it nor the final store loses a key; it holds
whatever was displaced. `PlainInv`, until the first displacement, says that a key
in a bucket is in no other, and that the bit of its offset is set at its home;
a removal clears a bit that belongs to the freed bucket alone. That the search for
the least bit finds one (`MinIsMember`) is proved from the well-founded order of
finite sets. The assumption on versions is that `c_ver` has at least two values.

**HydraHash.** For any numbers of buckets and slots, any keys among which are the
loaded ones, and any bound on the items that leaves room for these. `SlotInv`: used slots
come first in a bucket, and a slot that was freed keeps the address of an item
whose key was cleared, so that the search neither stops early nor finds a
deleted key. `HoldersInv`: a key of the map other than 0 is in exactly one slot,
with the data of the map. The initial layout is shown to be one-to-one from its
arithmetic (bucket `b` and slot `s` hold item `b + s * NumBuckets`).

**HydraStore.** For any number of clients, any table and any number of requests.
The assumptions on the table are those of `HydraHash`, with the loaded keys as the
keys and an item for each request that may be an update. `TableInv`: loaded items
keep their keys, and the slot of key `k` points to item `k` until that item is
flagged, which an update does before it moves the slot; hence `LocationsStay` and
`UpdatedIsFlagged`. `OrderInv` is the argument of `FarmChannel`, with the looks of
the server at the slot. `AckInv`: the number of services is that of
acknowledgements taken, plus one while one is on its way; as at most as many
requests are served as were asked, a client that has had all its answers gets no
more (`QuietReadStays`). `KindInv`: the kind that the server has seen is that of
the request in the slot unless another was written over it.

**PilafFlow.** For any number of clients and requests, any depths with
`1 < SDepth < QDepth`, and whatever is lost. `PollInv`: the completions that the NIC
owes a side, there or to come, are one or none, according to the parity of its
count and what it has last polled for. `RecvInv`: a count of RECVs is the number
posted plus the number that messages have used and the side has not taken.
`CallInv`: of each client there is at most one request or answer anywhere, and
before the first the alert takes its place; so a batch of completions that the
server polls is one request, and no completion queue, receive queue or count
goes beyond its bound. `PlacedInv` follows the key of an uncrossed request from
the request area to the table. `FlowImplementsRpc` maps `ClientPut`,
`ServerReply` and `ClientPutReturns` to the three steps of a call.

**PilafTable.** For tables of any size, with fewer keys than twice the buckets of
a table. `LoneStaysHome`: `HandInv` says that the table at hand is the number of
displacements so far, `OriginInv` that a key of a client got where it is by a
request, `HomeInv` is the conclusion for each key that has entered. The crux is
`OnlyRivalsCome`: in the first table a key comes home by its own request only, the
second table meets the first in the shared bucket, and the third is out of reach.
The bytes of a filled bucket are carried on as a key too (16843009), and would do
harm in that shared bucket if they were a multiple of `MaxN`: this is the third
conjunct of `FillAssumption`, true of `MAXN` 2500000.

`PlacedIsFound` has an inductive invariant of its own, `PlaceInv`, on top of
`IInv`. A remainder has two keys at most, and the last remainder one
(`TwoOfARemainder`, where fewer keys than twice the buckets is used). So a key has
two seats: home and the second table, or, for the last remainder's only key, home
and the third table, where a key of remainder 0 drives it over the shared bucket
(`SeatInv`). A key away from home is covered by the key that drove it away
(`CoverInv`); a third key of a remainder would be needed to drive it on. The
filling is carried on as a key as soon as it is displaced, enters the second
table with the very first request and is in a bucket ever after (`FillInv`), so that
every chain that displaces filling ends there. `ChainInv`: after three
displacements only filling can be in hand, and giving up loses no key.

**Connection.** For any number of servers and any number of clients that they
divide evenly (`NUM_CLIENTS_PER_SERVER` each, in the code), for each store and every
order in which processes start, accept and die. The scripts are laid out first:
`ClientScript` and `ServerScript` say which call comes after `n` others, and
the lemmas after them what the k-th call of a round is. Everything else is said in
counts of the calls of a round: `Visited` and `Linked` for a client's two
loops, `Served` for a server's. `QueueInv`: a server has accepted as many clients as
it has begun to serve, none twice, and a `connect()` succeeded just for those
that it has accepted or that are waiting. `LinkInv`: a client whose connection
was refused gets no further in that round than the failing calls allow, and only
such a client dies. `ExchangeInv`: for a client and the connection on which it
was accepted (`Met`), each channel carries the words that its writer has
written and its reader has not read, and each side holds the words that it has
read, under the names that the order of its reads gives them; a client that is
not accepted has exchanged nothing (`Unmet`). `HeldIsMeant` needs in addition
`MemoryInv`, that what a word tells about was registered before. `QPInv`: the
state of a queue pair follows from the count of the round that connects it, and
its destination is what the client read, or the client that the server accepted.
As reads block, the counts of the two cannot drift apart: a client that is
through with a server was served to the end by it (`Completed`), which is the
step to `PeerIsReady` and `RunsOnLoadedTable`. For `DeadLeaveNoExchange`: a client
dies only at a server that refused it; it is through with the servers before
that one, and those after it do not know it. `AlertInv` is about Pilaf: a server
sends its alerts with its RECVs posted, and a client that got the alert was
accepted by the server that sent it.

**Bench.** For any number of threads and requests and any set of times.
`RequestsAreSampled` speaks of a thread between two requests; one in the middle may
have counted it or not, depending on where the first alarm struck. `AlarmInv`: how
far the alarms have come, and that the loops end only if the test time is beyond
the warm-up. `BarrierInv`: once main is past Memcached's barrier, or an alarm has
struck, all threads are past it. `CountInv`: the balance of counted and timed
requests at each place of the loop. `StampInv`: in Redis, what the thread's own
stamps are at each place. `JoinInv`: a thread that main has joined has ended, and
what was added is its count. `SamplesOfOneThread` needs that no other thread
writes the stamps, `StampOf(t) = t`, which is where it breaks for Memcached.

The assumptions of the proofs are the named `ASSUME`s of the modules and nothing
else; the runs evaluate each of them on their instance.

Only model-checked: liveness (`SlotsAreServed`, `PacedPutsAreApplied`,
`PutsReturn`, `PollsReturn`, `SetUpEnds`, `ProgramEnds`; the prover has no means for
fairness). The two runs that expect a violation refute what they state, so
there is nothing to prove of it.

## Plan

1. Done: FaRM channel, bucket reads, hopscotch table, HydraDB table, HydraDB's
   client and server, Pilaf flow control and table, connection set-up, the
   benchmarks of Redis and Memcached.
2. Done: proofs of the safety properties of all of these, and that `FarmChannel`
   and `HydraStore` implement `PutLog` and `PilafFlow` implements `PilafRpc`.
3. Open: a proof that `HydraStore` implements `HydraHash`, whose operations it
   uses as its own.

## Not modelled

Addresses and sizes of RDMA accesses (and thus accesses past the end of a
table), the text of values, what is printed, calls that fail only for want of
resources, `redis_client.c` (which does not compile by itself), the programs that
fill Redis and Memcached, and the scripts. HydraDB's allocator, `metalloc.c`, is
not modelled because no call of it is left: its two uses in `hash.c` (lines 89 and
148) are in comments, and nothing could be said of it that concerns the program
which is there. Key 0 of
HydraDB is in the model and excluded from `TableIsMap`, because deleted items
carry it.
