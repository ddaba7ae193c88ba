# Verification of the distributed Steam-reviews analysis

This directory holds TLA+ models of the system in `../src` (Go, RabbitMQ,
docker), the TLC configurations that check them on small instances, and theorems
with proofs for TLAPS. Line numbers are those of `../src`.

## 1. The system

A client uploads two CSV files (games, reviews) over TCP to a gateway. The gateway
cuts them into batches and publishes them to RabbitMQ. A graph of worker nodes
answers five queries and publishes the results to the queue `reports_<gateway>`,
from which the gateway sends them to the client.

```
client --TCP--> gateway --> review filter --> q3: top joiners (2) -> top-N filters (2) -> top-N aggregator
                                          --> q4: text filters (5, ring) -> counter joiners (2) -> counter aggregator
                                          --> q5: percentile joiners (2) -> percentile aggregator
                gateway --> action filter --> counter joiners, percentile joiners
                gateway --> indie filter  --> release date filter -> playtime top-N -> its aggregator; top joiners
                gateway --> platform filter -> platform counter -> its aggregator
aggregators --reports--> gateway --TCP--> client
health checkers (3, ring) --UDP--> every container;  `docker restart` of a dead one
```

Any container may be killed at any time (`scripts/random-kill.sh`); its file
system survives. The program's promise is that results are those of a run in which
nothing died. Its means are: a **sequence id** per message, (source uuid, number),
numbered per routing key; a **duplicate handler** at each consumer that expects a
next number per source; a **recovery log** per node with each handled message and
the ids its outputs were given; and an acknowledgement of the message last.

### Components: state, operations, interaction, what is hard, what makes them correct

| component | state | operations | hard about it | correct when |
|---|---|---|---|---|
| worker node (`internal/worker/worker.go`) | node memory, generator, duplicate handler, log file | `Recover`, `consume` (Select, IsDuplicate, Process, Publish, Log, Ack), `HandleEofMessage` | a crash between any two steps; two input queues; map order | each output counts once downstream, in order; what is acknowledged is logged; ids name contents |
| sequence ids, duplicate handler, log (`pkg/sequence`, `pkg/dup`, `pkg/recovery`) | next id per key; expected id per source; records | NextId, RecoverId, IsDuplicate, RecoverSequenceId, Log, Recover | rebuilt in the right order and from the right end | the generator resumes right after the log |
| client upload (`internal/client/file_reader.go`) | position, batch number, connection | send batch, read ack, rewind, reconnect | acks lost or in flight when the gateway dies | a batch number always names the same records |
| chunk sender (`internal/gateway/chunk/sender.go`) | one chunk per client | take item, publish chunk, ack, publish end of file | death between destinations, before or after the ack | what is acknowledged is everywhere |
| filters (`internal/worker/filter`) | none | filter, shard, publish, pass the end of file | order of map iteration, round of peers | the end of file stays behind the data |
| joiners (`internal/worker/joiner`) | per client: games with votes, ends of file | processReview, processGame, processEof | two inputs in any order | result independent of the order; state deleted at the end |
| platform counter, playtime and top-N nodes (`internal/worker/hybrid`), each deployed as filter and as its aggregator | per client: counters, a heap | count, update the heap, publish at the end of file | running totals, evictions, a client without games, restart in the middle | the result is that of the whole upload, published once |
| aggregators (`internal/worker/aggregator`) | per client: games, ends of file | save, publish batch, reset | counting ends of file, the percentile's bounds, restart in the middle | one result per client, each item once |
| gateway results (`internal/gateway/results_listener.go`) | duplicate handler, accumulated parts, log, channels | ListenResults, SendResults, logResults, recovery | four kinds of goroutines on unbuffered channels, clients that leave | results whole, delivered, marked delivered only then |
| health checker (`internal/healthcheck`) | error counters | probe, restart | false alarms, all checkers down | dead nodes are restarted |
| client ids (`pkg/utils/id`) | counter file | GetId | crash during the write, wrap | ids are unique |

`PROJECT.json` lists every component with its status, and under `hazards` what is
hard to test in this code, line by line.

## 2. Modules

| module | models | built on |
|---|---|---|
| `Worker` | one node: log, ids, duplicate handler, crash and restart, next nodes' duplicate handlers | parameter `Outs(h, m)`: what `Process` may publish for m after h |
| `ExactlyOnce` | the promise of a node: of the messages in its queue each is processed once, in order, and each output is handed over once per key, in order. No ids, log or crash | abstract specification |
| `WorkerInv` | the inductive invariant, in named parts | `Worker` |
| `WorkerRefinement` | the refinement mapping from `Worker` to `ExactlyOnce` | `WorkerInv`, `ExactlyOnce` |
| `WorkerProofs` | theorems about the log and the numbering | `WorkerInv`, TLAPS |
| `WorkerContentProofs` | theorems, the refinement among them | `WorkerProofs`, `WorkerRefinement` |
| `MCWorker` | instances: stateful node, two queues, map order | `WorkerRefinement` |
| `Upload` | client file reader, chunk sender, first nodes | |
| `ClientIds` | the generator of client ids and its file, its callers, death and restart | |
| `UploadInv` | the inductive invariant, in named parts | `Upload` |
| `UploadProofs` | theorems | `UploadInv`, TLAPS |
| `GatewayNode` | one gateway process: uploads and ids together, dying at once | `UploadInv`, `ClientIds` |
| `GatewayProofs` | theorems about the ids, and about the whole process | `GatewayNode`, `UploadProofs` |
| `Messages` | the kinds of message between the nodes, publications, outcomes of a handler | |
| `Filters` | review, text, action, indie, platform and release date filters | `Messages` |
| `Joiners` | top, counter and percentile joiners | `Messages` |
| `TopN` | the bounded heap of query 3 and what it is a top of | |
| `Hybrids` | platform counter, playtime and top-N nodes, filter and aggregator | `Messages`, `TopN` |
| `Aggregators` | counter and percentile aggregators | `Messages` |
| `Queries` | the five queries as networks of these nodes | all of the above from `Messages` on |
| `MCQueries` | catalog and uploads of the instance | `QueriesInv` |
| `QueriesInv` | the inductive invariant of the networks, in named parts | `Queries` |
| `HandlerProofs` | what one message may do at each node; the heap of query 3 | `QueriesInv`, TLAPS |
| `QueriesProofs` | theorems about the networks | `HandlerProofs` |
| `Results` | gateway listener, senders, logger, clients | |
| `ResultsInv` | the inductive invariant, in named parts | `Results` |
| `ResultsProofs` | theorems | `ResultsInv`, TLAPS |
| `MCResults` | the instance: a queue with repeats, two clients | `ResultsInv` |
| `HealthCheck` | health checkers, answering services, docker restart | |
| `HealthInv` | the inductive invariant, in named parts | `HealthCheck` |
| `HealthCheckProofs` | theorems | `HealthInv`, TLAPS |
| `MCHealthCheck` | the instance: a ring of two and a node | `HealthInv` |

### Worker: how it corresponds to the code

`feed[q]`/`acked[q]` is the broker's queue: what was published to it and how much
was acknowledged. `pc` is where `consume` stands: `TakeDuplicate` / `TakeNew` is
`Select` and `IsDuplicate` plus the update of the node's memory by `Process`,
`Publish` one `NextSequenceId` and `Broker.Publish` of it, `Log` the record, `Ack`
the acknowledgement. `Recover*` are the assignments of `Worker.Recover`, `Crash`
keeps `feed`, `acked`, `log`, `out`, and loses the rest. `mem` stands for the
node's own state as the list of messages it was built from: all that can matter of
it is what `Outs(mem, m)` yields. `Outs` yields a *set*: a node that publishes in map
order has several possible output sequences for one message. `got`, `expect`,
`accepted` are the next node's view of each key.

`WorkerRefinement` maps a worker with one input queue to `ExactlyOnce`: `queue` is the
feed, `delivered` is `accepted`, and `input` (`Taken`) is the log's messages, followed by
the delivery being handled once some attempt at it has published an output that no record
holds (`Begun`). So the abstract `Process` is the first `Publish` of a message, before any
crash, or its `Log` if it has no outputs; the retries after a crash are stutters, as are
the copies that the next node drops; `Deliver` of anything else is `Hand`.

`Arrive` lets upstream nodes (themselves workers that may die) send numbers densely
and repeat earlier ones, which is what the theorems below say a worker does.

### Upload, ClientIds, Queries, Results, HealthCheck

`Upload` has one step per message sent, taken, published and acknowledged, and one
destination at a time in `publish`. The three history variables (`rewound`,
`eofCut`, `crashes`) only say which of the code's two unsafe corners was entered.
An acknowledgement written before the gateway's death may still be read.

`ClientIds` has a step for each half of `File.Overwrite`, so the gateway can die with
its file truncated (`cut`); `wrapped` says the uint16 overflowed. `Locked` is the mutex.
A client whose id was not sent when the gateway died has failed (`fetchClientID` returns
the error) and does not ask again. In `GatewayNode` an upload and the ids share one
process: `Killed` and `Started` are steps of both.

In `Queries` a handler is one step (`Handle`): take the head of a queue, process,
publish, log. A queue is all that was ever put in it (`sent`) and how much of that was
taken out (`taken`), so that a log entry can name a message by its queue and place
(`[from, at]`) and the invariants can speak of what was handled. What a crash inside
a handler does is `Worker`'s subject; `Restart` happens between messages and rebuilds
what the node keeps by running its recovery handlers over its log, message by message
(`Recovered`). `QueriesAssumption` and `UploadsAssumption` say what is assumed of the
deployment and of an upload: as many expected ends of file as joiners, batches of games
and of reviews, and a client's end of file at most once and behind them. The operators of `Filters`, `Joiners`, `Hybrids` and `Aggregators` are the
`Process` methods: they take what the node keeps for the message's client and the
message, and yield the *set* of outcomes `[rec, out]`, more than one where the code
ranges over a map, sorts equals or hashes a sequence id. A name and a number stand
for a queue: `<<"reviews_q4", 1>>` is `reviews_q4_1`. `Reader` and `QueuesOf` are the
topology of `configs/*.json`. Two abstractions make the instance small. The queries
share no state, only the first filters, which keep none: a behaviour follows one
query, and what a filter publishes for another is left out. The gateway's queues are
full from the start: a reader cannot tell a message that has not come from one it
has not taken. A game is its id; name, genres, year, playtime and platforms are looked
up in `Catalog`. A review carries its score and whether it is in English.

In `Results` a send on an unbuffered channel is one step of both goroutines
(`HandOver`, `LogMessage`, `LogAck`). `hand` is the record `logResults` has received
and not yet written. `RecoverRecord` is one turn of the loop in `recoverResults`, with
`replayed` the lines read so far, so the gateway can die in the middle of its recovery.
`lost` is history: a death came after the acknowledgement of a message and before its
record was written. The socket keeps what was sent before a death, so a client can
read a result off a dead connection. A client's first connection is tried once
(`DialFails`: it listens to nothing then, and still uploads); a connection it had and
lost it tries for again and again.

In `HealthCheck` a link is the goroutine `check(node)` of one checker; its `phase` is
where it stands between lookup, `Write`, `Read` and `docker restart`, which is two
steps (the container is stopped, then started), so that the checker can be killed in
between. `probes` and `acks` are the datagrams of its current connection; a read that
fails may lose them or leave them for a later read. A failure costs one of
`MaxFaults` unless the member's own state explains it (a dead container has no name
to look up, a dead or closed service answers nothing). `unpaid` is history: the
failures nothing has settled. The fairness of `Restart` in `Worker`, `Upload` and
`Results` rests on `AllComeBack`.

## 3. Runs

| run | checks | instance | result |
|---|---|---|---|
| `worker_safety` | `TypeOK`, `SequenceIdNamesContent`, `AcceptedOnceInOrder`, `AckedIsLogged`, `LoggedOnce`, `GeneratorResumes`, `InductiveInvariant`, `ImplementsSteps` (the steps of `ExactlyOnce`) | 1 queue, 2 sources, 2 keys, 3 messages with repeats up to 4 deliveries, 2 crashes | holds |
| `worker_refinement` | `ImplementsExactlyOnce` (refinement of `ExactlyOnce`, liveness included), `EventuallyAcked` | the same node, 3 deliveries, 1 crash | holds |
| `worker_two_queues` | `AcceptedOnceInOrder` | 2 input queues, 1 crash | **violated** |
| `worker_map_order` | `AcceptedOnceInOrder` | outputs in map order, 1 crash | **violated** |
| `upload` | `TypeOK`, `MovedPastIsPublished`, `FileOnceInOrder`, `UploadInvariant`, `WholeFileArrives`, `IdsInvariant`, `NumbersDiffer` | 5 records, batches of 2, 2 destinations, 2 clients asking for ids, 2 deaths | holds |
| `upload_final_rewind` | `RecordOnce` | 1 destination, 1 death | **violated** |
| `queries` | `TypeOK`, `EofBehindData`, `NothingAfterResult`, `ClientForgotten`, `NetworkInvariant`, `CountsInvariant`, `ResultsArrive`, and per query `PlatformsCounted`, `LongestPlayed`, `MostVoted`, `OnlyPopular`, `AllPopular`, `AbovePercentile` | 4 games, 2 joiners, 3 text filters, 2 clients in queries 1 and 2, 1 restart | holds |
| `query4_first_review` | `TargetReachedIsPublished` | query 4, no restart | **violated** |
| `query4_republish` | `ReportedOnce` | query 4, batches of 2, 1 restart | **violated** |
| `results` | `TypeOK`, `ResultsAreWhole`, `AckRecordIsTrue`, `RecordedOnce`, `ResultsInvariant`, `ClientsAreServed` | 2 clients, 1 simple and 1 accumulated query, 2 deaths | holds |
| `results_gone_client` | `QueueIsHandled` | 1 death | **violated** |
| `health_check` | `TypeOK`, `AlarmIsDeserved`, `HealthInvariant`, `AllComeBack` | 2 checkers in a ring, 1 node, 2 errors to a restart, 2 kills, 3 failures | holds |

**Why these bounds.** Worker: the two crashes let a retry die again; a message with
two outputs on one key, one with outputs on two keys and one whose outputs depend
on what came before are the three ways numbering can go wrong; a fourth delivery
makes room for an upstream repeat. Upload: five records in twos give two full
batches and a short last one; two destinations give a death between them. Ids: two
askers race for the lock, and the numbers start at 1, number 0 being the uploading
client's; the counter does not overflow in this run, so that `wrapped` is only covered
by the theorem. Queries: two joiners make the aggregators wait for two ends of file, and
three text filters are the fewest with a middle one in the round. Query 1 has one
client's games in three batches around another's. Query 2 keeps 2 of the games and one
upload has a client without any. Query 3 keeps 1: the running total of a game over two
batches evicts another, and joiner 1 has one that never gets in. In query 4 one game needs
votes from two batches, one has the votes but not the genre, one the genre but no English
votes. In query 5 three voted games in batches of one straddle the percentile.
Results: two clients are what it takes for one to stand in the other's way; two
queue messages are repeats, a part and an end of file. HealthCheck: two kills can take a checker in the middle of
its restart of the other or of the node, or both checkers; three failures are one
more than a restart needs, so one can be settled first; two errors instead of the
configured three are the fewest that can be in a row. The bounds themselves (`MaxFeed`, `MaxCrashes`,
`MaxRestarts`, `MaxKills`, `MaxFaults`) are guards of the environment's actions only.

`CHECK_DEADLOCK FALSE` everywhere: each model stops when its input is used up.

### What the violations show

1. **Two input queues** (`worker.go:312`). A joiner, killed after a Publish and
   before its Log, may read its other queue first after the restart. That message's
   output gets the id the first attempt used, and the next node drops it.
2. **Map order** (`text.go:97`, `review.go:126`, `joiner/percentile.go:81`). A retry
   gives the ids of the first attempt to other contents: one output lost, one twice.
3. **Last batch** (`file_reader.go:190`). A failed end of file rewinds the records but
   not the batch number; the file is sent again under new numbers. (After a second
   death the client even rewinds to a line it has not resent up to, and records
   can be missing: this is why `WholeFileArrives` excepts `rewound`.)
4. **First review** (`joiner/counter.go:77-79`). Its votes are dropped, so a result of
   query 4 depends on which queue was read first, with no crash at all.
5. **Restarted counter aggregator** (`aggregator.go:72`). Batches it had published are
   published again, under a new id.
6. **A client that left** (`results_listener.go:189`). A restarted gateway waits for
   ever on the channel of a client that got its last result and exited, before it
   reads the reports queue; all clients stand still. (`QueueIsHandled` asks this only if
   every client got its first connection, which is a corner of its own, below.)

Five further corners appear as exceptions of properties that otherwise hold: the end
of file of an upload is lost when the gateway dies between acknowledging the last
chunk and publishing it (`eofCut`, `sender.go:81-91`); a result is lost when the
gateway acknowledges a message whose record its log goroutine has not written yet
(`lost`, `results_listener.go:114`); a client that
dials the results port while the gateway is down never listens again, and the listener waits
for it as for one that left (`Deaf`, `client/results_listener.go:24-28`); two clients get the same id when the gateway dies
with its counter file truncated (`cut`, `file.go:57-65`) or the counter overflows
(`wrapped`), although `new_client_listener.go:11` calls the ids unique; and query 2 never
answers a client that sent no game (`Awaits`, `top_n_playtime.go:113`).

### Fairness

`Worker`: weak fairness of recovery, of the consume loop, of the restart (health
checker) and of each next node; none of arrivals or crashes. `Upload`: weak fairness of
client and gateway; crashes are bounded. `Queries`: as long as there is a message, some node handles one (`WF_vars(Work)`). This is
weaker than a fair share for each node or each queue, and it suffices since uploads are
finite; `reflect.Select` promises no more. `Results`: weak fairness of each goroutine and client, and strong fairness of
the two sends to the log channel: Go serves the goroutines blocked on a channel in
the order they came, so none waits for ever while the logger keeps receiving.
`HealthCheck`: weak fairness of each checking goroutine and of each service; failures
and kills are bounded. `AllComeBack` assumes that from some time on some checker always
runs: `random-kill.sh` spares healthchecker-1, and if all are dead together nobody
restarts anybody (which is why that run does not check deadlock).

## 4. Proofs

For every set of queues, sources and keys, every message set allowed by
`WorkerAssumption` (one content per source and number) and any number of crashes and
deliveries:

| theorem | module | property | also assumes |
|---|---|---|---|
| `TypeCorrect` | `WorkerProofs` | `TypeOK` | `TypedNode` |
| `AckedMessagesAreLogged` | `WorkerProofs` | `AckedIsLogged` | `TypedNode` |
| `MessagesAreLoggedOnce` | `WorkerProofs` | `LoggedOnce` | `TypedNode` |
| `GeneratorResumesAfterLog` | `WorkerProofs` | `GeneratorResumes` | `TypedNode` |
| `SequenceIdsNameContent` | `WorkerContentProofs` | `SequenceIdNamesContent` | `TypedNode`, `DeterministicNode`, `SingleQueue` |
| `DeliveredExactlyOnce` | `WorkerContentProofs` | `AcceptedOnceInOrder` | the same |
| `WorkerImplementsSteps` | `WorkerContentProofs` | `ImplementsSteps` | the same |
| `InductiveInvariantHolds` | `WorkerContentProofs` | `InductiveInvariant` | the same |
| `UploadIsInvariant` | `UploadProofs` | `UploadInvariant` | |
| `UploadTypeCorrect` | `UploadProofs` | `TypeOK` | |
| `MovedPastPublished` | `UploadProofs` | `MovedPastIsPublished` | |
| `FileDeliveredInOrder` | `UploadProofs` | `FileOnceInOrder` | |
| `CounterIsAhead` | `GatewayProofs` | `IdsInvariant` | |
| `NumbersAlwaysDiffer` | `GatewayProofs` | `NumbersDiffer` | |
| `GatewayKeepsBoth` | `GatewayProofs` | `UploadInvariant`, `IdsInvariant` of `NodeSpec` | |
| `GatewayIsCorrect` | `GatewayProofs` | `MovedPastIsPublished`, `FileOnceInOrder`, `NumbersDiffer` of `NodeSpec` | |
| `ResultsInvariantHolds` | `ResultsProofs` | `ResultsInvariant` | |
| `ResultsTypeCorrect` | `ResultsProofs` | `TypeOK` | |
| `AckRecordsAreTrue` | `ResultsProofs` | `AckRecordIsTrue` | |
| `MessagesRecordedOnce` | `ResultsProofs` | `RecordedOnce` | |
| `ResultsWhole` | `ResultsProofs` | `ResultsAreWhole` | |
| `HealthInvariantHolds` | `HealthCheckProofs` | `HealthInvariant` | |
| `HealthTypeCorrect` | `HealthCheckProofs` | `TypeOK` | |
| `AlarmsAreDeserved` | `HealthCheckProofs` | `AlarmIsDeserved` | |
| `NodesRespect` | `HandlerProofs` | | |
| `NetworkIsInvariant` | `QueriesProofs` | `NetworkInvariant` | |
| `EofIsBehindData` | `QueriesProofs` | `EofBehindData` | |
| `ResultIsLast` | `QueriesProofs` | `NothingAfterResult` | |
| `AnsweredIsForgotten` | `QueriesProofs` | `ClientForgotten` | |
| `CountsAreTotals` | `QueriesProofs` | `PlatformsCounted` | |
| `UpdateKeepsTop` | `HandlerProofs` | | totals only grow |
| `MergedTop` | `HandlerProofs` | | |

`SequenceIdsNameContent`, `DeliveredExactlyOnce` and `WorkerImplementsSteps` need
`DeterministicNode` and `SingleQueue`, and the violated runs show that neither can be left out. The other
modules assume only what is assumed of the constants: `UploadAssumption`,
`ClientIdsAssumption`, `TopNAssumption`, `HealthCheckAssumption`, `QueriesAssumption`, which
are about sizes and types, `UploadsAssumption`, which is what `Upload` says of the gateway's
publications (section 2), and `ResultsAssumption`, which is about the reports queue. It says that the
last node of a query numbers its messages, that a lower number behind a higher one is
a repeat, that nothing but repeats follows a client's end of file, and that a simple
query has one message per client. The first two are what the `Worker` theorems say
of any node's outputs, the third is `EofBehindData`, the fourth `ReportedOnce` for the
queries that never break it. `MCResults` satisfies it with repeats of both kinds.

**The argument for `Worker`.** None of the properties is inductive. The invariant is built in
four layers (`WorkerInv`), each proved from the ones below it:

1. *Input side* (`InputInv`): sources number densely (`FeedInv`); the log holds each
   source's messages in that order, densely (`LogSources`); the duplicate handler is
   the one the first `rec` records yield, whatever the node is doing (`DupAfter`), and
   the memory is that of those records. So a delivery that is not a duplicate is the
   *next* of its source and is not in the log, and one that is a duplicate is.
2. *Numbering* (`NumberInv(base)`): on each key the ids of the log are exactly
   `0..base-1` (`Covers`), each the first not used before it; the generator stands at what
   the recovered part of the log covers, at `base` when idle, and at `base` plus the outputs
   counted so far while publishing.
3. *Contents* (`OutFrom`): everything ever published was published for a logged record,
   with the content the node computes from the history before it, or by an attempt at
   the delivery that is first in the queue *now*. With one queue there is one such
   delivery, and a deterministic node numbers and fills all attempts alike. A record has
   the destinations of the node's outputs (`LogIsNode`).
4. *Next node* (`OutDense`, `NextInv`): each id is first published after the one before it,
   so what the duplicate handler drops is always a copy.

TLC checks the whole of it as `InductiveInvariant` in `worker_safety`, with the base that
can be read off the log (`Base`), and `InductiveInvariantHolds` proves it.

**The refinement.** `AcceptedOnceInOrder` says that accepted contents are published ones, not
that they are the right ones; `WorkerImplementsSteps` does: the n-th content accepted on a
key is the n-th output for that key of the messages of the queue, each processed once in the
order of the queue, after those before it. Three facts carry it. What was begun is still the
first delivery, and is done when it is acknowledged (`BegunInv`), so `Taken` only grows, by
the first message of the queue not yet in it. The id of an output is the number of outputs
before it on its key: for a record's output by `LogOrdered`, counting the ids below
(`LogPlacesCounted`), for an attempt's by `base` and the definition of `Number`
(`InputPlacesCounted`). And the next node lets through only the id it expects, which is
the number it let through before (`NextIsExpected`).

**The argument for `Upload`.** `FileOnceInOrder` looks at the destinations only, and says
nothing of records on their way. `UploadInvariant` adds three parts:

1. `Wire`: where the current batch is. The client never has more than one batch
   unacknowledged, and while the connection stands its records are those in the chunk,
   then those in the connection, all under the current batch number; the acknowledgement
   exists only when both are empty. Without a connection the gateway keeps nothing.
2. `Published`: a destination the message went to expects a later number, so does every
   one once the acknowledgement is due, and so on for each batch the client moved past.
   A death only forgets how far `publish` got; the resent batch meets `Seen`.
3. `InOrder`, unless the file was rewound: chunk and connection hold the records after
   `start` in order, and a destination that expects the current batch was given `start`
   records, one that has it was given all up to `BatchEnd`. So what is let through under a
   new number joins what is there, and a resent batch has the content it had.

`rewound` is why the third part needs its condition: `RewindFile` changes the records of a
number, which is finding 3.

**Client ids.** `NumbersDiffer` speaks of clients that have their id, and says nothing of
the number a restart will start from. `CounterAhead` adds it: while the gateway is up
every number out is below the counter, and while no number is being written the file
holds the counter; while it is down every number out is below the file. A death
between truncation and write breaks exactly this, which is why `cut` excuses it.

**The gateway process.** The run `upload` checks `NodeSpec`, in which both parts take turns
and die together. `NodeSteps` shows that each of its steps is a step or a stutter of `Upload`
and one of `ClientIds`, so `NodeSpec` implements both and every theorem about either holds
of it.

**The networks of the queries.** `EofBehindData`, `NothingAfterResult` and `ClientForgotten` have
one reason, which is not local: a node sends its end of file only when it got all of
those it waits for, so whoever sees the last end of file of a queue knows that everything
upstream is over. `NetworkInvariant` says so by counting. A node is *done* with a client
(`Done`) when its log has all the ends of file of the client that its queues get; a queue
holds as many of a client's ends of file as it has senders that are done
(`EndsCounted`); the last of as many as it gets has no data behind it (`EofBehindData`); and
what a node keeps of a client that it is not done with counts exactly the ends of file its
log has (`RecCounts`), while a node that is done keeps nothing (`RecFits`). The proof has
five steps:

1. *One message at one node* (`NodesRespect`). For each of the seventeen nodes: a message that
   is not the last end of file makes only data, of the kinds the readers expect
   (`Carried`), in queues the node is a sender of; the last one makes an end of file in every
   queue of `EndSenders`, each behind all else that goes there, and leaves `New(n)`.
2. *A node that is done gets nothing more* (`SendersDone`). Were there a message after the last
   end of file of one of its queues, it would contradict `EofBehindData` of that
   queue, so after it is done a node adds to no queue. With the fan-in of the
   aggregators this needs `Expected = Joiners`, and with two inputs that a joiner is done
   only when both are.
3. *The ring of the text filters.* Each puts counts into the joiners' queues, but only the last
   one its end of file. That the others are done by then goes back around the ring:
   a filter that is done has a predecessor that is done, so the one with the least number
   that is not cannot exist.
4. *Restarts.* What is rebuilt from a log entry by entry fits the entries read so far
   (`RecFits` over the first i of them); an entry that breaks this would be one of least
   number. It needs `LogIsTaken`: the log has each queue's messages in their order. The
   counter aggregator recovers with another handler than it works with
   (`CounterAggReplay`), and counts the same.
5. *The answer.* Only the node at the end reports, and reports the result, or its end, when it is
   done (`AnswerIsLast`). Everything upstream of it is then done as well, from queue to
   queue (`DoneIsForgotten`), so every record is `New(n)` and nothing is left to take.

Neither induction over data nor what a batch contains is needed: the ends of file are
where the code could go wrong, and the proof holds of any number of joiners and text
filters, of any upload, of all five queries at once.

**The counts of query 1.** `PlatformsCounted` compares a result with the games of the client's
upload that support a platform, counted as a set of batches and places (`Supporting`).
`CountsInvariant` adds what is so at every stage, beside `NetworkInvariant`:

1. *Filter.* The counter's queue has, place by place, the counts of the batches the filter took
   (`BatchesCounted`).
2. *Counter.* What it keeps of a client is how many of those games are in batches of its log
   (`CountersRight`), which says at once that none is counted twice, is lost or is another
   client's: a batch adds the games at its place, and no message is in the log twice
   (`TotalGrows`). `EofBehindData` gives that the end of file comes when the log has all
   batches of the client, so what is published then is the total (`TotalIsAll`).
3. *Aggregator.* Its queue has each client's total once, and the end of file behind it
   (`TotalsOnce`), so it reports the total and not the sum of two.
4. *Restarts.* A counter rebuilt from its log is right for each part of the log
   (`RecoveredCounts`), by the argument of step 4 above.

Sums over an upload would take induction over data; the size of a set that grows by one
batch does not.

**The top of query 3.** `IsTop(top, total)` says that `top` has at most N games with their
right totals, and that a game outside is there only because N games with no fewer votes
are inside. It is an invariant of `updateTop` for totals that only grow
(`UpdateKeepsTop`; the lowest game of a heap exists by `LowestIsLowest`), so evicted games
need not be remembered; joiners publish the sum so far, so totals do grow, as long as each
queue keeps its order. Each filter has the top of its joiner's games, and `MergedTop` says
that a top of their tops is a top of all. `MostVoted` is these two facts on the instance,
through filters, joiners, ends of file and restarts.

**Results.** A result is whole when nobody added a part twice, dropped one or sent too
early, and each of these is decided at another time by another goroutine, by what is in the
file, or by a recovery. `ResultsInvariant` ties them together:

1. *The file.* `InOrder`: the ids of a query ascend in the file, and the record on its way
   to it is above them. `DupIsAbove`: the duplicate handler stands right above the last
   record that the listener knows, be it because it logged it or because it has read it back
   (`Known`). So what `IsDuplicate` lets through is not in the file, which is `RecordedOnce`.
2. *File and queue.* `LoggedIsPast`: what was logged was in the queue no later than the
   message at hand, and unless a record was `lost` everything acknowledged is logged. When
   the end of a client's result is let through, all the parts were before it in the
   queue, so they are logged; hence `Accumulated` at that moment gives all of them.
3. *Parts.* `Accumulated`: until the end of a result is known, `acc` has the parts of the
   known messages, each at its place. After the end no part can be added, since `InOrder`
   and the assumption on the feed leave only repeats.
4. *Result under way.* `EndIsLogged`, `ResultsUnderWay`: pending results, those in a
   sender's hand, in a socket and with the client are whole. `Delivery` says where the one
   result of a sender is, and so that the acknowledgement it reads is the client's for *this*
   result, which gives `AckRecordIsTrue`: recovery forgets only results that are delivered.

`lost` stands in the second part: acknowledging before the record is written
(`results_listener.go:114`) loses it, and then a result is sent without the part.

**Health checkers.** `AlarmIsDeserved` compares a counter of the code with what really
happened. `errCount` and `connErr` are never above the failures nothing has settled
(`ProbesCounted`, `LookupsCounted`) as long as the member answers or runs; while it is
dead they may be, since its death explains the failures, and the invariant says nothing of
them. What has to be shown is that a member that comes back finds no such counter. Only
`docker restart` brings one back, each member is in the list of one checker only
(`OneWatcher`: the ring gives each checker one predecessor, `Owner` each node one owner), so
the goroutine that restarts it is the one that counted. A goroutine that has
begun to count lookups of a dead member goes on until it restarts it, and resets `connErr`; if it
was the probes that led to the restart, `connErr` holds no lookup that a death explains, and
`errCount` starts again with the next connection.

**Only model-checked**: the liveness properties and the fairness part of the refinement of
`ExactlyOnce` (the prover does not handle liveness under fairness or ENABLED), and of
`Queries` `TypeOK` and the contents of the results of queries 2 to 5: `LongestPlayed`,
`MostVoted`, `AbovePercentile`, `OnlyPopular` and `AllPopular`. These compare a result with a fold
over the whole upload (`GamesOf`, `ReviewsOf`), and what a fold computes takes induction over
data, which is out of the prover's reach. Of them only the heap of query 3 is proved, as above.

## 5. Not modelled, and why

- A broker that goes down, or a Publish that fails: the code logs the error and goes on;
  every model assumes RabbitMQ keeps its durable queues and their order.
- Torn or failed writes of the recovery file (`file.go:44-47`): records are written whole.
- Connections that fail while the gateway lives: the half filled chunk that `sender.go:55` keeps,
  an acknowledgement that goes to the new connection (`sender.go:121`), two `SendResults` of one
  client.
- Sequence ids that do not parse (`worker.go:321-324`): every publisher writes well formed
  ones. SIGTERM is a crash at an idle step.
- Client and gateway with different chunk sizes: both configurations say 100.
- Encoding of messages, configuration, logging, start-up.
- A crash inside a handler of a node of `Queries`: `Worker` says what it does to any node,
  `Queries` restarts nodes between messages only.
- The recovery of query 5's parts in the gateway (`persistence/recovery.go:105`), which parses
  them as query 4's: `Results` has one accumulated query.
- Two gateways: the deployment has one. Sequence sources drop the dash between gateway and
  client number (`sender.go:74`), which only two gateways could notice.
- A record that the CSV reader refuses (`file_reader.go:97-99`): every line of the file reads.
- The loop over `DialUDP` (`healthchecker.go:186-195`) is one step: it sends nothing and waits for
  nothing, so what fails a connection is the lookup.
- The array a heap is kept in: a heap is what it holds and what it pops.

## 6. What could come next

1. Connections that fail while the gateway lives (a `Lose` action beside `Crash` in `Upload`, which
   `MovedPastIsPublished` would not survive; two senders of one client), torn log records, a broker
   outage.
2. The recovery of query 5 in `Results`: the present instance with a second accumulated query
   has more than 700000 states and takes TLC longer than five minutes.
3. A run against the comment of `connect`, by which a node is restarted after maxErrors
   attempts to connect (`healthchecker.go:176-177`): a failed lookup is not retried there, and
   `connErr` survives the probes answered in between.
4. Proofs: `TypeOK` of `Queries`, and that every game and every review reaches the
   one joiner of its shard, which needs no fold over an upload.
