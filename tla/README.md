# Verification of yandex_kafka7

TLA+ specifications of the Go programs, the Kafka Connect plugin and the
scripts of this repository, TLC instances that check them, and TLAPS proofs.
Line numbers refer to the files under `src/`.

## 1. Inventory

The repository is a shop pipeline around two Kafka clusters. A shop program
publishes products; a Kafka Connect sink filters them by a list of allowed ids
into a file; a CLI client searches that file and publishes its search requests;
an analytic program consumes requests and answers with recommendations; a Spark
job computes popular products from HDFS; MirrorMaker copies topics from the
source to the target cluster.

| Component | State | Operations | Talks to |
|---|---|---|---|
| Batch consumer, `internal/infra/clients/kafka/consumer.go`, run by `cmd/analytic_client` | batch in hand, one goroutine per partition, position and assignment in librdkafka, committed offsets and membership in the broker | `StartBatchMessage`, `processPartition`, `commitPartition`, `rollbackPartition`, `rebalanceCallback` | broker, HDFS client or message processor |
| One-message consumer, `ReadOneMessage` | committed offset (auto-commit) of the clients' one group | subscribe, read one, close | broker, CLI |
| Producer, `.../kafka/producer.go` | librdkafka's local queue, one unbuffered `DeliveryChan`, counters of each call | `SendMessages`, `SetTopic`, `Stop` | broker; called by shop, CLI, and one goroutine per request in the analytic program |
| List of allowed products, `scripts/manage-products.sh`, `ProductFilter.configure` | the file, the file the container has mounted, the set in the filter | add, remove, clear; configure | operator, Docker, Kafka Connect |
| Filter and file sink, `ProductFilter.apply`, `FileSinkTask.put` | output file, consumed offset | filter, append | Kafka Connect, CLI (reads the file) |
| HDFS clients, `.../hdfs/*.go` | directories and files | two-step WebHDFS write, read | HDFS; `ProcessProducts`, recommendation service |
| Recommendation service, `internal/domain/recommendation_service.go` | popularity cache, loaded once | `ProcessMessage` | HDFS client, producer |
| Popularity job, `spark-analytics/` | output directory | read requests, rank, save | HDFS |
| Programs and topology: `cmd/*`, `internal/cli`, `internal/application`, `mirror-maker.properties`, `docker-compose.yml`, `sink-connector.json` | topics of the two clusters | which program reads and writes what, where | everything |
| Configuration, logging, setup scripts, credentials, monitoring | none that changes | | |

What is hard, and what makes each part correct:

- **Batch consumer.** A process keeps a batch across rebalances, commits with
  whatever membership it has, seeks after a failed write, abandons a writer that
  runs over its time and goes on without it, and may end at any point. It is
  right when no committed offset covers a message nobody has dealt with, when
  nothing is skipped, when messages are repeated only for a reason, and when one
  surviving process brings everything to HDFS.
- **Producer.** Concurrent calls share one delivery channel and one queue. It is
  right when a call that returns nil was about its own messages, when the calls
  never count more than was acknowledged, and when every call returns.
- **List of allowed products.** Three copies of the list (file, mount, set in the
  filter) and a script whose steps are not atomic and which looks at no exit code. It
  is right when its reports are true and when the restart it recommends makes the
  filter use the list; where it cannot be, what goes wrong must have a known cause and
  stay within known bounds.
- **Filter and file sink.** `put` appends, may stop in the middle of a line, keeps
  the exception to itself and is called again with the same records, after a start and
  after the task's consumer has lost its assignment. It is right
  when what Connect counts as delivered can be found in the file, when nothing is
  in it that the list did not allow, and when repetitions have a reason.
- **HDFS clients.** A write is several requests, a file name has the precision of
  a second, and calls come from many goroutines. It is right when acknowledged
  data is there, whole, and stays.
- **Recommendation service and popularity job.** A list that is saved once and
  loaded once. It is right when the one reaches the other, and when every answer
  fits its request and the list.
- **Clients and topology.** Requests and answers cross two clusters with a one-way
  mirror; all clients read the answers as one group that commits on its own. It is
  right when a search is answered where the client reads, and when a
  recommendation is not skipped and not read twice without a reason.

`PROJECT.json` lists every component with its status and every hazard with its
line and the properties that would catch it.

## 2. Modules

| Module | Models | Extends / instances |
|---|---|---|
| `OffsetLedger` | abstract: what a consumer group promises about committed offsets | |
| `BatchConsumer` | the group of batch consumers in both modes | refines `OffsetLedger` |
| `BatchConsumerProof` | theorems about `BatchConsumer` | extends it |
| `BatchConsumerCalmProof` | more theorems about it: repetitions, falling back, lost requests | extends `BatchConsumerProof` |
| `KafkaProducer` | concurrent calls of `SendMessages`, and `Stop` | |
| `KafkaProducerProof` | theorems about `KafkaProducer` | extends it |
| `AllowedProducts` | the list between script, mount and filter | |
| `AllowedProductsProof` | theorems about `AllowedProducts` | extends it |
| `ConnectSink` | filter and file sink, composed with the list | extends `AllowedProducts` |
| `ConnectSinkProof` | theorems about the composition | extends it and `AllowedProductsProof` |
| `HdfsStore` | writes and reads of the HDFS clients, popularity job, the service's list | |
| `HdfsStoreProof` | theorems about `HdfsStore` | extends it |
| `Pipeline` | search, mirror, recommendation service, one-message consumers | refines `OffsetLedger` |
| `PipelineProof` | theorems about `Pipeline` | extends it |
| `MCBatchConsumer`, `MCKafkaProducer`, `MCAllowedProducts`, `MCConnectSink`, `MCHdfsStore`, `MCPipeline` | the small instances | extend theirs |

How they meet: a `Write` of `BatchConsumer` is a whole `WriteRequestData` of
`HdfsStore`, and its orphaned writers are what makes two calls of `HdfsStore` carry
the same data; a task of `BatchConsumer` in processor mode is a `TakeRequest` and
`Answer` of `Pipeline`; a `Send` of `Pipeline` is a call of `KafkaProducer`; the list
that `Pipeline` starts with is what `HdfsStore` loads.

In every module an operator called `Bug...` is a plausible mistake in the
operator that follows it. No action uses one: each property is known to fail when
the mistake takes the operator's place (`PROJECT.json`, "mutants").

### BatchConsumer

One process of the group is an element of `Consumer`. Its variables are the
local state of `StartBatchMessage`: `batch[c][p]`, the offsets of the batch that
belong to `p` (`partitionGroup`, 34-38, 146-162); `stage[c][p]`, where the
goroutine of `p` is; `written[c][p]`, how far `ProcessProducts` is; `orphans[c]`,
the `ProcessProducts` goroutines a timeout has left behind; `tasks[c]`, the
`ProcessMessage` goroutines. `assigned` and `position` belong to librdkafka;
`committed`, `member` and `owner` to the broker. `handled`, `started` and `lost` record
what has become of each message; they are never read by a guard. A message is `lost` when
it was in a `ProcessMessage` goroutine whose send failed or whose process ended; it may
still be answered later, if its offset was not committed.

| Action | Code |
|---|---|
| `Start`, `Join` | `main` (analytic client), `Subscribe`; the join itself happens inside `Poll` |
| `Poll`, `Dispatch` | the collecting loop (104-138); grouping and one goroutine per partition (140-182) |
| `Write`, `WriteFail`, `Written` | `ProcessProducts` and the select's success branch |
| `Timeout`, `OrphanWrite`, `OrphanEnd` | `ctx.Done()` (245-247); `WriteRequestData` ignores its context, so the writer runs on |
| `HandOff`, `TaskDone`, `TaskFail` | processor mode (206-211), `ProcessMessage`, `SendRecommendation` |
| `Commit`, `CommitFail` | `commitPartition`: the error is logged, the result is nil |
| `Rollback`, `RollbackOutdated`, `RollbackFail` | `rollbackPartition`: sought; `ErrOutdated`, ignored; any other error, which ends the process |
| `BrokersDown`, `Stop`, `Exit`, `Crash` | the error returns of the loop, the panic in `main`, a kill |
| `Expire`, `Evict`, `Discover`, `Assign`, `Revoke`, `Release` | the coordinator and the rebalance protocol, from how the code uses them; `rebalanceCallback` only logs, so the batch stays in hand |

Decisions a reader should know:

- A commit is accepted from any current member, whether it owns the partition or
  not, and may move the committed offset backwards. `NoLoss` holds all the same;
  `FallsBackOnlyAfterFault` says when it may happen.
- Revocation has two halves: the library stops reading the partition at any time
  (`Revoke`, so that a seek is outdated), and gives it up at the next `Poll`
  (`Release`). Eviction by the coordinator frees the partitions at once, while
  the process goes on with its batch until it notices (`Discover`).
- A process may start again only after the coordinator has forgotten its former
  membership; in the program a new process is a new member, which is another
  element of `Consumer`.
- A poll that returns nothing, and an empty batch, change nothing and are
  stuttering. The return of one partition's error while the goroutines of the
  others still run is one step with the end of the process (`Exit`): between the
  deferred `Close` and the panic those goroutines may still write, as they may
  after an `Evict` that a `Crash` follows.
- No program runs HDFS mode at this commit: `cmd/analytic_client` sets a message
  processor, and `application.ConsumerApp` has no `main`. The mode is modelled
  because it is what most of consumer.go is written for.
- `MaxFaults` bounds the faults of the environment (crash, eviction, revocation,
  failed write, timeout, failed send, cancellation, loss of the brokers). A failed
  commit is not counted, so the properties about "no fault" cover it. A revocation is
  counted, and with the library's eager protocol every process that joins a running
  group causes some: "no fault" speaks of a group whose partitions stay where they are.

### KafkaProducer

A call of `SendMessages` goes through `idle`, `produce`, `wait` to what it
returns. The local queue holds a message until its report has been received
(`queued`, then `reports`). `Receive` takes any report, whosever it is, as line
114 does. `Stop` closes the client without a flush and then the channel; a waiting
call then receives nil events, which change nothing. The branches for
`kafka.Error` events (125-131) are not modelled: only delivery reports are sent to
a channel passed to `Produce`. `SetTopic` is left out: all callers of one producer
set the same topic.

### AllowedProducts

`content` is a small file system, `path` the file that stands at the path of the
list, `mounted` the one the container sees. Every command is in progress step by step:
`add` and `remove` are the check (`Ask`), the temporary file (`Temp`, what `jq` makes of
the list read now), `mv` (`Move`) and the report (`Report`); `clear` is a pipe whose
reader (`ClearRead`) and whose truncation (`ClearOpen`) come in either order, then
`ClearWrite` and the report. A file that is blank (not even an empty list) stays blank
under `jq`, and is an empty list to the filter.

The script has no `set -e`, so a failing tool is followed by the next line:

- `JqFail`: `cat` or `jq` fails (an id with a quote in it, no space, a kill) and nothing
  comes out. `mv` then puts the empty file at the path, and a `clear` leaves the list
  truncated. So an add or a remove alone can blank the list.
- `PutFail`: `mktemp` or `mv` fails, or the shell cannot open the list for writing. The
  list stays as it is, and the report is printed all the same.
- `Interrupt`: the operator stops the shell, at any step: also between `mv` and the
  report.

`promised` adds up the reports: it is what the operator may believe. `doubtful` holds
the ids whose last report did not come, or came of a failed `mv`; the next command that
changes or confirms such an id takes it out again. Any number of terminals may run the
script and nothing keeps their commands apart; the history variable `overlapped` records
that two commands have been in progress at the same time, and what is promised of the
reports is promised until then.

`Configure` is `loadAllowedProducts`: the ids of the mounted file, or nothing. A file
that is missing or cannot be read gives an empty set (ProductFilter.java:84-87, 98-100),
and the second is what happens to a file of `mktemp`: its mode is 0600, `mv` keeps that,
and the container's user may be another one (`FromTemp`). Only the file the repository
comes with is known to be readable. `RestartApplies` therefore says of a restart that the
filter has the list as it is or, where `mv` has put it there, none at all, but never an
older one.

Simplifications: the `mv` from the temporary directory is one step, also where it crosses
file systems; an id is plain text, so that `grep` finds exactly the ids that are in the
list, except in `JqFail`; the `cat` and `grep` of the check itself do not fail. The file
exists from the start, as in the repository, so `ensure_file_exists` has nothing to do;
`list` and `help` change nothing.

### ConnectSink

A record of the topic is what the filter sees in it: a product id, or one of three
kinds of `Special` (no value; JSON without a `product_id`, which is dropped; a value
that is not text or does not parse, which goes through). `Poll` reads up to
`MaxBatch` records and applies the filter; `Write` is one turn of the loop in
`FileSinkTask.put`. `CutOff` is a write that is cut short: a part of the record may be in
the file, up to all of it but its newline (`FileWriter` flushes when its buffer is full or
closed). With the `IOException` it is `WriteFail`, and the rest of the batch is
forgotten; with the end of the process it is `StopTask`, which may also come between two
records. A line is kept as what `parseFilteredProductLine` makes of it: which record its
`product_id` and its `name` come from, and whether a newline ended it; `AppendTo` merges a
record with a line that was cut short, where the first match of each field wins. `Store`
is Connect storing the offset.

The task reads from the stored offset in two cases, each of which is a new session
(`TakeUp`): `StartTask`, where it also configures its filter, and `Reassign`, where its
consumer has missed the session timeout and gets its assignment back within the running
task, with the filter it has. `torn` says that the last thing in the file is what a
`CutOff` has left, and `exposed` holds the records that may be missing from the file: those
a failing `put` had in hand, and the one that is appended to what is torn. The actions of
the list are those of `AllowedProducts` (`Edit`, `Restart`, `Configure`), so every
behaviour of the composition is one of the list (theorem `ListInSink`).

### HdfsStore

A call of `WriteRequestData` goes through `mkdir`, `create` and `put` to what it
returns, on the client `Init` picks. The native client (`client.go`) reads the clock
before it makes the directory, creates a file that must not exist, and closes it in a
deferred call whose error is not looked at (`CloseFail`). The WebHDFS client
(`webhdfs.go`) reads the clock after the directory. Both its requests say
`overwrite=true`; the first has no body, so `http.Client` follows the redirect of a
name node by itself and leaves an empty file (201), and the second one, at line 134,
sends the data. A redirect that comes back to the caller, which leaves the file as it
was and sends the data to its location (114-127), is the other outcome of `WebCreate`; any
other status is an error (129-132), one of `CreateFail`. Each failing request may have had its effect, or not
(`CreateFail`, `PutFail`). A call that hangs stays where it is; a process that dies in
the middle is a failed call whose report nobody reads. `Job` is the popularity job,
which can save only once because `saveAsTextFile` refuses an existing directory, and
`Load` is `loadPopularProducts`.

### Pipeline

A process of `cmd/client` runs one command. `Search` publishes a request in the source
cluster, as JSON text in a `[]byte` (which the JSON fallback wraps into base64, and
`ProcessMessage` unwraps) or as Avro, which `ProcessMessage` cannot read.
`MirrorRequest` and `MirrorAnswer` copy from the source to the target cluster.
`TakeRequest` and `Answer` are the analytic program in the cluster `site`; `AnswerLost`,
`AnswerAgain` and `Restart` are what may go wrong there: a restart makes the program read
again what it had not committed, and `lost` records the requests whose send failed or
whose goroutine died when they were committed already. `Subscribe`, `Read`, `Close`,
`CloseFail`, `Show`, `Nothing` and `Kill` are `ReadOneMessage` with auto-commit, in one
group for all clients (`GROUP_ID` defaults to `test-group` and auto-commit to true).
`Assign` and `Revoke` are the coordinator.

Abstractions: a search term or product name is a model value and `Contains` says which
name is inside which; clients search for the terms in `Searched`; an answer keeps its kind and its alternatives as a set, since the
service adds them in the order of the list. The auto-commit timer may commit before
`Close` does; that is a `Close` that comes earlier. A partition may also move from one
client to the next while nobody has read from it, or after a death.

## 3. What the runs check

| Run | Instance | Question and result |
|---|---|---|
| `batch_hdfs` | 2 processes, 1 partition of 3 messages (one does not decode), batches of 2, 3 faults | Type correctness; `NoLoss`, `InFlight`, `NoHoles`, `StageSound` (together the inductive invariant of the proofs); `RepeatsOnlyAfterFault`; `FallsBackOnlyAfterFault`; the refinement of `OffsetLedger`. All hold. |
| `batch_processor` | 2 processes, 2 partitions of 2 messages, batches of 2, 1 fault, processor mode | `NoLoss` with "handed to a goroutine" for "in HDFS"; `NoSilentDrop`: a committed request is answered or in a goroutine, or was lost with one, and in no other way; `RepeatsOnlyAfterFault`. All hold. |
| `batch_liveness` | 2 processes, 2 partitions of 2 messages (one does not decode), 1 fault, HDFS mode, with fairness | `EverythingHandled`: one process that stays up brings all to HDFS. Holds. |
| `batch_comment` | processor mode | Violated: a batch is committed before any of it is processed, against the comment at consumer.go:260. |
| `producer` | 3 calls of 2, 1 and 1 messages, queue of 3, 1 failed delivery, with fairness | The calls together never count more than was acknowledged; no report is lost between them; when all calls return nil, everything was delivered (`SuccessTogether`); only a queue that is full for good keeps a call from returning, not a stolen report, a failure or `Stop` (`OnlyFullQueueHolds`). Hold. |
| `producer_shared` | 2 calls of 1 message | Violated: one call returns nil because of the other's delivery. |
| `producer_queue_full` | 1 call of 4 messages, queue of 3 | Violated: the call never returns. |
| `allowed_products` | `ConnectSink` with 2 terminals, 2 products, 3 files; a topic of 3 records, polls of 2, 2 sessions; 1 fault: an interrupted command, a failing tool, or a write that fails or is cut off | Until commands overlap, the list is what the reports say, except for what is still to be reported or doubtful (`ReportsAreTrue`), and a lost list is lost for good and only by an unlucky or interrupted clear or a failing `jq` (`LostForGood`); a restart that no edit follows applies the list or an empty one (`RestartApplies`); what the connector is past can be found in the file, was dropped or is exposed (`NothingForgotten`), at most once per session (`OncePerSession`), and is on the list (`OnlyListed`). Hold. |
| `allowed_products_lost` | the list alone, 1 terminal, 2 products, 4 files, no interruptions | Violated: "Added product ID" of a product that is not in the list. |
| `hdfs_store` | 3 calls for one product, 3 seconds, 2 failed requests, all clients | A name whose every writer was acknowledged holds whole data of one of them; the native client never loses what it acknowledged and closed; a write whose second is over stays. Hold. |
| `hdfs_popular` | the same | Violated: after the job has saved its result, the service loads nothing. |
| `pipeline` | 1 search, 2 readers, 1 partition, 4 names one inside another, of which 2 are searched for, the empty list, a list of one of the searched names and a list of four, 3 faults, with fairness | No recommendation is skipped or committed twice (`OneCommits`); every answer fits; a readable search is answered through mirror, restarts and repetitions unless its goroutine was lost (`SearchIsAnswered`); the clients' group implements `OffsetLedger`. Hold. |

Why the bounds are enough. Two processes and three faults let a partition leave a
process and come back during one batch, with a late commit, an orphaned writer and a
failed seek on the way; three messages with batches of two make a batch that is not the
first one and a batch that is not full; two partitions make goroutines of one batch end
differently. The proofs then remove the bounds. Of the producer, three calls are enough
for a chain of stolen reports, and a queue of three for four messages gets full, for a
while or for good. Two products and three files let the list lose and regain a product
around a restart, and let each of two terminals move one. The constraint `Small` of
`allowed_products` keeps the two halves of the composition apart: where commands have
overlapped none fails; where they have, or one has failed, the task has taken up the topic
at most once and read nothing; and once it has read anything at most one file is moved to
the path. What the sink does with a list does not depend on how the list came about, and
the theorems have no such bound. The sink's topic has two products with a record between them that the
filter cannot judge, so that a line cut short meets another product's line, that
record's, or its own repetition; records without a value or without an id never become a
line and are left out of the instance. Three writes of one name are two that are
interleaved and one that comes later. In `pipeline` the partition can move from one reader to the other
between a read and a commit, and one search can be answered twice, once per list; one list
is shorter than the three alternatives and may be the search itself, one is longer. That
answers of two partitions do not interfere is left to the proofs. The real batch size (50) and queue (100000 by default) only stretch the
behaviours. Symmetry is used over processes, calls and, where no message is singled out
as undecodable, partitions; never in a run that checks liveness.

Deadlock is not checked where everything may come to rest: the log is finite,
processes may all have ended, calls return, commands are over.

**Fairness.** `BatchConsumer` assumes weak fairness of what the Go scheduler and
the two services do without being asked: the batch loop joins, polls and
dispatches, goroutines write, commit and seek, the coordinator expires dead
members and hands out free partitions, an evicted process notices. No fairness is
assumed for faults, for `Start`, or for orphaned writers. `Commit` and
`CommitFail` share one condition, so a run in which every commit fails is fair,
and `EverythingHandled` holds in it: the messages are in HDFS, only not committed.
The bounded number of faults is what makes "HDFS answers in the end" true.
`KafkaProducer` assumes that a call's goroutine runs, that its 30 seconds pass, and
that the client library answers each queued message; nothing about `Stop` or the
context. `Pipeline` assumes that the mirror copies, that the analytic program
polls, and that a `ProcessMessage` goroutine comes to its end; nothing about clients,
who read when somebody starts them. The other modules assume nothing.

**Findings** (`PROJECT.json`, "findings"): the commit before processing in
processor mode, the misattributed delivery reports, the endless retry on a full
queue, the list that `clear` can blank for good, and the popularity list that never
reaches the service, because the job's `part-00000` is a directory.

Further divergences between code and documentation, met while modelling and not
stated as runs:

- With `.env.analytic_client` the analytic program works in the target cluster, and
  `mirror-maker.properties` mirrors nothing back. README.md:101-102 has the topic
  `recommendations` "in both clusters", and README.md:290-292 and 432-442 have
  recommendations read from it in the source cluster, where none ever arrives. In
  `Pipeline` this is read off `Send`, `Mirrored` and `Read`; `SearchIsAnswered` speaks of
  the cluster the program works in.
- "Restart Kafka Connect to apply changes" (manage-products.sh:51, README.md:221-223)
  holds only if the connector's user may read the 0600 file that `mv` has put at the path.
- `ProcessMessage` writes nothing to HDFS, although README.md:96 and 247 say that
  requests are saved there; and `HDFS_KAFKA_DATA_PATH` is `/analytics` while the job
  is run on `/kafka_data`.
- A "personal" recommendation (README.md:71, 110) goes to whichever client of the one
  group reads first.
- `sink-connector.json` reads `shops_data_json`, the shop writes `shops_data`.
- `ENABLE_AUTO_COMMIT` is read and used nowhere (`SingleMessageConsumer` decides);
  `ReadMessage(200)` waits 200 nanoseconds.

## 4. What is proved

`BatchConsumerProof`, from `ConstantAssumption` alone, so for any set of processes
and partitions, any log, batch size, number of faults, undecodable messages, and
either mode:

| Theorem | Statement |
|---|---|
| `TypeCorrect` | `Spec => []TypeOK` |
| `AtLeastOnce` | `Spec => []NoLoss` |
| `NothingSkipped` | `Spec => []InFlight` |
| `BatchesHaveNoHoles` | `Spec => []NoHoles` |
| `StagesAreSound` | `Spec => []StageSound` |
| `ImplementsLedger` | `Spec => LedgerRefined` |

`NoLoss` is not inductive. A commit moves the committed offset to behind the last
message of a batch, so one must know that all of that batch is settled
(`StageSound`) and so is everything below it (`NoHoles`). That a batch has no holes
depends on where polling resumes: the position of an assigned partition has nothing
behind it that is neither settled nor in the batch (`InFlight`). And that holds
after an assignment because the committed offset is safe (`NoLoss`), and after a
rollback because the first message of a batch has nothing unsettled below it
(`NoHoles`). The inductive invariant `IInv` is `TypeOK` with these four, the three
local ones stated of one process and partition (`At`), so that a step has to be
looked at only where it acts: `UntouchedStays` disposes of every other place. The
refinement then needs two facts: a commit acknowledges a settled prefix
(`CommitAcknowledges`), and every other step leaves the committed offsets alone and
unsettles nothing (`StepEffects`).

`BatchConsumerCalmProof`, from the same assumption, in either mode. The first two are
about what the group does as long as nothing has failed (`faults = 0`), the third holds
through every fault:

| Theorem | Statement |
|---|---|
| `NoRepeats` | `Spec => []RepeatsOnlyAfterFault` |
| `NoFallBack` | `Spec => FallsBackOnlyAfterFault` |
| `NothingDropped` | `Spec => []NoSilentDrop` |

The invariant `Calm` says that an owner reads its partition alone: no writer is
orphaned, its batch is the contiguous stretch in front of its position and behind the
committed offset, and nothing of the partition is handled or handed over beyond what
its own goroutine is past (`DoneAt`). `NothingDropped` needs that what was ever handed over
is handled, in a goroutine, or lost with one (`Tracked`), and `NoLoss`: a committed message
was handed over.

`AllowedProductsProof`, from `AllowedAssumption`, for any terminals, products, files,
interruptions and failing tools:

| Theorem | Statement |
|---|---|
| `TypeCorrect` | `Spec => []TypeOK` |
| `RestartIsEnough` | `Spec => []RestartApplies` |
| `ReportsHold` | `Spec => []ReportsAreTrue` |
| `NoWayBack` | `Spec => LostForGood` |

`RestartApplies` is inductive once one knows that an unedited list is the mounted one
(`Fresh`). For the last two the invariant is `Truth`: as long as no two commands have
overlapped, none do now; a product on which a list that is not blank and the reports
disagree is doubtful or about to be reported (`Reported`); and what the one command in
progress has in its pipe is still made from the list at the path (`InHand`). The last part
is what an overlap breaks. Without one, a terminal that takes a step in the middle of a
command finds all others idle before and after (`OthersIdle`), so that only its own command
has to be looked at (`AloneIsEnough`).

`HdfsStoreProof`, from `StoreAssumption`:

| Theorem | Statement |
|---|---|
| `TypeCorrect` | `Spec => []TypeOK` |
| `AcknowledgedIsWhole` | `Spec => []AckedIsWhole` |
| `NativeIsSafe` | `Spec => []NativeKeeps` |
| `FinalIsFinal` | `Spec => FinalStays` |

The invariant says of each file who may have left it as it is: part of a call that has
not returned, or that failed, or the whole of one that has put; and of the native
client that a name has at most one call behind its `create`.

`ConnectSinkProof`, from `AllowedAssumption` and `SinkAssumption`, for any terminals,
products, log and bounds:

| Theorem | Statement |
|---|---|
| `ListInSink` | `SinkSpec => Spec`, so that every theorem of `AllowedProductsProof` holds in the composition |
| `SinkTypeCorrect` | `SinkSpec => []SinkTypeOK` |
| `ListedOnly` | `SinkSpec => OnlyListed` |
| `NothingIsForgotten` | `SinkSpec => []NothingForgotten` |
| `OncePerSessionHolds` | `SinkSpec => []OncePerSession` |

For `NothingForgotten` the invariant `Kept` says the same of what the running task is past
and has not in hand, and that a line that has not been ended is the last one and is `torn`:
so a whole record that is not found had been appended to such a line, and is `exposed`.
`OncePerSession` counts rows, so its invariant `Counted` gives every record the sessions it
has used up: its rows are no more than the sessions, and one fewer while it is still ahead
of the task or in the batch.

`KafkaProducerProof`, from `ProducerAssumption`, for any number of calls and messages:

| Theorem | Statement |
|---|---|
| `TypeCorrect` | `Spec => []TypeOK` |
| `CountsAreCovered` | `Spec => []CountedWereAcked` |
| `NoReportLost` | `Spec => []NoReportLeaks` |
| `AllAreOwn` | `Spec => []SuccessTogether` |
| `AloneIsOwn` | `OneCall` implies `Spec => []SuccessIsOwn`, which `producer_shared` finds violated for two calls; a corollary of `AllAreOwn` |

These properties compare sums over the calls with numbers of messages. The invariant
`Books` keeps the account message by message, so that no step has to add anything up:
`Whereabouts` says that a message is queued, reported or acknowledged only once it was
sent, never queued and reported or acknowledged at once, and that while nothing has failed
every one that was sent is in the queue or acknowledged; `Counting` that a call begins to
count when it has sent everything, and succeeds when it has counted as many; `Credited` that every delivery a call has counted can be put down to a message that
was acknowledged and whose report was received, no two to the same one. Its witness is a
map from messages to calls, which a step leaves alone (`SameCredits`) or extends by one
message (`CreditOneMore`). Only the theorems add up, by `SumCounts`: if each element of a
finite set is put down to one call, the counts of the calls add up to the size of the set.
The sum is the one of the community modules, which chooses an order of adding; `AddsOnce`
shows that the order does not matter. That is an induction over finite sets, whose
theorem the provers here cannot instantiate; it is made by looking at a minimal set on
which two ways of adding differ (`WFMin`).

`PipelineProof`, from `PipelineAssumption`:

| Theorem | Statement |
|---|---|
| `TypeCorrect` | `Spec => []TypeOK` |
| `ReadOnceIfClosed` | `Spec => []OneCommits` |
| `ImplementsLedger` | `Spec => LedgerRefined` |
| `EveryAnswerFits` | `Spec => []AnswersFit` |

`OneCommits` needs that a process which holds a message owns its partition and holds the
offset that is committed (`Held`). With it the refinement is short: a `Read` only adds to
what was read, because who waits has nothing in hand (`EmptyHanded`); a `Close`
acknowledges a prefix all of which was read (`CloseAcknowledges`); no other step touches
either (`ReadingStep`). For `AnswersFit`, what is appended fits the
list of that moment (`AnswerFits`), and later steps change neither the request nor the
answer (`Fine`).

So every safety property of a passing run is proved, for every value of the constants that
the assumptions allow. Only model-checked is liveness (`EverythingHandled`,
`OnlyFullQueueHolds`, `SearchIsAnswered`): it rests on fairness, fairness on ENABLED, and
that is out of the prover's reach.

## 5. Not modelled, and what is left

- Setup scripts, credentials, ACLs and monitoring are one-off I/O or settings of
  third-party programs. Of the configuration only the settings that decide behaviour
  are modelled; logging and the formatting of the CLI's output are not.
- The shop program is one call of `SendMessages` that is followed by `Stop`, an instance
  of `KafkaProducer`; reading its JSON file has no state. `application.ConsumerApp` has
  no `main`.
- Counting and ranking in the popularity job are Spark's; prices and categories of the
  product file take no decision.
- Registry errors of the serializers appear as failures of the calls that use them
  (`SerializeFail`, undecodable messages).
- Left to do: `Pipeline` and `BatchConsumer` in one specification, so that the one's
  `TakeRequest` is the other's batch and the loss of a committed request is the loss of an
  answer.
