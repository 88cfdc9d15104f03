---------------------------- MODULE BatchConsumer ----------------------------
\* The Kafka consumer group of internal/infra/clients/kafka/consumer.go.
\* 
\* Each process of the group runs KafkaConsumer.StartBatchMessage: collect
\* a batch, split it by partition, let one goroutine per partition process
\* its part, wait for all of them, repeat.  A partition goroutine works in
\* one of two modes:
\*   - HDFS mode (no MessageProcessor): the decoded messages are written
\*     to HDFS one after the other; then the batch is committed, or, after
\*     a failed write or a timeout, the position is rolled back;
\*   - processor mode: every message is handed to a goroutine of its own
\*     that nobody waits for, and the batch is committed at once.
\* 
\* Auto-commit is off, as .env.analytic_client has it.  The broker side
\* (committed offsets, group membership, partition ownership) and the
\* client library's assignment and position are external to src/ and are
\* modelled from how the code uses them.
EXTENDS Naturals, Sequences, FiniteSetsExt

CONSTANTS
    Consumer,      \* the consumer processes of the group
    Partition,     \* the partitions of the topic
    LogEnd,        \* the number of messages in each partition's log
    BatchSize,     \* const batchSize: the most messages in one batch
    Undecodable,   \* the messages that do not deserialize into a Product / Request
    UseProcessor,  \* TRUE iff a MessageProcessor is set
    MaxFaults,     \* bound: faults of the environment in one behaviour
    NoOwner        \* a partition that no member of the group owns

Offset  == 0 .. LogEnd - 1
Message == Partition \X Offset

ASSUME ConstantAssumption ==
    /\ LogEnd \in Nat
    /\ BatchSize \in Nat \ {0}
    /\ MaxFaults \in Nat
    /\ UseProcessor \in BOOLEAN
    /\ Undecodable \subseteq Message
    /\ NoOwner \notin Consumer

VARIABLES
    \* the broker
    committed,   \* committed[p]: the offset the group has committed in p
    member,      \* the processes the group coordinator counts as members
    owner,       \* owner[p]: the member that p is assigned to, or NoOwner
    \* the processes, all of it lost when one ends
    up,          \* up[c]: the process runs
    assigned,    \* assigned[c]: the partitions the client library reads for c
    position,    \* position[c][p]: the next offset Poll returns
    batch,       \* batch[c][p]: the messages of p in the batch in hand
    stage,       \* stage[c][p]: where the partition goroutine of p is
    written,     \* written[c][p]: how many messages of it ProcessProducts is past
    orphans,     \* orphans[c]: ProcessProducts goroutines left running by a timeout
    tasks,       \* tasks[c]: the messages whose ProcessMessage goroutine is alive
    \* what has become of the messages
    handled,     \* written to HDFS / answered by ProcessMessage
    started,     \* handed to a ProcessMessage goroutine
    lost,        \* in such a goroutine when its send failed or its process ended
    faults       \* how many faults there have been

broker   == <<committed, member, owner>>
working  == <<batch, stage, written>>
fate     == <<handled, started, lost>>
vars     == <<committed, member, owner, up, assigned, position, batch, stage,
              written, orphans, tasks, handled, started, lost, faults>>

Stage == {"idle", "wait", "handoff", "commit", "rollback"}

\* The batch loop is collecting when no partition goroutine is running;
\* only then does it call Poll.
Collecting(c) == up[c] /\ \A p \in Partition : stage[c][p] = "idle"

\* The batch in hand, split by partition.  (An operator named Bug... is
\* a plausible mistake in the operator that follows it; no action uses
\* one.  The properties are tested against them.)
BugInsertFront(s, o) == <<o>> \o s
Collect(s, o) == Append(s, o)

InBatch(c, p) == {<<p, batch[c][p][i]>> : i \in DOMAIN batch[c][p]}

BugLastOffset(s) == s[Len(s)]
BugSkipBatch(s)  == s[Len(s)] + 1
FirstOffset(s)   == s[1]

BugCountMessages(s) == Len(s)
BugOffByOne(s)      == s[Len(s)] + 2
NextOffset(s)       == s[Len(s)] + 1

BatchLen(c) == MapThenSumSet(LAMBDA p : Len(batch[c][p]), Partition)

\* One more fault; MaxFaults bounds them.
Fault == faults < MaxFaults /\ faults' = faults + 1

Init ==
    /\ committed = [p \in Partition |-> 0]
    /\ member = {}
    /\ owner = [p \in Partition |-> NoOwner]
    /\ up = [c \in Consumer |-> FALSE]
    /\ assigned = [c \in Consumer |-> {}]
    /\ position = [c \in Consumer |-> [p \in Partition |-> 0]]
    /\ batch = [c \in Consumer |-> [p \in Partition |-> <<>>]]
    /\ stage = [c \in Consumer |-> [p \in Partition |-> "idle"]]
    /\ written = [c \in Consumer |-> [p \in Partition |-> 0]]
    /\ orphans = [c \in Consumer |-> {}]
    /\ tasks = [c \in Consumer |-> {}]
    /\ handled = {}
    /\ started = {}
    /\ lost = {}
    /\ faults = 0

-----------------------------------------------------------------------------
\* Processes and group membership

\* A process starts, once the group has forgotten its previous life.
Start(c) ==
    /\ ~up[c]
    /\ c \notin member
    /\ up' = [up EXCEPT ![c] = TRUE]
    /\ UNCHANGED <<broker, assigned, position, working, orphans, tasks, fate, faults>>

\* Subscribe and every later rejoin happen inside Poll.
Join(c) ==
    /\ Collecting(c)
    /\ c \notin member
    /\ assigned[c] = {}
    /\ member' = member \cup {c}
    /\ UNCHANGED <<committed, owner, up, assigned, position, working, orphans, tasks,
                   fate, faults>>

\* The coordinator drops a member and frees its partitions.
Leave(c) ==
    /\ member' = member \ {c}
    /\ owner' = [p \in Partition |-> IF owner[p] = c THEN NoOwner ELSE owner[p]]
    /\ UNCHANGED committed

Forget(c) ==
    /\ up' = [up EXCEPT ![c] = FALSE]
    /\ assigned' = [assigned EXCEPT ![c] = {}]
    /\ batch' = [batch EXCEPT ![c] = [p \in Partition |-> <<>>]]
    /\ stage' = [stage EXCEPT ![c] = [p \in Partition |-> "idle"]]
    /\ written' = [written EXCEPT ![c] = [p \in Partition |-> 0]]
    /\ orphans' = [orphans EXCEPT ![c] = {}]
    /\ tasks' = [tasks EXCEPT ![c] = {}]
    /\ lost' = lost \cup tasks[c]
    /\ UNCHANGED <<position, handled, started>>

\* StartBatchMessage returns: the deferred Close leaves the group and main
\* panics on the error, which ends every goroutine of the process.
Exit(c) == up[c] /\ Leave(c) /\ Forget(c) /\ Fault

\* kafka.ErrAllBrokersDown while collecting.
BrokersDown(c) == Collecting(c) /\ Exit(c)

\* The context is cancelled.  It is looked at before a batch is started
\* and while waiting for the partition goroutines, never while collecting.
Stop(c) == (Collecting(c) => BatchLen(c) = 0) /\ Exit(c)

\* The process dies without leaving the group.
Crash(c) == up[c] /\ Forget(c) /\ Fault /\ UNCHANGED broker

\* The session of a dead process times out.
Expire(c) ==
    /\ ~up[c]
    /\ c \in member
    /\ Leave(c)
    /\ UNCHANGED <<up, assigned, position, working, orphans, tasks, fate, faults>>

\* The coordinator throws a live member out (missed heartbeats).  The
\* process learns of it later: Discover.
Evict(c) ==
    /\ up[c]
    /\ c \in member
    /\ Leave(c)
    /\ Fault
    /\ UNCHANGED <<up, assigned, position, working, orphans, tasks, fate>>

Discover(c) ==
    /\ up[c]
    /\ c \notin member
    /\ assigned[c] # {}
    /\ assigned' = [assigned EXCEPT ![c] = {}]
    /\ UNCHANGED <<broker, up, position, working, orphans, tasks, fate, faults>>

\* A rebalance gives the free partition p to c, which resumes it at the
\* committed offset (auto.offset.reset is earliest).  rebalanceCallback
\* only logs: the batch in hand stays as it is.
Assign(c, p) ==
    /\ Collecting(c)
    /\ c \in member
    /\ owner[p] = NoOwner
    /\ p \notin assigned[c]
    /\ owner' = [owner EXCEPT ![p] = c]
    /\ assigned' = [assigned EXCEPT ![c] = @ \cup {p}]
    /\ position' = [position EXCEPT ![c][p] = committed[p]]
    /\ UNCHANGED <<committed, member, up, working, orphans, tasks, fate, faults>>

\* A rebalance takes p from c: the client library stops reading it, at any
\* moment, and gives it up in the next Poll, where rebalanceCallback
\* neither commits nor drops what is in the batch.
Revoke(c, p) ==
    /\ up[c]
    /\ owner[p] = c
    /\ p \in assigned[c]
    /\ Fault
    /\ assigned' = [assigned EXCEPT ![c] = @ \ {p}]
    /\ UNCHANGED <<broker, up, position, working, orphans, tasks, fate>>

Release(c, p) ==
    /\ Collecting(c)
    /\ owner[p] = c
    /\ p \notin assigned[c]
    /\ owner' = [owner EXCEPT ![p] = NoOwner]
    /\ UNCHANGED <<committed, member, up, assigned, position, working, orphans, tasks,
                   fate, faults>>

-----------------------------------------------------------------------------
\* The batch loop

\* Poll returns the next message of p and it joins the batch.
Poll(c, p) ==
    /\ Collecting(c)
    /\ p \in assigned[c]
    /\ position[c][p] < LogEnd
    /\ BatchLen(c) < BatchSize
    /\ batch' = [batch EXCEPT ![c][p] = Collect(@, position[c][p])]
    /\ position' = [position EXCEPT ![c][p] = @ + 1]
    /\ UNCHANGED <<broker, up, assigned, stage, written, orphans, tasks, fate, faults>>

BugCommitFirst == "commit"
FirstStage     == IF UseProcessor THEN "handoff" ELSE "wait"

\* The batch is full or its deadline has passed: one goroutine for every
\* partition that occurs in it.  An empty batch is not dispatched.
Dispatch(c) ==
    /\ Collecting(c)
    /\ BatchLen(c) > 0
    /\ stage' = [stage EXCEPT ![c] =
                    [p \in Partition |->
                        IF batch[c][p] = <<>> THEN "idle" ELSE FirstStage]]
    /\ written' = [written EXCEPT ![c] = [p \in Partition |-> 0]]
    /\ UNCHANGED <<broker, up, assigned, position, batch, orphans, tasks, fate, faults>>

-----------------------------------------------------------------------------
\* processPartition, HDFS mode

\* ProcessProducts writes the next message; one that did not deserialize
\* is not in its list and leaves no trace.
Write(c, p) ==
    /\ up[c]
    /\ stage[c][p] = "wait"
    /\ written[c][p] < Len(batch[c][p])
    /\ written' = [written EXCEPT ![c][p] = @ + 1]
    /\ handled' = handled \cup ({<<p, batch[c][p][written[c][p] + 1]>>} \ Undecodable)
    /\ UNCHANGED <<broker, up, assigned, position, batch, stage, orphans, tasks, started,
                   lost, faults>>

\* A write fails and ProcessProducts returns false; what it wrote before
\* stays written.
WriteFail(c, p) ==
    /\ up[c]
    /\ stage[c][p] = "wait"
    /\ written[c][p] < Len(batch[c][p])
    /\ <<p, batch[c][p][written[c][p] + 1]>> \notin Undecodable
    /\ Fault
    /\ stage' = [stage EXCEPT ![c][p] = "rollback"]
    /\ UNCHANGED <<broker, up, assigned, position, batch, written, orphans, tasks, fate>>

BugLastMissing(c, p) == written[c][p] + 1 >= Len(batch[c][p])
AllWritten(c, p)     == written[c][p] = Len(batch[c][p])

\* ProcessProducts has returned true.
Written(c, p) ==
    /\ up[c]
    /\ stage[c][p] = "wait"
    /\ AllWritten(c, p)
    /\ stage' = [stage EXCEPT ![c][p] = "commit"]
    /\ UNCHANGED <<broker, up, assigned, position, batch, written, orphans, tasks, fate,
                   faults>>

\* The timeout (90% of max.poll.interval.ms) wins the select.  The HDFS
\* client ignores the context, so an unfinished ProcessProducts goes on
\* writing behind the batch loop's back.
Timeout(c, p) ==
    /\ up[c]
    /\ stage[c][p] = "wait"
    /\ Fault
    /\ stage' = [stage EXCEPT ![c][p] = "rollback"]
    /\ orphans' = [orphans EXCEPT ![c] = @ \cup {<<p, batch[c][p], written[c][p]>>}]
    /\ UNCHANGED <<broker, up, assigned, position, batch, written, tasks, fate>>

\* An orphaned ProcessProducts writes its next message, or fails and ends.
OrphanWrite(c) ==
    \E w \in orphans[c] :
        /\ w[3] < Len(w[2])
        /\ orphans' = [orphans EXCEPT ![c] = (@ \ {w}) \cup {<<w[1], w[2], w[3] + 1>>}]
        /\ handled' = handled \cup ({<<w[1], w[2][w[3] + 1]>>} \ Undecodable)
        /\ UNCHANGED <<broker, up, assigned, position, working, tasks, started, lost,
                       faults>>

OrphanEnd(c) ==
    \E w \in orphans[c] :
        /\ orphans' = [orphans EXCEPT ![c] = @ \ {w}]
        /\ UNCHANGED <<broker, up, assigned, position, working, tasks, fate, faults>>

-----------------------------------------------------------------------------
\* processPartition, processor mode

BugOnlyTheLast(c, p) == {<<p, BugLastOffset(batch[c][p])>>}
Spawned(c, p)        == InBatch(c, p)

\* One goroutine per message is started and the commit comes next.
HandOff(c, p) ==
    /\ up[c]
    /\ stage[c][p] = "handoff"
    /\ tasks' = [tasks EXCEPT ![c] = @ \cup Spawned(c, p)]
    /\ started' = started \cup Spawned(c, p)
    /\ stage' = [stage EXCEPT ![c][p] = "commit"]
    /\ UNCHANGED <<broker, up, assigned, position, batch, written, orphans, handled,
                   lost, faults>>

\* A ProcessMessage goroutine sends its recommendation.  For a message it
\* cannot decode it returns an error that nobody looks at.
TaskDone(c) ==
    \E m \in tasks[c] :
        /\ tasks' = [tasks EXCEPT ![c] = @ \ {m}]
        /\ handled' = handled \cup ({m} \ Undecodable)
        /\ UNCHANGED <<broker, up, assigned, position, working, orphans, started, lost,
                       faults>>

\* Sending the recommendation fails; that error is dropped as well.
TaskFail(c) ==
    \E m \in tasks[c] :
        /\ Fault
        /\ tasks' = [tasks EXCEPT ![c] = @ \ {m}]
        /\ lost' = lost \cup {m}
        /\ UNCHANGED <<broker, up, assigned, position, working, orphans, handled, started>>

-----------------------------------------------------------------------------
\* commitPartition and rollbackPartition

BugKeepBatch(c, p) ==
    /\ stage' = [stage EXCEPT ![c][p] = "idle"]
    /\ written' = [written EXCEPT ![c][p] = 0]
    /\ UNCHANGED batch

\* The partition goroutine returns nil: p leaves the batch.
Finish(c, p) ==
    /\ stage' = [stage EXCEPT ![c][p] = "idle"]
    /\ batch' = [batch EXCEPT ![c][p] = <<>>]
    /\ written' = [written EXCEPT ![c][p] = 0]

\* The broker takes a commit from any current member: it does not ask who
\* owns the partition.
Commit(c, p) ==
    /\ up[c]
    /\ stage[c][p] = "commit"
    /\ c \in member
    /\ committed' = [committed EXCEPT ![p] = NextOffset(batch[c][p])]
    /\ Finish(c, p)
    /\ UNCHANGED <<member, owner, up, assigned, position, orphans, tasks, fate, faults>>

\* The commit fails: the error is logged and the loop goes on.
CommitFail(c, p) ==
    /\ up[c]
    /\ stage[c][p] = "commit"
    /\ Finish(c, p)
    /\ UNCHANGED <<broker, up, assigned, position, orphans, tasks, fate, faults>>

\* Seek to the first message of the batch.
Rollback(c, p) ==
    /\ up[c]
    /\ stage[c][p] = "rollback"
    /\ p \in assigned[c]
    /\ position' = [position EXCEPT ![c][p] = FirstOffset(batch[c][p])]
    /\ Finish(c, p)
    /\ UNCHANGED <<broker, up, assigned, orphans, tasks, fate, faults>>

\* Seek answers ErrOutdated: a rebalance has taken the partition, which is
\* now somebody else's business.
RollbackOutdated(c, p) ==
    /\ up[c]
    /\ stage[c][p] = "rollback"
    /\ p \notin assigned[c]
    /\ Finish(c, p)
    /\ UNCHANGED <<broker, up, assigned, position, orphans, tasks, fate, faults>>

BugGoOn(c, p) ==
    /\ up[c]
    /\ stage[c][p] = "rollback"
    /\ Fault
    /\ Finish(c, p)
    /\ UNCHANGED <<broker, up, assigned, position, orphans, tasks, fate>>

\* Seek fails otherwise: "it is impossible to go on, or we lose messages".
RollbackFail(c, p) == stage[c][p] = "rollback" /\ Exit(c)

-----------------------------------------------------------------------------
Next ==
    \E c \in Consumer :
        \/ Start(c) \/ Join(c) \/ BrokersDown(c) \/ Stop(c) \/ Crash(c)
        \/ Expire(c) \/ Evict(c) \/ Discover(c)
        \/ Dispatch(c) \/ OrphanWrite(c) \/ OrphanEnd(c) \/ TaskDone(c) \/ TaskFail(c)
        \/ \E p \in Partition :
              \/ Assign(c, p) \/ Revoke(c, p) \/ Release(c, p) \/ Poll(c, p)
              \/ Write(c, p) \/ WriteFail(c, p) \/ Written(c, p) \/ Timeout(c, p)
              \/ HandOff(c, p) \/ Commit(c, p) \/ CommitFail(c, p)
              \/ Rollback(c, p) \/ RollbackOutdated(c, p) \/ RollbackFail(c, p)

Spec == Init /\ [][Next]_vars

-----------------------------------------------------------------------------
\* Fairness.  The batch loop runs whenever it can, its goroutines are
\* scheduled, HDFS and the broker answer, and the coordinator hands out
\* free partitions and notices dead members.  Nothing is assumed about
\* faults, nor about anybody restarting a process that has ended.
Fairness ==
    \A c \in Consumer :
        /\ WF_vars(Join(c)) /\ WF_vars(Expire(c)) /\ WF_vars(Discover(c))
        /\ WF_vars(Dispatch(c))
        /\ \A p \in Partition :
              /\ WF_vars(Assign(c, p)) /\ WF_vars(Release(c, p)) /\ WF_vars(Poll(c, p))
              /\ WF_vars(Write(c, p)) /\ WF_vars(Written(c, p))
              /\ WF_vars(Commit(c, p) \/ CommitFail(c, p))
              /\ WF_vars(Rollback(c, p) \/ RollbackOutdated(c, p))

FairSpec == Spec /\ Fairness

-----------------------------------------------------------------------------
\* Properties

\* Every variable has its type.
TypeOK ==
    /\ committed \in [Partition -> 0 .. LogEnd]
    /\ member \in SUBSET Consumer
    /\ owner \in [Partition -> Consumer \cup {NoOwner}]
    /\ up \in [Consumer -> BOOLEAN]
    /\ assigned \in [Consumer -> SUBSET Partition]
    /\ position \in [Consumer -> [Partition -> 0 .. LogEnd]]
    /\ batch \in [Consumer -> [Partition -> Seq(Offset)]]
    /\ stage \in [Consumer -> [Partition -> Stage]]
    /\ written \in [Consumer -> [Partition -> Nat]]
    /\ orphans \in [Consumer -> SUBSET (Partition \X Seq(Offset) \X Nat)]
    /\ tasks \in [Consumer -> SUBSET Message]
    /\ handled \in SUBSET Message
    /\ started \in SUBSET Message
    /\ lost \in SUBSET Message
    /\ faults \in 0 .. MaxFaults

\* The messages the group need not read again.  In HDFS mode these are the
\* ones in HDFS and the ones that do not decode; in processor mode the
\* ones that were handed to a goroutine, whatever became of it.
Settled == IF UseProcessor THEN started ELSE handled \cup Undecodable

\* At-least-once: a committed offset covers settled messages only, through
\* every order of rebalances, timeouts, rollbacks, orphaned writers, late
\* commits and crashes (consumer.go:252-286).
NoLoss == \A p \in Partition : \A o \in 0 .. committed[p] - 1 : <<p, o>> \in Settled

\* Offset o of p is settled or among the first n messages of c's batch.
Accounted(c, p, n, o) ==
    <<p, o>> \in Settled \/ \E j \in 1 .. n : batch[c][p][j] = o

\* Nothing is skipped in flight: what lies behind the position a process
\* reads a partition at is settled or in its batch.
InFlightAt(c, p) ==
    p \in assigned[c] =>
        \A o \in 0 .. position[c][p] - 1 : Accounted(c, p, Len(batch[c][p]), o)

InFlight == \A c \in Consumer, p \in Partition : InFlightAt(c, p)

\* A batch has no holes: everything below one of its messages is settled
\* or stands before it in the batch, even when the batch spans a partition
\* being lost and given back.  So its last offset may be committed once it
\* is written, and its first may be sought when it is not.
NoHolesAt(c, p) ==
    \A i \in 1 .. Len(batch[c][p]) : \A o \in 0 .. batch[c][p][i] - 1 :
        Accounted(c, p, i - 1, o)

NoHoles == \A c \in Consumer, p \in Partition : NoHolesAt(c, p)

\* A partition goroutine runs only for messages in hand, in the mode of its
\* process; what ProcessProducts is past is settled, and nothing is committed
\* before all of the batch is (consumer.go:202-249).
SettledUpTo(c, p, n) == \A i \in 1 .. n : <<p, batch[c][p][i]>> \in Settled

StageSoundAt(c, p) ==
    /\ stage[c][p] # "idle" => Len(batch[c][p]) > 0
    /\ stage[c][p] = "wait" => /\ ~UseProcessor
                               /\ written[c][p] <= Len(batch[c][p])
                               /\ SettledUpTo(c, p, written[c][p])
    /\ stage[c][p] = "handoff" => UseProcessor
    /\ stage[c][p] = "commit" => SettledUpTo(c, p, Len(batch[c][p]))

StageSound == \A c \in Consumer, p \in Partition : StageSoundAt(c, p)

\* "The messages are already processed once" when commitPartition runs
\* (the comment at consumer.go:260).
ProcessedWhenCommitting ==
    \A c \in Consumer : \A p \in Partition :
        stage[c][p] = "commit" => InBatch(c, p) \subseteq handled \cup Undecodable

\* In processor mode a committed message that was not answered still has
\* its goroutine, or was in one when its send failed or its process ended:
\* nothing else loses a request, neither a rebalance nor a late or failed
\* commit (consumer.go:206-211, 252-265, 289-312).
NoSilentDrop ==
    \A p \in Partition : \A o \in 0 .. committed[p] - 1 :
        \/ <<p, o>> \in handled \cup Undecodable
        \/ \E c \in Consumer : <<p, o>> \in tasks[c]
        \/ <<p, o>> \in lost

\* The committed offset of a partition falls back only after a rebalance,
\* a crash or another fault: the partition goroutines of an undisturbed
\* group commit in order.
FallsBackOnlyAfterFault ==
    [][\A p \in Partition : committed'[p] < committed[p] => faults > 0]_vars

\* The price of at-least-once is not paid by an undisturbed group: without
\* a fault no message is about to be written, or handed over, a second
\* time, also when commits fail.  (A revocation counts as a fault, so with the
\* library's eager protocol a process that joins a running group does.)
RepeatsOnlyAfterFault ==
    faults = 0 =>
        \A c \in Consumer, p \in Partition : stage[c][p] # "commit" =>
            \A i \in written[c][p] + 1 .. Len(batch[c][p]) :
                <<p, batch[c][p][i]>> \notin handled \cup started

\* As long as one process stays up, every message that decodes ends up in
\* HDFS (HDFS mode).
EverythingHandled ==
    (\E c \in Consumer : <>[]up[c]) => \A m \in Message \ Undecodable : <>(m \in handled)

\* The group implements the offset ledger.
Ledger == INSTANCE OffsetLedger WITH settled <- Settled, frontier <- committed

LedgerRefined == Ledger!LedgerSpec
=============================================================================
