-------------------------- MODULE BatchConsumerProof --------------------------
\* Theorems about BatchConsumer, for every group, log, batch size and mode.
EXTENDS BatchConsumer, SequenceTheorems, TLAPS

\* The strengthening that is inductive: what is in flight and what is in hand
\* say why a committed offset and a rolled-back position are safe.
At(c, p) == InFlightAt(c, p) /\ NoHolesAt(c, p) /\ StageSoundAt(c, p)
Core == NoLoss /\ \A c \in Consumer, p \in Partition : At(c, p)
IInv == TypeOK /\ Core

USE DEF Offset, Message

-------------------------------------------------------------------------------
\* Types

LEMMA InitTypes == Init => TypeOK
  BY ConstantAssumption DEF Init, TypeOK, Stage

\* The end of a process, and of a partition goroutine, keep the types of what
\* they clear.
LEMMA ForgetTypes ==
  ASSUME TypeOK, NEW c \in Consumer, Forget(c)
  PROVE  /\ up' \in [Consumer -> BOOLEAN] /\ assigned' \in [Consumer -> SUBSET Partition]
         /\ position' = position /\ batch' \in [Consumer -> [Partition -> Seq(Offset)]]
         /\ stage' \in [Consumer -> [Partition -> Stage]]
         /\ written' \in [Consumer -> [Partition -> Nat]]
         /\ orphans' \in [Consumer -> SUBSET (Partition \X Seq(Offset) \X Nat)]
         /\ tasks' \in [Consumer -> SUBSET Message] /\ lost' \in SUBSET Message
         /\ handled' = handled /\ started' = started
<1>1. up' \in [Consumer -> BOOLEAN] /\ assigned' \in [Consumer -> SUBSET Partition]
  BY DEF TypeOK, Forget
<1>2. /\ batch' \in [Consumer -> [Partition -> Seq(Offset)]]
      /\ written' \in [Consumer -> [Partition -> Nat]]
  BY DEF TypeOK, Forget
<1>3. stage' \in [Consumer -> [Partition -> Stage]]
  BY DEF TypeOK, Forget, Stage
<1>4. /\ orphans' \in [Consumer -> SUBSET (Partition \X Seq(Offset) \X Nat)]
      /\ tasks' \in [Consumer -> SUBSET Message] /\ lost' \in SUBSET Message
  BY DEF TypeOK, Forget
<1> QED
  BY <1>1, <1>2, <1>3, <1>4 DEF Forget

LEMMA FinishTypes ==
  ASSUME TypeOK, NEW c \in Consumer, NEW p \in Partition, Finish(c, p)
  PROVE  /\ batch' \in [Consumer -> [Partition -> Seq(Offset)]]
         /\ stage' \in [Consumer -> [Partition -> Stage]]
         /\ written' \in [Consumer -> [Partition -> Nat]]
<1>1. batch' \in [Consumer -> [Partition -> Seq(Offset)]]
  BY DEF TypeOK, Finish
<1>2. stage' \in [Consumer -> [Partition -> Stage]]
  BY DEF TypeOK, Finish, Stage
<1>3. written' \in [Consumer -> [Partition -> Nat]]
  BY DEF TypeOK, Finish
<1> QED
  BY <1>1, <1>2, <1>3

\* A fault is counted, and the coordinator drops a member, within the types.
LEMMA FaultType == TypeOK /\ Fault => faults' \in 0 .. MaxFaults
  BY ConstantAssumption DEF TypeOK, Fault

LEMMA LeaveTypes ==
  ASSUME TypeOK, NEW c \in Consumer, Leave(c)
  PROVE  /\ committed' = committed /\ member' \in SUBSET Consumer
         /\ owner' \in [Partition -> Consumer \cup {NoOwner}]
  BY DEF TypeOK, Leave

\* Every step keeps the types.
LEMMA NextTypes == TypeOK /\ StageSound /\ [Next]_vars => TypeOK'
<1> SUFFICES ASSUME TypeOK, StageSound, [Next]_vars PROVE TypeOK'
  OBVIOUS
<1> USE ConstantAssumption
<1>1. CASE UNCHANGED vars
  BY <1>1 DEF TypeOK, vars
<1>2. ASSUME NEW c \in Consumer, Start(c) PROVE TypeOK'
  BY <1>2 DEF TypeOK, Start, broker, working, fate
<1>3. ASSUME NEW c \in Consumer, Join(c) PROVE TypeOK'
  BY <1>3 DEF TypeOK, Join, broker, working, fate
<1>4. ASSUME NEW c \in Consumer, Exit(c) PROVE TypeOK'
  BY <1>4, ForgetTypes, LeaveTypes, FaultType DEF TypeOK, Exit
<1>5. ASSUME NEW c \in Consumer, Crash(c) PROVE TypeOK'
  BY <1>5, ForgetTypes, FaultType DEF TypeOK, Crash, broker
<1>6. ASSUME NEW c \in Consumer, Expire(c) PROVE TypeOK'
  BY <1>6 DEF TypeOK, Expire, Leave, broker, working, fate
<1>7. ASSUME NEW c \in Consumer, Evict(c) PROVE TypeOK'
  BY <1>7 DEF TypeOK, Evict, Leave, Fault, broker, working, fate
<1>8. ASSUME NEW c \in Consumer, Discover(c) PROVE TypeOK'
  BY <1>8 DEF TypeOK, Discover, broker, working, fate
<1>9. ASSUME NEW c \in Consumer, Dispatch(c) PROVE TypeOK'
  BY <1>9 DEF TypeOK, Dispatch, FirstStage, broker, working, fate, Stage
<1>10. ASSUME NEW c \in Consumer, OrphanWrite(c) PROVE TypeOK'
  <2>1. PICK w \in orphans[c] :
           /\ w[3] < Len(w[2])
           /\ orphans' = [orphans EXCEPT ![c] = (@ \ {w}) \cup {<<w[1], w[2], w[3] + 1>>}]
           /\ handled' = handled \cup ({<<w[1], w[2][w[3] + 1]>>} \ Undecodable)
           /\ UNCHANGED <<broker, up, assigned, position, working, tasks, started, lost, faults>>
    BY <1>10 DEF OrphanWrite
  <2>2. w \in Partition \X Seq(Offset) \X Nat
    BY DEF TypeOK
  <2>3. <<w[1], w[2], w[3] + 1>> \in Partition \X Seq(Offset) \X Nat
    BY <2>2
  <2>4. w[2][w[3] + 1] \in Offset
    BY <2>1, <2>2
  <2>5. handled' \in SUBSET Message
    BY <2>1, <2>2, <2>4 DEF TypeOK, Message
  <2>6. orphans' \in [Consumer -> SUBSET (Partition \X Seq(Offset) \X Nat)]
    BY <2>1, <2>3 DEF TypeOK
  <2>7. QED
    BY <2>1, <2>5, <2>6 DEF TypeOK, broker, working
<1>11. ASSUME NEW c \in Consumer, OrphanEnd(c) PROVE TypeOK'
  <2>1. PICK w \in orphans[c] :
           /\ orphans' = [orphans EXCEPT ![c] = @ \ {w}]
           /\ UNCHANGED <<broker, up, assigned, position, working, tasks, fate, faults>>
    BY <1>11 DEF OrphanEnd
  <2>2. orphans' \in [Consumer -> SUBSET (Partition \X Seq(Offset) \X Nat)]
    BY <2>1 DEF TypeOK
  <2>3. QED
    BY <2>1, <2>2 DEF TypeOK, broker, working, fate
<1>12. ASSUME NEW c \in Consumer, TaskDone(c) PROVE TypeOK'
  <2>1. PICK m \in tasks[c] :
           /\ tasks' = [tasks EXCEPT ![c] = @ \ {m}]
           /\ handled' = handled \cup ({m} \ Undecodable)
           /\ UNCHANGED <<broker, up, assigned, position, working, orphans, started, lost, faults>>
    BY <1>12 DEF TaskDone
  <2>2. handled' \in SUBSET Message
    BY <2>1 DEF TypeOK
  <2>3. tasks' \in [Consumer -> SUBSET Message]
    BY <2>1 DEF TypeOK
  <2>4. QED
    BY <2>1, <2>2, <2>3 DEF TypeOK, broker, working
<1>13. ASSUME NEW c \in Consumer, TaskFail(c) PROVE TypeOK'
  <2>1. PICK m \in tasks[c] :
           /\ Fault
           /\ tasks' = [tasks EXCEPT ![c] = @ \ {m}]
           /\ lost' = lost \cup {m}
           /\ UNCHANGED <<broker, up, assigned, position, working, orphans, handled, started>>
    BY <1>13 DEF TaskFail
  <2>2. tasks' \in [Consumer -> SUBSET Message] /\ lost' \in SUBSET Message
    BY <2>1 DEF TypeOK
  <2>3. faults' \in 0 .. MaxFaults
    BY <2>1 DEF TypeOK, Fault
  <2>4. QED
    BY <2>1, <2>2, <2>3 DEF TypeOK, broker, working
<1>14. ASSUME NEW c \in Consumer, NEW p \in Partition, Assign(c, p) PROVE TypeOK'
  BY <1>14 DEF TypeOK, Assign, broker, working, fate
<1>15. ASSUME NEW c \in Consumer, NEW p \in Partition, Revoke(c, p) PROVE TypeOK'
  BY <1>15, FaultType DEF TypeOK, Revoke, broker, working, fate
<1>16. ASSUME NEW c \in Consumer, NEW p \in Partition, Release(c, p) PROVE TypeOK'
  BY <1>16 DEF TypeOK, Release, broker, working, fate
<1>17. ASSUME NEW c \in Consumer, NEW p \in Partition, Poll(c, p) PROVE TypeOK'
  <2>1. position[c][p] \in 0 .. LogEnd - 1 /\ position[c][p] \in Offset
    BY <1>17 DEF Poll, TypeOK, Offset
  <2>2. Append(batch[c][p], position[c][p]) \in Seq(Offset)
    BY <2>1 DEF TypeOK
  <2>3. batch' \in [Consumer -> [Partition -> Seq(Offset)]]
    BY <1>17, <2>2 DEF Poll, Collect, TypeOK
  <2>4. position' \in [Consumer -> [Partition -> 0 .. LogEnd]]
    BY <1>17, <2>1 DEF Poll, TypeOK
  <2>5. QED
    BY <1>17, <2>3, <2>4 DEF Poll, TypeOK, broker, fate
<1>18. ASSUME NEW c \in Consumer, NEW p \in Partition, Write(c, p) PROVE TypeOK'
  <2>1. /\ written[c][p] < Len(batch[c][p])
        /\ written[c][p] \in Nat /\ batch[c][p] \in Seq(Offset)
    BY <1>18 DEF Write, TypeOK
  <2>2. batch[c][p][written[c][p] + 1] \in Offset
    <3>1. written[c][p] + 1 \in 1 .. Len(batch[c][p])
      BY <2>1
    <3> QED
      BY <2>1, <3>1, ElementOfSeq
  <2>3. handled' \in SUBSET Message
    BY <1>18, <2>2 DEF Write, TypeOK, Message
  <2>4. written' \in [Consumer -> [Partition -> Nat]]
    BY <1>18, <2>1 DEF Write, TypeOK
  <2>5. QED
    BY <1>18, <2>3, <2>4 DEF Write, TypeOK, broker
<1>19. ASSUME NEW c \in Consumer, NEW p \in Partition, WriteFail(c, p) PROVE TypeOK'
  <2>1. stage' \in [Consumer -> [Partition -> Stage]]
    BY <1>19 DEF WriteFail, TypeOK, Stage
  <2>2. faults' \in 0 .. MaxFaults
    BY <1>19 DEF WriteFail, TypeOK, Fault
  <2>3. QED
    BY <1>19, <2>1, <2>2 DEF WriteFail, TypeOK, broker, fate
<1>20. ASSUME NEW c \in Consumer, NEW p \in Partition, Written(c, p) PROVE TypeOK'
  BY <1>20 DEF TypeOK, Written, broker, working, fate, Stage
<1>21. ASSUME NEW c \in Consumer, NEW p \in Partition, Timeout(c, p) PROVE TypeOK'
  <2>1. stage' \in [Consumer -> [Partition -> Stage]]
    BY <1>21 DEF TypeOK, Timeout, Stage
  <2>2. orphans' \in [Consumer -> SUBSET (Partition \X Seq(Offset) \X Nat)]
    <3>1. <<p, batch[c][p], written[c][p]>> \in Partition \X Seq(Offset) \X Nat
      BY DEF TypeOK
    <3> QED
      BY <1>21, <3>1 DEF TypeOK, Timeout
  <2> QED
    BY <1>21, <2>1, <2>2, FaultType DEF TypeOK, Timeout, broker, fate
<1>22. ASSUME NEW c \in Consumer, NEW p \in Partition, HandOff(c, p) PROVE TypeOK'
  <2>1. stage' \in [Consumer -> [Partition -> Stage]]
    BY <1>22 DEF TypeOK, HandOff, Stage
  <2>2. Spawned(c, p) \subseteq Message
    <3>1. \A i \in DOMAIN batch[c][p] : batch[c][p][i] \in Offset
      BY DEF TypeOK
    <3> QED
      BY <3>1 DEF Spawned, InBatch
  <2>3. tasks' \in [Consumer -> SUBSET Message] /\ started' \in SUBSET Message
    BY <1>22, <2>2 DEF TypeOK, HandOff
  <2> QED
    BY <1>22, <2>1, <2>3 DEF TypeOK, HandOff, broker
<1>24. ASSUME NEW c \in Consumer, NEW p \in Partition, CommitFail(c, p) PROVE TypeOK'
  BY <1>24, FinishTypes DEF TypeOK, CommitFail, broker, fate
<1>26. ASSUME NEW c \in Consumer, NEW p \in Partition, RollbackOutdated(c, p) PROVE TypeOK'
  BY <1>26, FinishTypes DEF TypeOK, RollbackOutdated, broker, fate
<1>23. ASSUME NEW c \in Consumer, NEW p \in Partition, Commit(c, p) PROVE TypeOK'
  <2>1. Len(batch[c][p]) > 0
    BY <1>23 DEF Commit, StageSound, StageSoundAt, TypeOK
  <2>2. NextOffset(batch[c][p]) \in 0 .. LogEnd
    BY <2>1 DEF TypeOK, NextOffset
  <2> QED
    BY <1>23, <2>2, FinishTypes DEF TypeOK, Commit, fate
<1>25. ASSUME NEW c \in Consumer, NEW p \in Partition, Rollback(c, p) PROVE TypeOK'
  <2>1. Len(batch[c][p]) > 0
    BY <1>25 DEF Rollback, StageSound, StageSoundAt, TypeOK
  <2>2. FirstOffset(batch[c][p]) \in 0 .. LogEnd
    BY <2>1 DEF TypeOK, FirstOffset
  <2> QED
    BY <1>25, <2>2, FinishTypes DEF TypeOK, Rollback, broker, fate
<1> QED
  BY <1>1, <1>2, <1>3, <1>4, <1>5, <1>6, <1>7, <1>8, <1>9, <1>10, <1>11, <1>12, <1>13,
     <1>14, <1>15, <1>16, <1>17, <1>18, <1>19, <1>20, <1>21, <1>22, <1>23, <1>24, <1>25,
     <1>26 DEF Next, BrokersDown, Stop, RollbackFail

-------------------------------------------------------------------------------
\* The parts of Core at one process and partition

\* What is accounted for stays so while the batch is the same.
LEMMA AccountedStays ==
  ASSUME NEW c \in Consumer, NEW p \in Partition, NEW n, NEW o,
         Accounted(c, p, n, o), Settled \subseteq Settled', batch'[c][p] = batch[c][p]
  PROVE  Accounted(c, p, n, o)'
  BY DEF Accounted

\* A step that does not touch p at c keeps what Core says there: it may only
\* settle messages, or take p away.
LEMMA UntouchedStays ==
  ASSUME NEW c \in Consumer, NEW p \in Partition, At(c, p), Settled \subseteq Settled',
         batch'[c][p] = batch[c][p], stage'[c][p] = stage[c][p],
         written'[c][p] = written[c][p], position'[c][p] = position[c][p],
         p \in assigned'[c] => p \in assigned[c]
  PROVE  At(c, p)'
<1>1. InFlightAt(c, p)'
  BY AccountedStays DEF At, InFlightAt
<1>2. NoHolesAt(c, p)'
  BY AccountedStays DEF At, NoHolesAt
<1>3. StageSoundAt(c, p)'
  BY DEF At, StageSoundAt, SettledUpTo
<1> QED
  BY <1>1, <1>2, <1>3 DEF At

\* So does a partition goroutine that has ended, or has not begun.
LEMMA EmptyIsSound ==
  ASSUME NEW c \in Consumer, NEW p \in Partition,
         batch'[c][p] = <<>>, stage'[c][p] = "idle", InFlightAt(c, p)'
  PROVE  At(c, p)'
  BY DEF At, NoHolesAt, StageSoundAt

\* A step that settles messages and does not commit keeps NoLoss.
LEMMA NoLossStays ==
  ASSUME NoLoss, Settled \subseteq Settled', UNCHANGED committed
  PROVE  NoLoss'
  BY DEF NoLoss

-------------------------------------------------------------------------------
\* Core, by the shape of the steps

\* Membership, revocations, orphans and tasks: nothing that Core speaks of
\* moves, except that partitions are taken away and messages get settled.
LEMMA QuietKeepsCore ==
  ASSUME Core, UNCHANGED <<committed, position, working>>,
         \A c \in Consumer : assigned'[c] \subseteq assigned[c],
         Settled \subseteq Settled'
  PROVE  Core'
<1>1. ASSUME NEW c \in Consumer, NEW p \in Partition PROVE At(c, p)'
  <2>1. /\ batch'[c][p] = batch[c][p] /\ stage'[c][p] = stage[c][p]
        /\ written'[c][p] = written[c][p] /\ position'[c][p] = position[c][p]
        /\ p \in assigned'[c] => p \in assigned[c]
    BY DEF working
  <2> QED
    BY <2>1, UntouchedStays DEF Core
<1> QED
  BY <1>1, NoLossStays DEF Core

LEMMA MembershipKeepsCore ==
  ASSUME TypeOK, Core, NEW c \in Consumer,
         \/ Start(c) \/ Join(c) \/ Expire(c) \/ Evict(c) \/ Discover(c)
         \/ \E p \in Partition : Revoke(c, p) \/ Release(c, p)
  PROVE  Core'
<1>1. UNCHANGED <<committed, position, working, fate>>
  BY DEF Start, Join, Expire, Evict, Leave, Discover, Revoke, Release, broker
<1>2. \A d \in Consumer : assigned'[d] \subseteq assigned[d]
  <2>0. assigned \in [Consumer -> SUBSET Partition]
    BY DEF TypeOK
  <2>1. CASE UNCHANGED assigned
    BY <2>1
  <2>2. CASE Discover(c)
    BY <2>0, <2>2 DEF Discover
  <2>3. ASSUME NEW p \in Partition, Revoke(c, p) PROVE \A d \in Consumer : assigned'[d] \subseteq assigned[d]
    BY <2>0, <2>3 DEF Revoke
  <2> QED
    BY <2>1, <2>2, <2>3 DEF Start, Join, Expire, Evict, Release
<1>3. Settled' = Settled
  BY <1>1 DEF Settled, fate
<1> QED
  BY <1>1, <1>2, <1>3, QuietKeepsCore

LEMMA GoroutinesKeepCore ==
  ASSUME Core, NEW c \in Consumer,
         OrphanWrite(c) \/ OrphanEnd(c) \/ TaskDone(c) \/ TaskFail(c)
  PROVE  Core'
<1>1. UNCHANGED <<committed, position, working, assigned, started>>
  BY DEF OrphanWrite, OrphanEnd, TaskDone, TaskFail, broker, fate
<1>2. handled \subseteq handled'
  BY DEF OrphanWrite, OrphanEnd, TaskDone, TaskFail, fate
<1>3. Settled \subseteq Settled'
  BY <1>1, <1>2 DEF Settled
<1> QED
  BY <1>1, <1>3, QuietKeepsCore

\* A process ends: it has nothing in hand and reads nothing.
LEMMA ForgetKeepsCore ==
  ASSUME TypeOK, Core, NEW c \in Consumer, Forget(c), UNCHANGED committed
  PROVE  Core'
<1>1. Settled' = Settled
  BY DEF Settled, Forget
<1>2. ASSUME NEW d \in Consumer, NEW p \in Partition PROVE At(d, p)'
  <2>1. CASE d = c
    <3>1. batch'[c][p] = <<>> /\ stage'[c][p] = "idle" /\ assigned'[c] = {}
      BY DEF Forget, TypeOK
    <3> QED
      BY <2>1, <3>1, EmptyIsSound DEF InFlightAt
  <2>2. CASE d # c
    <3>1. /\ batch'[d] = batch[d] /\ stage'[d] = stage[d] /\ written'[d] = written[d]
          /\ position'[d] = position[d] /\ assigned'[d] = assigned[d]
      BY <2>2 DEF Forget, TypeOK
    <3> QED
      BY <3>1, <1>1, UntouchedStays DEF Core
  <2> QED
    BY <2>1, <2>2
<1> QED
  BY <1>1, <1>2, NoLossStays DEF Core

\* The rest happens at one process and partition.  It is enough to look there.
LEMMA LocalKeepsCore ==
  ASSUME TypeOK, Core, NEW c \in Consumer, NEW p \in Partition, NoLoss', At(c, p)',
         Settled \subseteq Settled',
         \A d \in Consumer, q \in Partition : d # c \/ q # p =>
             /\ batch'[d][q] = batch[d][q] /\ stage'[d][q] = stage[d][q]
             /\ written'[d][q] = written[d][q] /\ position'[d][q] = position[d][q]
             /\ q \in assigned'[d] => q \in assigned[d]
  PROVE  Core'
<1> SUFFICES ASSUME NEW d \in Consumer, NEW q \in Partition PROVE At(d, q)'
  BY DEF Core
<1>1. CASE d = c /\ q = p
  BY <1>1
<1>2. CASE d # c \/ q # p
  BY <1>2, UntouchedStays DEF Core
<1> QED
  BY <1>1, <1>2

\* A partition is read from the committed offset, behind which all is settled.
LEMMA AssignKeepsCore ==
  ASSUME TypeOK, Core, NEW c \in Consumer, NEW p \in Partition, Assign(c, p)
  PROVE  Core'
<1>1. UNCHANGED <<committed, working, fate>>
  BY DEF Assign
<1>2. Settled' = Settled
  BY <1>1 DEF Settled, fate
<1>3. NoLoss'
  BY <1>1, <1>2, NoLossStays DEF Core
<1>4. position'[c][p] = committed[p]
  BY DEF Assign, TypeOK
<1>5. InFlightAt(c, p)'
  BY <1>1, <1>2, <1>4 DEF InFlightAt, Accounted, Core, NoLoss
<1>6. NoHolesAt(c, p)'
  BY <1>1, <1>2, AccountedStays DEF NoHolesAt, Core, At, working
<1>7. StageSoundAt(c, p)'
  BY <1>1, <1>2 DEF StageSoundAt, SettledUpTo, Core, At, working
<1>8. \A d \in Consumer, q \in Partition : d # c \/ q # p =>
         position'[d][q] = position[d][q] /\ (q \in assigned'[d] => q \in assigned[d])
  BY DEF Assign, TypeOK
<1> QED
  BY <1>1, <1>2, <1>3, <1>5, <1>6, <1>7, <1>8, LocalKeepsCore DEF At, working

\* The next message joins the batch: what lies behind it was in flight.
LEMMA PollKeepsCore ==
  ASSUME TypeOK, Core, NEW c \in Consumer, NEW p \in Partition, Poll(c, p)
  PROVE  Core'
<1>a. PICK b \in Seq(Offset), x \in Offset : b = batch[c][p] /\ x = position[c][p]
  BY ConstantAssumption DEF Poll, TypeOK
<1>b. PICK n \in Nat : n = Len(b)
  OBVIOUS
<1>1. UNCHANGED <<committed, assigned, stage, written, fate>>
  BY DEF Poll, broker
<1>2. Settled' = Settled
  BY <1>1 DEF Settled, fate
<1>3. NoLoss'
  BY <1>1, <1>2, NoLossStays DEF Core
<1>4. p \in assigned[c] /\ batch'[c][p] = Append(b, x) /\ position'[c][p] = x + 1
  BY <1>a DEF Poll, Collect, TypeOK
<1>5. /\ Len(batch'[c][p]) = n + 1 /\ batch'[c][p][n + 1] = x
      /\ \A i \in 1 .. n : batch'[c][p][i] = b[i]
  BY <1>b, <1>4
<1>6. \A m \in 0 .. n, o \in Offset : Accounted(c, p, m, o) => Accounted(c, p, m, o)'
  BY <1>a, <1>2, <1>5, SMTT(30) DEF Accounted
<1>7. \A o \in 0 .. x - 1 : Accounted(c, p, n, o)'
  <2> SUFFICES ASSUME NEW o \in 0 .. x - 1 PROVE Accounted(c, p, n, o)'
    OBVIOUS
  <2>1. o \in Offset /\ n \in 0 .. n
    BY ConstantAssumption
  <2>2. Accounted(c, p, n, o)
    BY <1>a, <1>b, <1>4 DEF Core, At, InFlightAt
  <2> QED
    BY <2>1, <2>2, <1>6
<1>8. InFlightAt(c, p)'
  <2> SUFFICES ASSUME NEW o \in 0 .. x PROVE Accounted(c, p, n + 1, o)'
    BY <1>4, <1>5, ConstantAssumption DEF InFlightAt
  <2>1. CASE o = x
    BY <2>1, <1>5 DEF Accounted
  <2>2. CASE o \in 0 .. x - 1
    BY <2>2, <1>5, <1>7 DEF Accounted
  <2> QED
    BY <2>1, <2>2, <1>4, ConstantAssumption
<1>9. NoHolesAt(c, p)'
  <2> SUFFICES ASSUME NEW i \in 1 .. n + 1, NEW o \in 0 .. batch'[c][p][i] - 1
               PROVE  Accounted(c, p, i - 1, o)'
    BY <1>5 DEF NoHolesAt
  <2>1. CASE i = n + 1
    BY <2>1, <1>5, <1>7
  <2>2. CASE i \in 1 .. n
    <3>1. o \in 0 .. b[i] - 1 /\ b[i] \in Offset /\ i - 1 \in 0 .. n
      <4>1. b[i] \in Offset
        BY <2>2, <1>b, ElementOfSeq
      <4> QED
        BY <4>1, <2>2, <1>5
    <3>2. Accounted(c, p, i - 1, o) /\ o \in Offset
      BY <3>1, <2>2, <1>a, <1>b, ConstantAssumption DEF Core, At, NoHolesAt
    <3> QED
      BY <3>1, <3>2, <1>6
  <2> QED
    BY <2>1, <2>2, <1>5
<1>10. StageSoundAt(c, p)'
  BY <1>1 DEF Poll, Collecting, StageSoundAt
<1>11. \A d \in Consumer, q \in Partition : d # c \/ q # p =>
          batch'[d][q] = batch[d][q] /\ position'[d][q] = position[d][q]
  BY DEF Poll, TypeOK
<1> QED
  BY <1>1, <1>2, <1>3, <1>8, <1>9, <1>10, <1>11, LocalKeepsCore DEF At

\* A dispatched goroutine is past nothing yet.
LEMMA DispatchKeepsCore ==
  ASSUME TypeOK, Core, NEW c \in Consumer, Dispatch(c)
  PROVE  Core'
<1>1. UNCHANGED <<committed, assigned, position, batch, fate>>
  BY DEF Dispatch, broker
<1>2. Settled' = Settled
  BY <1>1 DEF Settled, fate
<1>3. ASSUME NEW d \in Consumer, NEW p \in Partition PROVE At(d, p)'
  <2>1. CASE d = c
    <3>1. /\ batch[c][p] \in Seq(Offset)
          /\ stage'[c][p] = IF batch[c][p] = <<>> THEN "idle" ELSE FirstStage
          /\ written'[c][p] = 0
      BY DEF Dispatch, TypeOK
    <3>2. StageSoundAt(c, p)'
      <4>1. batch[c][p] # <<>> => Len(batch[c][p]) > 0
        BY <3>1, EmptySeq
      <4>2. SettledUpTo(c, p, 0)'
        BY DEF SettledUpTo
      <4> QED
        BY <1>1, <3>1, <4>1, <4>2 DEF StageSoundAt, FirstStage
    <3>3. InFlightAt(c, p)' /\ NoHolesAt(c, p)'
      BY <1>1, <1>2, AccountedStays DEF Core, At, InFlightAt, NoHolesAt
    <3> QED
      BY <2>1, <3>2, <3>3 DEF At
  <2>2. CASE d # c
    <3>1. stage'[d] = stage[d] /\ written'[d] = written[d]
      BY <2>2 DEF Dispatch, TypeOK
    <3> QED
      BY <3>1, <1>1, <1>2, UntouchedStays DEF Core
  <2> QED
    BY <2>1, <2>2
<1> QED
  BY <1>1, <1>2, <1>3, NoLossStays DEF Core

\* ProcessProducts gets past one more message, which is then settled.
LEMMA WriteKeepsCore ==
  ASSUME TypeOK, Core, NEW c \in Consumer, NEW p \in Partition, Write(c, p)
  PROVE  Core'
<1>1. UNCHANGED <<committed, assigned, position, batch, stage, started>>
  BY DEF Write, broker
<1>2. PICK w \in Nat : w = written[c][p]
  BY DEF TypeOK
<1>3. /\ written'[c][p] = w + 1 /\ w < Len(batch[c][p])
      /\ handled' = handled \cup ({<<p, batch[c][p][w + 1]>>} \ Undecodable)
      /\ ~UseProcessor /\ SettledUpTo(c, p, w)
  BY <1>2 DEF Write, TypeOK, Core, At, StageSoundAt
<1>4. Settled \subseteq Settled' /\ <<p, batch[c][p][w + 1]>> \in Settled'
  BY <1>3 DEF Settled
<1>5. SettledUpTo(c, p, w + 1)'
  <2> SUFFICES ASSUME NEW i \in 1 .. w + 1 PROVE <<p, batch[c][p][i]>> \in Settled'
    BY <1>1 DEF SettledUpTo
  <2>1. CASE i = w + 1
    BY <2>1, <1>4
  <2>2. CASE i \in 1 .. w
    BY <2>2, <1>3, <1>4 DEF SettledUpTo
  <2> QED
    BY <2>1, <2>2
<1>6. StageSoundAt(c, p)'
  BY <1>1, <1>2, <1>3, <1>5 DEF Write, StageSoundAt, Core, At, TypeOK
<1>7. InFlightAt(c, p)' /\ NoHolesAt(c, p)'
  BY <1>1, <1>4, AccountedStays DEF Core, At, InFlightAt, NoHolesAt
<1>8. \A d \in Consumer, q \in Partition : d # c \/ q # p => written'[d][q] = written[d][q]
  BY DEF Write, TypeOK
<1> QED
  BY <1>1, <1>4, <1>6, <1>7, <1>8, NoLossStays, LocalKeepsCore DEF Core, At

\* A partition goroutine goes on to its commit, all of its batch being settled,
\* or to its rollback.
LEMMA StageKeepsCore ==
  ASSUME TypeOK, Core, NEW c \in Consumer, NEW p \in Partition,
         UNCHANGED <<committed, assigned, position, batch, written>>,
         Settled \subseteq Settled', stage[c][p] # "idle",
         \/ stage' = [stage EXCEPT ![c][p] = "rollback"]
         \/ /\ stage' = [stage EXCEPT ![c][p] = "commit"]
            /\ SettledUpTo(c, p, Len(batch[c][p]))'
  PROVE  Core'
<1>1. stage'[c][p] = "rollback" \/ (stage'[c][p] = "commit" /\ SettledUpTo(c, p, Len(batch[c][p]))')
  BY DEF TypeOK
<1>2. StageSoundAt(c, p)'
  BY <1>1 DEF StageSoundAt, Core, At
<1>3. InFlightAt(c, p)' /\ NoHolesAt(c, p)'
  BY AccountedStays DEF Core, At, InFlightAt, NoHolesAt
<1>4. \A d \in Consumer, q \in Partition : d # c \/ q # p => stage'[d][q] = stage[d][q]
  BY SMTT(30) DEF TypeOK
<1> QED
  BY <1>2, <1>3, <1>4, NoLossStays, LocalKeepsCore DEF Core, At

LEMMA ProcessingKeepsCore ==
  ASSUME TypeOK, Core, NEW c \in Consumer, NEW p \in Partition,
         WriteFail(c, p) \/ Timeout(c, p) \/ Written(c, p) \/ HandOff(c, p)
  PROVE  Core'
<1>1. UNCHANGED <<committed, assigned, position, batch, written>> /\ stage[c][p] # "idle"
  BY DEF WriteFail, Timeout, Written, HandOff, broker
<1>2. CASE WriteFail(c, p) \/ Timeout(c, p)
  <2>1. Settled' = Settled /\ stage' = [stage EXCEPT ![c][p] = "rollback"]
    BY <1>2 DEF WriteFail, Timeout, Settled, fate
  <2> QED
    BY <1>1, <2>1, StageKeepsCore
<1>3. CASE Written(c, p)
  <2>1. Settled' = Settled /\ stage' = [stage EXCEPT ![c][p] = "commit"]
    BY <1>3 DEF Written, Settled, fate
  <2>2. SettledUpTo(c, p, Len(batch[c][p]))
    BY <1>3 DEF Written, AllWritten, Core, At, StageSoundAt
  <2>3. SettledUpTo(c, p, Len(batch[c][p]))'
    BY <1>1, <2>1, <2>2 DEF SettledUpTo
  <2> QED
    BY <1>1, <2>1, <2>3, StageKeepsCore
<1>4. CASE HandOff(c, p)
  <2>1. /\ UseProcessor /\ stage' = [stage EXCEPT ![c][p] = "commit"]
        /\ started' = started \cup InBatch(c, p)
    BY <1>4 DEF HandOff, Spawned, Core, At, StageSoundAt
  <2>2. Settled \subseteq Settled'
    BY <2>1 DEF Settled
  <2>3. batch[c][p] \in Seq(Offset)
    BY DEF TypeOK
  <2>4. SettledUpTo(c, p, Len(batch[c][p]))'
    BY <1>1, <2>1, <2>3 DEF SettledUpTo, Settled, InBatch
  <2> QED
    BY <1>1, <2>1, <2>2, <2>4, StageKeepsCore
<1> QED
  BY <1>2, <1>3, <1>4

\* What a partition goroutine leaves behind when it ends.
LEMMA FinishLocal ==
  ASSUME TypeOK, NEW c \in Consumer, NEW p \in Partition, Finish(c, p)
  PROVE  /\ batch'[c][p] = <<>> /\ stage'[c][p] = "idle"
         /\ \A d \in Consumer, q \in Partition : d # c \/ q # p =>
               /\ batch'[d][q] = batch[d][q] /\ stage'[d][q] = stage[d][q]
               /\ written'[d][q] = written[d][q]
<1> USE DEF Finish, TypeOK
<1>1. /\ batch'[c][p] = <<>> 
      /\ \A d \in Consumer, q \in Partition : d # c \/ q # p => batch'[d][q] = batch[d][q]
  OBVIOUS
<1>2. /\ stage'[c][p] = "idle"
      /\ \A d \in Consumer, q \in Partition : d # c \/ q # p => stage'[d][q] = stage[d][q]
  OBVIOUS
<1>3. \A d \in Consumer, q \in Partition : d # c \/ q # p => written'[d][q] = written[d][q]
  OBVIOUS
<1> QED
  BY <1>1, <1>2, <1>3

\* A settled batch may be dropped: what it accounted for is settled.
LEMMA CommitFlight ==
  ASSUME TypeOK, Core, NEW c \in Consumer, NEW p \in Partition,
         stage[c][p] = "commit", UNCHANGED <<assigned, position, fate>>
  PROVE  InFlightAt(c, p)' /\ Settled' = Settled
<1>1. Settled' = Settled
  BY DEF Settled, fate
<1>2. ASSUME NEW o, Accounted(c, p, Len(batch[c][p]), o) PROVE <<p, o>> \in Settled
  BY <1>2 DEF Accounted, Core, At, StageSoundAt, SettledUpTo
<1> QED
  BY <1>1, <1>2 DEF InFlightAt, Accounted, Core, At

\* commitPartition: what lies below the last offset stands before it in the
\* batch or is settled, and the batch is settled.
LEMMA CommitKeepsCore ==
  ASSUME TypeOK, Core, NEW c \in Consumer, NEW p \in Partition,
         Commit(c, p) \/ CommitFail(c, p)
  PROVE  Core'
<1>1. /\ stage[c][p] = "commit" /\ Finish(c, p) /\ UNCHANGED <<assigned, position, fate>>
      /\ \/ committed' = [committed EXCEPT ![p] = NextOffset(batch[c][p])]
         \/ UNCHANGED committed
  BY DEF Commit, CommitFail, broker
<1>2. InFlightAt(c, p)' /\ Settled' = Settled
  BY <1>1, CommitFlight
<1>3. NoLoss'
  <2>1. CASE UNCHANGED committed
    BY <2>1, <1>2, NoLossStays DEF Core
  <2>2. CASE committed' = [committed EXCEPT ![p] = NextOffset(batch[c][p])]
    <3>1. PICK b \in Seq(Offset) : b = batch[c][p]
      BY DEF TypeOK
    <3>2. Len(b) \in Nat /\ Len(b) > 0 /\ SettledUpTo(c, p, Len(b))
      BY <1>1, <3>1 DEF Core, At, StageSoundAt
    <3>3. b[Len(b)] \in Offset
      <4>1. Len(b) \in 1 .. Len(b)
        BY <3>2
      <4> QED
        BY <4>1, ElementOfSeq
    <3>4. ASSUME NEW o \in 0 .. b[Len(b)] PROVE <<p, o>> \in Settled
      <4>1. CASE o = b[Len(b)]
        BY <4>1, <3>1, <3>2 DEF SettledUpTo
      <4>2. CASE o \in 0 .. b[Len(b)] - 1
        <5>1. Accounted(c, p, Len(b) - 1, o)
          BY <4>2, <3>1, <3>2 DEF Core, At, NoHolesAt
        <5> QED
          BY <5>1, <3>1, <3>2 DEF Accounted, SettledUpTo
      <4> QED
        BY <4>1, <4>2, <3>3, ConstantAssumption
    <3>5. ASSUME NEW q \in Partition, NEW o \in 0 .. committed'[q] - 1
          PROVE  <<q, o>> \in Settled
      <4>1. CASE q = p
        <5>1. committed'[q] = b[Len(b)] + 1
          BY <4>1, <2>2, <3>1 DEF NextOffset, TypeOK
        <5> QED
          BY <4>1, <5>1, <3>3, <3>4, ConstantAssumption
      <4>2. CASE q # p
        BY <4>2, <2>2 DEF TypeOK, Core, NoLoss
      <4> QED
        BY <4>1, <4>2
    <3> QED
      BY <3>5, <1>2 DEF NoLoss
  <2> QED
    BY <1>1, <2>1, <2>2
<1>4. At(c, p)'
  BY <1>1, <1>2, FinishLocal, EmptyIsSound
<1> QED
  BY <1>1, <1>2, <1>3, <1>4, FinishLocal, LocalKeepsCore

\* rollbackPartition: everything below the first offset of a batch is settled,
\* so a seek to it skips nothing; and without a seek the partition is gone.
LEMMA RollbackKeepsCore ==
  ASSUME TypeOK, Core, NEW c \in Consumer, NEW p \in Partition,
         Rollback(c, p) \/ RollbackOutdated(c, p)
  PROVE  Core'
<1>1. /\ stage[c][p] = "rollback" /\ Finish(c, p) /\ UNCHANGED <<committed, assigned, fate>>
      /\ \/ position' = [position EXCEPT ![c][p] = FirstOffset(batch[c][p])]
         \/ UNCHANGED position /\ p \notin assigned[c]
  BY DEF Rollback, RollbackOutdated, broker
<1>2. Settled' = Settled
  BY <1>1 DEF Settled, fate
<1>3. InFlightAt(c, p)'
  <2>1. CASE p \notin assigned[c]
    BY <2>1, <1>1 DEF InFlightAt
  <2>2. CASE position' = [position EXCEPT ![c][p] = FirstOffset(batch[c][p])]
    <3>1. Len(batch[c][p]) \in Nat /\ Len(batch[c][p]) > 0
      BY <1>1 DEF Core, At, StageSoundAt, TypeOK
    <3>2. position'[c][p] = batch[c][p][1]
      BY <2>2 DEF FirstOffset, TypeOK
    <3>3. ASSUME NEW o \in 0 .. batch[c][p][1] - 1 PROVE <<p, o>> \in Settled
      <4>1. Accounted(c, p, 1 - 1, o)
        BY <3>1 DEF Core, At, NoHolesAt
      <4> QED
        BY <4>1 DEF Accounted
    <3> QED
      BY <3>2, <3>3, <1>2 DEF InFlightAt, Accounted
  <2> QED
    BY <1>1, <2>1, <2>2
<1>4. At(c, p)'
  BY <1>1, <1>3, FinishLocal, EmptyIsSound
<1>5. \A d \in Consumer, q \in Partition : d # c \/ q # p => position'[d][q] = position[d][q]
  BY <1>1 DEF TypeOK
<1> QED
  BY <1>1, <1>2, <1>4, <1>5, NoLossStays, FinishLocal, LocalKeepsCore DEF Core

-------------------------------------------------------------------------------
\* The theorems

LEMMA InitCore == Init => Core
<1> SUFFICES ASSUME Init PROVE Core
  OBVIOUS
<1>1. NoLoss
  BY DEF Init, NoLoss
<1>2. ASSUME NEW c \in Consumer, NEW p \in Partition PROVE At(c, p)
  BY DEF Init, At, InFlightAt, NoHolesAt, StageSoundAt
<1> QED
  BY <1>1, <1>2 DEF Core

LEMMA NextCore == TypeOK /\ Core /\ [Next]_vars => Core'
<1> SUFFICES ASSUME TypeOK, Core, [Next]_vars PROVE Core'
  OBVIOUS
<1>1. CASE UNCHANGED vars
  <2>1. Settled' = Settled /\ UNCHANGED <<committed, position, working, assigned>>
    BY <1>1 DEF vars, Settled, working
  <2> QED
    BY <2>1, QuietKeepsCore
<1>2. ASSUME NEW c \in Consumer, Exit(c) \/ Crash(c) PROVE Core'
  BY <1>2, ForgetKeepsCore DEF Exit, Crash, Leave, broker
<1>3. ASSUME NEW c \in Consumer,
             \/ BrokersDown(c) \/ Stop(c) \/ \E p \in Partition : RollbackFail(c, p)
      PROVE  Core'
  BY <1>2, <1>3 DEF BrokersDown, Stop, RollbackFail
<1> QED
  BY <1>1, <1>2, <1>3, MembershipKeepsCore, GoroutinesKeepCore, AssignKeepsCore,
     PollKeepsCore, DispatchKeepsCore, WriteKeepsCore, ProcessingKeepsCore,
     CommitKeepsCore, RollbackKeepsCore DEF Next

LEMMA CoreIsStageSound == Core => StageSound
  BY DEF Core, At, StageSound

LEMMA Inductive == Spec => []IInv
<1>1. Init => IInv
  BY InitTypes, InitCore DEF IInv
<1>2. IInv /\ [Next]_vars => IInv'
  BY NextTypes, NextCore, CoreIsStageSound DEF IInv
<1> QED
  BY <1>1, <1>2, PTL DEF Spec

\* The state of the group is always well typed.
THEOREM TypeCorrect == Spec => []TypeOK
<1>1. IInv => TypeOK
  BY DEF IInv
<1> QED
  BY <1>1, Inductive, PTL

\* At-least-once: the committed offset of a partition never covers a message
\* that is not settled, for any number of processes and partitions, any log
\* and batch size, any number of faults and in both modes of
\* processPartition (consumer.go:202-286).
THEOREM AtLeastOnce == Spec => []NoLoss
<1>1. IInv => NoLoss
  BY DEF IInv, Core
<1> QED
  BY <1>1, Inductive, PTL

\* No process skips a message of a partition it reads (consumer.go:110-138,
\* 268-286).
THEOREM NothingSkipped == Spec => []InFlight
<1>1. IInv => InFlight
  BY DEF IInv, Core, At, InFlight
<1> QED
  BY <1>1, Inductive, PTL

\* The batch of a process has no holes, whatever rebalances it spans.
THEOREM BatchesHaveNoHoles == Spec => []NoHoles
<1>1. IInv => NoHoles
  BY DEF IInv, Core, At, NoHoles
<1> QED
  BY <1>1, Inductive, PTL

\* A partition goroutine runs only for messages in hand, and commits them only
\* when they are settled (consumer.go:202-249).
THEOREM StagesAreSound == Spec => []StageSound
<1>1. IInv => StageSound
  BY CoreIsStageSound DEF IInv
<1> QED
  BY <1>1, Inductive, PTL

-------------------------------------------------------------------------------
\* The group implements the offset ledger: a commit is an Acknowledge of a
\* settled prefix, and every other step settles messages or nothing at all.

LEMMA SettledType ==
  /\ TypeOK => Settled \in SUBSET Message
  /\ TypeOK' => Settled' \in SUBSET Message
<1>1. Undecodable \subseteq Message
  BY ConstantAssumption
<1>2. TypeOK => handled \subseteq Message /\ started \subseteq Message
  BY DEF TypeOK
<1>3. TypeOK' => handled' \subseteq Message /\ started' \subseteq Message
  BY DEF TypeOK
<1> QED
  BY <1>1, <1>2, <1>3 DEF Settled

\* Messages only get settled, and only a commit moves a committed offset.
LEMMA StepEffects ==
  ASSUME [Next]_vars
  PROVE  /\ Settled \subseteq Settled'
         /\ UNCHANGED committed \/ \E c \in Consumer, p \in Partition : Commit(c, p)
<1> DEFINE Calm == UNCHANGED <<committed, handled, started>>
<1>1. CASE UNCHANGED vars
  BY <1>1 DEF vars, fate, Settled
<1>2. ASSUME NEW c \in Consumer,
             \/ Start(c) \/ Join(c) \/ Expire(c) \/ Evict(c) \/ Discover(c) \/ Dispatch(c)
             \/ Exit(c) \/ Crash(c) \/ OrphanEnd(c) \/ TaskFail(c)
      PROVE  Calm
  BY <1>2 DEF Start, Join, Expire, Evict, Leave, Discover, Dispatch, Exit, Crash, Forget,
              OrphanEnd, TaskFail, broker, fate
<1>3. ASSUME NEW c \in Consumer, NEW p \in Partition,
             \/ Assign(c, p) \/ Revoke(c, p) \/ Release(c, p) \/ Poll(c, p)
             \/ WriteFail(c, p) \/ Timeout(c, p) \/ Written(c, p) \/ CommitFail(c, p)
             \/ Rollback(c, p) \/ RollbackOutdated(c, p)
      PROVE  Calm
  BY <1>3 DEF Assign, Revoke, Release, Poll, WriteFail, Timeout, Written, CommitFail, Rollback,
              RollbackOutdated, broker, fate
<1>4. ASSUME NEW c \in Consumer,
             \/ OrphanWrite(c) \/ TaskDone(c)
             \/ \E p \in Partition : Write(c, p) \/ HandOff(c, p)
      PROVE  UNCHANGED committed /\ handled \subseteq handled' /\ started \subseteq started'
  BY <1>4 DEF OrphanWrite, TaskDone, Write, HandOff, broker, fate
<1>5. ASSUME NEW c \in Consumer, NEW p \in Partition, Commit(c, p) PROVE UNCHANGED <<handled, started>>
  BY <1>5 DEF Commit, fate
<1>6. UNCHANGED <<handled, started>> => Settled \subseteq Settled'
  BY DEF Settled
<1>7. handled \subseteq handled' /\ started \subseteq started' => Settled \subseteq Settled'
  BY DEF Settled
<1> QED
  BY <1>1, <1>2, <1>3, <1>4, <1>5, <1>6, <1>7
     DEF Next, BrokersDown, Stop, RollbackFail, vars

LEMMA CommitAcknowledges ==
  ASSUME IInv, NoLoss', NEW c \in Consumer, NEW p \in Partition, Commit(c, p)
  PROVE  Ledger!Acknowledge(p)
<1>1. Settled' = Settled
  BY DEF Commit, Settled, fate
<1>2. committed' = [committed EXCEPT ![p] = NextOffset(batch[c][p])]
  BY DEF Commit
<1>3. NextOffset(batch[c][p]) \in 0 .. LogEnd
  <2>1. Len(batch[c][p]) > 0
    BY DEF Commit, IInv, Core, At, StageSoundAt, TypeOK
  <2> QED
    BY <2>1, ConstantAssumption DEF IInv, TypeOK, NextOffset
<1>4. committed'[p] = NextOffset(batch[c][p])
  BY <1>2 DEF IInv, TypeOK
<1>5. \A o \in 0 .. NextOffset(batch[c][p]) - 1 : <<p, o>> \in Settled
  BY <1>1, <1>4 DEF NoLoss
<1>6. /\ committed'[p] \in Nat /\ DOMAIN committed' = Partition
      /\ \A q \in Partition \ {p} : committed'[q] = committed[q]
  BY <1>2, <1>3, <1>4, ConstantAssumption DEF IInv, TypeOK
<1> QED
  BY <1>1, <1>4, <1>5, <1>6 DEF Ledger!Acknowledge, Ledger!PrefixSettled

\* The consumer group implements the abstract ledger of offsets.
THEOREM ImplementsLedger == Spec => LedgerRefined
<1>1. Init => Ledger!LedgerInit
  BY InitTypes, SettledType DEF Init, Ledger!LedgerInit, Ledger!Position
<1>2. IInv /\ IInv' /\ [Next]_vars => [Ledger!LedgerNext]_(Ledger!ledgerVars)
  <2> SUFFICES ASSUME IInv, IInv', [Next]_vars
               PROVE  Ledger!LedgerNext
    OBVIOUS
  <2>1. CASE \E c \in Consumer, p \in Partition : Commit(c, p)
    BY <2>1, CommitAcknowledges DEF Ledger!LedgerNext, IInv, Core
  <2>2. CASE ~\E c \in Consumer, p \in Partition : Commit(c, p)
    <3>1. UNCHANGED committed /\ Settled \subseteq Settled'
      BY <2>2, StepEffects
    <3>2. Settled' \in SUBSET Ledger!Position
      BY SettledType DEF IInv, Ledger!Position
    <3> QED
      BY <3>1, <3>2 DEF Ledger!LedgerNext, Ledger!Settle
  <2> QED
    BY <2>1, <2>2
<1> QED
  BY <1>1, <1>2, Inductive, PTL DEF Spec, LedgerRefined, Ledger!LedgerSpec
===============================================================================
