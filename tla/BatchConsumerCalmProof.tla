------------------------ MODULE BatchConsumerCalmProof ------------------------
\* Theorems about BatchConsumer: why an undisturbed group neither repeats a
\* message nor falls back, and why no group drops a request it has committed.
EXTENDS BatchConsumerProof

\* What the goroutine of p is past: the offset below which everything of the
\* batch is in HDFS or handed over.
DoneAt(c, p) ==
    position[c][p] - Len(batch[c][p])
        + (IF stage[c][p] = "wait" THEN written[c][p]
           ELSE IF stage[c][p] = "commit" THEN Len(batch[c][p]) ELSE 0)

\* An owner reads its partition alone: its batch is the stretch in front of its
\* position, behind the committed offset, and nobody is ahead of it.
OwnedAt(c, p) ==
    /\ owner[p] = c /\ up[c] /\ c \in member
    /\ committed[p] + Len(batch[c][p]) <= position[c][p]
    /\ \A i \in 1 .. Len(batch[c][p]) :
          batch[c][p][i] = position[c][p] - Len(batch[c][p]) + i - 1
    /\ \A m \in handled \cup started : m[1] = p => m[2] < DoneAt(c, p)

CalmAt(c, p) ==
    /\ stage[c][p] # "rollback"
    /\ owner[p] = c => p \in assigned[c]
    /\ p \in assigned[c] => OwnedAt(c, p)
    /\ p \notin assigned[c] => batch[c][p] = <<>>

Calm ==
    /\ \A c \in Consumer : orphans[c] = {} /\ tasks[c] \subseteq started
    /\ \A c \in Consumer : c \in member => up[c]
    /\ \A c \in Consumer : \A p \in Partition : CalmAt(c, p)
    /\ \A p \in Partition : owner[p] = NoOwner =>
          committed[p] = 0 /\ \A m \in handled \cup started : m[1] # p

CalmInv == faults = 0 => Calm

\* A step that is elsewhere: what matters to an owner of p stays.
Elsewhere(c, p) ==
    /\ stage'[c][p] = stage[c][p] /\ batch'[c][p] = batch[c][p]
    /\ position'[c][p] = position[c][p] /\ written'[c][p] = written[c][p]
    /\ owner'[p] = owner[p] /\ assigned'[c] = assigned[c]
    /\ up[c] => up'[c]
    /\ c \in member => c \in member'
    /\ p \in assigned[c] =>
          /\ committed'[p] = committed[p]
          /\ \A m \in handled' \cup started' : m[1] = p => m \in handled \cup started

LEMMA ElsewhereStays ==
    ASSUME NEW c \in Consumer, NEW p \in Partition, CalmAt(c, p), Elsewhere(c, p)
    PROVE  CalmAt(c, p)'
<1>1. DoneAt(c, p)' = DoneAt(c, p)
  BY DEF DoneAt, Elsewhere
<1>2. CASE p \in assigned[c]
  <2>1. OwnedAt(c, p)'
    BY <1>1, <1>2 DEF CalmAt, OwnedAt, Elsewhere
  <2>2. QED
    BY <1>2, <2>1 DEF CalmAt, Elsewhere
<1>3. CASE p \notin assigned[c]
  BY <1>3 DEF CalmAt, Elsewhere
<1>4. QED
  BY <1>2, <1>3

\* A partition has one owner, and what is in a batch is owned.
LEMMA OneOwner ==
    ASSUME Calm, NEW c \in Consumer, NEW p \in Partition, p \in assigned[c] \/ batch[c][p] # <<>>
    PROVE  /\ p \in assigned[c] /\ OwnedAt(c, p)
           /\ \A d \in Consumer : d # c => p \notin assigned[d]
  BY DEF Calm, CalmAt, OwnedAt

\* The types at one place, for arithmetic.
LEMMA PlaceTypes ==
    ASSUME TypeOK, NEW c \in Consumer, NEW p \in Partition
    PROVE  /\ position[c][p] \in Nat /\ committed[p] \in Nat /\ written[c][p] \in Nat
           /\ batch[c][p] \in Seq(Offset) /\ Len(batch[c][p]) \in Nat
           /\ DoneAt(c, p) \in Int
  BY ConstantAssumption DEF TypeOK, DoneAt

-------------------------------------------------------------------------------
\* One lemma for each kind of step that is not a fault

LEMMA JoinKeepsCalm ==
    ASSUME TypeOK, Calm, NEW c \in Consumer, Start(c) \/ Join(c)
    PROVE  Calm'
<1>1. \A d \in Consumer, q \in Partition : Elsewhere(d, q)
  BY DEF Start, Join, Elsewhere, broker, working, fate, TypeOK
<1>2. \A d \in Consumer, q \in Partition : CalmAt(d, q)'
  BY <1>1, ElsewhereStays DEF Calm
<1>3. \A d \in Consumer : d \in member' => up'[d]
  <2>1. \A d \in Consumer : up[d] => up'[d]
    BY DEF Start, Join, TypeOK
  <2>2. up[c] \/ member' = member
    BY DEF Start, Join, Collecting, broker
  <2>3. \A d \in Consumer : d \in member' => d \in member \/ d = c
    BY DEF Start, Join, broker
  <2>4. QED
    BY <2>1, <2>2, <2>3 DEF Calm
<1>4. UNCHANGED <<orphans, tasks, handled, started, owner, committed>>
  BY DEF Start, Join, broker, fate
<1>5. QED
  BY <1>2, <1>3, <1>4 DEF Calm

LEMMA TaskDoneKeepsCalm ==
    ASSUME TypeOK, Calm, NEW c \in Consumer, TaskDone(c)
    PROVE  Calm'
<1>1. /\ handled' \cup started' = handled \cup started /\ started' = started
      /\ \A d \in Consumer : tasks'[d] \subseteq tasks[d]
      /\ UNCHANGED <<committed, member, owner, up, assigned, position, batch, stage, written, orphans>>
  BY DEF TaskDone, Calm, broker, working, TypeOK
<1>2. \A d \in Consumer, q \in Partition : Elsewhere(d, q)
  BY <1>1 DEF Elsewhere
<1>3. \A d \in Consumer, q \in Partition : CalmAt(d, q)'
  BY <1>2, ElsewhereStays DEF Calm
<1>4. QED
  BY <1>1, <1>3 DEF Calm

LEMMA DispatchKeepsCalm ==
    ASSUME TypeOK, Calm, NEW c \in Consumer, Dispatch(c)
    PROVE  Calm'
<1>1. UNCHANGED <<committed, member, owner, up, assigned, position, batch, orphans, tasks,
                  handled, started>>
  BY DEF Dispatch, broker, fate
<1>2. ASSUME NEW d \in Consumer, NEW q \in Partition, d # c PROVE CalmAt(d, q)'
  <2>1. Elsewhere(d, q)
    BY <1>1, <1>2 DEF Dispatch, Elsewhere, TypeOK
  <2>2. QED
    BY <2>1, ElsewhereStays DEF Calm
<1>3. ASSUME NEW q \in Partition PROVE CalmAt(c, q)'
  <2>1. stage[c][q] = "idle" /\ written'[c][q] = 0 /\ stage'[c][q] \in {"idle", "wait", "handoff"}
    BY DEF Dispatch, Collecting, FirstStage, TypeOK
  <2>2. DoneAt(c, q)' = DoneAt(c, q)
    BY <1>1, <2>1, PlaceTypes DEF DoneAt
  <2>3. CalmAt(c, q)
    BY DEF Calm
  <2>4. OwnedAt(c, q) => OwnedAt(c, q)'
    BY <1>1, <2>2 DEF OwnedAt
  <2>5. QED
    BY <1>1, <2>1, <2>3, <2>4 DEF CalmAt
<1>4. QED
  BY <1>1, <1>2, <1>3 DEF Calm

LEMMA AssignKeepsCalm ==
    ASSUME TypeOK, Calm, NEW c \in Consumer, NEW p \in Partition, Assign(c, p)
    PROVE  Calm'
<1>1. UNCHANGED <<committed, member, up, batch, stage, written, orphans, tasks, handled, started>>
  BY DEF Assign, working, fate
<1>2. /\ owner[p] = NoOwner /\ owner'[p] = c /\ NoOwner \notin Consumer
      /\ \A q \in Partition : q # p => owner'[q] = owner[q]
  BY ConstantAssumption DEF Assign, TypeOK
<1>3. committed[p] = 0 /\ \A m \in handled \cup started : m[1] # p
  BY <1>2 DEF Calm
<1>4. \A d \in Consumer : p \notin assigned[d] /\ batch[d][p] = <<>>
  BY <1>2 DEF Calm, CalmAt, OwnedAt
<1>5. ASSUME NEW d \in Consumer, NEW q \in Partition, q # p PROVE CalmAt(d, q)'
  <2>1. CalmAt(d, q) /\ (q \in assigned'[d] <=> q \in assigned[d]) /\ position'[d][q] = position[d][q]
    BY <1>5 DEF Calm, Assign, TypeOK
  <2>2. DoneAt(d, q)' = DoneAt(d, q)
    BY <1>1, <2>1 DEF DoneAt
  <2>3. OwnedAt(d, q) => OwnedAt(d, q)'
    BY <1>1, <1>2, <1>5, <2>1, <2>2 DEF OwnedAt
  <2>4. QED
    BY <1>1, <1>2, <1>5, <2>1, <2>3 DEF CalmAt
<1>6. ASSUME NEW d \in Consumer, d # c PROVE CalmAt(d, p)'
  <2>1. p \notin assigned'[d]
    BY <1>4, <1>6 DEF Assign, TypeOK
  <2>2. QED
    BY <1>1, <1>2, <1>4, <1>6, <2>1 DEF CalmAt, Calm
<1>7. CalmAt(c, p)'
  <2>1. p \in assigned'[c] /\ position'[c][p] = 0 /\ up[c] /\ c \in member
    BY <1>3 DEF Assign, Collecting, TypeOK
  <2>2. Len(batch'[c][p]) = 0
    BY <1>1, <1>4
  <2>3. OwnedAt(c, p)'
    BY <1>1, <1>2, <1>3, <2>1, <2>2 DEF OwnedAt
  <2>4. QED
    BY <1>1, <2>1, <2>3 DEF CalmAt, Calm
<1>8. \A q \in Partition : owner'[q] = NoOwner =>
         committed'[q] = 0 /\ \A m \in handled' \cup started' : m[1] # q
  BY <1>1, <1>2 DEF Calm
<1>9. QED
  BY <1>1, <1>5, <1>6, <1>7, <1>8 DEF Calm

LEMMA PollKeepsCalm ==
    ASSUME TypeOK, Calm, NEW c \in Consumer, NEW p \in Partition, Poll(c, p)
    PROVE  Calm'
<1>1. UNCHANGED <<committed, member, owner, up, assigned, stage, written, orphans, tasks,
                  handled, started>>
  BY DEF Poll, broker, fate
<1>2. ASSUME NEW d \in Consumer, NEW q \in Partition, d # c \/ q # p PROVE CalmAt(d, q)'
  <2>1. Elsewhere(d, q)
    BY <1>1, <1>2 DEF Poll, Elsewhere, TypeOK
  <2>2. QED
    BY <2>1, ElsewhereStays DEF Calm
<1>3. CalmAt(c, p)'
  <2>1. p \in assigned[c] /\ OwnedAt(c, p) /\ stage[c][p] = "idle"
    BY OneOwner DEF Poll, Collecting
  <2>2. /\ position'[c][p] = position[c][p] + 1
        /\ batch'[c][p] = Append(batch[c][p], position[c][p])
    BY DEF Poll, Collect, TypeOK
  <2>3. /\ Len(batch'[c][p]) = Len(batch[c][p]) + 1
        /\ \A i \in 1 .. Len(batch[c][p]) : batch'[c][p][i] = batch[c][p][i]
        /\ batch'[c][p][Len(batch[c][p]) + 1] = position[c][p]
    BY <2>2, PlaceTypes, AppendProperties DEF TypeOK
  <2>0. position[c][p] \in Nat /\ Len(batch[c][p]) \in Nat /\ committed[p] \in Nat
    BY PlaceTypes
  <2>4. DoneAt(c, p)' = DoneAt(c, p)
    <3>1. DoneAt(c, p) = position[c][p] - Len(batch[c][p]) + 0
      BY <2>1 DEF DoneAt
    <3>2. DoneAt(c, p)' = position'[c][p] - Len(batch'[c][p]) + 0
      BY <1>1, <2>1 DEF DoneAt
    <3>3. QED
      <4>1. position'[c][p] - Len(batch'[c][p]) = position[c][p] - Len(batch[c][p])
        <5>1. position'[c][p] = position[c][p] + 1 /\ Len(batch'[c][p]) = Len(batch[c][p]) + 1
          BY <2>2, <2>3
        <5>2. QED
          BY <2>0, <5>1, SMTT(30)
      <4>2. QED
        BY <3>1, <3>2, <4>1
  <2>5. \A i \in 1 .. Len(batch'[c][p]) :
           batch'[c][p][i] = position'[c][p] - Len(batch'[c][p]) + i - 1
    <3>1. position'[c][p] = position[c][p] + 1 /\ Len(batch'[c][p]) = Len(batch[c][p]) + 1
      BY <2>2, <2>3
    <3>2. ASSUME NEW i \in 1 .. Len(batch'[c][p])
          PROVE  batch'[c][p][i] = position[c][p] - Len(batch[c][p]) + i - 1
      <4>1. CASE i \in 1 .. Len(batch[c][p])
        BY <2>1, <2>3, <4>1 DEF OwnedAt
      <4>2. CASE i = Len(batch[c][p]) + 1
        BY <2>0, <2>3, <4>2
      <4>3. QED
        BY <2>0, <3>1, <4>1, <4>2
    <3>3. position'[c][p] - Len(batch'[c][p]) = position[c][p] - Len(batch[c][p])
      BY <2>0, <3>1, SMTT(30)
    <3>4. QED
      BY <3>2, <3>3
  <2>6. OwnedAt(c, p)'
    <3>1. committed'[p] + Len(batch'[c][p]) <= position'[c][p]
      BY <1>1, <2>0, <2>1, <2>2, <2>3, SMTT(30) DEF OwnedAt
    <3>2. QED
      BY <1>1, <2>1, <2>4, <2>5, <3>1 DEF OwnedAt
  <2>7. QED
    BY <1>1, <2>1, <2>6 DEF CalmAt, Calm
<1>4. QED
  BY <1>1, <1>2, <1>3 DEF Calm

LEMMA WriteKeepsCalm ==
    ASSUME TypeOK, Calm, NEW c \in Consumer, NEW p \in Partition, Write(c, p)
    PROVE  Calm'
<1>1. UNCHANGED <<committed, member, owner, up, assigned, position, batch, stage, orphans, tasks,
                  started>>
  BY DEF Write, broker
<1>2. batch[c][p] # <<>>
  BY PlaceTypes DEF Write
<1>3. /\ p \in assigned[c] /\ OwnedAt(c, p) /\ CalmAt(c, p)
      /\ \A d \in Consumer : d # c => p \notin assigned[d]
  BY <1>2, OneOwner DEF Calm
<1>4. \A m \in handled' \cup started' :
         m \in handled \cup started \/ m = <<p, batch[c][p][written[c][p] + 1]>>
  BY DEF Write
<1>5. ASSUME NEW d \in Consumer, NEW q \in Partition, d # c \/ q # p PROVE CalmAt(d, q)'
  <2>1. Elsewhere(d, q)
    BY <1>1, <1>3, <1>4, <1>5 DEF Write, Elsewhere, TypeOK
  <2>2. QED
    BY <2>1, ElsewhereStays DEF Calm
<1>6. CalmAt(c, p)'
  <2>1. stage[c][p] = "wait" /\ written'[c][p] = written[c][p] + 1
    BY DEF Write, TypeOK
  <2>2. DoneAt(c, p)' = DoneAt(c, p) + 1
    <3>1. PICK x \in Int : x = position[c][p] - Len(batch[c][p])
      BY PlaceTypes
    <3>2. DoneAt(c, p) = x + written[c][p]
      BY <2>1, <3>1 DEF DoneAt
    <3>3. DoneAt(c, p)' = x + (written[c][p] + 1)
      BY <1>1, <2>1, <3>1 DEF DoneAt
    <3>4. x \in Int /\ written[c][p] \in Nat
      BY <3>1, PlaceTypes
    <3>5. QED
      BY <3>2, <3>3, <3>4
  <2>3. batch[c][p][written[c][p] + 1] = DoneAt(c, p)
    <3>1. written[c][p] + 1 \in 1 .. Len(batch[c][p])
      BY PlaceTypes DEF Write
    <3>2. batch[c][p][written[c][p] + 1]
             = position[c][p] - Len(batch[c][p]) + (written[c][p] + 1) - 1
      BY <1>3, <3>1 DEF OwnedAt
    <3>3. DoneAt(c, p) = position[c][p] - Len(batch[c][p]) + written[c][p]
      BY <2>1 DEF DoneAt
    <3>4. QED
      BY <3>2, <3>3, PlaceTypes
  <2>4. \A m \in handled \cup started : m[2] \in Int
    BY ConstantAssumption DEF TypeOK, Message, Offset
  <2>5. \A m \in handled' \cup started' : m[1] = p => m[2] < DoneAt(c, p)'
    BY <1>3, <1>4, <2>2, <2>3, <2>4, PlaceTypes DEF OwnedAt
  <2>6. OwnedAt(c, p)'
    BY <1>1, <1>3, <2>5 DEF OwnedAt
  <2>7. QED
    BY <1>1, <1>3, <2>6 DEF CalmAt
<1>7. \A q \in Partition : owner'[q] = NoOwner =>
         committed'[q] = 0 /\ \A m \in handled' \cup started' : m[1] # q
  BY <1>1, <1>3, <1>4, ConstantAssumption DEF Calm, OwnedAt
<1>8. QED
  BY <1>1, <1>5, <1>6, <1>7 DEF Calm

LEMMA WrittenKeepsCalm ==
    ASSUME TypeOK, Calm, NEW c \in Consumer, NEW p \in Partition, Written(c, p)
    PROVE  Calm'
<1>1. UNCHANGED <<committed, member, owner, up, assigned, position, batch, written, orphans, tasks,
                  handled, started>>
  BY DEF Written, broker, fate
<1>2. ASSUME NEW d \in Consumer, NEW q \in Partition, d # c \/ q # p PROVE CalmAt(d, q)'
  <2>1. Elsewhere(d, q)
    BY <1>1, <1>2 DEF Written, Elsewhere, TypeOK
  <2>2. QED
    BY <2>1, ElsewhereStays DEF Calm
<1>3. CalmAt(c, p)'
  <2>1. stage'[c][p] = "commit"
    BY DEF Written, TypeOK
  <2>2. DoneAt(c, p)' = DoneAt(c, p)
    BY <1>1, <2>1, PlaceTypes DEF DoneAt, Written, AllWritten
  <2>3. OwnedAt(c, p) => OwnedAt(c, p)'
    BY <1>1, <2>2 DEF OwnedAt
  <2>4. QED
    BY <1>1, <2>1, <2>3 DEF CalmAt, Calm
<1>4. QED
  BY <1>1, <1>2, <1>3 DEF Calm

LEMMA HandOffKeepsCalm ==
    ASSUME TypeOK, Core, Calm, NEW c \in Consumer, NEW p \in Partition, HandOff(c, p)
    PROVE  Calm'
<1>1. UNCHANGED <<committed, member, owner, up, assigned, position, batch, written, orphans, handled>>
  BY DEF HandOff, broker
<1>2. batch[c][p] # <<>>
  BY PlaceTypes DEF HandOff, Core, At, StageSoundAt
<1>3. /\ p \in assigned[c] /\ OwnedAt(c, p) /\ CalmAt(c, p)
      /\ \A d \in Consumer : d # c => p \notin assigned[d]
  BY <1>2, OneOwner DEF Calm
<1>4. \A m \in handled' \cup started' : m \in handled \cup started \/ m \in InBatch(c, p)
  BY DEF HandOff, Spawned
<1>5. \A m \in InBatch(c, p) : m[1] = p /\ m[2] < position[c][p] /\ m[2] \in Int
  <2>1. \A i \in DOMAIN batch[c][p] :
           batch[c][p][i] < position[c][p] /\ batch[c][p][i] \in Int
    <3>1. position[c][p] \in Nat /\ Len(batch[c][p]) \in Nat
      BY PlaceTypes
    <3>2. DOMAIN batch[c][p] = 1 .. Len(batch[c][p])
      BY PlaceTypes
    <3>3. ASSUME NEW i \in 1 .. Len(batch[c][p])
          PROVE  batch[c][p][i] < position[c][p] /\ batch[c][p][i] \in Int
      <4>1. batch[c][p][i] = position[c][p] - Len(batch[c][p]) + i - 1
        BY <1>3 DEF OwnedAt
      <4>2. QED
        BY ONLY <3>1, <4>1
    <3>4. QED
      BY <3>2, <3>3
  <2>2. QED
    BY <2>1 DEF InBatch
<1>6. ASSUME NEW d \in Consumer, NEW q \in Partition, d # c \/ q # p PROVE CalmAt(d, q)'
  <2>1. Elsewhere(d, q)
    BY <1>1, <1>3, <1>4, <1>5, <1>6 DEF HandOff, Elsewhere, TypeOK
  <2>2. QED
    BY <2>1, ElsewhereStays DEF Calm
<1>7. CalmAt(c, p)'
  <2>1. stage[c][p] = "handoff" /\ stage'[c][p] = "commit"
    BY DEF HandOff, TypeOK
  <2>2. DoneAt(c, p)' = position[c][p] /\ DoneAt(c, p) <= position[c][p]
    BY <1>1, <2>1, PlaceTypes DEF DoneAt
  <2>3. \A m \in handled \cup started : m[2] \in Int
    BY ConstantAssumption DEF TypeOK, Message, Offset
  <2>4. \A m \in handled' \cup started' : m[1] = p => m[2] < DoneAt(c, p)'
    BY <1>3, <1>4, <1>5, <2>2, <2>3, PlaceTypes DEF OwnedAt
  <2>5. OwnedAt(c, p)'
    BY <1>1, <1>3, <2>4 DEF OwnedAt
  <2>6. QED
    BY <1>1, <1>3, <2>1, <2>5 DEF CalmAt
<1>8. \A q \in Partition : owner'[q] = NoOwner =>
         committed'[q] = 0 /\ \A m \in handled' \cup started' : m[1] # q
  BY <1>1, <1>3, <1>4, <1>5, ConstantAssumption DEF Calm, OwnedAt
<1>9. \A d \in Consumer : tasks'[d] \subseteq started'
  BY DEF HandOff, Calm, TypeOK
<1>10. QED
  BY <1>1, <1>6, <1>7, <1>8, <1>9 DEF Calm

\* The next offset to commit is the position of the owner.
LEMMA NextIsPosition ==
    ASSUME TypeOK, Core, Calm, NEW c \in Consumer, NEW p \in Partition, stage[c][p] = "commit"
    PROVE  /\ p \in assigned[c] /\ OwnedAt(c, p)
           /\ \A d \in Consumer : d # c => p \notin assigned[d]
           /\ NextOffset(batch[c][p]) = position[c][p]
<1>1. Len(batch[c][p]) > 0 /\ batch[c][p] # <<>>
  BY PlaceTypes DEF Core, At, StageSoundAt
<1>2. /\ p \in assigned[c] /\ OwnedAt(c, p)
      /\ \A d \in Consumer : d # c => p \notin assigned[d]
  BY <1>1, OneOwner
<1>3. batch[c][p][Len(batch[c][p])] = position[c][p] - Len(batch[c][p]) + Len(batch[c][p]) - 1
  <2>1. Len(batch[c][p]) \in 1 .. Len(batch[c][p])
    BY <1>1, PlaceTypes
  <2>2. QED
    BY <1>2, <2>1 DEF OwnedAt
<1>4. QED
  BY <1>2, <1>3, PlaceTypes DEF NextOffset

LEMMA CommitKeepsCalm ==
    ASSUME TypeOK, Core, Calm, NEW c \in Consumer, NEW p \in Partition,
           Commit(c, p) \/ CommitFail(c, p)
    PROVE  Calm'
<1>1. UNCHANGED <<member, owner, up, assigned, position, orphans, tasks, handled, started>>
  BY DEF Commit, CommitFail, broker, fate
<1>2. /\ stage[c][p] = "commit"
      /\ \A q \in Partition : q # p => committed'[q] = committed[q]
      /\ committed'[p] \in {committed[p], NextOffset(batch[c][p])}
  BY DEF Commit, CommitFail, broker, TypeOK
<1>3. /\ p \in assigned[c] /\ OwnedAt(c, p) /\ CalmAt(c, p)
      /\ \A d \in Consumer : d # c => p \notin assigned[d]
      /\ NextOffset(batch[c][p]) = position[c][p]
  BY <1>2, NextIsPosition DEF Calm
<1>4. ASSUME NEW d \in Consumer, NEW q \in Partition, d # c \/ q # p PROVE CalmAt(d, q)'
  <2>1. Elsewhere(d, q)
    BY <1>1, <1>2, <1>3, <1>4 DEF Commit, CommitFail, Finish, Elsewhere, TypeOK
  <2>2. QED
    BY <2>1, ElsewhereStays DEF Calm
<1>5. CalmAt(c, p)'
  <2>1. stage'[c][p] = "idle" /\ batch'[c][p] = <<>> /\ Len(batch'[c][p]) = 0
    BY DEF Commit, CommitFail, Finish, TypeOK
  <2>2. DoneAt(c, p)' = position[c][p] /\ DoneAt(c, p) = position[c][p]
    BY <1>1, <1>2, <2>1, PlaceTypes DEF DoneAt
  <2>3. committed'[p] <= position[c][p] /\ committed'[p] \in Nat
    BY <1>2, <1>3, PlaceTypes DEF OwnedAt
  <2>4. OwnedAt(c, p)'
    BY <1>1, <1>3, <2>1, <2>2, <2>3, PlaceTypes DEF OwnedAt
  <2>5. QED
    BY <1>1, <1>3, <2>1, <2>4 DEF CalmAt
<1>6. \A q \in Partition : owner'[q] = NoOwner => committed'[q] = 0
  BY <1>1, <1>2, <1>3, ConstantAssumption DEF Calm, OwnedAt
<1>7. QED
  BY <1>1, <1>4, <1>5, <1>6 DEF Calm

-------------------------------------------------------------------------------
\* Every other step is a fault, or cannot happen while nothing has failed.

LEMMA CalmStep ==
    ASSUME TypeOK, Core, CalmInv, [Next]_vars
    PROVE  CalmInv'
<1> SUFFICES ASSUME faults' = 0 PROVE Calm'
  BY DEF CalmInv
<1>1. CASE UNCHANGED vars
  <2>1. Calm
    BY <1>1 DEF vars, CalmInv
  <2>2. UNCHANGED <<committed, member, owner, up, assigned, position, batch, stage, written,
                    orphans, tasks, handled, started>>
    BY <1>1 DEF vars
  <2>3. \A c \in Consumer, p \in Partition : Elsewhere(c, p)
    BY <2>2 DEF Elsewhere
  <2>4. \A c \in Consumer, p \in Partition : CalmAt(c, p)'
    BY <2>1, <2>3, ElsewhereStays DEF Calm
  <2>5. QED
    BY <2>1, <2>2, <2>4 DEF Calm
<1>2. ASSUME Fault PROVE FALSE
  BY <1>2 DEF Fault, TypeOK
<1>3. ASSUME NEW c \in Consumer, NEW p \in Partition,
             \/ Exit(c) \/ Crash(c) \/ Evict(c) \/ TaskFail(c)
             \/ Revoke(c, p) \/ WriteFail(c, p) \/ Timeout(c, p)
      PROVE  FALSE
  BY <1>2, <1>3 DEF Exit, Crash, Evict, TaskFail, Revoke, WriteFail, Timeout
<1>4. ASSUME NEW c \in Consumer, Exit(c) \/ Crash(c) \/ Evict(c) \/ TaskFail(c) PROVE FALSE
  BY <1>2, <1>4 DEF Exit, Crash, Evict, TaskFail
<1>5. ASSUME faults' = faults PROVE Calm
  BY <1>5 DEF CalmInv
<1>6. ASSUME NEW c \in Consumer, Start(c) \/ Join(c) \/ Dispatch(c) \/ TaskDone(c)
      PROVE  Calm'
  <2>1. Calm
    BY <1>5, <1>6 DEF Start, Join, Dispatch, TaskDone
  <2>2. QED
    BY <1>6, <2>1, JoinKeepsCalm, DispatchKeepsCalm, TaskDoneKeepsCalm
<1>7. ASSUME NEW c \in Consumer, Expire(c) \/ OrphanWrite(c) \/ OrphanEnd(c)
      PROVE  FALSE
  <2>1. Calm
    BY <1>5, <1>7 DEF Expire, OrphanWrite, OrphanEnd
  <2>2. QED
    BY <1>7, <2>1 DEF Expire, OrphanWrite, OrphanEnd, Calm
<1>8. ASSUME NEW c \in Consumer, Discover(c)
      PROVE  FALSE
  <2>1. Calm
    BY <1>5, <1>8 DEF Discover
  <2>2. PICK p \in Partition : p \in assigned[c]
    BY <1>8 DEF Discover, TypeOK
  <2>3. c \in member
    BY <2>1, <2>2, OneOwner DEF OwnedAt
  <2>4. QED
    BY <1>8, <2>3 DEF Discover
<1>9. ASSUME NEW c \in Consumer, NEW p \in Partition,
             \/ Assign(c, p) \/ Poll(c, p) \/ Write(c, p) \/ Written(c, p)
             \/ HandOff(c, p) \/ Commit(c, p) \/ CommitFail(c, p)
      PROVE  Calm'
  <2>1. Calm
    BY <1>5, <1>9 DEF Assign, Poll, Write, Written, HandOff, Commit, CommitFail
  <2>2. QED
    BY <1>9, <2>1, AssignKeepsCalm, PollKeepsCalm, WriteKeepsCalm, WrittenKeepsCalm,
       HandOffKeepsCalm, CommitKeepsCalm
<1>10. ASSUME NEW c \in Consumer, NEW p \in Partition,
              Release(c, p) \/ Rollback(c, p) \/ RollbackOutdated(c, p)
       PROVE  FALSE
  <2>1. Calm
    BY <1>5, <1>10 DEF Release, Rollback, RollbackOutdated
  <2>2. CalmAt(c, p)
    BY <2>1 DEF Calm
  <2>3. QED
    BY <1>10, <2>2 DEF Release, Rollback, RollbackOutdated, CalmAt
<1>11. QED
  BY <1>1, <1>3, <1>4, <1>6, <1>7, <1>8, <1>9, <1>10
     DEF Next, BrokersDown, Stop, RollbackFail

LEMMA CalmInit == Init => CalmInv
<1> SUFFICES ASSUME Init PROVE Calm
  BY DEF CalmInv
<1>1. \A c \in Consumer, p \in Partition : CalmAt(c, p)
  BY ConstantAssumption DEF Init, CalmAt
<1>2. QED
  BY <1>1 DEF Init, Calm

LEMMA CalmAlways == Spec => [](IInv /\ CalmInv)
<1>1. IInv /\ CalmInv /\ [Next]_vars => CalmInv'
  BY CalmStep DEF IInv
<1>2. QED
  BY <1>1, CalmInit, Inductive, PTL DEF Spec

-------------------------------------------------------------------------------
\* An undisturbed group writes and hands over every message once, although
\* commits fail (consumer.go:202-265).
THEOREM NoRepeats == Spec => []RepeatsOnlyAfterFault
<1>1. IInv /\ CalmInv => RepeatsOnlyAfterFault
  <2> SUFFICES ASSUME IInv, Calm, NEW c \in Consumer, NEW p \in Partition,
                      stage[c][p] # "commit",
                      NEW i \in written[c][p] + 1 .. Len(batch[c][p])
               PROVE  <<p, batch[c][p][i]>> \notin handled \cup started
    BY DEF CalmInv, RepeatsOnlyAfterFault
  <2>1. written[c][p] \in Nat /\ Len(batch[c][p]) \in Nat /\ position[c][p] \in Nat
    BY PlaceTypes DEF IInv
  <2>2. i \in Int /\ 1 <= i /\ written[c][p] < i /\ i <= Len(batch[c][p])
    BY <2>1
  <2>3. OwnedAt(c, p)
    <3>1. batch[c][p] # <<>>
      BY <2>2
    <3>2. QED
      BY <3>1, OneOwner
  <2>4. PICK x \in Int : x = position[c][p] - Len(batch[c][p])
    BY <2>1
  <2>5. batch[c][p][i] = x + i - 1
    BY <2>1, <2>2, <2>3, <2>4 DEF OwnedAt
  <2>6. DoneAt(c, p) = x + written[c][p] \/ DoneAt(c, p) = x + 0
    BY <2>4 DEF DoneAt
  <2>7. ~(batch[c][p][i] < DoneAt(c, p))
    BY <2>1, <2>2, <2>4, <2>5, <2>6
  <2>8. QED
    BY <2>3, <2>7 DEF OwnedAt
<1>2. QED
  BY <1>1, CalmAlways, PTL

\* The committed offset of an undisturbed group never falls back
\* (consumer.go:252-265).
THEOREM NoFallBack == Spec => FallsBackOnlyAfterFault
<1>1. IInv /\ CalmInv /\ [Next]_vars
        => [\A p \in Partition : committed'[p] < committed[p] => faults > 0]_vars
  <2> SUFFICES ASSUME IInv, CalmInv, [Next]_vars, NEW p \in Partition,
                      committed'[p] < committed[p], ~(faults > 0)
               PROVE  FALSE
    OBVIOUS
  <2>1. TypeOK /\ Core /\ Calm /\ committed[p] \in Nat
    BY ConstantAssumption DEF IInv, CalmInv, TypeOK
  <2>2. PICK c \in Consumer, q \in Partition : Commit(c, q)
    BY <2>1, StepEffects
  <2>3. committed' = [committed EXCEPT ![q] = NextOffset(batch[c][q])] /\ stage[c][q] = "commit"
    BY <2>2 DEF Commit
  <2>4. q = p
    BY <2>1, <2>3 DEF TypeOK
  <2>5. OwnedAt(c, p) /\ committed'[p] = position[c][p]
    BY <2>1, <2>3, <2>4, NextIsPosition DEF TypeOK
  <2>6. QED
    BY <2>1, <2>5, PlaceTypes DEF OwnedAt
<1>2. QED
  BY <1>1, CalmAlways, PTL DEF Spec, FallsBackOnlyAfterFault

-------------------------------------------------------------------------------
\* Every message that was ever handed over is answered, or its goroutine is
\* still there, or it went with its goroutine.
Tracked ==
    \A m \in started :
        \/ m \in handled \cup Undecodable
        \/ \E c \in Consumer : m \in tasks[c]
        \/ m \in lost

\* It stays so when no goroutine ends, or one does and leaves its message
\* behind, answered or lost.
LEMMA TrackedStays ==
    ASSUME Tracked, started' = started, handled \subseteq handled', lost \subseteq lost',
           \A d \in Consumer : \A m \in tasks[d] :
               m \in tasks'[d] \/ m \in handled' \cup Undecodable \/ m \in lost'
    PROVE  Tracked'
  BY DEF Tracked

LEMMA TrackedStep ==
    ASSUME TypeOK, Tracked, [Next]_vars
    PROVE  Tracked'
<1>1. CASE UNCHANGED <<tasks, handled, started, lost>>
  BY <1>1, TrackedStays
<1>2. ASSUME NEW c \in Consumer, Exit(c) \/ Crash(c)
      PROVE  Tracked'
  <2>1. /\ tasks' = [tasks EXCEPT ![c] = {}] /\ lost' = lost \cup tasks[c]
        /\ UNCHANGED <<handled, started>>
    BY <1>2 DEF Exit, Crash, Forget
  <2>2. \A d \in Consumer : d # c => tasks'[d] = tasks[d]
    BY <2>1 DEF TypeOK
  <2>3. QED
    BY <2>1, <2>2, TrackedStays
<1>3. ASSUME NEW c \in Consumer, OrphanWrite(c) \/ \E p \in Partition : Write(c, p)
      PROVE  Tracked'
  <2>1. UNCHANGED <<tasks, started, lost>> /\ handled \subseteq handled'
    BY <1>3 DEF OrphanWrite, Write
  <2>2. QED
    BY <2>1, TrackedStays
<1>4. ASSUME NEW c \in Consumer, TaskDone(c) \/ TaskFail(c)
      PROVE  Tracked'
  <2>1. PICK m \in tasks[c] :
           /\ tasks' = [tasks EXCEPT ![c] = @ \ {m}]
           /\ UNCHANGED started /\ handled \subseteq handled' /\ lost \subseteq lost'
           /\ m \in handled' \cup Undecodable \/ m \in lost'
    BY <1>4 DEF TaskDone, TaskFail
  <2>2. \A d \in Consumer : \A n \in tasks[d] : n = m \/ n \in tasks'[d]
    BY <2>1 DEF TypeOK
  <2>3. QED
    BY <2>1, <2>2, TrackedStays
<1>5. ASSUME NEW c \in Consumer, NEW p \in Partition, HandOff(c, p)
      PROVE  Tracked'
  <2>1. /\ started' = started \cup Spawned(c, p) /\ UNCHANGED <<handled, lost>>
        /\ Spawned(c, p) \subseteq tasks'[c]
        /\ \A d \in Consumer : tasks[d] \subseteq tasks'[d]
    BY <1>5 DEF HandOff, TypeOK
  <2>2. QED
    BY <2>1 DEF Tracked
<1>6. ASSUME NEW c \in Consumer,
             \/ Start(c) \/ Join(c) \/ Expire(c) \/ Evict(c) \/ Discover(c) \/ Dispatch(c)
             \/ OrphanEnd(c)
      PROVE  UNCHANGED <<tasks, handled, started, lost>>
  BY <1>6 DEF Start, Join, Expire, Evict, Discover, Dispatch, OrphanEnd, fate
<1>7. ASSUME NEW c \in Consumer, NEW p \in Partition,
             \/ Assign(c, p) \/ Revoke(c, p) \/ Release(c, p) \/ Poll(c, p)
             \/ WriteFail(c, p) \/ Written(c, p) \/ Timeout(c, p) \/ Commit(c, p)
             \/ CommitFail(c, p) \/ Rollback(c, p) \/ RollbackOutdated(c, p)
      PROVE  UNCHANGED <<tasks, handled, started, lost>>
  BY <1>7 DEF Assign, Revoke, Release, Poll, WriteFail, Written, Timeout, Commit, CommitFail,
              Rollback, RollbackOutdated, fate
<1>8. CASE UNCHANGED vars
  BY <1>1, <1>8 DEF vars
<1>9. QED
  BY <1>1, <1>2, <1>3, <1>4, <1>5, <1>6, <1>7, <1>8 DEF Next, BrokersDown, Stop, RollbackFail

\* Nothing that has been committed is dropped on the way from the batch to the
\* goroutines, in either mode and through every fault: a request is lost only
\* in a goroutine whose send fails or whose process ends (consumer.go:202-211,
\* 252-265, 289-312).
THEOREM NothingDropped == Spec => []NoSilentDrop
<1>1. Init => Tracked
  BY DEF Init, Tracked
<1>2. Spec => []Tracked
  <2>1. TypeOK /\ Tracked /\ [Next]_vars => Tracked'
    BY TrackedStep
  <2>2. QED
    BY <1>1, <2>1, TypeCorrect, PTL DEF Spec
<1>3. TypeOK /\ NoLoss /\ Tracked => NoSilentDrop
  <2> SUFFICES ASSUME TypeOK, NoLoss, Tracked, NEW p \in Partition,
                      NEW o \in 0 .. committed[p] - 1
               PROVE  \/ <<p, o>> \in handled \cup Undecodable
                      \/ \E c \in Consumer : <<p, o>> \in tasks[c]
                      \/ <<p, o>> \in lost
    BY DEF NoSilentDrop
  <2>1. <<p, o>> \in Settled
    BY DEF NoLoss
  <2>2. QED
    BY <2>1 DEF Settled, Tracked
<1>4. QED
  BY <1>2, <1>3, TypeCorrect, AtLeastOnce, PTL
===============================================================================
