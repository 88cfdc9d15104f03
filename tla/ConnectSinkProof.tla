--------------------------- MODULE ConnectSinkProof ---------------------------
\* Theorems about ConnectSink, for every topic, batch size and number of
\* sessions and failures, composed with those about the list it filters by.
EXTENDS ConnectSink, AllowedProductsProof, FiniteSetTheorems

\* A step of the sink is a step of the list and the filter, or none.
LEMMA SinkStepIsStep == [SinkNext]_sinkVars => [Next]_vars
<1> SUFFICES ASSUME [SinkNext]_sinkVars PROVE [Next]_vars
  OBVIOUS
<1>1. CASE Edit /\ UNCHANGED task
  BY <1>1 DEF Next
<1>2. CASE StartTask
  BY <1>2 DEF StartTask, Next
<1>r. CASE Reassign
  BY <1>r DEF Reassign
<1>3. CASE StopTask
  BY <1>3 DEF StopTask, Next
<1>4. CASE \E n \in 1 .. MaxBatch : Poll(n)
  BY <1>4 DEF Poll
<1>5. CASE \E i \in Record : Write(i) \/ WriteFail(i)
  BY <1>5 DEF Write, WriteFail
<1>6. CASE Store
  BY <1>6 DEF Store
<1>7. CASE UNCHANGED sinkVars
  BY <1>7 DEF sinkVars, vars
<1>8. QED
  BY <1>1, <1>2, <1>r, <1>3, <1>4, <1>5, <1>6, <1>7 DEF SinkNext

\* The list and its filter behave in the sink as they do alone.
THEOREM ListInSink == SinkSpec => Spec
<1>1. SinkInit => Init
  BY DEF SinkInit
<1>2. QED
  BY <1>1, SinkStepIsStep, PTL DEF SinkSpec, Spec

-----------------------------------------------------------------------------
LEMMA AppendType ==
    ASSUME NEW i \in Record, NEW cut \in {"start", "id", "name", "whole"},
           lines \in Seq(Line), AppendTo(i, cut)
    PROVE  lines' \in Seq(Line)
<1> DEFINE id   == IF Log[i] \in Product /\ cut # "start" THEN i ELSE 0
           name == IF Log[i] \in Product /\ cut \in {"name", "whole"} THEN i ELSE 0
           n    == Len(lines)
<1>1. id \in Record \cup {0} /\ name \in Record \cup {0} /\ Ended(cut) \in BOOLEAN
  BY DEF Ended
<1>2. [id |-> id, name |-> name, ended |-> Ended(cut)] \in Line
  BY <1>1 DEF Line
<1>3. CASE n > 0 /\ ~lines[n].ended
  <2>1. lines[n] \in Line
    BY <1>3
  <2>2. [id |-> FirstOf(lines[n].id, id), name |-> FirstOf(lines[n].name, name),
         ended |-> Ended(cut)] \in Line
    BY <1>1, <2>1 DEF Line, FirstOf
  <2>3. QED
    BY <1>3, <2>2 DEF AppendTo
<1>4. CASE ~(n > 0 /\ ~lines[n].ended)
  BY <1>2, <1>4 DEF AppendTo
<1>5. QED
  BY <1>3, <1>4

LEMMA CutType ==
    ASSUME SinkTypeOK, NEW i \in Record, CutOff(i)
    PROVE  lines' \in Seq(Line) /\ failures' \in 0 .. MaxFailures /\ torn' \in BOOLEAN
<1>1. lines' \in Seq(Line)
  BY AppendType DEF CutOff, SinkTypeOK
<1>2. failures' \in 0 .. MaxFailures
  BY SinkAssumption DEF CutOff, SinkTypeOK
<1>3. torn' \in BOOLEAN
  BY Zenon DEF CutOff, SinkTypeOK
<1>4. QED
  BY <1>1, <1>2, <1>3

LEMMA SinkTypeStep == SinkTypeOK /\ [SinkNext]_sinkVars => SinkTypeOK'
<1> SUFFICES ASSUME SinkTypeOK, [SinkNext]_sinkVars PROVE SinkTypeOK'
  OBVIOUS
<1> USE SinkAssumption
<1>1. CASE Edit /\ UNCHANGED task
  BY <1>1 DEF task, SinkTypeOK
<1>2. CASE StartTask
  BY <1>2 DEF StartTask, TakeUp, SinkTypeOK
<1>3. CASE Reassign
  BY <1>3 DEF Reassign, TakeUp, SinkTypeOK
<1>4. CASE StopTask
  <2>1. CASE UNCHANGED <<lines, failures, torn>>
    BY <1>4, <2>1 DEF StopTask, SinkTypeOK
  <2>2. ASSUME NEW i \in Record, CutOff(i)
        PROVE  SinkTypeOK'
    BY <1>4, <2>2, CutType DEF StopTask, SinkTypeOK
  <2>3. QED
    BY <1>4, <2>1, <2>2 DEF StopTask
<1>5. ASSUME NEW n \in 1 .. MaxBatch, Poll(n)
      PROVE  SinkTypeOK'
  <2>1. position \in Nat /\ position + n <= Len(Log) /\ Len(Log) \in Nat
    BY <1>5 DEF Poll, SinkTypeOK
  <2>2. Polled(n) \subseteq Record
    BY <2>1 DEF Polled, Record
  <2>3. QED
    BY <1>5, <2>1, <2>2 DEF Poll, SinkTypeOK
<1>6. ASSUME NEW i \in Record, Write(i)
      PROVE  SinkTypeOK'
  <2>1. lines' \in Seq(Line)
    BY <1>6, AppendType DEF Write, SinkTypeOK
  <2>2. QED
    BY <1>6, <2>1 DEF Write, SinkTypeOK
<1>7. ASSUME NEW i \in Record, WriteFail(i)
      PROVE  SinkTypeOK'
  BY <1>7, CutType DEF WriteFail, SinkTypeOK
<1>8. CASE Store
  BY <1>8 DEF Store, SinkTypeOK
<1>9. CASE UNCHANGED sinkVars
  BY <1>9 DEF sinkVars, SinkTypeOK
<1>10. QED
  BY <1>1, <1>2, <1>3, <1>4, <1>5, <1>6, <1>7, <1>8, <1>9 DEF SinkNext

\* Every variable of the sink task and its file keeps its type.
THEOREM SinkTypeCorrect == SinkSpec => []SinkTypeOK
<1>1. SinkInit => SinkTypeOK
  <2>1. SinkInit => torn \in BOOLEAN /\ exposed \in SUBSET Record
    BY Zenon DEF SinkInit
  <2>2. QED
    BY <2>1, SinkAssumption DEF SinkInit, SinkTypeOK
<1>2. QED
  BY <1>1, SinkTypeStep, PTL DEF SinkSpec

-----------------------------------------------------------------------------
\* After a restart that no edit has followed, nothing that is not in the list is
\* read for the file (ProductFilter.apply, manage-products.sh).
THEOREM ListedOnly == SinkSpec => OnlyListed
<1>1. ASSUME RestartApplies, [SinkNext]_sinkVars, SinkTypeOK,
             position' > position, ~edited,
             NEW i \in batch', Log[i] \in Product
      PROVE  Log[i] \in content[path].ids
  <2>1. CASE \E n \in 1 .. MaxBatch : Poll(n)
    <3>1. PICK n \in 1 .. MaxBatch : Poll(n)
      BY <2>1
    <3>2. configured /\ Log[i] \in allowed \cup {"null", "odd"}
      BY <1>1, <3>1 DEF Poll, Applied
    <3>3. Log[i] \in allowed
      BY <1>1, <3>2, SinkAssumption DEF Special
    <3>4. QED
      BY <1>1, <3>2, <3>3 DEF RestartApplies
  <2>2. CASE StartTask \/ Reassign
    BY <1>1, <2>2 DEF StartTask, Reassign
  <2>3. CASE ~StartTask /\ ~Reassign /\ ~ \E n \in 1 .. MaxBatch : Poll(n)
    <3>1. position' = position
      BY <1>1, <2>3 DEF SinkNext, task, StopTask, Write, WriteFail, Store, sinkVars
    <3>2. QED
      BY <1>1, <3>1 DEF SinkTypeOK
  <2>4. QED
    BY <2>1, <2>2, <2>3
<1>2. RestartApplies /\ SinkTypeOK /\ [SinkNext]_sinkVars
        => [position' > position /\ ~edited =>
              \A i \in batch' : Log[i] \in Product => Log[i] \in content[path].ids]_sinkVars
  BY <1>1
<1>3. QED
  BY <1>2, ListInSink, RestartIsEnough, SinkTypeCorrect, PTL DEF SinkSpec, OnlyListed

-----------------------------------------------------------------------------
\* Edits of the list do not configure the filter.
LEMMA EditKeepsSink == Edit => UNCHANGED sink
BY DEF Edit, Ask, Temp, Move, Report, Clear, ClearRead, ClearOpen, ClearWrite, JqFail, PutFail,
       Interrupt, sink

\* What the file still has to hold: what the stored offset is past, and, of the
\* running task, what it is past and has not in hand.  A line that has not been
\* ended is the last one, and what a torn write has left.
Kept ==
    /\ \A k \in DOMAIN lines : ~lines[k].ended => k = Len(lines) /\ torn
    /\ \A i \in Record :
          i <= stored /\ Log[i] \in Product => i \in dropped \cup exposed \/ Found(i) # {}
    /\ configured => \A i \in Record :
          i <= position /\ Log[i] \in Product =>
             i \in dropped \cup exposed \cup batch \/ Found(i) # {}

\* What goes to the end of the file takes nothing from what is found in it, and
\* is found itself if it is whole and the last line had been ended.
LEMMA AppendFound ==
    ASSUME NEW i \in Record, NEW cut \in {"start", "id", "name", "whole"},
           lines \in Seq(Line), AppendTo(i, cut),
           \A k \in DOMAIN lines : ~lines[k].ended => k = Len(lines)
    PROVE  /\ \A k \in DOMAIN lines' : ~lines'[k].ended => k = Len(lines') /\ cut # "whole"
           /\ \A j \in Record : Found(j) # {} => Found(j)' # {}
           /\ Log[i] \in Product /\ cut = "whole" /\ (\A k \in DOMAIN lines : lines[k].ended)
                 => Found(i)' # {}
<1> DEFINE n    == Len(lines)
           name == IF Log[i] \in Product /\ cut \in {"name", "whole"} THEN i ELSE 0
<1>0. n \in Nat /\ i # 0
  BY DEF Record
<1>1. CASE n > 0 /\ ~lines[n].ended
  <2>1. /\ DOMAIN lines' = DOMAIN lines /\ Len(lines') = n /\ n \in DOMAIN lines
        /\ \A k \in DOMAIN lines : k # n => lines'[k] = lines[k]
        /\ lines'[n].name = FirstOf(lines[n].name, name)
        /\ lines'[n].ended = Ended(cut)
    BY <1>0, <1>1 DEF AppendTo
  <2> HIDE DEF name
  <2>2. \A k \in DOMAIN lines : lines[k].name # 0 => lines'[k].name = lines[k].name
    BY <2>1 DEF FirstOf
  <2>3. \A k \in DOMAIN lines' : ~lines'[k].ended => k = n /\ cut # "whole"
    BY <1>1, <2>1 DEF Ended
  <2>4. \A j \in Record : Found(j) # {} => Found(j)' # {}
    BY <2>1, <2>2 DEF Found
  <2>5. QED
    BY <1>1, <2>1, <2>3, <2>4
<1>2. CASE ~(n > 0 /\ ~lines[n].ended)
  <2>1. PICK row : row.name = name /\ row.ended = Ended(cut) /\ lines' = Append(lines, row)
    BY <1>2 DEF AppendTo
  <2>2. /\ DOMAIN lines' = 1 .. n + 1 /\ Len(lines') = n + 1
        /\ \A k \in DOMAIN lines : k \in DOMAIN lines' /\ lines'[k] = lines[k]
        /\ lines'[n + 1].name = name /\ lines'[n + 1].ended = Ended(cut)
    BY <2>1
  <2>3. \A k \in DOMAIN lines : lines[k].ended
    BY <1>0, <1>2
  <2>4. \A k \in DOMAIN lines' : k \in DOMAIN lines \/ k = n + 1
    BY <1>0, <2>2
  <2>5. Log[i] \in Product /\ cut = "whole" => n + 1 \in Found(i)'
    BY <1>0, <2>2 DEF Found
  <2> HIDE DEF name
  <2>6. \A k \in DOMAIN lines' : ~lines'[k].ended => k = n + 1 /\ cut # "whole"
    BY <2>2, <2>3, <2>4 DEF Ended
  <2>7. \A j \in Record : Found(j) # {} => Found(j)' # {}
    BY <2>2 DEF Found
  <2>8. QED
    BY <2>2, <2>5, <2>6, <2>7
<1>3. QED
  BY <1>1, <1>2

\* A write that fails or is cut off leaves what was found.
LEMMA CutKeeps ==
    ASSUME SinkTypeOK, Kept, NEW i \in Record, CutOff(i)
    PROVE  /\ \A k \in DOMAIN lines' : ~lines'[k].ended => k = Len(lines') /\ torn'
           /\ \A j \in Record : Found(j) # {} => Found(j)' # {}
<1>1. CASE UNCHANGED <<lines, torn>>
  BY <1>1 DEF Kept, Found
<1>2. ASSUME torn', NEW cut \in {"start", "id", "name"}, AppendTo(i, cut)
      PROVE  /\ \A k \in DOMAIN lines' : ~lines'[k].ended => k = Len(lines') /\ torn'
             /\ \A j \in Record : Found(j) # {} => Found(j)' # {}
  BY <1>2, AppendFound DEF Kept, SinkTypeOK
<1>3. QED
  BY <1>1, <1>2 DEF CutOff

LEMMA KeptStep == SinkTypeOK /\ Kept /\ [SinkNext]_sinkVars => Kept'
<1> SUFFICES ASSUME SinkTypeOK, Kept, [SinkNext]_sinkVars
             PROVE  Kept'
  OBVIOUS
<1> USE SinkAssumption
<1>1. CASE Edit /\ UNCHANGED task
  BY <1>1, EditKeepsSink DEF task, sink, Kept, Found
<1>2. CASE StartTask
  BY <1>2 DEF StartTask, TakeUp, Kept, Found
<1>3. CASE Reassign
  BY <1>3 DEF Reassign, TakeUp, vars, Kept, Found
<1>4. CASE StopTask
  <2>1. UNCHANGED <<stored, dropped, exposed>> /\ ~configured'
    BY <1>4 DEF StopTask, Restart
  <2>2. CASE UNCHANGED <<lines, failures, torn>>
    BY <2>1, <2>2 DEF Kept, Found
  <2>3. ASSUME NEW i \in Record, CutOff(i)
        PROVE  Kept'
    BY <2>1, <2>3, CutKeeps DEF Kept
  <2>4. QED
    BY <1>4, <2>2, <2>3 DEF StopTask
<1>5. ASSUME NEW n \in 1 .. MaxBatch, Poll(n)
      PROVE  Kept'
  <2>1. ASSUME NEW i \in Record, i <= position', ~(i <= position)
        PROVE  i \in dropped' \/ i \in batch'
    BY <1>5, <2>1 DEF Poll, Polled, SinkTypeOK, Record
  <2>2. \A i \in Record : i \notin batch
    BY <1>5 DEF Poll
  <2>3. /\ UNCHANGED <<configured, stored, lines, torn, exposed>>
        /\ dropped \subseteq dropped'
    BY <1>5 DEF Poll, vars
  <2>4. QED
    BY <2>1, <2>2, <2>3 DEF Kept, Found
<1>6. ASSUME NEW i \in Record, Write(i)
      PROVE  Kept'
  <2>1. /\ UNCHANGED <<configured, position, stored, dropped>>
        /\ batch' = batch \ {i}
    BY <1>6 DEF Write, vars
  <2>2. CASE Log[i] = "null"
    <3>1. UNCHANGED <<lines, torn, exposed>> /\ Log[i] \notin Product
      BY <1>6, <2>2 DEF Write, Special
    <3>2. QED
      BY <2>1, <3>1 DEF Kept, Found
  <2>3. CASE Log[i] # "null"
    <3>1. /\ AppendTo(i, "whole")
          /\ exposed' = IF torn THEN exposed \cup {i} ELSE exposed \ {i}
      BY <1>6, <2>3 DEF Write
    <3>2. /\ \A k \in DOMAIN lines' : lines'[k].ended
          /\ \A j \in Record : Found(j) # {} => Found(j)' # {}
          /\ ~torn /\ Log[i] \in Product => Found(i)' # {}
      BY <3>1, AppendFound DEF Kept, SinkTypeOK
    <3>3. QED
      BY <2>1, <3>1, <3>2 DEF Kept
  <2>4. QED
    BY <2>2, <2>3
<1>7. ASSUME NEW i \in Record, WriteFail(i)
      PROVE  Kept'
  <2>1. UNCHANGED <<configured, position, stored, dropped>> /\ exposed' = exposed \cup batch
    BY <1>7 DEF WriteFail, vars
  <2>2. QED
    BY <1>7, <2>1, CutKeeps DEF WriteFail, Kept
<1>8. CASE Store
  BY <1>8 DEF Store, vars, Kept, Found
<1>9. CASE UNCHANGED sinkVars
  BY <1>9 DEF sinkVars, Kept, Found
<1>10. QED
  BY <1>1, <1>2, <1>3, <1>4, <1>5, <1>6, <1>7, <1>8, <1>9 DEF SinkNext

\* A record that the connector's stored offset is past is found in the file by
\* its name, or the filter dropped it, or a write that failed or was cut off had
\* it in hand or in front of it (FileSinkTask.put, SearchProductsByName).
THEOREM NothingIsForgotten == SinkSpec => []NothingForgotten
<1>1. SinkInit => Kept
  BY DEF SinkInit, Init, Kept, Record
<1>2. SinkTypeOK /\ Kept => NothingForgotten
  BY SinkAssumption DEF Kept, NothingForgotten, SinkTypeOK, Record
<1>3. QED
  BY <1>1, <1>2, KeptStep, SinkTypeCorrect, PTL DEF SinkSpec

-----------------------------------------------------------------------------
\* How often the running task can have written a record: what it has in front
\* of it or in hand, not since it took up the topic.
Counted ==
    /\ batch # {} => configured
    /\ \A i \in batch : i <= position
    /\ OncePerSession
    /\ configured => \A i \in Record :
          i > position \/ i \in batch => Cardinality(RowsOf(i)) < sessions

LEMMA RowsFinite ==
    ASSUME NEW file \in Seq(Line), NEW i
    PROVE  LET rows == {k \in DOMAIN file : file[k].id = i}
           IN  IsFiniteSet(rows) /\ Cardinality(rows) \in Nat
<1> DEFINE rows == {k \in DOMAIN file : file[k].id = i}
<1>1. rows \in SUBSET (1 .. Len(file)) /\ Len(file) \in Nat
  OBVIOUS
<1> HIDE DEF rows
<1>2. IsFiniteSet(1 .. Len(file))
  BY <1>1, FS_Interval
<1>3. IsFiniteSet(rows)
  BY <1>1, <1>2, FS_Subset
<1>4. IsFiniteSet(rows) /\ Cardinality(rows) \in Nat
  BY <1>3, FS_CardinalityType
<1>5. QED
  BY <1>4 DEF rows

\* An append adds a row of its record at most, and takes none away from it.
LEMMA AppendCounts ==
    ASSUME NEW i \in Record, NEW cut \in {"start", "id", "name", "whole"},
           lines \in Seq(Line), AppendTo(i, cut), NEW j \in Record
    PROVE  /\ j # i => Cardinality(RowsOf(j)') <= Cardinality(RowsOf(j))
           /\ Cardinality(RowsOf(j)') <= Cardinality(RowsOf(j)) + 1
<1> DEFINE n   == Len(lines)
           id  == IF Log[i] \in Product /\ cut # "start" THEN i ELSE 0
           new == IF n > 0 /\ ~lines[n].ended THEN n ELSE n + 1
<1>1. IsFiniteSet(RowsOf(j)) /\ Cardinality(RowsOf(j)) \in Nat
  BY RowsFinite DEF RowsOf
<1>2. j # 0 /\ i # 0 /\ n \in Nat
  BY DEF Record
<1>3. RowsOf(j)' \subseteq RowsOf(j) \cup {new} /\ (j # i => RowsOf(j)' \subseteq RowsOf(j))
  <2>1. CASE n > 0 /\ ~lines[n].ended
    <3>1. /\ DOMAIN lines' = DOMAIN lines
          /\ \A k \in DOMAIN lines : k # n => lines'[k] = lines[k]
          /\ lines'[n].id = FirstOf(lines[n].id, id)
      BY <2>1, <1>2 DEF AppendTo
    <3>2. QED
      BY <2>1, <3>1, <1>2 DEF RowsOf, FirstOf
  <2>2. CASE ~(n > 0 /\ ~lines[n].ended)
    <3>1. PICK row : row.id = id /\ lines' = Append(lines, row)
      BY <2>2 DEF AppendTo
    <3>2. /\ DOMAIN lines' = 1 .. n + 1
          /\ \A k \in 1 .. n : lines'[k] = lines[k]
          /\ lines'[n + 1].id = id
      BY <3>1
    <3>3. QED
      BY <2>2, <3>2, <1>2 DEF RowsOf
  <2>3. QED
    BY <2>1, <2>2
<1>4. /\ IsFiniteSet(RowsOf(j) \cup {new})
      /\ Cardinality(RowsOf(j) \cup {new}) <= Cardinality(RowsOf(j)) + 1
  <2> HIDE DEF new
  <2>1. /\ IsFiniteSet(RowsOf(j) \cup {new})
        /\ Cardinality(RowsOf(j) \cup {new}) =
              IF new \in RowsOf(j) THEN Cardinality(RowsOf(j)) ELSE Cardinality(RowsOf(j)) + 1
    BY <1>1, FS_AddElement
  <2>2. QED
    BY <1>1, <2>1
<1>5. Cardinality(RowsOf(j)') <= Cardinality(RowsOf(j) \cup {new})
  BY <1>3, <1>4, FS_Subset
<1>6. Cardinality(RowsOf(j)') \in Nat /\ Cardinality(RowsOf(j) \cup {new}) \in Nat
  BY <1>3, <1>4, FS_Subset, FS_CardinalityType
<1>7. j # i => Cardinality(RowsOf(j)') <= Cardinality(RowsOf(j))
  BY <1>1, <1>3, FS_Subset
<1>8. QED
  BY <1>1, <1>4, <1>5, <1>6, <1>7

LEMMA CountedStep == SinkTypeOK /\ SinkTypeOK' /\ Counted /\ [SinkNext]_sinkVars => Counted'
<1> SUFFICES ASSUME SinkTypeOK, SinkTypeOK', Counted, [SinkNext]_sinkVars
             PROVE  Counted'
  OBVIOUS
<1> USE SinkAssumption
<1>0. \A i \in Record : Cardinality(RowsOf(i)) \in Nat /\ Cardinality(RowsOf(i)') \in Nat
  BY RowsFinite DEF SinkTypeOK, RowsOf
<1>1. CASE Edit /\ UNCHANGED task
  BY <1>1, EditKeepsSink DEF task, sink, Counted, OncePerSession, RowsOf
<1>2. CASE StartTask \/ Reassign
  <2>1. TakeUp /\ batch' = {}
    BY <1>2 DEF StartTask, Reassign
  <2>2. QED
    BY <1>0, <2>1 DEF TakeUp, Counted, OncePerSession, RowsOf, SinkTypeOK
<1>4. ASSUME NEW n \in 1 .. MaxBatch, Poll(n)
      PROVE  Counted'
  <2>1. /\ UNCHANGED <<configured, lines, sessions>> /\ configured
        /\ position' = position + n /\ batch' \subseteq position + 1 .. position + n
    BY <1>4 DEF Poll, Polled, vars
  <2>2. position \in Nat /\ n \in Nat
    BY DEF SinkTypeOK
  <2>3. \A i \in Record : RowsOf(i)' = RowsOf(i)
    BY <2>1 DEF RowsOf
  <2>4. \A i \in Record : i > position' \/ i \in batch' => i > position
    BY <2>1, <2>2 DEF Record
  <2>5. \A i \in batch' : i <= position'
    BY <2>1, <2>2
  <2>6. QED
    BY <2>1, <2>3, <2>4, <2>5 DEF Counted, OncePerSession
<1>5. ASSUME NEW i \in Record, NEW cut \in {"start", "id", "name", "whole"},
             i \in batch, lines' = lines \/ AppendTo(i, cut),
             batch' \subseteq batch \ {i}, UNCHANGED <<position, sessions>>,
             configured' = configured \/ batch' = {}
      PROVE  Counted'
  <2>1. configured /\ i <= position /\ Cardinality(RowsOf(i)) < sessions
    BY <1>5 DEF Counted
  <2>2. ASSUME NEW j \in Record
        PROVE  /\ j # i => Cardinality(RowsOf(j)') <= Cardinality(RowsOf(j))
               /\ Cardinality(RowsOf(j)') <= Cardinality(RowsOf(j)) + 1
    <3>1. CASE lines' = lines
      <4>1. RowsOf(j)' = RowsOf(j)
        BY <3>1 DEF RowsOf
      <4>2. QED
        BY <1>0, <4>1
    <3>2. CASE AppendTo(i, cut)
      BY <3>2, AppendCounts DEF SinkTypeOK
    <3>3. QED
      BY <1>5, <3>1, <3>2
  <2>3. Cardinality(RowsOf(i)') <= sessions
    BY <1>0, <2>1, <2>2 DEF SinkTypeOK
  <2>4. OncePerSession'
    <3> SUFFICES ASSUME NEW j \in Record PROVE Cardinality(RowsOf(j)') <= sessions
      BY <1>5 DEF OncePerSession
    <3>1. QED
      BY <1>0, <2>2, <2>3 DEF Counted, OncePerSession, SinkTypeOK
  <2>5. ASSUME NEW j \in Record, j > position \/ j \in batch'
        PROVE  Cardinality(RowsOf(j)') < sessions
    <3>1. j # i /\ (j > position \/ j \in batch)
      BY <1>5, <2>1, <2>5 DEF SinkTypeOK, Record
    <3>2. QED
      BY <1>0, <2>1, <2>2, <3>1 DEF Counted, SinkTypeOK
  <2>6. QED
    BY <1>5, <2>1, <2>4, <2>5 DEF Counted
<1>3. CASE StopTask
  <2>1. UNCHANGED <<position, sessions>> /\ batch' = {}
    BY <1>3 DEF StopTask
  <2>2. CASE UNCHANGED lines
    BY <1>3, <2>1, <2>2 DEF StopTask, Restart, Counted, OncePerSession, RowsOf
  <2>3. ASSUME NEW i \in Record, CutOff(i)
        PROVE  Counted'
    BY <1>5, <2>1, <2>3 DEF CutOff, InTurn
  <2>4. QED
    BY <1>3, <2>2, <2>3 DEF StopTask
<1>6. ASSUME NEW i \in Record, Write(i)
      PROVE  Counted'
  BY <1>5, <1>6 DEF Write, InTurn, vars
<1>f. ASSUME NEW i \in Record, WriteFail(i)
      PROVE  Counted'
  BY <1>5, <1>f DEF WriteFail, CutOff, InTurn, vars
<1>7. CASE Store
  BY <1>7 DEF Store, vars, Counted, OncePerSession, RowsOf
<1>8. CASE UNCHANGED sinkVars
  BY <1>8 DEF sinkVars, Counted, OncePerSession, RowsOf
<1>9. QED
  BY <1>1, <1>2, <1>3, <1>4, <1>6, <1>f, <1>7, <1>8 DEF SinkNext

\* A record is in the file at most once for each time the task took up the
\* topic, by a start or after a lost assignment, so that only a redelivery
\* repeats a line (FileSinkTask.put).
THEOREM OncePerSessionHolds == SinkSpec => []OncePerSession
<1>1. SinkInit => Counted
  BY FS_EmptySet DEF SinkInit, Init, Counted, OncePerSession, RowsOf
<1>2. Counted => OncePerSession
  BY DEF Counted
<1>3. QED
  BY <1>1, <1>2, CountedStep, SinkTypeCorrect, PTL DEF SinkSpec
=============================================================================
