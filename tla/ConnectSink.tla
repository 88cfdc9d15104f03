------------------------------ MODULE ConnectSink ------------------------------
\* The sink connector that makes the product file of the CLI, composed with the
\* list of allowed products it filters by (AllowedProducts).
\*
\* Kafka Connect polls a batch of the topic, ProductFilter.apply drops records
\* from it, and FileSinkTask.put appends what is left to filtered-products.txt,
\* a line each.  put swallows an IOException, so that the batch counts as
\* delivered.  Offsets are stored now and then; a task that starts again, or whose
\* consumer has lost its assignment and got it back, reads from the stored offset.
\* The CLI loads the file and searches it by name.
\*
\* The one task (tasks.max), its consumer and the disk are external to src/.
EXTENDS AllowedProducts, Sequences, FiniteSets

CONSTANTS
    Log,          \* the records of the topic, by what the filter sees in them
    MaxBatch,     \* bound: the records of one poll
    MaxLines,     \* bound: the records ever written
    MaxSessions,  \* bound: how often the task takes up the topic
    MaxFailures   \* bound: writes that fail or are cut off

\* A product, or a record without a value, a JSON value without a product_id,
\* or a value the filter cannot judge: not text and no object, or no JSON.
Special == {"null", "noid", "odd"}
Kind    == Product \cup Special

ASSUME SinkAssumption ==
    /\ Product \cap Special = {}
    /\ Log \in Seq(Kind)
    /\ MaxBatch \in Nat /\ MaxLines \in Nat /\ MaxSessions \in Nat /\ MaxFailures \in Nat

VARIABLES
    position,   \* how many records the task has read
    stored,     \* the offset Connect has stored for the task
    batch,      \* the records that put has still to write, in their order
    lines,      \* the file
    dropped,    \* the records that the filter has ever dropped
    sessions,   \* how often the task took up the topic at the stored offset
    failures,   \* how many writes have failed or were cut off
    torn,       \* the last thing in the file is what such a write left there
    exposed     \* the records that a failing put had in hand, or put behind a torn one

task     == <<position, stored, batch, lines, dropped, sessions, failures, torn, exposed>>
sinkVars == <<path, content, command, promised, mounted, configured, allowed, edited, faults,
              doubtful, overlapped, position, stored, batch, lines, dropped, sessions,
              failures, torn, exposed>>

Record == 1 .. Len(Log)

\* A line as parseFilteredProductLine reads it: the records that its product_id
\* and its name come from, 0 for none, and whether it has been ended.
Line == [id : Record \cup {0}, name : Record \cup {0}, ended : BOOLEAN]

SinkInit ==
    /\ Init
    /\ position = 0 /\ stored = 0
    /\ batch = {} /\ lines = <<>>
    /\ dropped = {}
    /\ sessions = 0 /\ failures = 0
    /\ torn = FALSE /\ exposed = {}

-----------------------------------------------------------------------------
\* A new task configures its filter and takes up the topic at the stored offset.
TakeUp ==
    /\ sessions < MaxSessions
    /\ sessions' = sessions + 1
    /\ position' = stored
    /\ UNCHANGED <<stored, lines, dropped, failures, torn, exposed>>

StartTask == Configure /\ TakeUp /\ batch' = {}

\* So does one whose consumer has missed its session timeout, when it polls
\* again; the filter it has is kept.
Reassign == configured /\ batch = {} /\ TakeUp /\ UNCHANGED <<vars, batch>>

\* apply: what has no value or cannot be judged goes through.
BugAnyProduct(i) == Log[i] # "noid"
Applied(i)       == Log[i] \in allowed \cup {"null", "odd"}

BugRepeat(n) == (IF position = 0 THEN 1 ELSE position) .. position + n
Polled(n)    == position + 1 .. position + n

Poll(n) ==
    /\ configured
    /\ batch = {}
    /\ position + n <= Len(Log) /\ Len(lines) + n <= MaxLines
    /\ batch' = {i \in Polled(n) : Applied(i)}
    /\ dropped' = dropped \cup {i \in Polled(n) : ~Applied(i)}
    /\ position' = position + n
    /\ UNCHANGED <<vars, stored, lines, sessions, failures, torn, exposed>>

-----------------------------------------------------------------------------
\* The CLI reads the first match of each field in a line.
FirstOf(r, s) == IF r # 0 THEN r ELSE s

BugNoNewline(cut) == FALSE
Ended(cut)        == cut = "whole"

\* Record i, or the part of it in front of the cut, goes to the end of the file.
AppendTo(i, cut) ==
    LET id   == IF Log[i] \in Product /\ cut # "start" THEN i ELSE 0
        name == IF Log[i] \in Product /\ cut \in {"name", "whole"} THEN i ELSE 0
        n    == Len(lines)
    IN  lines' = IF n > 0 /\ ~lines[n].ended
                   THEN [lines EXCEPT ![n] = [id    |-> FirstOf(lines[n].id, id),
                                              name  |-> FirstOf(lines[n].name, name),
                                              ended |-> Ended(cut)]]
                   ELSE Append(lines, [id |-> id, name |-> name, ended |-> Ended(cut)])

\* put, one record; one without a value is skipped.
InTurn(i) == i \in batch /\ \A j \in batch : i <= j

Write(i) ==
    /\ InTurn(i)
    /\ batch' = batch \ {i}
    /\ IF Log[i] = "null"
         THEN UNCHANGED <<lines, torn, exposed>>
         ELSE /\ AppendTo(i, "whole")
              /\ torn' = FALSE
              /\ exposed' = IF torn THEN exposed \cup {i} ELSE exposed \ {i}
    /\ UNCHANGED <<vars, position, stored, dropped, sessions, failures>>

\* A write that fails or is cut off leaves a part of the record in the file: none,
\* up to before its id, to behind its id, or all of it but the newline.
CutOff(i) ==
    /\ InTurn(i)
    /\ failures < MaxFailures
    /\ failures' = failures + 1
    /\ \/ UNCHANGED <<lines, torn>>
       \/ Log[i] # "null" /\ torn' = TRUE /\ \E cut \in {"start", "id", "name"} : AppendTo(i, cut)

\* An IOException: the rest of the batch is forgotten, and counts as delivered.
WriteFail(i) ==
    /\ CutOff(i)
    /\ batch' = {}
    /\ exposed' = exposed \cup batch
    /\ UNCHANGED <<vars, position, stored, dropped, sessions>>

\* The container stops its task between two records, or in the middle of one.
StopTask ==
    /\ Restart
    /\ batch' = {}
    /\ \/ UNCHANGED <<lines, failures, torn>>
       \/ \E i \in Record : CutOff(i)
    /\ UNCHANGED <<position, stored, dropped, sessions, exposed>>

\* Connect stores the offset between two calls of put.
Store ==
    /\ configured
    /\ batch = {}
    /\ stored' = position
    /\ UNCHANGED <<vars, position, batch, lines, dropped, sessions, failures, torn, exposed>>

SinkNext ==
    \/ Edit /\ UNCHANGED task
    \/ StartTask \/ Reassign \/ StopTask
    \/ \E n \in 1 .. MaxBatch : Poll(n)
    \/ \E i \in Record : Write(i) \/ WriteFail(i)
    \/ Store

SinkSpec == SinkInit /\ [][SinkNext]_sinkVars

-----------------------------------------------------------------------------
\* Properties

\* Every variable has its type.
SinkTypeOK ==
    /\ position \in 0 .. Len(Log) /\ stored \in 0 .. Len(Log)
    /\ batch \in SUBSET Record
    /\ lines \in Seq(Line)
    /\ dropped \in SUBSET Record
    /\ sessions \in 0 .. MaxSessions /\ failures \in 0 .. MaxFailures
    /\ torn \in BOOLEAN
    /\ exposed \in SUBSET Record

\* LoadFilteredProducts and SearchProductsByName: the rows the CLI finds by the
\* name of the product of record i.
Found(i) == {k \in DOMAIN lines : lines[k].name # 0 /\ Log[lines[k].name] = Log[i]}

\* A record the connector is past is found by its name, or the filter dropped it,
\* or it is exposed: a write that fails or is cut off costs at most the rest of
\* its batch and the one record that is appended to what it left in the file
\* (FileSinkTask.java:33-46, product.go:144-214).
NothingForgotten ==
    \A i \in 1 .. stored : Log[i] \in Product => i \in dropped \cup exposed \/ Found(i) # {}

RowsOf(i) == {k \in DOMAIN lines : lines[k].id = i}

\* A record is in the file at most once for each time the task took up the topic,
\* by a start or after a lost assignment, however writes fail and lines merge
\* (FileSinkTask.java:33-43).
OncePerSession == \A i \in Record : Cardinality(RowsOf(i)) <= sessions

\* After a restart that no edit has followed, nothing that is not in the list
\* is read for the file (manage-products.sh:51, ProductFilter.java:57).
OnlyListed ==
    [][position' > position /\ ~edited =>
         \A i \in batch' : Log[i] \in Product => Log[i] \in content[path].ids]_sinkVars
=============================================================================
