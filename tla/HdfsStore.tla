------------------------------- MODULE HdfsStore -------------------------------
\* The store of requests and recommendations in HDFS, as its clients in
\* internal/infra/clients/hdfs see it.
\*
\* Concurrent calls of WriteRequestData, from the goroutines of the partitions
\* and of several processes, create one file each, named after the product and
\* the second of the call: the fraction the layout 20060102_150405_000 ends in
\* is three literal zeros.  The native client creates a file that must not
\* exist, writes, and closes it in a deferred call whose error nobody reads.
\* The WebHDFS client makes two requests, both with overwrite=true: http.Client
\* follows the redirect of the first one, which leaves an empty file, and the
\* second one sends the data.
\*
\* The popularity job reads the requests and saves its result once; the
\* recommendation service loads it once, when it starts.  HDFS, Spark and the
\* HTTP client are external to src/.
EXTENDS Naturals

CONSTANTS
    Call,       \* the calls of WriteRequestData, a repeated one being another call
    ProductOf,  \* ProductOf[c]: the file name call c was given
    Request,    \* the calls whose data has a product_name
    LastSecond, \* bound: the seconds that pass
    MaxFaults,  \* bound: failed requests in one behaviour
    NoFile,     \* nothing stands at the name
    Partial     \* a file that is empty or cut short

Client == {"native", "web", "mock"}
Second == 0 .. LastSecond
Name   == {<<ProductOf[c], t>> : c \in Call, t \in Second}

ASSUME StoreAssumption ==
    /\ ProductOf = [c \in Call |-> ProductOf[c]]
    /\ Request \subseteq Call
    /\ LastSecond \in Nat
    /\ MaxFaults \in Nat
    /\ NoFile \notin Call \cup {Partial} /\ Partial \notin Call

VARIABLES
    client,    \* which client the calls are made on
    now,       \* the second the clock shows
    stage,     \* stage[c]: where call c is, or what it returned
    second,    \* second[c]: the second in the name of its file
    file,      \* file[n]: nothing, a part, or the call whose data it holds
    unclosed,  \* the calls whose deferred Close failed
    output,    \* what stands at recommendations/part-00000
    popular,   \* what the service has loaded
    faults     \* how many requests have failed

calls == <<stage, second, file, unclosed>>
vars  == <<client, now, stage, second, file, unclosed, output, popular, faults>>

Pending  == {"mkdir", "create", "put"}
Returned == {"ok", "error"}

\* (An operator named Bug... is a plausible mistake in the operator that
\* follows it; no action uses one.  The properties are tested against them.)
BugDay(c)  == <<ProductOf[c], 0>>
NameOf(c) == <<ProductOf[c], second[c]>>

Fault == faults < MaxFaults /\ faults' = faults + 1

\* NewHDFSClient builds the mock or the WebHDFS client; NewHDFSWriter, which
\* no program calls, the native one.
Init ==
    /\ client \in Client
    /\ now = 0
    /\ stage = [c \in Call |-> "idle"]
    /\ second = [c \in Call |-> 0]
    /\ file = [n \in Name |-> NoFile]
    /\ unclosed = {}
    /\ output = "none"
    /\ popular = "unloaded"
    /\ faults = 0

Tick ==
    /\ now < LastSecond
    /\ now' = now + 1
    /\ UNCHANGED <<client, calls, output, popular, faults>>

Goto(c, s) == stage' = [stage EXCEPT ![c] = s]

-----------------------------------------------------------------------------
\* WriteRequestData

\* The mock returns at once.  The native client reads the clock here, before
\* it makes the directory.
Begin(c) ==
    /\ stage[c] = "idle"
    /\ Goto(c, IF client = "mock" THEN "ok" ELSE "mkdir")
    /\ second' = [second EXCEPT ![c] = now]
    /\ UNCHANGED <<client, now, file, unclosed, output, popular, faults>>

\* The directory is there; the WebHDFS client reads the clock after that.
BugRoundUp(c) == now + 1
ClockRead(c)  == IF client = "web" THEN now ELSE second[c]

Mkdir(c) ==
    /\ stage[c] = "mkdir"
    /\ Goto(c, "create")
    /\ second' = [second EXCEPT ![c] = ClockRead(c)]
    /\ UNCHANGED <<client, now, file, unclosed, output, popular, faults>>

MkdirFail(c) ==
    /\ stage[c] = "mkdir"
    /\ Fault
    /\ Goto(c, "error")
    /\ UNCHANGED <<client, now, second, file, unclosed, output, popular>>

Becomes(c, data) == file' = [file EXCEPT ![NameOf(c)] = data]

\* The native Create refuses a name that is taken.
BugTruncate(c) == TRUE
NameIsFree(c)  == file[NameOf(c)] = NoFile

NativeCreate(c) ==
    /\ client = "native"
    /\ stage[c] = "create"
    /\ IF NameIsFree(c)
         THEN Goto(c, "put") /\ Becomes(c, Partial)
         ELSE Goto(c, "error") /\ UNCHANGED file
    /\ UNCHANGED <<client, now, second, unclosed, output, popular, faults>>

\* The first request: the file is empty now (201), or the redirect has come
\* back to the caller and the file is as it was.
WebCreate(c) ==
    /\ client = "web"
    /\ stage[c] = "create"
    /\ Goto(c, "put")
    /\ Becomes(c, Partial) \/ UNCHANGED file
    /\ UNCHANGED <<client, now, second, unclosed, output, popular, faults>>

\* It fails before or after it had its effect.
CreateFail(c) ==
    /\ stage[c] = "create"
    /\ Fault
    /\ Goto(c, "error")
    /\ \/ UNCHANGED file
       \/ (client = "web" \/ NameIsFree(c)) /\ Becomes(c, Partial)
    /\ UNCHANGED <<client, now, second, unclosed, output, popular>>

BugAckAfterFault == "ok"
AfterFault       == "error"

\* The data is in the file and the call returns nil.
Put(c) ==
    /\ stage[c] = "put"
    /\ Goto(c, "ok")
    /\ Becomes(c, c)
    /\ UNCHANGED <<client, now, second, unclosed, output, popular, faults>>

\* The second request, or the native Write, fails before, during or after it.
PutFail(c) ==
    /\ stage[c] = "put"
    /\ Fault
    /\ Goto(c, AfterFault)
    /\ \/ Becomes(c, Partial)
       \/ client = "web" /\ (Becomes(c, c) \/ UNCHANGED file)
    /\ UNCHANGED <<client, now, second, unclosed, output, popular>>

\* The native Write only fills a buffer; the data is lost when Close fails to
\* send it, and the call returns nil all the same.
CloseFail(c) ==
    /\ client = "native"
    /\ stage[c] = "put"
    /\ Fault
    /\ Goto(c, "ok")
    /\ unclosed' = unclosed \cup {c}
    /\ UNCHANGED <<client, now, second, file, output, popular>>

-----------------------------------------------------------------------------
\* Readers

\* ListFiles and ReadFile: the files of the directory and what is in one.
ListFiles == {n \in Name : file[n] # NoFile}
ReadFile(n) == file[n]

\* saveAsTextFile makes a directory, and fails where something stands already.
SavedAs == "directory"

Job ==
    /\ \E n \in ListFiles : ReadFile(n) \in Request
    /\ output = "none"
    /\ output' = SavedAs
    /\ UNCHANGED <<client, now, calls, popular, faults>>

\* A directory cannot be opened, nor what is not there: both are an error.
ReadRecommendations ==
    IF client = "mock" THEN "mock" ELSE IF output = "file" THEN "job" ELSE "nothing"

\* The service starts; after an error its list stays empty.
Load ==
    /\ popular = "unloaded"
    /\ popular' = ReadRecommendations
    /\ UNCHANGED <<client, now, calls, output, faults>>

\* The service ends.
Unload ==
    /\ popular # "unloaded"
    /\ popular' = "unloaded"
    /\ UNCHANGED <<client, now, calls, output, faults>>

Next ==
    \/ \E c \in Call :
          \/ Begin(c) \/ Mkdir(c) \/ MkdirFail(c)
          \/ NativeCreate(c) \/ WebCreate(c) \/ CreateFail(c)
          \/ Put(c) \/ PutFail(c) \/ CloseFail(c)
    \/ Tick \/ Job \/ Load \/ Unload

Spec == Init /\ [][Next]_vars

-----------------------------------------------------------------------------
\* Properties

\* Every variable has its type.
TypeOK ==
    /\ client \in Client
    /\ now \in Second
    /\ stage \in [Call -> {"idle"} \cup Pending \cup Returned]
    /\ second \in [Call -> Second]
    /\ file \in [Name -> Call \cup {NoFile, Partial}]
    /\ unclosed \in SUBSET Call
    /\ output \in {"none", "directory", "file"}
    /\ popular \in {"unloaded", "mock", "nothing", "job"}
    /\ faults \in 0 .. MaxFaults

\* The calls that have been at a file, successfully or not.
Toucher(n) == {c \in Call : NameOf(c) = n /\ stage[c] \in {"put", "ok", "error"}}

\* When every call that has been at a file has returned nil, the file is whole
\* and is what one of them wrote, however their requests were interleaved: an
\* acknowledged write is lost only to a call of the same product in the same
\* second (webhdfs.go:98, 152), or to a native Close that failed (client.go:74).
AckedIsWhole ==
    \A n \in Name :
        LET touched == Toucher(n)
        IN  client # "mock" /\ touched # {}
              /\ (\A c \in touched : stage[c] = "ok" /\ c \notin unclosed)
            => ReadFile(n) \in touched

\* The native client never loses what it has acknowledged and closed: whoever
\* comes second to a name is refused, a repetition in the same second included
\* (client.go:63-73).
NativeKeeps ==
    client = "native" =>
        \A c \in Call : stage[c] = "ok" /\ c \notin unclosed => ReadFile(NameOf(c)) = c

\* An acknowledged write whose second is over while no other call is at its
\* name, or on the way to it.
Final(c) ==
    /\ stage[c] = "ok"
    /\ ReadFile(NameOf(c)) = c
    /\ second[c] < now
    /\ \A d \in Call : stage[d] \in Pending => NameOf(d) # NameOf(c)

\* Such a write stays: a batch that is repeated in a later second destroys
\* nothing of the first time (product.go:84-87, webhdfs.go:152).
FinalStays == [][\A c \in Call : Final(c) => Final(c)']_vars

\* "Updates the recommendations for analytic_client": a service that starts
\* after the job has saved its result loads it (README.md:263-265).
JobReachesService ==
    [][popular = "unloaded" /\ popular' # "unloaded" /\ output # "none" /\ client # "mock"
         => popular' = "job"]_vars
=============================================================================
