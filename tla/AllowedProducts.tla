--------------------------- MODULE AllowedProducts ---------------------------
\* The list of allowed products on its way from the operator to the filter of
\* the sink connector.
\*
\* scripts/manage-products.sh edits kafka-connect/allowed-products.json: "add"
\* and "remove" write a temporary file and move it over the list, "clear"
\* writes the list in place.  The Kafka Connect container has that one file
\* bind-mounted, so it goes on seeing the file that stood at the path when the
\* container was started.  ProductFilter reads the file when it is configured
\* and never again (nothing calls its reloadAllowedProducts).
\*
\* The script looks at no exit code: when cat, jq, mktemp, mv or a redirection
\* fails it goes on, and reports what it set out to do.
\*
\* The shell, jq, the file system and Docker are external to src/.
EXTENDS Naturals

CONSTANTS
    Script,         \* the terminals the script is run from
    Product,        \* the product ids
    Initial,        \* the ids listed at first
    MaxFiles,       \* bound: files that ever stand at the path
    MaxFaults       \* bound: interrupted commands and failing tools

ASSUME AllowedAssumption ==
    /\ Initial \subseteq Product
    /\ MaxFiles \in Nat \ {0}
    /\ MaxFaults \in Nat

VARIABLES
    path,        \* the file that stands at the path
    content,     \* content[f]: what file f holds
    command,     \* command[s]: what terminal s is executing
    promised,    \* the ids that the script's reports add up to
    mounted,     \* the file the container sees
    configured,  \* the task of this container has configured its filter
    allowed,     \* the filter's allowedProductIds
    edited,      \* the list has been written since the container was started
    faults,      \* how many commands were interrupted and how many tools failed
    doubtful,    \* the ids whose last report did not come, or came of a failed mv
    overlapped   \* two commands have ever been in progress at the same time

list == <<path, content>>
sink == <<mounted, configured, allowed>>
vars == <<path, content, command, promised, mounted, configured, allowed, edited, faults,
          doubtful, overlapped>>

File == 1 .. MaxFiles

\* What a file holds: a list of ids, or nothing at all.
List(ids) == [blank |-> FALSE, ids |-> ids]
Blank     == [blank |-> TRUE, ids |-> {}]
Content   == {Blank} \cup {List(ids) : ids \in SUBSET Product}

\* mktemp makes its files with mode 0600: what mv has put at the path belongs to
\* the operator alone.
FromTemp(f) == f # 1

\* A command: what it is to do, the step it is at, the product it names, what has
\* come down its pipe, and the file a clear has truncated.
Verb    == {"add", "remove", "clear"}
Step    == {"temp", "move", "start", "read", "open", "write", "report"}
Command == [verb : Verb, step : Step, id : SUBSET Product, pipe : Content, out : File]
NoCommand == [verb |-> "none", step |-> "none", id |-> {}, pipe |-> Blank, out |-> 1]

At(s, step) == command[s].step = step
Do(s, verb, step, id, pipe, out) ==
    command' = [command EXCEPT ![s] =
                   [verb |-> verb, step |-> step, id |-> id, pipe |-> pipe, out |-> out]]
Goto(s, step, pipe, out) == Do(s, command[s].verb, step, command[s].id, pipe, out)
Done(s) == command' = [command EXCEPT ![s] = NoCommand]

Fault == faults < MaxFaults /\ faults' = faults + 1

Init ==
    /\ path = 1
    /\ content = [f \in File |-> List(Initial)]
    /\ command = [s \in Script |-> NoCommand]
    /\ promised = Initial
    /\ mounted = 1
    /\ configured = FALSE
    /\ allowed = {}
    /\ edited = FALSE
    /\ faults = 0
    /\ doubtful = {}
    /\ overlapped = FALSE

-----------------------------------------------------------------------------
\* add and remove
\* (An operator named Bug... is a plausible mistake in the operator that
\* follows it; no action uses one.  The properties are tested against them.)

\* What a command makes of the ids in the list, and its report of those believed in it.
Edited(verb, ids, id) ==
    CASE verb = "add" -> ids \cup id
      [] verb = "remove" -> ids \ id
      [] OTHER -> {}

\* The check: what "already exists" or is "not found" leaves the list untouched.
\* (Its own cat and grep do not fail here.)
Ask(s, verb, x) ==
    /\ At(s, "none")
    /\ IF Edited(verb, content[path].ids, {x}) = content[path].ids
         THEN Do(s, verb, "report", {x}, Blank, 1) /\ doubtful' = doubtful \ {x}
         ELSE Do(s, verb, "temp", {x}, Blank, 1) /\ UNCHANGED doubtful
    /\ UNCHANGED <<list, promised, sink, edited, faults>>

\* jq makes nothing out of nothing.
BugAssign(c, verb, id) == IF c.blank THEN Blank ELSE List(id)
BugRepair(c, verb, id) == List(Edited(verb, c.ids, id))
BugNested(c, verb, id) == IF c.blank THEN Blank ELSE List(c.ids \cup {id})
Jq(c, verb, id)        == IF c.blank THEN Blank ELSE List(Edited(verb, c.ids, id))

\* The temporary file is written.
Temp(s) ==
    /\ At(s, "temp")
    /\ Goto(s, "move", Jq(content[path], command[s].verb, command[s].id), 1)
    /\ UNCHANGED <<list, promised, sink, edited, faults, doubtful>>

\* mv puts a new file at the path; the old one lives on where it is mounted.
Move(s) ==
    /\ At(s, "move")
    /\ path < MaxFiles
    /\ path' = path + 1
    /\ content' = [content EXCEPT ![path + 1] = command[s].pipe]
    /\ edited' = TRUE
    /\ doubtful' = doubtful \ command[s].id
    /\ Goto(s, "report", Blank, 1)
    /\ UNCHANGED <<promised, sink, faults>>

\* "Added", "Removed" or "Cleared" is printed, whatever came out.
Report(s) ==
    /\ At(s, "report")
    /\ promised' = Edited(command[s].verb, promised, command[s].id)
    /\ Done(s)
    /\ UNCHANGED <<list, sink, edited, faults, doubtful>>

-----------------------------------------------------------------------------
\* clear: cat F | jq ... > F.  The two sides of the pipe start together: the
\* right one truncates F when it is opened, the left one reads F, in either
\* order.

Clear(s) ==
    /\ At(s, "none")
    /\ Do(s, "clear", "start", {}, Blank, 1)
    /\ UNCHANGED <<list, promised, sink, edited, faults, doubtful>>

Read(s, pipe) ==
    /\ command[s].step \in {"start", "open"}
    /\ Goto(s, IF At(s, "start") THEN "read" ELSE "write", pipe, command[s].out)

ClearRead(s) ==
    /\ Read(s, content[path])
    /\ UNCHANGED <<list, promised, sink, edited, faults, doubtful>>

ClearOpen(s) ==
    /\ command[s].step \in {"start", "read"}
    /\ Goto(s, IF At(s, "start") THEN "open" ELSE "write", command[s].pipe, path)
    /\ content' = [content EXCEPT ![path] = Blank]
    /\ edited' = TRUE
    /\ UNCHANGED <<path, promised, sink, faults, doubtful>>

\* jq writes the empty list, or, when nothing came down the pipe, nothing.
ClearWrite(s) ==
    /\ At(s, "write")
    /\ Goto(s, "report", Blank, 1)
    /\ IF command[s].pipe.blank
         THEN UNCHANGED <<content, edited, doubtful>>
         ELSE /\ content' = [content EXCEPT ![command[s].out] = List({})]
              /\ edited' = TRUE
              /\ doubtful' = {}
    /\ UNCHANGED <<path, promised, sink, faults>>

-----------------------------------------------------------------------------
\* Failures and interruptions

\* cat or jq fails, on an id with a quote in it, say: nothing comes out.
JqFail(s) ==
    /\ Fault
    /\ \/ At(s, "temp") /\ Goto(s, "move", Blank, 1)
       \/ Read(s, Blank)
    /\ UNCHANGED <<list, promised, sink, edited, doubtful>>

\* mktemp or mv fails, or the shell cannot open the list for writing: the list
\* stays as it is, and the report is printed.
PutFail(s) ==
    /\ Fault
    /\ command[s].step \in {"move", "start", "read"}
    /\ Goto(s, "report", Blank, 1)
    /\ doubtful' = doubtful \cup (IF At(s, "move") THEN command[s].id ELSE content[path].ids)
    /\ UNCHANGED <<list, promised, sink, edited>>

\* What a command has still to report of what it has done.
Unreported(s) ==
    IF ~At(s, "report") THEN {} ELSE IF command[s].verb = "clear" THEN promised ELSE command[s].id

\* A command is interrupted: no report, and a truncated list stays truncated.
Interrupt(s) ==
    /\ ~At(s, "none")
    /\ Fault
    /\ Done(s)
    /\ doubtful' = doubtful \cup Unreported(s)
    /\ UNCHANGED <<list, promised, sink, edited>>

-----------------------------------------------------------------------------
\* The container and its filter

\* docker compose restart kafka-connect mounts what stands at the path now.
Restart ==
    /\ mounted' = path
    /\ edited' = FALSE
    /\ configured' = FALSE
    /\ UNCHANGED <<list, command, promised, allowed, faults, doubtful, overlapped>>

\* The task starts, for the first time or again, and configures a new filter.  A
\* blank file is read as a list of nothing, and so is one that is not there or
\* that the container's user may not read.
BugKeepOld(ids) == allowed \cup ids
Loaded(ids)     == ids

Configure ==
    /\ configured' = TRUE
    /\ \/ allowed' = Loaded(content[mounted].ids)
       \/ FromTemp(mounted) /\ allowed' = Loaded({})
    /\ UNCHANGED <<list, command, promised, mounted, edited, faults, doubtful, overlapped>>

\* What the terminals do.  Nothing in the script keeps two of them apart; the
\* history variable records whether their commands ever were in progress together.
Overlap == \E s, t \in Script : s # t /\ ~At(s, "none") /\ ~At(t, "none")

Edit ==
    /\ \E s \in Script :
          \/ \E x \in Product : Ask(s, "add", x) \/ Ask(s, "remove", x)
          \/ Temp(s) \/ Move(s) \/ Report(s)
          \/ Clear(s) \/ ClearRead(s) \/ ClearOpen(s) \/ ClearWrite(s)
          \/ JqFail(s) \/ PutFail(s) \/ Interrupt(s)
    /\ overlapped' = (overlapped \/ Overlap')

Next == Edit \/ Restart \/ Configure

Spec == Init /\ [][Next]_vars

-----------------------------------------------------------------------------
\* Properties

\* Every variable has its type.
TypeOK ==
    /\ path \in File
    /\ content \in [File -> Content]
    /\ command \in [Script -> Command \cup {NoCommand}]
    /\ promised \in SUBSET Product
    /\ mounted \in File
    /\ configured \in BOOLEAN
    /\ allowed \in SUBSET Product
    /\ edited \in BOOLEAN
    /\ faults \in 0 .. MaxFaults
    /\ doubtful \in SUBSET Product
    /\ overlapped \in BOOLEAN

\* However many terminals there are, until commands overlap a list that is not
\* blank differs from what the reports add up to only in what a command is about
\* to report, and in products whose report an interruption has cut off or whose
\* mv has failed; the next report that names one of those settles it
\* (manage-products.sh:29-90).
ReportsAreTrue ==
    ~overlapped /\ ~content[path].blank =>
        LET ids == content[path].ids
        IN  (ids \ promised) \cup (promised \ ids)
               \subseteq doubtful \cup UNION {Unreported(s) : s \in Script}

\* The list is blank and no clear is about to write it.
Lost == /\ content[path].blank
        /\ \A s \in Script : At(s, "write") => command[s].pipe.blank

\* What terminal s does may lose the list: its clear may truncate it before it
\* reads it, or be interrupted before it writes it, or its jq has failed.
MayLose(s) ==
    \/ At(s, "start") \/ At(s, "write")
    \/ command[s].step \in {"move", "read"} /\ command[s].pipe.blank /\ faults > 0

\* Until commands overlap none of them brings a lost list back, from whichever
\* terminal, and it takes an unlucky or interrupted clear or a jq that has failed
\* to lose one (manage-products.sh:46-47, 72-73, 84).
LostForGood ==
    [][ ~overlapped' =>
          /\ Lost => Lost'
          /\ Lost' => Lost \/ \E s \in Script : MayLose(s)
      ]_vars

\* "Restart Kafka Connect to apply changes": a task configured after a restart
\* that no edit has followed filters by the list as it is.  Where mv has put the
\* list there the container may be unable to read it, and lets nothing through;
\* what it never does is to go on with an older list (manage-products.sh:45-51,
\* ProductFilter.java:81-101, README.md:221-223).
RestartApplies ==
    configured /\ ~edited =>
        \/ allowed = content[path].ids
        \/ FromTemp(path) /\ allowed = {}

\* "Added product ID" is printed of products that are then in the list
\* (manage-products.sh:49).
AddedIsListed == \A s \in Script : At(s, "none") => promised \subseteq content[path].ids
=============================================================================
