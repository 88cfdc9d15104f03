------------------------ MODULE AllowedProductsProof ------------------------
\* Theorems about AllowedProducts, for every set of products and any number of
\* terminals, files and faults.
EXTENDS AllowedProducts, TLAPS

USE AllowedAssumption DEF File, Content, List, Blank, Verb, Step, Command, NoCommand

\* What a command makes of some ids is some ids.
LEMMA EditedType ==
  ASSUME NEW verb, NEW ids \in SUBSET Product, NEW id \in SUBSET Product
  PROVE  Edited(verb, ids, id) \in SUBSET Product
  BY DEF Edited

\* What jq makes of a file is a file.
LEMMA JqType ==
  ASSUME NEW c \in Content, NEW verb, NEW id \in SUBSET Product
  PROVE  Jq(c, verb, id) \in Content
<1>1. c.ids \in SUBSET Product
  OBVIOUS
<1>2. Edited(verb, c.ids, id) \in SUBSET Product
  BY <1>1, EditedType
<1> QED
  BY <1>2 DEF Jq

\* A command that is in progress is a Command; the ended one is NoCommand.
LEMMA CommandType ==
  ASSUME TypeOK, NEW s \in Script
  PROVE  /\ command[s].verb \in Verb \cup {"none"}
         /\ command[s].verb = "none" <=> command[s].step = "none"
         /\ command[s].step \in Step \cup {"none"}
         /\ command[s].id \in SUBSET Product
         /\ command[s].pipe \in Content
         /\ command[s].out \in File
         /\ content[path] \in Content
         /\ content[path].ids \in SUBSET Product
  BY DEF TypeOK

\* The first or the next step of a command leaves the commands typed.
LEMMA DoType ==
  ASSUME TypeOK, NEW s \in Script, NEW verb \in Verb, NEW step \in Step,
         NEW id \in SUBSET Product, NEW pipe \in Content, NEW out \in File,
         Do(s, verb, step, id, pipe, out)
  PROVE  command' \in [Script -> Command \cup {NoCommand}]
<1>1. [verb |-> verb, step |-> step, id |-> id, pipe |-> pipe, out |-> out] \in Command
  BY DEF Command
<1> HIDE DEF Command, NoCommand, Content, File, Step, Verb
<1> QED
  BY <1>1 DEF TypeOK, Do

LEMMA GotoType ==
  ASSUME TypeOK, NEW s \in Script, ~At(s, "none"), NEW step \in Step,
         NEW pipe \in Content, NEW out \in File, Goto(s, step, pipe, out)
  PROVE  command' \in [Script -> Command \cup {NoCommand}]
<1>1. command[s].verb \in Verb /\ command[s].id \in SUBSET Product
  BY CommandType DEF At
<1> HIDE DEF Command, NoCommand, Content, File, Step, Verb
<1> QED
  BY <1>1, DoType DEF Goto

LEMMA InitTypes == Init => TypeOK
<1>1. List(Initial) \in Content
  <2>1. Initial \in SUBSET Product
    OBVIOUS
  <2> QED
    BY <2>1
<1>2. 1 \in File
  OBVIOUS
<1>3. Init => content \in [File -> Content]
  BY <1>1 DEF Init
<1>4. Init => command \in [Script -> Command \cup {NoCommand}]
  <2> HIDE DEF NoCommand, Command
  <2> QED
    BY DEF Init
<1>5. Init => promised \in SUBSET Product /\ faults \in 0 .. MaxFaults
  BY DEF Init
<1> QED
  BY <1>2, <1>3, <1>4, <1>5 DEF Init, TypeOK

\* Every step keeps the types.
LEMMA NextTypes == TypeOK /\ [Next]_vars => TypeOK'
<1> SUFFICES ASSUME TypeOK, [Next]_vars PROVE TypeOK'
  OBVIOUS
<1> USE DEF At
<1>0. overlapped' \in BOOLEAN
  BY DEF TypeOK, Next, Edit, Overlap, Restart, Configure, vars
<1>a. Blank \in Content /\ 1 \in File /\ path \in File
  BY DEF TypeOK
<1>b. Fault => faults' \in 0 .. MaxFaults
  BY DEF TypeOK, Fault
<1>1. CASE UNCHANGED vars
  BY <1>1 DEF TypeOK, vars
<1>2. ASSUME NEW s \in Script, NEW x \in Product, NEW verb \in {"add", "remove"},
             Ask(s, verb, x)
      PROVE  TypeOK'
  <2>1. PICK step \in Step : Do(s, verb, step, {x}, Blank, 1)
    BY <1>2 DEF Ask
  <2>2. command' \in [Script -> Command \cup {NoCommand}]
    <3>1. verb \in Verb /\ {x} \in SUBSET Product
      OBVIOUS
    <3> HIDE DEF Verb, Step
    <3> QED
      BY <2>1, <3>1, <1>a, DoType
  <2>3. doubtful' \in SUBSET Product
    BY <1>2 DEF TypeOK, Ask
  <2> HIDE DEF Command, NoCommand
  <2> QED
    BY <1>0, <1>2, <2>2, <2>3 DEF TypeOK, Ask, list, sink
<1>3. ASSUME NEW s \in Script, Temp(s) PROVE TypeOK'
  <2>1. Jq(content[path], command[s].verb, command[s].id) \in Content
    BY CommandType, JqType
  <2>2. command' \in [Script -> Command \cup {NoCommand}]
    BY <1>3, <1>a, <2>1, GotoType DEF Temp
  <2> HIDE DEF Command, NoCommand
  <2> QED
    BY <1>0, <1>3, <2>2 DEF TypeOK, Temp, list, sink
<1>4. ASSUME NEW s \in Script, Move(s) PROVE TypeOK'
  <2>1. command' \in [Script -> Command \cup {NoCommand}]
    BY <1>4, <1>a, GotoType DEF Move
  <2>2. content' \in [File -> Content] /\ path' \in File
    BY <1>4, CommandType DEF TypeOK, Move
  <2> HIDE DEF Command, NoCommand
  <2> QED
    BY <1>0, <1>4, <2>1, <2>2 DEF TypeOK, Move, sink
<1>5. ASSUME NEW s \in Script, Report(s) PROVE TypeOK'
  <2>1. promised' \in SUBSET Product
    BY <1>5, EditedType, CommandType DEF TypeOK, Report
  <2>2. command' \in [Script -> Command \cup {NoCommand}]
    BY <1>5 DEF TypeOK, Report, Done
  <2> HIDE DEF Command, NoCommand
  <2> QED
    BY <1>0, <1>5, <2>1, <2>2 DEF TypeOK, Report, list, sink
<1>6. ASSUME NEW s \in Script, Clear(s) PROVE TypeOK'
  <2>1. command' \in [Script -> Command \cup {NoCommand}]
    BY <1>6, <1>a, DoType DEF Clear
  <2> HIDE DEF Command, NoCommand
  <2> QED
    BY <1>0, <1>6, <2>1 DEF TypeOK, Clear, list, sink
<1>7. ASSUME NEW s \in Script, NEW pipe \in Content, Read(s, pipe)
      PROVE  command' \in [Script -> Command \cup {NoCommand}]
  <2>1. PICK step \in Step : Goto(s, step, pipe, command[s].out) /\ ~At(s, "none")
    BY <1>7 DEF Read
  <2> QED
    BY <2>1, CommandType, GotoType
<1>8. ASSUME NEW s \in Script, ClearRead(s) PROVE TypeOK'
  <2>1. command' \in [Script -> Command \cup {NoCommand}]
    BY <1>7, <1>8, CommandType DEF ClearRead
  <2> HIDE DEF Command, NoCommand
  <2> QED
    BY <1>0, <1>8, <2>1 DEF TypeOK, ClearRead, list, sink
<1>9. ASSUME NEW s \in Script, ClearOpen(s) PROVE TypeOK'
  <2>1. PICK step \in Step : Goto(s, step, command[s].pipe, path) /\ ~At(s, "none")
    BY <1>9 DEF ClearOpen
  <2>2. command' \in [Script -> Command \cup {NoCommand}]
    BY <2>1, <1>a, CommandType, GotoType
  <2>3. content' \in [File -> Content]
    BY <1>9, <1>a DEF TypeOK, ClearOpen
  <2> HIDE DEF Command, NoCommand
  <2> QED
    BY <1>0, <1>9, <2>2, <2>3 DEF TypeOK, ClearOpen, sink
<1>10. ASSUME NEW s \in Script, ClearWrite(s) PROVE TypeOK'
  <2>1. command' \in [Script -> Command \cup {NoCommand}]
    BY <1>10, <1>a, GotoType DEF ClearWrite
  <2>2. content' \in [File -> Content] /\ edited' \in BOOLEAN /\ doubtful' \in SUBSET Product
    <3>1. List({}) \in Content
      OBVIOUS
    <3> HIDE DEF Content, List
    <3> QED
      BY <1>10, <3>1 DEF TypeOK, ClearWrite
  <2> HIDE DEF Command, NoCommand
  <2> QED
    BY <1>0, <1>10, <2>1, <2>2 DEF TypeOK, ClearWrite, sink
<1>11. ASSUME NEW s \in Script, JqFail(s) PROVE TypeOK'
  <2>1. command' \in [Script -> Command \cup {NoCommand}]
    <3>1. CASE At(s, "temp") /\ Goto(s, "move", Blank, 1)
      BY <3>1, <1>a, GotoType
    <3>2. CASE Read(s, Blank)
      BY <3>2, <1>a, <1>7
    <3> QED
      BY <1>11, <3>1, <3>2 DEF JqFail
  <2> HIDE DEF Command, NoCommand
  <2> QED
    BY <1>0, <1>b, <1>11, <2>1 DEF TypeOK, JqFail, list, sink
<1>12. ASSUME NEW s \in Script, PutFail(s) PROVE TypeOK'
  <2>1. command' \in [Script -> Command \cup {NoCommand}]
    BY <1>12, <1>a, GotoType DEF PutFail
  <2>2. doubtful' \in SUBSET Product
    BY <1>12, CommandType DEF TypeOK, PutFail
  <2> HIDE DEF Command, NoCommand
  <2> QED
    BY <1>0, <1>b, <1>12, <2>1, <2>2 DEF TypeOK, PutFail, list, sink
<1>13. ASSUME NEW s \in Script, Interrupt(s) PROVE TypeOK'
  <2>1. doubtful' \in SUBSET Product
    BY <1>13, CommandType DEF TypeOK, Interrupt, Unreported
  <2>2. command' \in [Script -> Command \cup {NoCommand}]
    BY <1>13 DEF TypeOK, Interrupt, Done
  <2> HIDE DEF Command, NoCommand
  <2> QED
    BY <1>0, <1>b, <1>13, <2>1, <2>2 DEF TypeOK, Interrupt, list, sink
<1>14. CASE Restart
  BY <1>14 DEF TypeOK, Restart, list
<1>15. CASE Configure
  BY <1>15 DEF TypeOK, Configure, Loaded, list
<1> QED
  BY <1>1, <1>2, <1>3, <1>4, <1>5, <1>6, <1>8, <1>9, <1>10, <1>11, <1>12, <1>13, <1>14,
     <1>15 DEF Next, Edit

\* The state of the list and its copies is always well typed.
THEOREM TypeCorrect == Spec => []TypeOK
  BY InitTypes, NextTypes, PTL DEF Spec

-----------------------------------------------------------------------------
\* The filter

\* Until the list is edited the container sees the file at the path, and what
\* its task has loaded is that file's list, or nothing.
Fresh == /\ ~edited => mounted = path
         /\ RestartApplies

LEMMA FreshInit == Init => Fresh
  BY DEF Init, Fresh, RestartApplies

LEMMA FreshNext == Fresh /\ [Next]_vars => Fresh'
<1> SUFFICES ASSUME Fresh, [Next]_vars PROVE Fresh'
  OBVIOUS
<1> USE DEF Fresh, RestartApplies
<1>1. CASE UNCHANGED <<list, sink, edited>>
  BY <1>1 DEF list, sink
<1>2. CASE edited' = TRUE
  BY <1>2
<1>3. CASE Restart
  BY <1>3 DEF Restart, list
<1>4. CASE Configure
  BY <1>4 DEF Configure, Loaded, list
<1>5. ASSUME NEW s \in Script, ClearWrite(s)
      PROVE  edited' = TRUE \/ UNCHANGED <<list, sink, edited>>
  BY <1>5 DEF ClearWrite, list
<1> QED
  BY <1>1, <1>2, <1>3, <1>4, <1>5
     DEF Next, Edit, vars, list, sink, Ask, Temp, Move, Report, Clear, ClearRead, ClearOpen,
         JqFail, PutFail, Interrupt

\* After a restart that no edit has followed the filter has the list as it is,
\* or, where mv has put it there, may have none; it never has an older one, from
\* however many terminals the list is edited (manage-products.sh:45-51, 77, 88).
THEOREM RestartIsEnough == Spec => []RestartApplies
<1>1. Fresh => RestartApplies
  BY DEF Fresh
<1> QED
  BY <1>1, FreshInit, FreshNext, PTL DEF Spec

-----------------------------------------------------------------------------
\* The script, as long as commands do not overlap

LEMMA EditedIds ==
  ASSUME NEW verb \in Verb, NEW ids, NEW id, NEW x
  PROVE  x \in Edited(verb, ids, id) <=>
            \/ verb = "add" /\ (x \in ids \/ x \in id)
            \/ verb = "remove" /\ x \in ids /\ x \notin id
  BY DEF Edited

Same(x) == x \in content[path].ids <=> x \in promised

\* What a command has in its pipe is made from the list as it still is, or its jq
\* has failed; the list it has truncated is blank until it writes it; and what it
\* is about to report is so, but for what is doubtful.
InHand(s) ==
    /\ command[s].step \in {"temp", "move"} => command[s].verb \in {"add", "remove"}
    /\ command[s].step \in {"start", "read", "open", "write"} => command[s].verb = "clear"
    /\ At(s, "move") =>
          \/ command[s].pipe = Jq(content[path], command[s].verb, command[s].id)
          \/ command[s].pipe.blank /\ faults > 0
    /\ At(s, "read") => \/ command[s].pipe = content[path]
                        \/ command[s].pipe.blank /\ faults > 0
    /\ command[s].step \in {"open", "write"} =>
          command[s].out = path /\ content[path].blank
    /\ At(s, "report") /\ ~content[path].blank =>
          \A x \in Product :
             \/ x \in content[path].ids <=>
                   x \in Edited(command[s].verb, content[path].ids, command[s].id)
             \/ x \in doubtful

Reported ==
    ~content[path].blank =>
        \A x \in Product : Same(x) \/ x \in doubtful \/ \E s \in Script : x \in Unreported(s)

\* Until commands have overlapped, at most one is in progress, and what it has
\* in its hand is up to date.
Truth == ~overlapped => ~Overlap /\ Reported /\ \A s \in Script : InHand(s)

LEMMA TruthInit == Init => Truth
  BY DEF Init, Truth, Reported, Same, InHand, Overlap, At

\* Each step that makes no overlap does not bring a lost list back, and loses one
\* only where a clear or a failed jq does.
LostStep ==
    /\ Lost => Lost'
    /\ Lost' => Lost \/ \E s \in Script : MayLose(s)

StaysTrue == Reported' /\ (\A s \in Script : InHand(s)') /\ LostStep

\* The same of the one command in progress.
ReportedBy(s) ==
    ~content[path].blank =>
        \A x \in Product : Same(x) \/ x \in doubtful \/ x \in Unreported(s)

LostBy(s) == content[path].blank /\ (At(s, "write") => command[s].pipe.blank)

StaysWith(s) ==
    /\ ReportedBy(s)'
    /\ InHand(s)'
    /\ LostBy(s) => LostBy(s)'
    /\ LostBy(s)' => LostBy(s) \/ MayLose(s)

\* A step of a terminal whose command is in progress before it or after it finds
\* the other ones idle, so that it is enough to look at this command.
LEMMA OthersIdle ==
  ASSUME TypeOK, ~Overlap, ~Overlap', NEW s \in Script, NEW next,
         command' = [command EXCEPT ![s] = next],
         command[s].step # "none" \/ next.step # "none"
  PROVE  /\ command'[s] = next
         /\ \A t \in Script : t # s => command[t].step = "none" /\ command'[t].step = "none"
<1> HIDE DEF NoCommand, Command
<1>1. command'[s] = next /\ \A t \in Script : t # s => command'[t] = command[t]
  BY DEF TypeOK
<1> QED
  BY <1>1 DEF Overlap, At

LEMMA AloneIsEnough ==
  ASSUME NEW s \in Script,
         \A t \in Script : t # s => command[t].step = "none" /\ command'[t].step = "none"
  PROVE  /\ Reported => ReportedBy(s)
         /\ StaysWith(s) => StaysTrue
<1>1. \A t \in Script : t # s => Unreported(t) = {} /\ InHand(t)'
  BY DEF Unreported, InHand, At
<1>2. Lost <=> LostBy(s)
  BY DEF Lost, LostBy, At
<1>3. Lost' <=> LostBy(s)'
  BY DEF Lost, LostBy, At
<1>4. Reported => ReportedBy(s)
  BY <1>1 DEF Reported, ReportedBy
<1>5. ReportedBy(s)' => Reported'
  BY DEF Reported, ReportedBy
<1> HIDE DEF NoCommand, Command
<1> QED
  BY <1>1, <1>2, <1>3, <1>4, <1>5 DEF StaysWith, StaysTrue, LostStep

LEMMA DoAlone ==
  ASSUME TypeOK, Reported, ~Overlap, ~Overlap', NEW s \in Script, NEW verb, NEW step,
         NEW id, NEW pipe, NEW out, step # "none", Do(s, verb, step, id, pipe, out)
  PROVE  /\ command'[s] = [verb |-> verb, step |-> step, id |-> id, pipe |-> pipe, out |-> out]
         /\ ReportedBy(s)
         /\ StaysWith(s) => StaysTrue
<1>1. /\ command'[s] = [verb |-> verb, step |-> step, id |-> id, pipe |-> pipe, out |-> out]
      /\ \A t \in Script : t # s => command[t].step = "none" /\ command'[t].step = "none"
  BY OthersIdle DEF Do
<1> QED
  BY <1>1, AloneIsEnough

LEMMA DoneAlone ==
  ASSUME TypeOK, Reported, ~Overlap, ~Overlap', NEW s \in Script,
         command[s].step # "none", Done(s)
  PROVE  /\ command'[s] = NoCommand
         /\ ReportedBy(s)
         /\ StaysWith(s) => StaysTrue
<1> HIDE DEF NoCommand
<1>1. /\ command'[s] = NoCommand
      /\ \A t \in Script : t # s => command[t].step = "none" /\ command'[t].step = "none"
  BY OthersIdle DEF Done
<1> QED
  BY <1>1, AloneIsEnough

LEMMA TruthEdit ==
  ASSUME TypeOK, Reported, \A s \in Script : InHand(s), ~Overlap, ~Overlap', Edit
  PROVE  StaysTrue
<1> USE DEF At
<1>1. ASSUME NEW s \in Script, NEW x \in Product, NEW verb \in {"add", "remove"},
             Ask(s, verb, x)
      PROVE  StaysTrue
  <2>1. CASE Edited(verb, content[path].ids, {x}) = content[path].ids
    <3>1. /\ command'[s] = [verb |-> verb, step |-> "report", id |-> {x}, pipe |-> Blank, out |-> 1]
          /\ ReportedBy(s)
          /\ StaysWith(s) => StaysTrue
      BY <1>1, <2>1, DoAlone DEF Ask
    <3>2. UNCHANGED <<path, content, promised>> /\ doubtful' = doubtful \ {x}
      BY <1>1, <2>1 DEF Ask, list
    <3>3. ReportedBy(s)' /\ InHand(s)'
      BY <1>1, <2>1, <3>1, <3>2 DEF Ask, ReportedBy, Same, Unreported, InHand
    <3>4. LostBy(s)' <=> LostBy(s)
      BY <1>1, <3>1, <3>2 DEF Ask, LostBy
    <3> QED
      BY <3>1, <3>3, <3>4 DEF StaysWith
  <2>2. CASE Edited(verb, content[path].ids, {x}) # content[path].ids
    <3>1. /\ command'[s] = [verb |-> verb, step |-> "temp", id |-> {x}, pipe |-> Blank, out |-> 1]
          /\ ReportedBy(s)
          /\ StaysWith(s) => StaysTrue
      BY <1>1, <2>2, DoAlone DEF Ask
    <3> QED
      BY <1>1, <2>2, <3>1 DEF Ask, list, StaysWith, ReportedBy, Same, Unreported, InHand, LostBy
  <2> QED
    BY <2>1, <2>2
<1>2. ASSUME NEW s \in Script, Temp(s) PROVE StaysTrue
  <2> DEFINE pipe == Jq(content[path], command[s].verb, command[s].id)
  <2>1. /\ command'[s] = [verb |-> command[s].verb, step |-> "move", id |-> command[s].id,
                          pipe |-> pipe, out |-> 1]
        /\ ReportedBy(s)
        /\ StaysWith(s) => StaysTrue
    BY <1>2, DoAlone DEF Temp, Goto
  <2> HIDE DEF pipe
  <2>2. UNCHANGED <<path, content, promised, doubtful>> /\ command[s].step = "temp"
    BY <1>2 DEF Temp, list
  <2>3. ReportedBy(s)' /\ (LostBy(s)' <=> LostBy(s))
    BY <2>1, <2>2 DEF ReportedBy, Same, Unreported, LostBy
  <2>4. InHand(s)'
    <3>1. pipe = Jq(content'[path'], command[s].verb, command[s].id)
      BY <2>2 DEF pipe
    <3>2. command[s].verb \in {"add", "remove"}
      BY <2>2 DEF InHand
    <3> QED
      BY <2>1, <3>1, <3>2 DEF InHand
  <2> QED
    BY <2>1, <2>3, <2>4 DEF StaysWith
<1>3. ASSUME NEW s \in Script, Move(s) PROVE StaysTrue
  <2>1. /\ command'[s] = [verb |-> command[s].verb, step |-> "report", id |-> command[s].id,
                          pipe |-> Blank, out |-> 1]
        /\ ReportedBy(s)
        /\ StaysWith(s) => StaysTrue
    BY <1>3, DoAlone DEF Move, Goto
  <2>2. /\ content'[path'] = command[s].pipe
        /\ promised' = promised /\ doubtful' = doubtful \ command[s].id
        /\ command[s].step = "move" /\ command[s].verb \in {"add", "remove"}
        /\ \/ command[s].pipe = Jq(content[path], command[s].verb, command[s].id)
           \/ command[s].pipe.blank /\ faults > 0
    BY <1>3 DEF TypeOK, Move, InHand
  <2>3. CASE content'[path'].blank
    <3>1. ~content[path].blank => MayLose(s)
      BY <2>2, <2>3 DEF MayLose, Jq
    <3> QED
      BY <2>1, <2>2, <2>3, <3>1 DEF StaysWith, ReportedBy, InHand, LostBy
  <2>4. CASE ~content'[path'].blank
    <3>1. /\ ~content[path].blank
          /\ content'[path'].ids = Edited(command[s].verb, content[path].ids, command[s].id)
      BY <2>2, <2>4 DEF Jq
    <3>2. \A x : x \in content'[path'].ids <=>
                    \/ command[s].verb = "add" /\ (x \in content[path].ids \/ x \in command[s].id)
                    \/ command[s].verb = "remove" /\ x \in content[path].ids /\ x \notin command[s].id
      BY <2>2, <3>1, EditedIds
    <3>3. \A x : x \in Edited(command[s].verb, content'[path'].ids, command[s].id) <=>
                    x \in content'[path'].ids
      BY <2>2, <3>2, EditedIds
    <3>4. ReportedBy(s)'
      BY <2>1, <2>2, <3>1, <3>2 DEF ReportedBy, Same, Unreported
    <3>5. InHand(s)'
      BY <2>1, <3>3 DEF InHand
    <3> QED
      BY <2>1, <2>4, <3>1, <3>4, <3>5 DEF StaysWith, LostBy
  <2> QED
    BY <2>3, <2>4
<1>4. ASSUME NEW s \in Script, Report(s) PROVE StaysTrue
  <2>1. /\ command'[s] = NoCommand
        /\ ReportedBy(s)
        /\ StaysWith(s) => StaysTrue
    BY <1>4, DoneAlone DEF Report
  <2>2. /\ UNCHANGED <<path, content, doubtful>>
        /\ command[s].step = "report" /\ command[s].verb \in Verb
        /\ promised' = Edited(command[s].verb, promised, command[s].id)
    BY <1>4, CommandType DEF Report, list
  <2>3. ReportedBy(s)'
    <3> SUFFICES ASSUME ~content[path].blank, NEW x \in Product
                 PROVE  Same(x)' \/ x \in doubtful
      BY <2>2 DEF ReportedBy
    <3>1. \/ x \in content[path].ids <=>
                x \in Edited(command[s].verb, content[path].ids, command[s].id)
          \/ x \in doubtful
      BY <2>2 DEF InHand
    <3>2. Same(x) \/ x \in doubtful \/ x \in Unreported(s)
      BY <2>1 DEF ReportedBy
    <3> QED
      BY <2>2, <3>1, <3>2, EditedIds DEF Same, Unreported
  <2>4. InHand(s)'
    BY <2>1 DEF InHand
  <2>5. LostBy(s)' <=> LostBy(s)
    BY <2>1, <2>2 DEF LostBy
  <2> QED
    BY <2>1, <2>3, <2>4, <2>5 DEF StaysWith
<1>5. ASSUME NEW s \in Script, Clear(s) PROVE StaysTrue
  <2>1. /\ command'[s] = [verb |-> "clear", step |-> "start", id |-> {}, pipe |-> Blank, out |-> 1]
        /\ ReportedBy(s)
        /\ StaysWith(s) => StaysTrue
    BY <1>5, DoAlone DEF Clear
  <2> QED
    BY <1>5, <2>1 DEF Clear, list, StaysWith, ReportedBy, Same, Unreported, InHand, LostBy
<1>6. ASSUME NEW s \in Script, NEW pipe, Read(s, pipe),
             pipe = content[path] \/ (pipe.blank /\ faults' > 0),
             UNCHANGED <<path, content, promised, doubtful>>
      PROVE  StaysTrue
  <2> DEFINE step == IF command[s].step = "start" THEN "read" ELSE "write"
  <2>1. Goto(s, step, pipe, command[s].out) /\ step # "none" /\ command[s].step \in {"start", "open"}
    BY <1>6 DEF Read
  <2>2. /\ command'[s] = [verb |-> command[s].verb, step |-> step, id |-> command[s].id,
                          pipe |-> pipe, out |-> command[s].out]
        /\ ReportedBy(s)
        /\ StaysWith(s) => StaysTrue
    <3> HIDE DEF step
    <3> QED
      BY <2>1, DoAlone DEF Goto
  <2>3. ReportedBy(s)' /\ InHand(s)'
    BY <1>6, <2>1, <2>2 DEF ReportedBy, Same, Unreported, InHand
  <2>4. LostBy(s)' <=> LostBy(s)
    BY <1>6, <2>1, <2>2 DEF LostBy, InHand
  <2> QED
    BY <2>2, <2>3, <2>4 DEF StaysWith
<1>7. ASSUME NEW s \in Script, ClearRead(s) PROVE StaysTrue
  <2>1. Read(s, content[path]) /\ UNCHANGED <<path, content, promised, doubtful>>
    BY <1>7 DEF ClearRead, list
  <2> QED
    BY <1>6, <2>1
<1>8. ASSUME NEW s \in Script, ClearOpen(s) PROVE StaysTrue
  <2> DEFINE step == IF command[s].step = "start" THEN "open" ELSE "write"
  <2>1. Goto(s, step, command[s].pipe, path) /\ step # "none" /\ command[s].step \in {"start", "read"}
    BY <1>8 DEF ClearOpen
  <2>2. /\ command'[s] = [verb |-> command[s].verb, step |-> step, id |-> command[s].id,
                          pipe |-> command[s].pipe, out |-> path]
        /\ ReportedBy(s)
        /\ StaysWith(s) => StaysTrue
    <3> HIDE DEF step
    <3> QED
      BY <2>1, DoAlone DEF Goto
  <2>3. path' = path /\ content'[path'] = Blank
    BY <1>8 DEF TypeOK, ClearOpen
  <2>4. ReportedBy(s)' /\ InHand(s)'
    BY <2>1, <2>2, <2>3 DEF ReportedBy, InHand
  <2>5. (LostBy(s) => LostBy(s)') /\ (LostBy(s)' => LostBy(s) \/ MayLose(s))
    BY <2>1, <2>2, <2>3 DEF LostBy, InHand, MayLose
  <2> QED
    BY <2>2, <2>4, <2>5 DEF StaysWith
<1>9. ASSUME NEW s \in Script, ClearWrite(s) PROVE StaysTrue
  <2>1. /\ command'[s] = [verb |-> command[s].verb, step |-> "report", id |-> command[s].id,
                          pipe |-> Blank, out |-> 1]
        /\ ReportedBy(s)
        /\ StaysWith(s) => StaysTrue
    BY <1>9, DoAlone DEF ClearWrite, Goto
  <2>2. /\ command[s].step = "write" /\ command[s].verb = "clear" /\ command[s].out = path
        /\ content[path].blank
        /\ path' = path /\ promised' = promised
    BY <1>9 DEF ClearWrite, InHand
  <2>3. CASE command[s].pipe.blank
    <3>1. content' = content
      BY <1>9, <2>3 DEF ClearWrite
    <3> QED
      BY <2>1, <2>2, <2>3, <3>1 DEF StaysWith, ReportedBy, InHand, LostBy
  <2>4. CASE ~command[s].pipe.blank
    <3>1. content'[path'] = List({})
      BY <1>9, <2>2, <2>4 DEF TypeOK, ClearWrite
    <3>2. ReportedBy(s)'
      BY <2>1, <2>2, <3>1 DEF ReportedBy, Same, Unreported
    <3>3. InHand(s)'
      BY <2>1, <2>2, <3>1 DEF InHand, Edited
    <3> QED
      BY <2>1, <2>2, <2>4, <3>1, <3>2, <3>3 DEF StaysWith, LostBy
  <2> QED
    BY <2>3, <2>4
<1>10. ASSUME NEW s \in Script, JqFail(s) PROVE StaysTrue
  <2>1. /\ UNCHANGED <<path, content, promised, doubtful>>
        /\ faults' > 0
    BY <1>10 DEF TypeOK, JqFail, Fault, list
  <2>2. CASE At(s, "temp") /\ Goto(s, "move", Blank, 1)
    <3>1. /\ command'[s] = [verb |-> command[s].verb, step |-> "move", id |-> command[s].id,
                            pipe |-> Blank, out |-> 1]
          /\ ReportedBy(s)
          /\ StaysWith(s) => StaysTrue
      BY <2>2, DoAlone DEF Goto
    <3> QED
      BY <2>1, <2>2, <3>1 DEF StaysWith, ReportedBy, Same, Unreported, InHand, LostBy
  <2>3. CASE Read(s, Blank)
    BY <1>6, <2>1, <2>3
  <2> QED
    BY <1>10, <2>2, <2>3 DEF JqFail
<1>11. ASSUME NEW s \in Script, PutFail(s) PROVE StaysTrue
  <2>1. /\ command'[s] = [verb |-> command[s].verb, step |-> "report", id |-> command[s].id,
                          pipe |-> Blank, out |-> 1]
        /\ ReportedBy(s)
        /\ StaysWith(s) => StaysTrue
    BY <1>11, DoAlone DEF PutFail, Goto
  <2>2. /\ UNCHANGED <<path, content, promised>>
        /\ command[s].step \in {"move", "start", "read"} /\ command[s].verb \in Verb
        /\ command[s].step = "move" <=> command[s].verb # "clear"
        /\ doubtful' = doubtful \cup
              (IF command[s].step = "move" THEN command[s].id ELSE content[path].ids)
    BY <1>11, CommandType DEF PutFail, InHand, list
  <2>3. ReportedBy(s)'
    BY <2>1, <2>2 DEF ReportedBy, Same, Unreported
  <2>4. \A x : (x \in content[path].ids <=>
                    x \in Edited(command[s].verb, content[path].ids, command[s].id))
               \/ x \in doubtful'
    BY <2>2, EditedIds
  <2>5. InHand(s)'
    BY <2>1, <2>2, <2>4 DEF InHand
  <2>6. LostBy(s)' <=> LostBy(s)
    BY <2>1, <2>2 DEF LostBy
  <2> QED
    BY <2>1, <2>3, <2>5, <2>6 DEF StaysWith
<1>12. ASSUME NEW s \in Script, Interrupt(s) PROVE StaysTrue
  <2>1. /\ command'[s] = NoCommand
        /\ ReportedBy(s)
        /\ StaysWith(s) => StaysTrue
    BY <1>12, DoneAlone DEF Interrupt
  <2>2. /\ UNCHANGED <<path, content, promised>>
        /\ doubtful' = doubtful \cup Unreported(s)
    BY <1>12 DEF Interrupt, list
  <2>3. ReportedBy(s)'
    BY <2>1, <2>2 DEF ReportedBy, Same
  <2>4. InHand(s)'
    BY <2>1 DEF InHand
  <2>5. (LostBy(s) => LostBy(s)') /\ (LostBy(s)' => LostBy(s) \/ MayLose(s))
    BY <2>1, <2>2 DEF LostBy, MayLose
  <2> QED
    BY <2>1, <2>3, <2>4, <2>5 DEF StaysWith
<1> QED
  BY <1>1, <1>2, <1>3, <1>4, <1>5, <1>7, <1>8, <1>9, <1>10, <1>11, <1>12 DEF Edit

LEMMA TruthStep ==
  ASSUME TypeOK, Truth, [Next]_vars
  PROVE  Truth' /\ (~overlapped' => LostStep)
<1> SUFFICES ASSUME ~overlapped' PROVE ~Overlap' /\ StaysTrue
  BY DEF Truth, StaysTrue
<1>1. CASE Edit
  <2>1. ~overlapped /\ ~Overlap'
    BY <1>1 DEF Edit
  <2> QED
    BY <1>1, <2>1, TruthEdit DEF Truth
<1>2. CASE UNCHANGED <<list, command, promised, faults, doubtful, overlapped>>
  BY <1>2 DEF Truth, StaysTrue, Overlap, Reported, Same, Unreported, InHand, Lost, LostStep, At,
              list
<1> QED
  BY <1>1, <1>2 DEF Next, vars, Restart, Configure, list

\* From however many terminals the script is run, until two commands overlap a
\* list that is not blank differs from the reports only in what is about to be
\* reported or whose report was cut off or came of a failed mv
\* (manage-products.sh:29-90).
THEOREM ReportsHold == Spec => []ReportsAreTrue
<1>1. TypeOK /\ Truth /\ [Next]_vars => Truth'
  BY TruthStep
<1>2. TypeOK /\ Truth => ReportsAreTrue
  BY CommandType DEF TypeOK, Truth, Reported, Same, ReportsAreTrue
<1> QED
  BY <1>1, <1>2, InitTypes, NextTypes, TruthInit, PTL DEF Spec

\* Until two commands overlap a lost list stays lost, and it takes an unlucky or
\* interrupted clear or a failed jq to lose it
\* (manage-products.sh:46-47, 72-73, 84).
THEOREM NoWayBack == Spec => LostForGood
<1>1. TypeOK /\ Truth /\ [Next]_vars => Truth' /\ (~overlapped' => LostStep)
  BY TruthStep
<1>2. Spec => [][~overlapped' => LostStep]_vars
  BY <1>1, InitTypes, NextTypes, TruthInit, PTL DEF Spec
<1> QED
  BY <1>2, PTL DEF LostForGood, LostStep
=============================================================================
