---------------------------- MODULE HdfsStoreProof ----------------------------
\* Proofs about HdfsStore, for any calls, products, seconds and failures.
EXTENDS HdfsStore, TLAPS

LEMMA NamesAreNames ==
    ASSUME TypeOK, NEW c \in Call
    PROVE  NameOf(c) \in Name
BY DEF TypeOK, NameOf, Name

LEMMA TypeStep == TypeOK /\ [Next]_vars => TypeOK'
<1> SUFFICES ASSUME TypeOK, [Next]_vars PROVE TypeOK'
  OBVIOUS
<1> USE StoreAssumption
<1>1. ASSUME NEW c \in Call, Begin(c)
      PROVE  TypeOK'
  BY <1>1 DEF Begin, Goto, TypeOK, Client, Second, Pending, Returned
<1>2. ASSUME NEW c \in Call, Mkdir(c)
      PROVE  TypeOK'
  BY <1>2 DEF Mkdir, Goto, ClockRead, TypeOK, Client, Second, Pending, Returned
<1>3. ASSUME NEW c \in Call, MkdirFail(c)
      PROVE  TypeOK'
  BY <1>3 DEF MkdirFail, Goto, Fault, TypeOK, Client, Second, Pending, Returned
<1>4. ASSUME NEW c \in Call, NativeCreate(c)
      PROVE  TypeOK'
  BY <1>4 DEF NativeCreate, Goto, Becomes, TypeOK, Client, Second, Pending, Returned
<1>5. ASSUME NEW c \in Call, WebCreate(c)
      PROVE  TypeOK'
  BY <1>5 DEF WebCreate, Goto, Becomes, TypeOK, Client, Second, Pending, Returned
<1>6. ASSUME NEW c \in Call, CreateFail(c)
      PROVE  TypeOK'
  BY <1>6 DEF CreateFail, Goto, Fault, Becomes, TypeOK, Client, Second, Pending, Returned
<1>7. ASSUME NEW c \in Call, Put(c)
      PROVE  TypeOK'
  BY <1>7 DEF Put, Goto, Becomes, TypeOK, Client, Second, Pending, Returned
<1>8. ASSUME NEW c \in Call, PutFail(c)
      PROVE  TypeOK'
  BY <1>8 DEF PutFail, Goto, Fault, Becomes, AfterFault, TypeOK, Client, Second, Pending, Returned
<1>9. ASSUME NEW c \in Call, CloseFail(c)
      PROVE  TypeOK'
  BY <1>9 DEF CloseFail, Goto, Fault, TypeOK, Client, Second, Pending, Returned
<1>10. CASE Tick
  BY <1>10 DEF Tick, calls, TypeOK, Client, Second, Pending, Returned
<1>11. CASE Job
  BY <1>11 DEF Job, calls, SavedAs, TypeOK, Client, Second, Pending, Returned
<1>12. CASE Load
  BY <1>12 DEF Load, calls, ReadRecommendations, TypeOK, Client, Second, Pending, Returned
<1>13. CASE Unload
  BY <1>13 DEF Unload, calls, TypeOK, Client, Second, Pending, Returned
<1>14. CASE UNCHANGED vars
  BY <1>14 DEF vars, TypeOK, Client, Second, Pending, Returned
<1>15. QED
  BY <1>1, <1>2, <1>3, <1>4, <1>5, <1>6, <1>7, <1>8, <1>9, <1>10, <1>11, <1>12, <1>13, <1>14 DEF Next

\* Every variable of the store and its clients keeps its type (the state the
\* clients in internal/infra/clients/hdfs share).
THEOREM TypeCorrect == Spec => []TypeOK
<1>1. Init => TypeOK
  BY StoreAssumption DEF Init, TypeOK, Client, Second, Pending
<1>2. QED
  BY <1>1, TypeStep, PTL DEF Spec

-----------------------------------------------------------------------------
\* What a native call may rely on between its steps: a file it has created is
\* there, unfinished and its own, and one it has finished stays as it is.
Open(c, d)   == stage[c] = "put" /\ stage[d] = "put" /\ NameOf(c) = NameOf(d) => c = d
Created(c)   == stage[c] = "put" => file[NameOf(c)] = Partial
Stored(c)    == stage[c] = "ok" /\ c \notin unclosed => file[NameOf(c)] = c
NativeInv == client = "native" =>
                \A c \in Call : Created(c) /\ Stored(c) /\ \A d \in Call : Open(c, d)

LEMMA NativeStep == TypeOK /\ NativeInv /\ [Next]_vars => NativeInv'
<1> SUFFICES ASSUME TypeOK, NativeInv, [Next]_vars, client' = "native",
                    NEW a \in Call, NEW b \in Call
             PROVE  (Created(a) /\ Stored(a) /\ Open(a, b))'
  BY DEF NativeInv
<1> USE StoreAssumption
<1>0. client = "native"
  BY DEF Next, vars, Begin, Mkdir, MkdirFail, NativeCreate, WebCreate, CreateFail, Put, PutFail,
         CloseFail, Tick, Job, Load, Unload
<1>1. /\ Created(a) /\ Stored(a) /\ Open(a, b) /\ Created(b)
      /\ \A c \in Call : NameOf(c) \in Name
  BY <1>0, NamesAreNames DEF NativeInv
<1>2. ASSUME NEW c \in Call, Begin(c)
      PROVE  (Created(a) /\ Stored(a) /\ Open(a, b))'
  BY <1>0, <1>1, <1>2 DEF Begin, Goto, Created, Stored, Open, NameOf, TypeOK
<1>3. ASSUME NEW c \in Call, Mkdir(c)
      PROVE  (Created(a) /\ Stored(a) /\ Open(a, b))'
  BY <1>0, <1>1, <1>3 DEF Mkdir, Goto, ClockRead, Created, Stored, Open, NameOf, TypeOK
<1>4. ASSUME NEW c \in Call, MkdirFail(c)
      PROVE  (Created(a) /\ Stored(a) /\ Open(a, b))'
  BY <1>0, <1>1, <1>4 DEF MkdirFail, Goto, Fault, Created, Stored, Open, NameOf, TypeOK
<1>5. ASSUME NEW c \in Call, NativeCreate(c)
      PROVE  (Created(a) /\ Stored(a) /\ Open(a, b))'
  <2>1. Created(c) /\ Stored(c) /\ Open(c, a) /\ Open(c, b)
    BY <1>0 DEF NativeInv
  <2>2. QED
    BY <1>0, <1>1, <1>5, <2>1 DEF NativeCreate, Goto, Becomes, NameIsFree, Created, Stored, Open, NameOf, TypeOK
<1>6. ASSUME NEW c \in Call, WebCreate(c)
      PROVE  (Created(a) /\ Stored(a) /\ Open(a, b))'
  BY <1>0, <1>1, <1>6 DEF WebCreate, Goto, Becomes, Created, Stored, Open, NameOf, TypeOK
<1>7. ASSUME NEW c \in Call, CreateFail(c)
      PROVE  (Created(a) /\ Stored(a) /\ Open(a, b))'
  <2>1. Created(c) /\ Stored(c) /\ Open(c, a) /\ Open(c, b)
    BY <1>0 DEF NativeInv
  <2>2. QED
    BY <1>0, <1>1, <1>7, <2>1 DEF CreateFail, Goto, Fault, Becomes, NameIsFree, Created, Stored, Open, NameOf, TypeOK
<1>8. ASSUME NEW c \in Call, Put(c)
      PROVE  (Created(a) /\ Stored(a) /\ Open(a, b))'
  <2>1. Created(c) /\ Stored(c) /\ Open(c, a) /\ Open(c, b)
    BY <1>0 DEF NativeInv
  <2>2. QED
    BY <1>0, <1>1, <1>8, <2>1 DEF Put, Goto, Becomes, Created, Stored, Open, NameOf, TypeOK
<1>9. ASSUME NEW c \in Call, PutFail(c)
      PROVE  (Created(a) /\ Stored(a) /\ Open(a, b))'
  <2>1. Created(c) /\ Stored(c) /\ Open(c, a) /\ Open(c, b)
    BY <1>0 DEF NativeInv
  <2>2. QED
    BY <1>0, <1>1, <1>9, <2>1 DEF PutFail, Goto, Fault, Becomes, AfterFault, Created, Stored, Open, NameOf, TypeOK
<1>10. ASSUME NEW c \in Call, CloseFail(c)
      PROVE  (Created(a) /\ Stored(a) /\ Open(a, b))'
  BY <1>0, <1>1, <1>10 DEF CloseFail, Goto, Fault, Created, Stored, Open, NameOf, TypeOK
<1>11. CASE Tick
  BY <1>1, <1>11 DEF Tick, calls, Created, Stored, Open, NameOf, TypeOK
<1>12. CASE Job
  BY <1>1, <1>12 DEF Job, calls, Created, Stored, Open, NameOf, TypeOK
<1>13. CASE Load
  BY <1>1, <1>13 DEF Load, calls, Created, Stored, Open, NameOf, TypeOK
<1>14. CASE Unload
  BY <1>1, <1>14 DEF Unload, calls, Created, Stored, Open, NameOf, TypeOK
<1>15. CASE UNCHANGED vars
  BY <1>1, <1>15 DEF vars, Created, Stored, Open, NameOf, TypeOK
<1>16. QED
  BY <1>2, <1>3, <1>4, <1>5, <1>6, <1>7, <1>8, <1>9, <1>10, <1>11, <1>12, <1>13, <1>14, <1>15 DEF Next

\* The native client keeps what it has acknowledged and closed (client.go:62-65).
THEOREM NativeIsSafe == Spec => []NativeKeeps
<1>1. Init => NativeInv
  BY DEF Init, NativeInv, Created, Stored, Open
<1>2. NativeInv => NativeKeeps
  BY DEF NativeInv, NativeKeeps, Stored, ReadFile
<1>3. QED
  BY <1>1, <1>2, NativeStep, TypeCorrect, PTL DEF Spec

-----------------------------------------------------------------------------
\* AckedIsWhole of one file, without the set of its callers.
Touches(c, n) == NameOf(c) = n /\ stage[c] \in {"put", "ok", "error"}
Whole(n) ==
    client # "mock" /\ (\E c \in Call : Touches(c, n))
        /\ (\A c \in Call : Touches(c, n) => stage[c] = "ok" /\ c \notin unclosed)
      => \E c \in Call : Touches(c, n) /\ file[n] = c

LEMMA WholeIsWhole == AckedIsWhole <=> \A n \in Name : Whole(n)
BY DEF AckedIsWhole, Whole, Touches, Toucher, ReadFile

\* Of the native client it is what NativeInv says.
LEMMA NativeWhole ==
    ASSUME NativeInv, client = "native", NEW n \in Name
    PROVE  Whole(n)
BY DEF NativeInv, Stored, Whole, Touches

LEMMA WebStep ==
    ASSUME TypeOK, [Next]_vars, client' = "web", NEW n \in Name, Whole(n)
    PROVE  Whole(n)'
<1>0. client = "web"
  BY DEF Next, vars, Begin, Mkdir, MkdirFail, NativeCreate, WebCreate, CreateFail, Put, PutFail,
         CloseFail, Tick, Job, Load, Unload
<1>1. \A c \in Call : NameOf(c) \in Name
  BY NamesAreNames
<1>2. ASSUME NEW c \in Call, Begin(c)
      PROVE  Whole(n)'
  BY <1>0, <1>1, <1>2 DEF Begin, Goto, Whole, Touches, NameOf, TypeOK
<1>3. ASSUME NEW c \in Call, Mkdir(c)
      PROVE  Whole(n)'
  BY <1>0, <1>1, <1>3 DEF Mkdir, Goto, ClockRead, Whole, Touches, NameOf, TypeOK
<1>4. ASSUME NEW c \in Call, MkdirFail(c)
      PROVE  Whole(n)'
  BY <1>0, <1>1, <1>4 DEF MkdirFail, Goto, Fault, Whole, Touches, NameOf, TypeOK
<1>5. ASSUME NEW c \in Call, NativeCreate(c)
      PROVE  Whole(n)'
  BY <1>0, <1>1, <1>5 DEF NativeCreate, Goto, Becomes, NameIsFree, Whole, Touches, NameOf, TypeOK
<1>6. ASSUME NEW c \in Call, WebCreate(c)
      PROVE  Whole(n)'
  BY <1>0, <1>1, <1>6 DEF WebCreate, Goto, Becomes, Whole, Touches, NameOf, TypeOK
<1>7. ASSUME NEW c \in Call, CreateFail(c)
      PROVE  Whole(n)'
  BY <1>0, <1>1, <1>7 DEF CreateFail, Goto, Fault, Becomes, NameIsFree, Whole, Touches, NameOf, TypeOK
<1>8. ASSUME NEW c \in Call, Put(c)
      PROVE  Whole(n)'
  BY <1>0, <1>1, <1>8 DEF Put, Goto, Becomes, Whole, Touches, NameOf, TypeOK
<1>9. ASSUME NEW c \in Call, PutFail(c)
      PROVE  Whole(n)'
  BY <1>0, <1>1, <1>9 DEF PutFail, Goto, Fault, Becomes, AfterFault, Whole, Touches, NameOf, TypeOK
<1>10. ASSUME NEW c \in Call, CloseFail(c)
      PROVE  Whole(n)'
  BY <1>0, <1>1, <1>10 DEF CloseFail, Goto, Fault, Whole, Touches, NameOf, TypeOK
<1>11. CASE Tick
  BY <1>11 DEF Tick, calls, Whole, Touches, NameOf, TypeOK
<1>12. CASE Job
  BY <1>12 DEF Job, calls, Whole, Touches, NameOf, TypeOK
<1>13. CASE Load
  BY <1>13 DEF Load, calls, Whole, Touches, NameOf, TypeOK
<1>14. CASE Unload
  BY <1>14 DEF Unload, calls, Whole, Touches, NameOf, TypeOK
<1>15. CASE UNCHANGED vars
  BY <1>15 DEF vars, Whole, Touches, NameOf, TypeOK
<1>16. QED
  BY <1>2, <1>3, <1>4, <1>5, <1>6, <1>7, <1>8, <1>9, <1>10, <1>11, <1>12, <1>13, <1>14, <1>15 DEF Next

WholeInv == TypeOK /\ NativeInv /\ \A n \in Name : Whole(n)

LEMMA WholeStep == WholeInv /\ [Next]_vars => WholeInv'
<1> SUFFICES ASSUME WholeInv, [Next]_vars PROVE WholeInv'
  OBVIOUS
<1>1. TypeOK' /\ NativeInv'
  BY TypeStep, NativeStep DEF WholeInv
<1>2. ASSUME NEW n \in Name PROVE Whole(n)'
  <2>1. CASE client' = "mock"
    BY <2>1 DEF Whole
  <2>2. CASE client' = "native"
    BY <1>1, <2>2, NativeWhole DEF NativeInv, Stored, Whole, Touches
  <2>3. CASE client' = "web"
    BY <2>3, WebStep DEF WholeInv
  <2>4. QED
    BY <1>1, <2>1, <2>2, <2>3 DEF TypeOK, Client
<1>3. QED
  BY <1>1, <1>2 DEF WholeInv, Name

\* A file all of whose writers were acknowledged is whole and one of theirs
\* (webhdfs.go:98, 152; client.go:62-73).
THEOREM AcknowledgedIsWhole == Spec => []AckedIsWhole
<1>1. Init => WholeInv
  BY StoreAssumption
     DEF Init, WholeInv, TypeOK, Client, Second, Pending, NativeInv, Created, Stored, Open, Whole,
         Touches
<1>2. WholeInv => AckedIsWhole
  BY WholeIsWhole DEF WholeInv
<1>3. QED
  BY <1>1, <1>2, WholeStep, PTL DEF Spec

-----------------------------------------------------------------------------
LEMMA FinalStep ==
    ASSUME TypeOK, [Next]_vars, NEW f \in Call, Final(f)
    PROVE  Final(f)'
<1>1. \A c \in Call : NameOf(c) \in Name
  BY NamesAreNames
<1>2. now \in Nat /\ second[f] \in Nat /\ second[f] < now
  BY StoreAssumption DEF TypeOK, Second, Final
<1>3. ASSUME NEW c \in Call, Begin(c)
      PROVE  Final(f)'
  BY <1>1, <1>2, <1>3 DEF Begin, Goto, Final, ReadFile, NameOf, TypeOK, Pending
<1>4. ASSUME NEW c \in Call, Mkdir(c)
      PROVE  Final(f)'
  BY <1>1, <1>2, <1>4 DEF Mkdir, Goto, ClockRead, Final, ReadFile, NameOf, TypeOK, Pending
<1>5. ASSUME NEW c \in Call, MkdirFail(c)
      PROVE  Final(f)'
  BY <1>1, <1>2, <1>5 DEF MkdirFail, Goto, Fault, Final, ReadFile, NameOf, TypeOK, Pending
<1>6. ASSUME NEW c \in Call, NativeCreate(c)
      PROVE  Final(f)'
  BY <1>1, <1>2, <1>6 DEF NativeCreate, Goto, Becomes, NameIsFree, Final, ReadFile, NameOf, TypeOK, Pending
<1>7. ASSUME NEW c \in Call, WebCreate(c)
      PROVE  Final(f)'
  BY <1>1, <1>2, <1>7 DEF WebCreate, Goto, Becomes, Final, ReadFile, NameOf, TypeOK, Pending
<1>8. ASSUME NEW c \in Call, CreateFail(c)
      PROVE  Final(f)'
  BY <1>1, <1>2, <1>8 DEF CreateFail, Goto, Fault, Becomes, NameIsFree, Final, ReadFile, NameOf, TypeOK, Pending
<1>9. ASSUME NEW c \in Call, Put(c)
      PROVE  Final(f)'
  BY <1>1, <1>2, <1>9 DEF Put, Goto, Becomes, Final, ReadFile, NameOf, TypeOK, Pending
<1>10. ASSUME NEW c \in Call, PutFail(c)
      PROVE  Final(f)'
  BY <1>1, <1>2, <1>10 DEF PutFail, Goto, Fault, Becomes, AfterFault, Final, ReadFile, NameOf, TypeOK, Pending
<1>11. ASSUME NEW c \in Call, CloseFail(c)
      PROVE  Final(f)'
  BY <1>1, <1>2, <1>11 DEF CloseFail, Goto, Fault, Final, ReadFile, NameOf, TypeOK, Pending
<1>12. CASE Tick
  BY <1>2, <1>12 DEF Tick, calls, Final, ReadFile, NameOf, TypeOK, Pending
<1>13. CASE Job
  BY <1>2, <1>13 DEF Job, calls, Final, ReadFile, NameOf, TypeOK, Pending
<1>14. CASE Load
  BY <1>2, <1>14 DEF Load, calls, Final, ReadFile, NameOf, TypeOK, Pending
<1>15. CASE Unload
  BY <1>2, <1>15 DEF Unload, calls, Final, ReadFile, NameOf, TypeOK, Pending
<1>16. CASE UNCHANGED vars
  BY <1>16 DEF vars, Final, ReadFile, NameOf, TypeOK, Pending
<1>17. QED
  BY <1>3, <1>4, <1>5, <1>6, <1>7, <1>8, <1>9, <1>10, <1>11, <1>12, <1>13, <1>14, <1>15, <1>16 DEF Next

\* What is final stays so: later seconds write other files (webhdfs.go:152).
THEOREM FinalIsFinal == Spec => FinalStays
<1>1. TypeOK /\ [Next]_vars => [\A c \in Call : Final(c) => Final(c)']_vars
  BY FinalStep
<1>2. QED
  BY <1>1, TypeCorrect, PTL DEF Spec, FinalStays
=============================================================================
