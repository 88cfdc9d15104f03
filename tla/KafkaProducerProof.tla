-------------------------- MODULE KafkaProducerProof --------------------------
\* Theorems about KafkaProducer, for any calls, numbers of messages, queue and
\* faults.
EXTENDS KafkaProducer, FiniteSetTheorems, WellFoundedInduction, TLAPS

LEMMA TypeStep == TypeOK /\ [Next]_vars => TypeOK'
<1> SUFFICES ASSUME TypeOK, [Next]_vars PROVE TypeOK'
  OBVIOUS
<1> USE ProducerAssumption
<1>1. ASSUME NEW s \in Sender, Call(s)
      PROVE  TypeOK'
  BY <1>1 DEF Call, TypeOK, Returned
<1>2. ASSUME NEW s \in Sender, SerializeFail(s)
      PROVE  TypeOK'
  BY <1>2 DEF SerializeFail, Fault, TypeOK, Returned
<1>3. ASSUME NEW s \in Sender, Produce(s)
      PROVE  TypeOK'
  <2>1. <<s, produced[s] + 1>> \in Message
    BY <1>3 DEF Produce, Message, MessagesOf, TypeOK
  <2>2. QED
    BY <1>3, <2>1 DEF Produce, TypeOK, Returned
<1>4. ASSUME NEW s \in Sender, ProduceFail(s)
      PROVE  TypeOK'
  BY <1>4 DEF ProduceFail, Fault, TypeOK, Returned
<1>5. ASSUME NEW s \in Sender, AllProduced(s)
      PROVE  TypeOK'
  BY <1>5 DEF AllProduced, TypeOK, Returned
<1>6. ASSUME NEW m \in Message, Ack(m)
      PROVE  TypeOK'
  BY <1>6 DEF Ack, TypeOK, Returned
<1>7. ASSUME NEW m \in Message, DeliveryFail(m)
      PROVE  TypeOK'
  BY <1>7 DEF DeliveryFail, Fault, TypeOK, Returned
<1>8. ASSUME NEW s \in Sender, NEW m \in Message, Receive(s, m)
      PROVE  TypeOK'
  <2>1. Counted(m) \in {0, 1} /\ delivered[s] \in Nat /\ Count[s] \in Nat
    BY DEF Counted, TypeOK
  <2>2. QED
    BY <1>8, <2>1 DEF Receive, Awaiting, Received, TypeOK, Returned
<1>9. ASSUME NEW s \in Sender, AllDelivered(s)
      PROVE  TypeOK'
  BY <1>9 DEF AllDelivered, TypeOK, Returned
<1>10. ASSUME NEW s \in Sender, Timeout(s) \/ Cancel(s)
       PROVE  TypeOK'
  BY <1>10 DEF Timeout, Cancel, GiveUp, TypeOK, Returned
<1>11. CASE Stop
  BY <1>11 DEF Stop, TypeOK, Returned
<1>12. CASE UNCHANGED vars
  BY <1>12 DEF vars, TypeOK, Returned
<1>13. QED
  BY <1>1, <1>2, <1>3, <1>4, <1>5, <1>6, <1>7, <1>8, <1>9, <1>10, <1>11, <1>12 DEF Next

\* Every variable of the calls and their shared client keeps its type, and no
\* call counts more deliveries than it has messages (SendMessages).
THEOREM TypeCorrect == Spec => []TypeOK
<1>1. Init => TypeOK
  <2> SUFFICES ASSUME Init PROVE TypeOK
    OBVIOUS
  <2>1. \A s \in Sender : Count[s] \in Nat /\ 0 <= Count[s]
    BY ProducerAssumption
  <2>2. 0 \in 0 .. MaxFaults
    BY ProducerAssumption
  <2>3. /\ pc \in [Sender -> {"idle", "produce", "wait"} \cup Returned]
        /\ stopped \in BOOLEAN /\ faults \in 0 .. MaxFaults
    BY <2>2 DEF Init
  <2>4. queued \in SUBSET Message /\ reports \in SUBSET Message /\ acked \in SUBSET Message
    BY DEF Init
  <2>5. /\ produced \in [Sender -> Nat] /\ delivered \in [Sender -> Nat]
        /\ \A s \in Sender : produced[s] <= Count[s] /\ delivered[s] <= Count[s]
    BY <2>1 DEF Init
  <2>6. QED
    BY <2>3, <2>4, <2>5 DEF TypeOK
<1>2. QED
  BY <1>1, TypeStep, PTL DEF Spec

-----------------------------------------------------------------------------
\* Sums over a finite set.  MapThenSumSet adds in the order of CHOOSE; what the
\* sum counts does not depend on it.

Total(v, S) == MapThenSumSet(LAMBDA x : v[x], S)

\* f adds up v over the subsets of S, in the order of CHOOSE.
Adds(f, v, S) ==
    f = [s \in SUBSET S |->
           IF s = {} THEN 0 ELSE LET x == CHOOSE x \in s : TRUE IN v[x] + f[s \ {x}]]

LEMMA SumIsChosen ==
    ASSUME NEW S, NEW v
    PROVE  Total(v, S) = (CHOOSE f : Adds(f, v, S))[S]
BY DEF Total, MapThenSumSet, MapThenFoldSet, Adds

\* Two functions that add up the same are the same: of the sets they differ on
\* one is minimal, and one element less they agree.
LEMMA AddsOnce ==
    ASSUME NEW S, IsFiniteSet(S), NEW v, NEW f, NEW g, Adds(f, v, S), Adds(g, v, S)
    PROVE  f[S] = g[S]
<1> DEFINE T == {s \in SUBSET S : f[s] # g[s]}
<1>1. CASE T = {}
  BY <1>1
<1>2. CASE T # {}
  <2>1. IsWellFoundedOn(StrictSubsetOrdering(S), SUBSET S)
    BY FS_StrictSubsetOrderingWellFounded, FS_FiniteSubsetsOfFinite
  <2>2. T \subseteq SUBSET S
    OBVIOUS
  <2> HIDE DEF T
  <2>3. PICK s \in T : \A t \in T : ~ (<<t, s>> \in StrictSubsetOrdering(S))
    BY <1>2, <2>1, <2>2, WFMin
  <2>4. s \in SUBSET S /\ f[s] # g[s]
    BY <2>3 DEF T
  <2>5. /\ f[s] = IF s = {} THEN 0 ELSE LET x == CHOOSE x \in s : TRUE IN v[x] + f[s \ {x}]
        /\ g[s] = IF s = {} THEN 0 ELSE LET x == CHOOSE x \in s : TRUE IN v[x] + g[s \ {x}]
    BY <2>4, Zenon DEF Adds
  <2>6. s # {}
    BY <2>4, <2>5
  <2> DEFINE x == CHOOSE x \in s : TRUE
  <2>7. x \in s
    BY <2>6
  <2>8. f[s \ {x}] # g[s \ {x}]
    BY <2>4, <2>5, <2>6
  <2> HIDE DEF x
  <2>9. s \ {x} \in T
    BY <2>4, <2>8 DEF T
  <2>10. <<s \ {x}, s>> \in StrictSubsetOrdering(S)
    BY <2>4, <2>7 DEF StrictSubsetOrdering
  <2>11. QED
    BY <2>3, <2>9, <2>10
<1>3. QED
  BY <1>1, <1>2

LEMMA DisjointUnion ==
    ASSUME NEW A, NEW B, IsFiniteSet(A), IsFiniteSet(B), A \cap B = {}
    PROVE  Cardinality(A \cup B) = Cardinality(A) + Cardinality(B)
<1>1. Cardinality(A \cup B) = Cardinality(A) + Cardinality(B) - Cardinality(A \cap B)
  BY FS_Union
<1>2. Cardinality(A \cap B) = 0
  BY FS_EmptySet
<1>3. Cardinality(A) \in Nat /\ Cardinality(B) \in Nat
  BY FS_CardinalityType
<1>4. QED
  BY <1>1, <1>2, <1>3

\* When each element of D is by one of S and v counts them, the sum of v is the
\* number of elements of D.
LEMMA SumCounts ==
    ASSUME NEW S, IsFiniteSet(S), NEW D, IsFiniteSet(D), NEW by \in [D -> S],
           NEW v, \A x \in S : v[x] = Cardinality({m \in D : by[m] = x})
    PROVE  Total(v, S) = Cardinality(D)
<1> DEFINE In(s) == {m \in D : by[m] \in s}
           g == [s \in SUBSET S |-> Cardinality(In(s))]
<1>1. Adds(g, v, S)
  <2>1. ASSUME NEW s \in SUBSET S, s = {}
        PROVE  g[s] = 0
    BY <2>1, FS_EmptySet
  <2>2. ASSUME NEW s \in SUBSET S, s # {}
        PROVE  LET x == CHOOSE x \in s : TRUE IN g[s] = v[x] + g[s \ {x}]
    <3> DEFINE x == CHOOSE x \in s : TRUE
               A == {m \in D : by[m] = x}
               B == In(s \ {x})
    <3>1. x \in s /\ x \in S
      BY <2>2
    <3> HIDE DEF x
    <3>2. In(s) = A \cup B /\ A \cap B = {}
      BY <3>1
    <3>3. IsFiniteSet(A) /\ IsFiniteSet(B)
      BY FS_Subset
    <3>4. Cardinality(A \cup B) = Cardinality(A) + Cardinality(B)
      BY <3>2, <3>3, DisjointUnion
    <3>5. v[x] = Cardinality(A) /\ g[s] = Cardinality(In(s)) /\ g[s \ {x}] = Cardinality(B)
      BY <3>1
    <3>6. QED
      BY <3>2, <3>4, <3>5 DEF x
  <2> HIDE DEF g, In
  <2>3. g = [s \in SUBSET S |-> g[s]]
    BY DEF g
  <2>4. \A s \in SUBSET S : g[s] =
           IF s = {} THEN 0 ELSE LET x == CHOOSE x \in s : TRUE IN v[x] + g[s \ {x}]
    BY <2>1, <2>2
  <2>5. QED
    BY <2>3, <2>4 DEF Adds
<1>2. Adds(CHOOSE f : Adds(f, v, S), v, S)
  BY <1>1
<1>3. (CHOOSE f : Adds(f, v, S))[S] = g[S]
  BY <1>1, <1>2, AddsOnce
<1>4. g[S] = Cardinality(D)
  <2>1. In(S) = D
    OBVIOUS
  <2>2. QED
    BY <2>1
<1>5. QED
  BY <1>3, <1>4, SumIsChosen

-----------------------------------------------------------------------------
\* Whose report a counted delivery was does not matter, but each was of another
\* acknowledged message: the calls' counters are credited with some of the
\* acknowledged messages whose reports have been received, with all of them
\* before Stop, and each message with one call.
CreditedWith(D, by) ==
    /\ D \subseteq acked \ reports
    /\ ~stopped => D = acked \ reports
    /\ \A s \in Sender : delivered[s] = Cardinality({m \in D : by[m] = s})

Credited == \E D \in SUBSET Message : \E by \in [D -> Sender] : CreditedWith(D, by)

\* The messages that have been produced.
Sent == {m \in Message : m[2] <= produced[m[1]]}

\* A message is queued, or has a report, or was acknowledged, only once it is
\* produced, and then it is somewhere unless something failed.
Whereabouts ==
    /\ queued \cap (reports \cup acked) = {}
    /\ queued \cup reports \cup acked \subseteq Sent
    /\ faults = 0 /\ ~stopped => Sent \subseteq queued \cup acked /\ reports \subseteq acked

\* A call counts after it has produced everything, and succeeds when it has
\* counted as many.
Counting ==
    \A s \in Sender :
       /\ pc[s] \in {"idle", "produce", "error"} => delivered[s] = 0
       /\ pc[s] \in {"wait", "ok", "timeout", "cancelled"} => produced[s] = Count[s]
       /\ pc[s] = "ok" => delivered[s] = Count[s]

\* The account of the reports, message by message.
Books == Whereabouts /\ Counting /\ Credited

\* There are finitely many messages.
LEMMA MessagesFinite == IsFiniteSet(Message) /\ \A s \in Sender : IsFiniteSet(MessagesOf(s))
<1>1. \A s \in Sender : IsFiniteSet(MessagesOf(s))
  <2> SUFFICES ASSUME NEW s \in Sender PROVE IsFiniteSet(MessagesOf(s))
    OBVIOUS
  <2> DEFINE f == [k \in 1 .. Count[s] |-> <<s, k>>]
  <2>1. Count[s] \in Nat
    BY ProducerAssumption
  <2>2. IsFiniteSet(1 .. Count[s])
    BY <2>1, FS_Interval
  <2>3. f \in Surjection(1 .. Count[s], MessagesOf(s))
    BY DEF MessagesOf, Surjection
  <2>4. QED
    BY <2>2, <2>3, FS_Surjection
<1>2. IsFiniteSet({MessagesOf(s) : s \in Sender})
  <2> DEFINE g == [s \in Sender |-> MessagesOf(s)]
  <2>1. g \in Surjection(Sender, {MessagesOf(s) : s \in Sender})
    BY DEF Surjection
  <2>2. QED
    BY <2>1, ProducerAssumption, FS_Surjection
<1>3. QED
  BY <1>1, <1>2, FS_UNION DEF Message

LEMMA MessageIs ==
    /\ Message \subseteq Sender \X Nat
    /\ \A s \in Sender : \A k \in Nat : <<s, k>> \in Message <=> k \in 1 .. Count[s]
    /\ \A s \in Sender : MessagesOf(s) = {m \in Message : m[1] = s}
<1>1. \A s \in Sender : \A m \in MessagesOf(s) :
         m = <<s, m[2]>> /\ m[1] = s /\ m[2] \in Nat /\ m[2] \in 1 .. Count[s]
  BY ProducerAssumption DEF MessagesOf
<1>2. \A s \in Sender : \A k \in 1 .. Count[s] : <<s, k>> \in MessagesOf(s)
  BY DEF MessagesOf
<1>3. QED
  BY <1>1, <1>2 DEF Message

LEMMA WhereaboutsStep == TypeOK /\ Whereabouts /\ [Next]_vars => Whereabouts'
<1> SUFFICES ASSUME TypeOK, Whereabouts, [Next]_vars PROVE Whereabouts'
  OBVIOUS
<1>1. ASSUME NEW s \in Sender, Call(s) \/ SerializeFail(s) \/ ProduceFail(s) \/ AllProduced(s)
                               \/ AllDelivered(s) \/ Timeout(s) \/ Cancel(s)
      PROVE  Whereabouts'
  <2>1. UNCHANGED <<produced, queued, reports, acked, stopped>>
    BY <1>1 DEF Call, SerializeFail, ProduceFail, AllProduced, AllDelivered, Timeout, Cancel, GiveUp
  <2>2. Sent' = Sent
    BY <2>1 DEF Sent
  <2>3. faults' = 0 => faults = 0
    BY <1>1 DEF Call, SerializeFail, ProduceFail, AllProduced, AllDelivered, Timeout, Cancel, GiveUp,
                Fault, TypeOK
  <2>4. QED
    BY <2>1, <2>2, <2>3 DEF Whereabouts
<1>2. ASSUME NEW s \in Sender, Produce(s)
      PROVE  Whereabouts'
  <2> DEFINE new == <<s, produced[s] + 1>>
  <2>1. /\ queued' = queued \cup {new} /\ produced' = [produced EXCEPT ![s] = produced[s] + 1]
        /\ produced[s] \in Nat /\ produced[s] < Count[s]
        /\ UNCHANGED <<reports, acked, stopped, faults>>
    BY <1>2 DEF Produce, TypeOK
  <2>2. new \in Message /\ new \notin Sent
    BY <2>1, MessageIs, ProducerAssumption DEF Sent
  <2>3. Sent' = Sent \cup {new}
    <3>1. ASSUME NEW m \in Message
          PROVE  m[2] <= produced'[m[1]] <=> m[2] <= produced[m[1]] \/ m = new
      <4>1. m[1] \in Sender /\ m[2] \in Nat /\ m = <<m[1], m[2]>>
        BY MessageIs
      <4>2. CASE m[1] = s
        BY <2>1, <4>1, <4>2 DEF TypeOK
      <4>3. CASE m[1] # s
        BY <2>1, <4>1, <4>3 DEF TypeOK
      <4>4. QED
        BY <4>2, <4>3
    <3>2. QED
      BY <2>2, <3>1 DEF Sent
  <2> HIDE DEF new
  <2>4. QED
    BY <2>1, <2>2, <2>3 DEF Whereabouts
<1>3. ASSUME NEW m \in Message, Ack(m)
      PROVE  Whereabouts'
  <2>1. Sent' = Sent
    BY <1>3 DEF Ack, Sent
  <2>2. QED
    BY <1>3, <2>1 DEF Ack, Whereabouts
<1>4. ASSUME NEW m \in Message, DeliveryFail(m)
      PROVE  Whereabouts'
  <2>1. Sent' = Sent /\ faults' # 0
    BY <1>4 DEF DeliveryFail, Sent, Fault, TypeOK
  <2>2. QED
    BY <1>4, <2>1 DEF DeliveryFail, Whereabouts
<1>5. ASSUME NEW s \in Sender, NEW m \in Message, Receive(s, m)
      PROVE  Whereabouts'
  <2>1. Sent' = Sent
    BY <1>5 DEF Receive, Sent
  <2>2. QED
    BY <1>5, <2>1 DEF Receive, Received, Whereabouts
<1>6. CASE Stop
  <2>1. Sent' = Sent
    BY <1>6 DEF Stop, Sent
  <2>2. QED
    BY <1>6, <2>1 DEF Stop, Whereabouts
<1>7. CASE UNCHANGED vars
  <2>1. Sent' = Sent
    BY <1>7 DEF vars, Sent
  <2>2. QED
    BY <1>7, <2>1 DEF vars, Whereabouts
<1>8. QED
  BY <1>1, <1>2, <1>3, <1>4, <1>5, <1>6, <1>7 DEF Next

LEMMA CountingStep == TypeOK /\ Counting /\ [Next]_vars => Counting'
<1> SUFFICES ASSUME TypeOK, Counting, [Next]_vars PROVE Counting'
  OBVIOUS
<1> USE ProducerAssumption
<1>1. ASSUME NEW s \in Sender, Call(s) \/ SerializeFail(s) \/ ProduceFail(s) \/ AllProduced(s)
                               \/ AllDelivered(s) \/ Timeout(s) \/ Cancel(s)
      PROVE  Counting'
  BY <1>1 DEF Call, SerializeFail, ProduceFail, AllProduced, AllDelivered, Timeout, Cancel, GiveUp,
              Counting, TypeOK
<1>2. ASSUME NEW s \in Sender, Produce(s)
      PROVE  Counting'
  BY <1>2 DEF Produce, Counting, TypeOK
<1>3. ASSUME NEW s \in Sender, NEW m \in Message, Receive(s, m)
      PROVE  Counting'
  BY <1>3 DEF Receive, Counting, TypeOK
<1>4. CASE (\E m \in Message : Ack(m) \/ DeliveryFail(m)) \/ Stop \/ UNCHANGED vars
  BY <1>4 DEF Ack, DeliveryFail, Stop, vars, Counting
<1>5. QED
  BY <1>1, <1>2, <1>3, <1>4 DEF Next

\* A step after which the same credits are still good.
LEMMA SameCredits ==
    ASSUME Credited, UNCHANGED delivered, stopped => stopped',
           acked \ reports \subseteq acked' \ reports',
           ~stopped' => acked' \ reports' = acked \ reports
    PROVE  Credited'
<1>1. PICK D \in SUBSET Message : \E by \in [D -> Sender] : CreditedWith(D, by)
  BY DEF Credited
<1>2. PICK by \in [D -> Sender] : CreditedWith(D, by)
  BY <1>1
<1>3. CreditedWith(D, by)'
  BY <1>2 DEF CreditedWith
<1>4. QED
  BY <1>3 DEF Credited

\* A report of an acknowledged message is received: the call is credited with it.
LEMMA CreditOneMore ==
    ASSUME TypeOK, Credited, NEW s \in Sender, NEW m \in reports \cap acked, UNCHANGED <<acked, stopped>>,
           reports' = reports \ {m}, delivered' = [delivered EXCEPT ![s] = delivered[s] + 1]
    PROVE  Credited'
<1>1. PICK D \in SUBSET Message : \E by \in [D -> Sender] : CreditedWith(D, by)
  BY DEF Credited
<1>2. PICK by \in [D -> Sender] : CreditedWith(D, by)
  BY <1>1
<1> DEFINE E  == D \cup {m}
           on == [n \in E |-> IF n = m THEN s ELSE by[n]]
<1>3. m \in Message /\ m \notin D
  BY <1>2 DEF CreditedWith, TypeOK
<1>4. E \in SUBSET Message /\ on \in [E -> Sender]
  BY <1>3
<1>5. ASSUME NEW t \in Sender
      PROVE  delivered'[t] = Cardinality({n \in E : on[n] = t})
  <2> DEFINE A == {n \in D : by[n] = t}
  <2>1. IsFiniteSet(A) /\ delivered[t] = Cardinality(A) /\ m \notin A
    <3>1. A \in SUBSET Message
      OBVIOUS
    <3>2. QED
      BY <1>2, <1>3, <3>1, MessagesFinite, FS_Subset DEF CreditedWith
  <2>2. CASE t = s
    <3>1. {n \in E : on[n] = t} = A \cup {m}
      BY <1>3, <2>2
    <3> HIDE DEF A, E, on
    <3>2. Cardinality(A \cup {m}) = Cardinality(A) + 1
      BY <2>1, FS_AddElement
    <3>3. QED
      BY <2>1, <2>2, <3>1, <3>2 DEF TypeOK
  <2>3. CASE t # s
    <3>1. {n \in E : on[n] = t} = A
      BY <1>3, <2>3
    <3> HIDE DEF A, E, on
    <3>2. QED
      BY <2>1, <2>3, <3>1 DEF TypeOK
  <2>4. QED
    BY <2>2, <2>3
<1>6. E \subseteq acked' \ reports' /\ (~stopped' => E = acked' \ reports')
  BY <1>2 DEF CreditedWith
<1> HIDE DEF E, on
<1>7. CreditedWith(E, on)'
  BY <1>5, <1>6 DEF CreditedWith
<1>8. QED
  BY <1>4, <1>7 DEF Credited

LEMMA CreditedStep == TypeOK /\ Whereabouts /\ Credited /\ [Next]_vars => Credited'
<1> SUFFICES ASSUME TypeOK, Whereabouts, Credited, [Next]_vars PROVE Credited'
  OBVIOUS
<1>1. ASSUME NEW s \in Sender, Call(s) \/ SerializeFail(s) \/ Produce(s) \/ ProduceFail(s)
                               \/ AllProduced(s) \/ AllDelivered(s) \/ Timeout(s) \/ Cancel(s)
      PROVE  Credited'
  BY <1>1, SameCredits
     DEF Call, SerializeFail, Produce, ProduceFail, AllProduced, AllDelivered, Timeout, Cancel, GiveUp
<1>2. ASSUME NEW m \in Message, Ack(m)
      PROVE  Credited'
  <2>1. acked' \ reports' = acked \ reports
    BY <1>2 DEF Ack, Whereabouts
  <2>2. QED
    BY <1>2, <2>1, SameCredits DEF Ack
<1>3. ASSUME NEW m \in Message, DeliveryFail(m)
      PROVE  Credited'
  <2>1. acked' \ reports' = acked \ reports
    BY <1>3 DEF DeliveryFail, Whereabouts
  <2>2. QED
    BY <1>3, <2>1, SameCredits DEF DeliveryFail
<1>4. ASSUME NEW s \in Sender, NEW m \in Message, Receive(s, m)
      PROVE  Credited'
  <2>1. CASE m \in acked
    <3>1. Counted(m) = 1
      BY <2>1 DEF Counted
    <3>2. QED
      BY <1>4, <2>1, <3>1, CreditOneMore DEF Receive, Received
  <2>2. CASE m \notin acked
    <3>1. delivered' = delivered
      BY <1>4, <2>2 DEF Receive, Counted, TypeOK
    <3>2. QED
      BY <1>4, <2>2, <3>1, SameCredits DEF Receive, Received
  <2>3. QED
    BY <2>1, <2>2
<1>5. CASE Stop
  BY <1>5, SameCredits DEF Stop
<1>6. CASE UNCHANGED vars
  BY <1>6, SameCredits DEF vars
<1>7. QED
  BY <1>1, <1>2, <1>3, <1>4, <1>5, <1>6 DEF Next

LEMMA BooksAlways == Spec => []Books
<1>1. Init => Books
  <2> SUFFICES ASSUME Init PROVE Books
    OBVIOUS
  <2>1. Whereabouts
    <3>1. Sent = {}
      BY MessageIs, ProducerAssumption DEF Init, Sent
    <3>2. QED
      BY <3>1 DEF Init, Whereabouts
  <2>2. Counting
    BY DEF Init, Counting
  <2>3. Credited
    <3> DEFINE by == [m \in {} |-> CHOOSE s \in Sender : TRUE]
    <3>1. by \in [{} -> Sender]
      OBVIOUS
    <3>2. \A s \in Sender : Cardinality({m \in {} : by[m] = s}) = 0
      BY FS_EmptySet
    <3>3. CreditedWith({}, by)
      BY <3>2 DEF Init, CreditedWith
    <3>4. QED
      BY <3>1, <3>3 DEF Credited
  <2>4. QED
    BY <2>1, <2>2, <2>3 DEF Books
<1>2. QED
  BY <1>1, TypeCorrect, WhereaboutsStep, CountingStep, CreditedStep, PTL DEF Spec, Books
-----------------------------------------------------------------------------
\* What the books say of the sums.
LEMMA CountersAddUp ==
    ASSUME NEW D \in SUBSET Message, NEW by \in [D -> Sender], CreditedWith(D, by)
    PROVE  /\ IsFiniteSet(D)
           /\ Total(delivered, Sender) = Cardinality(D)
<1>1. IsFiniteSet(D)
  BY MessagesFinite, FS_Subset
<1>2. QED
  BY <1>1, SumCounts, ProducerAssumption DEF CreditedWith

LEMMA SentIsFinite == IsFiniteSet(Sent) /\ Cardinality(Sent) \in Nat
<1>1. Sent \in SUBSET Message
  BY DEF Sent
<1>2. QED
  BY <1>1, MessagesFinite, FS_Subset, FS_CardinalityType

\* What a call has sent: as many as it has produced.
LEMMA SentBy ==
    ASSUME TypeOK, NEW s \in Sender
    PROVE  Cardinality({m \in Sent : m[1] = s}) = produced[s]
<1> DEFINE f == [k \in 1 .. produced[s] |-> <<s, k>>]
           T == {m \in Sent : m[1] = s}
<1>1. produced[s] \in Nat /\ produced[s] <= Count[s] /\ Count[s] \in Nat
  BY ProducerAssumption DEF TypeOK
<1>2. ASSUME NEW k \in 1 .. produced[s]
      PROVE  f[k] \in T /\ f[k] = <<s, k>>
  BY <1>1, MessageIs DEF Sent
<1>3. ASSUME NEW m \in T
      PROVE  m[2] \in 1 .. produced[s] /\ m = <<s, m[2]>>
  <2>1. m \in Message /\ m = <<s, m[2]>> /\ m[2] \in Nat /\ m[2] <= produced[s]
    BY MessageIs DEF Sent
  <2>2. m[2] \in 1 .. Count[s]
    BY <2>1, MessageIs
  <2>3. QED
    BY <2>1, <2>2, <1>1
<1> HIDE DEF T
<1>4. f \in Bijection(1 .. produced[s], T)
  <2>1. f \in [1 .. produced[s] -> T]
    BY <1>2
  <2>2. \A k, l \in 1 .. produced[s] : f[k] = f[l] => k = l
    BY <1>2
  <2>3. \A m \in T : \E k \in 1 .. produced[s] : f[k] = m
    BY <1>3
  <2>4. QED
    BY <2>1, <2>2, <2>3 DEF Bijection, Injection, Surjection, IsInjective
<1>5. ExistsBijection(1 .. produced[s], T)
  BY <1>4 DEF ExistsBijection
<1>6. IsFiniteSet(1 .. produced[s]) /\ Cardinality(1 .. produced[s]) = produced[s]
  <2>1. 1 \in Int /\ produced[s] \in Int
    BY <1>1
  <2>2. Cardinality(1 .. produced[s]) = IF 1 > produced[s] THEN 0 ELSE produced[s] - 1 + 1
    BY <2>1, FS_Interval
  <2>3. IsFiniteSet(1 .. produced[s])
    BY <2>1, FS_Interval
  <2> HIDE DEF f
  <2>4. (IF 1 > produced[s] THEN 0 ELSE produced[s] - 1 + 1) = produced[s]
    BY <1>1
  <2>5. QED
    BY <2>2, <2>3, <2>4
<1>7. QED
  BY <1>5, <1>6, FS_Bijection DEF T

\* Whatever counts the sent messages of each call adds up to all of them.
LEMMA SentAddUp ==
    ASSUME TypeOK, NEW v, \A s \in Sender : v[s] = produced[s]
    PROVE  Total(v, Sender) = Cardinality(Sent)
<1> DEFINE by == [m \in Sent |-> m[1]]
<1>1. by \in [Sent -> Sender]
  BY MessageIs DEF Sent
<1>2. \A s \in Sender : {m \in Sent : by[m] = s} = {m \in Sent : m[1] = s}
  OBVIOUS
<1> HIDE DEF by
<1>3. \A s \in Sender : v[s] = Cardinality({m \in Sent : by[m] = s})
  BY <1>2, SentBy
<1>4. IsFiniteSet(Sender) /\ IsFiniteSet(Sent)
  BY SentIsFinite, ProducerAssumption
<1>5. QED
  BY <1>1, <1>3, <1>4, SumCounts

\* The calls of one producer, however many, never count more deliveries than the
\* broker has acknowledged (SendMessages, producer.go:108-137).
THEOREM CountsAreCovered == Spec => []CountedWereAcked
<1>1. TypeOK /\ Books => CountedWereAcked
  <2> SUFFICES ASSUME TypeOK, Credited PROVE CountedWereAcked
    BY DEF Books
  <2>1. PICK D \in SUBSET Message : \E by \in [D -> Sender] : CreditedWith(D, by)
    BY DEF Credited
  <2>2. PICK by \in [D -> Sender] : CreditedWith(D, by)
    BY <2>1
  <2>3. /\ IsFiniteSet(D) /\ D \subseteq acked /\ D \cap (reports \cap acked) = {}
        /\ Total(delivered, Sender) = Cardinality(D)
    BY <2>2, CountersAddUp DEF CreditedWith
  <2>4. IsFiniteSet(acked) /\ IsFiniteSet(reports \cap acked)
    BY MessagesFinite, FS_Subset, FS_Intersection DEF TypeOK
  <2>5. Cardinality(D \cup (reports \cap acked)) = Cardinality(D) + Cardinality(reports \cap acked)
    BY <2>3, <2>4, DisjointUnion
  <2>6. Cardinality(D \cup (reports \cap acked)) <= Cardinality(acked)
    <3>1. (D \cup (reports \cap acked)) \in SUBSET acked
      BY <2>3
    <3>2. QED
      BY <3>1, <2>4, FS_Subset
  <2>7. QED
    BY <2>3, <2>5, <2>6 DEF CountedWereAcked, Total
<1>2. QED
  BY <1>1, TypeCorrect, BooksAlways, PTL

\* As long as nothing fails no report gets lost between the calls, so that a
\* call is repaid for every report another one has received (producer.go:107-137).
THEOREM NoReportLost == Spec => []NoReportLeaks
<1>1. TypeOK /\ Books => NoReportLeaks
  <2> SUFFICES ASSUME TypeOK, Whereabouts, Credited, faults = 0, ~stopped
               PROVE  Total(delivered, Sender) + Cardinality(queued \cup reports)
                         = Total(produced, Sender)
    BY DEF Books, NoReportLeaks, Total
  <2>1. PICK D \in SUBSET Message : \E by \in [D -> Sender] : CreditedWith(D, by)
    BY DEF Credited
  <2>2. PICK by \in [D -> Sender] : CreditedWith(D, by)
    BY <2>1
  <2>3. /\ IsFiniteSet(D) /\ D = acked \ reports
        /\ Total(delivered, Sender) = Cardinality(D)
    BY <2>2, CountersAddUp DEF CreditedWith
  <2>4. D \cup (queued \cup reports) = Sent /\ D \cap (queued \cup reports) = {}
    BY <2>3 DEF Whereabouts
  <2>5. IsFiniteSet(queued \cup reports)
    <3>1. queued \cup reports \in SUBSET Message
      BY DEF TypeOK
    <3>2. QED
      BY <3>1, MessagesFinite, FS_Subset
  <2>6. Cardinality(Sent) = Cardinality(D) + Cardinality(queued \cup reports)
    BY <2>3, <2>4, <2>5, DisjointUnion
  <2>7. Total(produced, Sender) = Cardinality(Sent)
    BY SentAddUp
  <2>8. QED
    BY <2>3, <2>6, <2>7
<1>2. QED
  BY <1>1, TypeCorrect, BooksAlways, PTL

\* When all calls that have sent anything have returned nil, each of them tells
\* the truth, whoever has received whose report (producer.go:107-139): together
\* they have counted as many messages as they have sent.
THEOREM AllAreOwn == Spec => []SuccessTogether
<1>1. TypeOK /\ Books => SuccessTogether
  <2> SUFFICES ASSUME TypeOK, Whereabouts, Counting, Credited,
                      \A s \in Sender : produced[s] > 0 => pc[s] = "ok",
                      NEW s \in Sender, pc[s] = "ok"
               PROVE  MessagesOf(s) \subseteq acked
    BY DEF Books, SuccessTogether
  <2>1. PICK D \in SUBSET Message : \E by \in [D -> Sender] : CreditedWith(D, by)
    BY DEF Credited
  <2>2. PICK by \in [D -> Sender] : CreditedWith(D, by)
    BY <2>1
  <2>3. /\ IsFiniteSet(D) /\ D \subseteq acked
        /\ Total(delivered, Sender) = Cardinality(D)
    BY <2>2, CountersAddUp DEF CreditedWith
  <2>4. \A t \in Sender : delivered[t] = produced[t]
    <3> SUFFICES ASSUME NEW t \in Sender PROVE delivered[t] = produced[t]
      OBVIOUS
    <3>1. /\ produced[t] \in Nat /\ delivered[t] \in Nat /\ delivered[t] <= Count[t]
          /\ pc[t] \in {"idle", "produce", "wait"} \cup Returned /\ Count[t] \in Nat
      BY ProducerAssumption DEF TypeOK
    <3>2. CASE produced[t] > 0
      BY <3>2 DEF Counting
    <3>3. CASE produced[t] = 0
      BY <3>1, <3>3 DEF Counting, Returned
    <3>4. QED
      BY <3>1, <3>2, <3>3
  <2>5. Cardinality(D) = Cardinality(Sent)
    BY <2>3, <2>4, SentAddUp
  <2>6. D \in SUBSET Sent
    BY <2>3 DEF Whereabouts
  <2>7. D = Sent
    BY <2>5, <2>6, SentIsFinite, FS_Subset
  <2>8. MessagesOf(s) \subseteq Sent
    <3>1. produced[s] = Count[s]
      BY DEF Counting
    <3>2. \A m \in MessagesOf(s) : m \in Message /\ m[1] = s /\ m[2] <= Count[s]
      BY ProducerAssumption, MessageIs DEF MessagesOf, Message
    <3>3. QED
      BY <3>1, <3>2 DEF Sent
  <2>9. QED
    BY <2>3, <2>7, <2>8
<1>2. QED
  BY <1>1, TypeCorrect, BooksAlways, PTL

\* There is one call: nobody can take its reports.
OneCall == \A s \in Sender : \A t \in Sender : s = t

\* A call that has the producer to itself reports success only of its own
\* messages, whatever fails and whenever Stop comes (SendMessages).
THEOREM AloneIsOwn ==
    ASSUME OneCall
    PROVE  Spec => []SuccessIsOwn
<1>1. SuccessTogether => SuccessIsOwn
  BY OneCall DEF OneCall, SuccessTogether, SuccessIsOwn
<1>2. QED
  BY <1>1, AllAreOwn, PTL
=============================================================================
