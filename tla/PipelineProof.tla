----------------------------- MODULE PipelineProof -----------------------------
\* Proofs about Pipeline, for any processes and commands, partitions, popularity
\* lists and faults.
EXTENDS Pipeline, WellFoundedInduction, TLAPS

\* getRecommendedProduct and getAlternatives return an answer of the right type;
\* of a set of matches one comes first.
LEMMA FirstHit ==
    ASSUME NEW S \in SUBSET Nat, S # {}
    PROVE  \E k \in S : Before(k, S)
<1>1. PICK k \in S : \A j \in S : ~ (<<j, k>> \in OpToRel(<, Nat))
  BY WFMin, NatLessThanWellFounded
<1>2. \A j \in S : ~ (j < k)
  BY <1>1 DEF OpToRel
<1>3. QED
  BY <1>2 DEF Before

LEMMA RecommendedTyped ==
    ASSUME popular \in Seq(Term), NEW t \in Term
    PROVE  Recommended(t) \in Term \X {"Recommended", "Trending", "Popular"}
<1>1. CASE popular = <<>>
  BY <1>1 DEF Recommended
<1>2. CASE popular # <<>> /\ Hits(t) = {}
  BY <1>2 DEF Recommended
<1>3. CASE popular # <<>> /\ Hits(t) # {}
  <2>1. Hits(t) \in SUBSET Nat /\ Hits(t) \subseteq DOMAIN popular
    BY DEF Hits
  <2>2. \E k \in Hits(t) : Before(k, Hits(t))
    BY <1>3, <2>1, FirstHit
  <2>3. (CHOOSE k \in Hits(t) : Before(k, Hits(t))) \in DOMAIN popular
    BY <2>1, <2>2
  <2>4. QED
    BY <1>3, <2>3 DEF Recommended
<1>4. QED
  BY <1>1, <1>2, <1>3

LEMMA AnswersTyped ==
    ASSUME popular \in Seq(Term), NEW p \in Process, ask[p] \in Term \X {"text", "avro"}
    PROVE  AnswerTo(p) \in Answers
<1>1. Recommended(ask[p][1]) \in Term \X {"Recommended", "Trending", "Popular"}
  BY RecommendedTyped
<1>2. Alternatives(ask[p][1]) \in (SUBSET Term) \cup {Placeholders}
  <2>1. \A k \in DOMAIN popular : popular[k] \in Term
    OBVIOUS
  <2>2. ({popular[k] : k \in DOMAIN popular \cap 1 .. 3} \ {ask[p][1]}) \in SUBSET Term
    BY <2>1
  <2>3. QED
    BY <2>2 DEF Alternatives
<1>3. QED
  BY <1>1, <1>2 DEF AnswerTo, Answers

\* A request that is anywhere has been asked, and a held message is there.
Asked ==
    /\ \A p \in requests["source"] \cup requests["target"] \cup taken \cup tasks : ask[p] # <<>>
    /\ \A p \in Process : state[p] = "holding" => hand[p] # <<>>

TypeInv == TypeOK /\ Asked

LEMMA TypeStep == TypeInv /\ [Next]_vars => TypeInv'
<1> SUFFICES ASSUME TypeOK, Asked, [Next]_vars PROVE TypeOK' /\ Asked'
  BY DEF TypeInv
<1> USE PipelineAssumption
<1>1. ASSUME NEW p \in Process, Search(p)
      PROVE  TypeOK' /\ Asked'
  BY <1>1 DEF Search, Publish, Starts, Goto, answering, reading, TypeOK, Cluster, Asked
<1>2. ASSUME NEW p \in Process, SearchFail(p)
      PROVE  TypeOK' /\ Asked'
  <2>1. CASE Publish(p)
    BY <1>2, <2>1 DEF SearchFail, Publish, Starts, Goto, Fault, answering, reading, TypeOK, Cluster, Asked
  <2>2. CASE UNCHANGED asking
    BY <1>2, <2>2 DEF SearchFail, Starts, Goto, Fault, asking, answering, reading, TypeOK, Cluster, Asked
  <2>3. QED
    BY <1>2, <2>1, <2>2 DEF SearchFail
<1>3. ASSUME NEW p \in Process, MirrorRequest(p)
      PROVE  TypeOK' /\ Asked'
  BY <1>3 DEF MirrorRequest, answering, reading, TypeOK, Cluster, Asked, Mirrored
<1>4. ASSUME NEW q \in Partition, MirrorAnswer(q)
      PROVE  TypeOK' /\ Asked'
  <2>1. PICK m \in Mirrored :
           LET from == topic[m[1]][q]
               to   == topic[m[2]][q]
           IN  /\ Len(to) < Len(from)
               /\ topic' = [topic EXCEPT ![m[2]][q] = Append(to, from[Len(to) + 1])]
    BY <1>4 DEF MirrorAnswer
  <2>2. topic[m[1]][q] \in Seq(Answers) /\ topic[m[2]][q] \in Seq(Answers)
    BY DEF Mirrored, TypeOK, Cluster
  <2>3. topic[m[1]][q][Len(topic[m[2]][q]) + 1] \in Answers
    BY <2>1, <2>2
  <2>4. Append(topic[m[2]][q], topic[m[1]][q][Len(topic[m[2]][q]) + 1]) \in Seq(Answers)
    BY <2>2, <2>3
  <2>5. topic' \in [Cluster -> [Partition -> Seq(Answers)]]
    BY <2>1, <2>4 DEF TypeOK
  <2>6. QED
    BY <1>4, <2>5 DEF MirrorAnswer, asking, reading, TypeOK, Cluster, Asked
<1>5. ASSUME NEW p \in Process, TakeRequest(p)
      PROVE  TypeOK' /\ Asked'
  BY <1>5 DEF TakeRequest, asking, reading, TypeOK, Cluster, Asked
<1>6. ASSUME NEW p \in Process, Answer(p)
      PROVE  TypeOK' /\ Asked'
  <2>1. ask[p] \in Term \X {"text", "avro"} /\ site \in Cluster
    BY <1>6 DEF Answer, TypeOK, Asked
  <2>2. AnswerTo(p) \in Answers
    BY <2>1, AnswersTyped DEF TypeOK
  <2>3. ASSUME NEW q \in Partition, Send(p, q)
        PROVE  topic' \in [Cluster -> [Partition -> Seq(Answers)]]
    <3>1. topic[site][q] \in Seq(Answers)
      BY <2>1 DEF TypeOK
    <3>2. Append(topic[site][q], AnswerTo(p)) \in Seq(Answers)
      BY <2>2, <3>1
    <3>3. [topic[site] EXCEPT ![q] = Append(topic[site][q], AnswerTo(p))]
             \in [Partition -> Seq(Answers)]
      BY <2>1, <3>2 DEF TypeOK
    <3>4. QED
      BY <2>1, <2>3, <3>3 DEF Send, TypeOK
  <2>4. topic' \in [Cluster -> [Partition -> Seq(Answers)]]
    BY <1>6, <2>3 DEF Answer, TypeOK
  <2>5. QED
    BY <1>6, <2>4 DEF Answer, asking, reading, TypeOK, Cluster, Asked
<1>7. ASSUME NEW p \in Process, AnswerLost(p)
      PROVE  TypeOK' /\ Asked'
  BY <1>7 DEF AnswerLost, Fault, asking, reading, TypeOK, Cluster, Asked
<1>8. ASSUME NEW p \in Process, AnswerAgain(p)
      PROVE  TypeOK' /\ Asked'
  <2>1. ask[p] \in Term \X {"text", "avro"} /\ site \in Cluster
    BY <1>8 DEF AnswerAgain, TypeOK, Asked
  <2>2. AnswerTo(p) \in Answers
    BY <2>1, AnswersTyped DEF TypeOK
  <2>3. ASSUME NEW q \in Partition, Send(p, q)
        PROVE  topic' \in [Cluster -> [Partition -> Seq(Answers)]]
    <3>1. topic[site][q] \in Seq(Answers)
      BY <2>1 DEF TypeOK
    <3>2. Append(topic[site][q], AnswerTo(p)) \in Seq(Answers)
      BY <2>2, <3>1
    <3>3. [topic[site] EXCEPT ![q] = Append(topic[site][q], AnswerTo(p))]
             \in [Partition -> Seq(Answers)]
      BY <2>1, <3>2 DEF TypeOK
    <3>4. QED
      BY <2>1, <2>3, <3>3 DEF Send, TypeOK
  <2>4. topic' \in [Cluster -> [Partition -> Seq(Answers)]]
    BY <1>8, <2>3 DEF AnswerAgain, TypeOK
  <2>5. QED
    BY <1>8, <2>4 DEF AnswerAgain, Fault, asking, reading, TypeOK, Cluster, Asked
<1>9. CASE Restart
  BY <1>9 DEF Restart, Fault, asking, reading, TypeOK, Cluster, Asked
<1>10. ASSUME NEW p \in Process, Subscribe(p)
      PROVE  TypeOK' /\ Asked'
  BY <1>10 DEF Subscribe, Starts, Goto, asking, answering, reading, TypeOK, Cluster, Asked
<1>11. ASSUME NEW p \in Process, NEW q \in Partition, Assign(p, q)
      PROVE  TypeOK' /\ Asked'
  BY <1>11 DEF Assign, asking, answering, TypeOK, Cluster, Asked
<1>12. ASSUME NEW p \in Process, NEW q \in Partition, Revoke(p, q)
      PROVE  TypeOK' /\ Asked'
  BY <1>12 DEF Revoke, asking, answering, TypeOK, Cluster, Asked
<1>13. ASSUME NEW p \in Process, NEW q \in Partition, Read(p, q)
      PROVE  TypeOK' /\ Asked'
  BY <1>13 DEF Read, Goto, asking, answering, TypeOK, Cluster, Asked
<1>14. ASSUME NEW p \in Process, Close(p)
      PROVE  TypeOK' /\ Asked'
  BY <1>14 DEF Close, Goto, Released, asking, answering, TypeOK, Cluster, Asked, NextOffset
<1>15. ASSUME NEW p \in Process, CloseFail(p)
      PROVE  TypeOK' /\ Asked'
  BY <1>15 DEF CloseFail, Goto, Released, Fault, asking, answering, TypeOK, Cluster, Asked
<1>16. ASSUME NEW p \in Process, Show(p)
      PROVE  TypeOK' /\ Asked'
  BY <1>16 DEF Show, Goto, asking, answering, reading, TypeOK, Cluster, Asked
<1>17. ASSUME NEW p \in Process, Nothing(p)
      PROVE  TypeOK' /\ Asked'
  BY <1>17 DEF Nothing, Goto, Released, asking, answering, TypeOK, Cluster, Asked
<1>18. ASSUME NEW p \in Process, Kill(p)
      PROVE  TypeOK' /\ Asked'
  BY <1>18 DEF Kill, Goto, Fault, asking, answering, reading, TypeOK, Cluster, Asked
<1>19. CASE UNCHANGED vars
  BY <1>19 DEF vars, TypeOK, Cluster, Asked
<1>20. QED
  BY <1>1, <1>2, <1>3, <1>4, <1>5, <1>6, <1>7, <1>8, <1>9, <1>10, <1>11, <1>12, <1>13, <1>14, <1>15, <1>16, <1>17, <1>18, <1>19 DEF Next

LEMMA InitTyped == Init => TypeInv
BY PipelineAssumption DEF Init, TypeInv, TypeOK, Asked, Cluster

\* Every variable of the clients, the mirror, the analytic program and the
\* topics keeps its type.
THEOREM TypeCorrect == Spec => []TypeOK
BY InitTyped, TypeStep, PTL DEF Spec, TypeInv

-----------------------------------------------------------------------------
\* What a process has in hand while it holds a message: nobody else can own the
\* partition, so that its offset is the committed one.
Held ==
    \A p \in Process : state[p] = "holding" =>
        /\ hand[p] # <<>>
        /\ owner[hand[p][1]] = p
        /\ hand[p][2] = committed[hand[p][1]]

\* Who has committed is done with reading.
Done == \A p \in closed : state[p] \in {"closed", "shown", "dead"}

CommitInv == Held /\ Done /\ OneCommits

\* The part of TypeOK that this is about.
ReadTyped ==
    /\ \A p \in Process : state[p] = "holding" => hand[p] # <<>>
    /\ DOMAIN state = Process
    /\ committed \in [Partition -> Nat]
    /\ owner \in [Partition -> Process \cup {NoOne}]
    /\ hand \in [Process -> (Partition \X Nat) \cup {<<>>}]
    /\ closed \in SUBSET Process

\* Nobody reads or closes: nobody begins to hold a message, who holds one keeps
\* its partition, and who has committed is done with reading.
LEMMA NobodyReads ==
    ASSUME ReadTyped, CommitInv,
           UNCHANGED <<committed, hand, closed>>,
           \A p \in Process : state'[p] = "holding" =>
              /\ state[p] = "holding"
              /\ \A q \in Partition : owner[q] = p => owner'[q] = p,
           \A p \in closed : state'[p] \in {"closed", "shown", "dead"}
    PROVE  CommitInv'
<1>1. Held'
  BY DEF CommitInv, Held, ReadTyped
<1>2. Done' /\ OneCommits'
  BY SMTT(30) DEF CommitInv, Done, OneCommits
<1>3. QED
  BY <1>1, <1>2 DEF CommitInv

LEMMA CommitStep == ReadTyped /\ CommitInv /\ [Next]_vars => CommitInv'
<1> SUFFICES ASSUME ReadTyped, CommitInv, [Next]_vars PROVE CommitInv'
  OBVIOUS
<1> USE PipelineAssumption
<1>1. ASSUME NEW p \in Process, Search(p)
      PROVE  CommitInv'
  BY NobodyReads, <1>1 DEF Search, Publish, Starts, Goto, answering, reading, ReadTyped, CommitInv, Done
<1>2. ASSUME NEW p \in Process, SearchFail(p)
      PROVE  CommitInv'
  BY NobodyReads, <1>2 DEF SearchFail, Publish, Starts, Goto, Fault, asking, answering, reading, ReadTyped, CommitInv, Done
<1>3. ASSUME NEW p \in Process, MirrorRequest(p)
      PROVE  CommitInv'
  BY NobodyReads, <1>3 DEF MirrorRequest, answering, reading, ReadTyped, CommitInv, Done
<1>4. ASSUME NEW q \in Partition, MirrorAnswer(q)
      PROVE  CommitInv'
  BY NobodyReads, <1>4 DEF MirrorAnswer, asking, reading, ReadTyped, CommitInv, Done
<1>5. ASSUME NEW p \in Process, TakeRequest(p)
      PROVE  CommitInv'
  BY NobodyReads, <1>5 DEF TakeRequest, asking, reading, ReadTyped, CommitInv, Done
<1>6. ASSUME NEW p \in Process, Answer(p)
      PROVE  CommitInv'
  BY NobodyReads, <1>6 DEF Answer, Send, Decodes, asking, reading, ReadTyped, CommitInv, Done
<1>7. ASSUME NEW p \in Process, AnswerLost(p)
      PROVE  CommitInv'
  BY NobodyReads, <1>7 DEF AnswerLost, Fault, asking, reading, ReadTyped, CommitInv, Done
<1>8. ASSUME NEW p \in Process, AnswerAgain(p)
      PROVE  CommitInv'
  BY NobodyReads, <1>8 DEF AnswerAgain, Send, Decodes, Fault, asking, reading, ReadTyped, CommitInv, Done
<1>9. CASE Restart
  BY NobodyReads, <1>9 DEF Restart, Fault, asking, reading, ReadTyped, CommitInv, Done
<1>10. ASSUME NEW p \in Process, Subscribe(p)
      PROVE  CommitInv'
  BY NobodyReads, <1>10 DEF Subscribe, Starts, Goto, asking, answering, reading, ReadTyped, CommitInv, Done
<1>11. ASSUME NEW p \in Process, NEW q \in Partition, Assign(p, q)
      PROVE  CommitInv'
  BY NobodyReads, <1>11 DEF Assign, asking, answering, ReadTyped, CommitInv, Done
<1>12. ASSUME NEW p \in Process, NEW q \in Partition, Revoke(p, q)
      PROVE  CommitInv'
  BY NobodyReads, <1>12 DEF Revoke, asking, answering, ReadTyped, CommitInv, Done
<1>13. ASSUME NEW p \in Process, NEW q \in Partition, Read(p, q)
      PROVE  CommitInv'
  <2>1. p \notin closed
    BY <1>13 DEF Read, CommitInv, Done
  <2>2. /\ hand' = [hand EXCEPT ![p] = <<q, committed[q]>>]
        /\ state' = [state EXCEPT ![p] = "holding"] /\ owner[q] = p
        /\ UNCHANGED <<committed, owner, closed>>
    BY <1>13 DEF Read, Goto
  <2>3. hand' \in [Process -> (Partition \X Nat) \cup {<<>>}]
    BY <2>2 DEF ReadTyped
  <2>4. \A c \in closed : hand'[c] = hand[c]
    BY <2>1, <2>2 DEF ReadTyped
  <2>5. Held'
    BY <2>2 DEF Held, ReadTyped, CommitInv
  <2>6. Done'
    BY <2>1, <2>2 DEF Done, ReadTyped, CommitInv
  <2>7. OneCommits'
    BY <2>2, <2>4 DEF CommitInv, OneCommits, ReadTyped
  <2>8. QED
    BY <2>5, <2>6, <2>7 DEF CommitInv
<1>14. ASSUME NEW p \in Process, Close(p)
      PROVE  CommitInv'
  <2> DEFINE r == hand[p][1]
             o == hand[p][2]
  <2>1. /\ r \in Partition /\ o \in Nat /\ hand[p] = <<r, o>>
        /\ owner[r] = p /\ o = committed[r] /\ p \notin closed
    BY <1>14 DEF Close, ReadTyped, CommitInv, Held, Done
  <2>2. /\ committed' = [committed EXCEPT ![r] = o + 1]
        /\ closed' = closed \cup {p} /\ hand' = hand
        /\ state' = [state EXCEPT ![p] = "closed"]
        /\ owner' = [q \in Partition |-> IF owner[q] = p THEN NoOne ELSE owner[q]]
    BY <1>14 DEF Close, NextOffset, Goto, Released
  <2> HIDE DEF r, o
  <2>3. Held'
    BY <2>1, <2>2 DEF Held, ReadTyped, CommitInv
  <2>4. Done'
    BY <2>2 DEF Done, ReadTyped, CommitInv
  <2>5. \A q \in Partition : \A i \in 0 .. committed'[q] :
           i < committed'[q] => \E c \in closed' : hand'[c] = <<q, i>>
    <3> SUFFICES ASSUME NEW q \in Partition, NEW i \in 0 .. committed'[q], i < committed'[q]
                 PROVE  \E c \in closed' : hand'[c] = <<q, i>>
      OBVIOUS
    <3>1. CASE q = r /\ i = o
      BY <2>1, <2>2, <3>1
    <3>2. CASE ~(q = r /\ i = o)
      <4>1. i \in 0 .. committed[q] /\ i < committed[q]
        BY <2>1, <2>2, <3>2 DEF ReadTyped
      <4>2. QED
        BY <2>2, <4>1 DEF CommitInv, OneCommits
    <3>3. QED
      BY <3>1, <3>2
  <2>6. \A c \in closed : hand[c] # hand[p]
    BY <2>1 DEF CommitInv, OneCommits, ReadTyped
  <2>7. \A c \in closed' : \A d \in closed' : hand'[c] = hand'[d] => c = d
    BY <2>2, <2>6 DEF CommitInv, OneCommits
  <2>8. \A c \in closed' : hand'[c] # <<>> /\ hand'[c][2] < committed'[hand'[c][1]]
    BY <2>1, <2>2 DEF CommitInv, OneCommits, ReadTyped
  <2>9. QED
    BY <2>3, <2>4, <2>5, <2>7, <2>8 DEF CommitInv, OneCommits
<1>15. ASSUME NEW p \in Process, CloseFail(p)
      PROVE  CommitInv'
  BY NobodyReads, <1>15 DEF CloseFail, Goto, Released, Fault, asking, answering, ReadTyped, CommitInv, Done
<1>16. ASSUME NEW p \in Process, Show(p)
      PROVE  CommitInv'
  BY NobodyReads, <1>16 DEF Show, Goto, asking, answering, reading, ReadTyped, CommitInv, Done
<1>17. ASSUME NEW p \in Process, Nothing(p)
      PROVE  CommitInv'
  BY NobodyReads, <1>17 DEF Nothing, Goto, Released, asking, answering, ReadTyped, CommitInv, Done
<1>18. ASSUME NEW p \in Process, Kill(p)
      PROVE  CommitInv'
  BY NobodyReads, <1>18 DEF Kill, Goto, Fault, asking, answering, reading, ReadTyped, CommitInv, Done
<1>19. CASE UNCHANGED vars
  BY NobodyReads, <1>19 DEF vars, ReadTyped, CommitInv, Done
<1>20. QED
  BY <1>1, <1>2, <1>3, <1>4, <1>5, <1>6, <1>7, <1>8, <1>9, <1>10, <1>11, <1>12, <1>13, <1>14, <1>15, <1>16, <1>17, <1>18, <1>19 DEF Next

\* Below the committed offset of the clients' group every recommendation was
\* read by exactly one process that committed it (ReadOneMessage).
THEOREM ReadOnceIfClosed == Spec => []OneCommits
<1>1. Init => CommitInv
  BY DEF Init, CommitInv, Held, Done, OneCommits
<1>2. Init => TypeInv
  BY InitTyped
<1>3. TypeInv => ReadTyped
  BY DEF TypeInv, TypeOK, Asked, ReadTyped
<1>4. QED
  BY <1>1, <1>2, <1>3, TypeStep, CommitStep, PTL DEF Spec, CommitInv

-----------------------------------------------------------------------------
\* The clients' group and the offset ledger

\* Who has not read yet holds nothing.
Waiting(p) == state[p] \in {"idle", "reading"}

EmptyHanded == \A p \in Process : Waiting(p) => hand[p] = <<>>

\* Only a Read gives a process a message, only a Close moves a committed offset,
\* and nobody begins to wait.
LEMMA ReadingStep ==
    ASSUME ReadTyped, [Next]_vars
    PROVE  /\ UNCHANGED hand \/ \E p \in Process, q \in Partition : Read(p, q)
           /\ UNCHANGED committed \/ \E p \in Process : Close(p)
           /\ \A p \in Process : Waiting(p)' => Waiting(p)
<1> DEFINE Aside == UNCHANGED <<hand, committed>> /\ \A p \in Process : Waiting(p)' => Waiting(p)
<1> USE DEF Waiting, Goto, ReadTyped
<1>1. ASSUME NEW p \in Process, Search(p) \/ SearchFail(p) \/ Subscribe(p) \/ Show(p) \/ Kill(p)
      PROVE  Aside
  BY <1>1 DEF Search, SearchFail, Subscribe, Show, Kill, Starts, reading
<1>2. ASSUME NEW p \in Process,
             MirrorRequest(p) \/ TakeRequest(p) \/ Answer(p) \/ AnswerLost(p) \/ AnswerAgain(p)
      PROVE  Aside
  BY <1>2 DEF MirrorRequest, TakeRequest, Answer, AnswerLost, AnswerAgain, reading
<1>3. ASSUME NEW p \in Process, CloseFail(p) \/ Nothing(p) PROVE Aside
  BY <1>3 DEF CloseFail, Nothing
<1>4. ASSUME NEW p \in Process, NEW q \in Partition, Assign(p, q) \/ Revoke(p, q) PROVE Aside
  BY <1>4 DEF Assign, Revoke
<1>5. ASSUME NEW q \in Partition, MirrorAnswer(q) PROVE Aside
  BY <1>5 DEF MirrorAnswer, reading
<1>6. Restart \/ UNCHANGED vars => Aside
  BY DEF Restart, reading, vars
<1>7. ASSUME NEW p \in Process, Close(p)
      PROVE  UNCHANGED hand /\ \A r \in Process : Waiting(r)' => Waiting(r)
  BY <1>7 DEF Close
<1>8. ASSUME NEW p \in Process, NEW q \in Partition, Read(p, q)
      PROVE  UNCHANGED committed /\ \A r \in Process : Waiting(r)' => Waiting(r)
  BY <1>8 DEF Read
<1> HIDE DEF Waiting, Goto, ReadTyped
<1>9. QED
  BY <1>1, <1>2, <1>3, <1>4, <1>5, <1>6, <1>7, <1>8 DEF Next

LEMMA EmptyHandedStep == ReadTyped /\ EmptyHanded /\ [Next]_vars => EmptyHanded'
<1> SUFFICES ASSUME ReadTyped, EmptyHanded, [Next]_vars, NEW r \in Process, Waiting(r)'
             PROVE  hand'[r] = <<>>
  BY DEF EmptyHanded
<1>1. Waiting(r) /\ hand[r] = <<>>
  BY ReadingStep DEF EmptyHanded
<1>2. ASSUME NEW p \in Process, NEW q \in Partition, Read(p, q) PROVE hand'[r] = hand[r]
  <2>1. r # p
    BY <1>2 DEF Read, Goto, ReadTyped, Waiting
  <2>2. QED
    BY <1>2, <2>1 DEF Read, ReadTyped
<1>3. QED
  BY <1>1, <1>2, ReadingStep

LEMMA ReceivedType == ReadTyped => Received \in SUBSET (Partition \X Nat)
  BY DEF ReadTyped, Received

\* A process that reads takes nothing away from what has been read.
LEMMA ReadSettles ==
    ASSUME ReadTyped, EmptyHanded, NEW p \in Process, NEW q \in Partition, Read(p, q)
    PROVE  Received \subseteq Received'
<1>1. hand[p] = <<>>
  BY DEF Read, EmptyHanded, Waiting
<1>2. \A r \in Process : hand[r] # <<>> => hand'[r] = hand[r]
  BY <1>1 DEF Read, ReadTyped
<1>3. QED
  BY <1>2 DEF Received

\* A Close acknowledges what lies below the offset it commits: all of it was read.
LEMMA CloseAcknowledges ==
    ASSUME ReadTyped, ReadTyped', OneCommits', NEW p \in Process, Close(p)
    PROVE  \E q \in Partition : Ledger!Acknowledge(q)
<1> DEFINE q == hand[p][1]
<1>1. q \in Partition /\ committed' = [committed EXCEPT ![q] = NextOffset(p)] /\ hand' = hand
  BY DEF Close, ReadTyped
<1>2. committed'[q] \in Nat /\ DOMAIN committed' = Partition
  BY <1>1 DEF ReadTyped
<1>3. \A r \in Partition \ {q} : committed'[r] = committed[r]
  BY <1>1 DEF ReadTyped
<1>4. Received' = Received
  BY <1>1 DEF Received
<1>5. \A o \in 0 .. committed'[q] - 1 : <<q, o>> \in Received
  <2> SUFFICES ASSUME NEW o \in 0 .. committed'[q] - 1 PROVE <<q, o>> \in Received'
    BY <1>4
  <2> HIDE DEF q
  <2>1. o \in 0 .. committed'[q] /\ o < committed'[q]
    BY <1>2
  <2>2. PICK r \in closed' : hand'[r] = <<q, o>>
    BY <1>1, <2>1 DEF OneCommits
  <2>3. r \in Process /\ hand'[r] # <<>>
    BY <2>2 DEF ReadTyped
  <2>4. QED
    BY <2>2, <2>3 DEF Received
<1> HIDE DEF q
<1>6. Ledger!Acknowledge(q)
  BY <1>1, <1>2, <1>3, <1>4, <1>5 DEF Ledger!Acknowledge, Ledger!PrefixSettled
<1>7. QED
  BY <1>1, <1>6

\* The clients' group implements the abstract ledger of offsets that the batch
\* consumers implement too: wherever it resumes, everything before was read
\* (ReadOneMessage).
THEOREM ImplementsLedger == Spec => LedgerRefined
<1> DEFINE Inv == ReadTyped /\ EmptyHanded /\ OneCommits
<1>1. Init => EmptyHanded
  BY DEF Init, EmptyHanded
<1>2. Init => Ledger!LedgerInit
  BY DEF Init, Received, Ledger!LedgerInit, Ledger!Position
<1>3. Inv /\ Inv' /\ [Next]_vars => [Ledger!LedgerNext]_(Ledger!ledgerVars)
  <2> SUFFICES ASSUME Inv, Inv', [Next]_vars
               PROVE  Ledger!LedgerNext
    OBVIOUS
  <2>1. CASE \E p \in Process : Close(p)
    BY <2>1, CloseAcknowledges DEF Ledger!LedgerNext
  <2>2. CASE ~\E p \in Process : Close(p)
    <3>1. UNCHANGED committed
      BY <2>2, ReadingStep
    <3>2. Received \subseteq Received'
      <4>1. UNCHANGED hand => Received' = Received
        BY DEF Received
      <4>2. QED
        BY <4>1, ReadingStep, ReadSettles
    <3>3. Received' \in SUBSET Ledger!Position
      BY ReceivedType DEF Ledger!Position, ReadTyped, Received
    <3>4. QED
      BY <3>1, <3>2, <3>3 DEF Ledger!LedgerNext, Ledger!Settle
  <2>3. QED
    BY <2>1, <2>2
<1>4. TypeInv => ReadTyped
  BY DEF TypeInv, TypeOK, Asked, ReadTyped
<1>5. QED
  BY <1>1, <1>2, <1>3, <1>4, InitTyped, TypeStep, EmptyHandedStep, ReadOnceIfClosed, PTL
     DEF Spec, LedgerRefined, Ledger!LedgerSpec

-----------------------------------------------------------------------------
\* What the service answers fits the list it has loaded: the three cases of
\* getRecommendedProduct, then getAlternatives.
LEMMA ProductFits ==
    ASSUME popular \in Seq(Term), NEW t \in Term
    PROVE  \/ popular = <<>> /\ Recommended(t) = <<t, "Recommended">>
           \/ /\ popular # <<>> /\ Recommended(t) = <<popular[1], "Trending">>
              /\ \A k \in DOMAIN popular : <<t, popular[k]>> \notin Contains
           \/ \E k \in DOMAIN popular :
                 /\ Recommended(t) = <<popular[k], "Popular">>
                 /\ <<t, popular[k]>> \in Contains
                 /\ \A j \in 1 .. k - 1 : <<t, popular[j]>> \notin Contains
<1>1. CASE popular = <<>>
  BY <1>1 DEF Recommended
<1>2. CASE popular # <<>> /\ Hits(t) = {}
  BY <1>2 DEF Recommended, Hits
<1>3. CASE popular # <<>> /\ Hits(t) # {}
  <2> DEFINE k == CHOOSE k \in Hits(t) : Before(k, Hits(t))
  <2>1. Hits(t) \in SUBSET Nat /\ Hits(t) \subseteq DOMAIN popular
    BY DEF Hits
  <2>2. \E j \in Hits(t) : Before(j, Hits(t))
    BY <1>3, <2>1, FirstHit
  <2>3. k \in Hits(t) /\ Before(k, Hits(t))
    BY <2>2
  <2>4. Recommended(t) = <<popular[k], "Popular">>
    BY <1>3 DEF Recommended
  <2> HIDE DEF k
  <2>5. k \in DOMAIN popular /\ <<t, popular[k]>> \in Contains
    BY <2>3 DEF Hits
  <2>6. ASSUME NEW j \in 1 .. k - 1, <<t, popular[j]>> \in Contains
        PROVE  FALSE
    <3>1. j \in DOMAIN popular
      BY <2>5
    <3>2. k <= j
      BY <2>3, <2>6, <3>1 DEF Hits, Before
    <3>3. QED
      BY <2>5, <3>2
  <2>7. QED
    BY <2>4, <2>5, <2>6
<1>4. QED
  BY <1>1, <1>2, <1>3

LEMMA AnswerFits ==
    ASSUME popular \in Seq(Term), NEW p \in Process, ask[p] \in Term \X {"text", "avro"}
    PROVE  Fits(AnswerTo(p), popular)
<1> DEFINE t     == ask[p][1]
           a     == AnswerTo(p)
           alt   == {popular[k] : k \in DOMAIN popular \cap 1 .. 3} \ {t}
           other == Alternatives(t)
<1>1. t \in Term /\ a.of = p /\ a.product = Recommended(t) /\ a.alternatives = other
  BY DEF AnswerTo
<1>2. \/ other = Placeholders /\ \A k \in DOMAIN popular \cap 1 .. 3 : popular[k] = t
      \/ /\ other # {}
         /\ \A n \in Term : n \in other <=>
               n # t /\ \E k \in DOMAIN popular \cap 1 .. 3 : popular[k] = n
  <2>1. CASE alt = {}
    BY <2>1 DEF Alternatives
  <2>2. CASE alt # {}
    BY <2>2 DEF Alternatives
  <2>3. QED
    BY <2>1, <2>2
<1> HIDE DEF a, alt, other, t
<1>3. \/ a.product[2] = "Recommended" /\ popular = <<>> /\ a.product[1] = t
      \/ /\ a.product[2] = "Trending" /\ popular # <<>> /\ a.product[1] = popular[1]
         /\ \A k \in DOMAIN popular : <<t, popular[k]>> \notin Contains
      \/ /\ a.product[2] = "Popular" /\ <<t, a.product[1]>> \in Contains
         /\ \E k \in DOMAIN popular :
               /\ popular[k] = a.product[1]
               /\ \A j \in 1 .. k - 1 : <<t, popular[j]>> \notin Contains
  <2>1. CASE popular = <<>> /\ Recommended(t) = <<t, "Recommended">>
    BY <1>1, <2>1
  <2>2. CASE /\ popular # <<>> /\ Recommended(t) = <<popular[1], "Trending">>
             /\ \A k \in DOMAIN popular : <<t, popular[k]>> \notin Contains
    BY <1>1, <2>2
  <2>3. ASSUME NEW k \in DOMAIN popular,
               Recommended(t) = <<popular[k], "Popular">>,
               <<t, popular[k]>> \in Contains,
               \A j \in 1 .. k - 1 : <<t, popular[j]>> \notin Contains
        PROVE  /\ a.product[2] = "Popular" /\ <<t, a.product[1]>> \in Contains
               /\ \E n \in DOMAIN popular :
                     /\ popular[n] = a.product[1]
                     /\ \A j \in 1 .. n - 1 : <<t, popular[j]>> \notin Contains
    <3>1. a.product[1] = popular[k] /\ a.product[2] = "Popular"
      BY <1>1, <2>3
    <3>2. QED
      BY <2>3, <3>1
  <2>4. QED
    BY <1>1, <2>1, <2>2, <2>3, ProductFits
<1>4. QED
  BY <1>1, <1>2, <1>3 DEF Fits, a, t

-----------------------------------------------------------------------------
\* Every answer is to a request that is not asked again, and fits a list.
FineAnswer(a) ==
    /\ ask[a.of] # <<>> /\ ask[a.of][2] = "text"
    /\ \E list \in Lists : Fits(a, list)

Fine ==
    /\ popular \in Lists
    /\ \A p \in Process : state[p] = "idle" => ask[p] = <<>>
    /\ \A k \in Cluster : \A q \in Partition : \A i \in DOMAIN topic[k][q] :
          FineAnswer(topic[k][q][i])

\* Nothing is answered: what has been asked stays, and the list is some list.
LEMMA NobodyAnswers ==
    ASSUME TypeOK, Fine, topic' = topic, popular' \in Lists,
           \A p \in Process :
              /\ ask'[p] = ask[p] \/ ask[p] = <<>>
              /\ state'[p] = "idle" => ask'[p] = <<>>
    PROVE  Fine'
<1>1. ASSUME NEW k \in Cluster, NEW q \in Partition, NEW i \in DOMAIN topic[k][q]
      PROVE  FineAnswer(topic[k][q][i])'
  <2>1. topic[k][q][i] \in Answers /\ FineAnswer(topic[k][q][i])
    BY DEF TypeOK, Fine
  <2>2. topic[k][q][i].of \in Process
    BY <2>1 DEF Answers
  <2>3. ask'[topic[k][q][i].of] = ask[topic[k][q][i].of]
    BY <2>1, <2>2 DEF FineAnswer
  <2>4. QED
    BY <2>1, <2>3, ZenonT(40) DEF FineAnswer, Fits
<1>2. QED
  BY <1>1 DEF Fine

LEMMA StillFine ==
    ASSUME ask' = ask, NEW k \in Cluster, NEW q \in Partition, NEW i \in DOMAIN topic'[k][q],
           FineAnswer(topic'[k][q][i])
    PROVE  FineAnswer(topic[k][q][i])'
  BY DEF FineAnswer, Fits

\* Somebody answers, or the mirror copies: one fine answer is appended.
LEMMA OneMore ==
    ASSUME TypeOK, Fine, NEW a \in Answers, FineAnswer(a),
           NEW k \in Cluster, NEW q \in Partition,
           topic' = [topic EXCEPT ![k][q] = Append(topic[k][q], a)],
           UNCHANGED <<popular, state, ask>>
    PROVE  Fine'
<1>1. topic[k] \in [Partition -> Seq(Answers)] /\ topic[k][q] \in Seq(Answers)
  BY DEF TypeOK
<1>2. ASSUME NEW l \in Cluster, NEW r \in Partition, NEW i \in DOMAIN topic'[l][r]
      PROVE  FineAnswer(topic'[l][r][i])
  <2>1. CASE l = k /\ r = q
    <3>1. topic'[l][r] = Append(topic[k][q], a)
      BY <1>1, <2>1 DEF TypeOK
    <3>2. topic'[l][r][i] = a \/ (i \in DOMAIN topic[k][q] /\ topic'[l][r][i] = topic[k][q][i])
      BY <1>1, <3>1
    <3>3. QED
      BY <3>2 DEF Fine
  <2>2. CASE ~ (l = k /\ r = q)
    BY <1>1, <2>2 DEF TypeOK, Fine
  <2>3. QED
    BY <2>1, <2>2
<1>3. ASSUME NEW l \in Cluster, NEW r \in Partition, NEW i \in DOMAIN topic'[l][r]
      PROVE  FineAnswer(topic[l][r][i])'
  BY <1>2, <1>3, StillFine
<1>4. QED
  BY <1>3 DEF Fine

LEMMA SentFine ==
    ASSUME TypeOK, Asked, Fine, NEW p \in tasks, Decodes(p), NEW q \in Partition, Send(p, q),
           UNCHANGED <<popular, state, ask>>
    PROVE  Fine'
<1>1. p \in Process /\ ask[p] \in Term \X {"text", "avro"} /\ ask[p] # <<>> /\ site \in Cluster
  BY DEF TypeOK, Asked
<1>2. AnswerTo(p) \in Answers /\ Fits(AnswerTo(p), popular)
  BY <1>1, AnswersTyped, AnswerFits DEF TypeOK
<1>3. AnswerTo(p).of = p
  BY DEF AnswerTo
<1>4. FineAnswer(AnswerTo(p))
  BY <1>1, <1>2, <1>3 DEF FineAnswer, Fine, Decodes
<1>5. QED
  BY <1>1, <1>2, <1>4, OneMore DEF Send

LEMMA FineStep == TypeInv /\ Fine /\ [Next]_vars => Fine'
<1> SUFFICES ASSUME TypeOK, Asked, Fine, [Next]_vars PROVE Fine'
  BY DEF TypeInv
<1>1. ASSUME NEW p \in Process, Search(p) \/ SearchFail(p)
      PROVE  Fine'
  BY <1>1, NobodyAnswers DEF Search, SearchFail, Publish, Starts, Goto, asking, answering, TypeOK, Fine
<1>2. ASSUME NEW q \in Partition, MirrorAnswer(q)
      PROVE  Fine'
  <2>1. PICK m \in Mirrored :
           /\ Len(topic[m[2]][q]) < Len(topic[m[1]][q])
           /\ topic' = [topic EXCEPT ![m[2]][q] =
                           Append(topic[m[2]][q], topic[m[1]][q][Len(topic[m[2]][q]) + 1])]
    BY <1>2 DEF MirrorAnswer
  <2>2. m[1] \in Cluster /\ m[2] \in Cluster
    BY DEF Mirrored, Cluster
  <2>3. topic[m[1]][q] \in Seq(Answers) /\ topic[m[2]][q] \in Seq(Answers)
    BY <2>2 DEF TypeOK
  <2>4. Len(topic[m[2]][q]) + 1 \in DOMAIN topic[m[1]][q]
    BY <2>1, <2>3
  <2> DEFINE a == topic[m[1]][q][Len(topic[m[2]][q]) + 1]
  <2>5. a \in Answers /\ FineAnswer(a)
    BY <2>2, <2>3, <2>4 DEF Fine
  <2>6. UNCHANGED <<popular, state, ask>>
    BY <1>2 DEF MirrorAnswer, asking
  <2> HIDE DEF a
  <2>7. topic' = [topic EXCEPT ![m[2]][q] = Append(topic[m[2]][q], a)]
    BY <2>1 DEF a
  <2>8. QED
    BY <2>2, <2>5, <2>6, <2>7, OneMore
<1>3. ASSUME NEW p \in Process, Answer(p)
      PROVE  Fine'
  <2>1. CASE Decodes(p)
    BY <1>3, <2>1, SentFine DEF Answer, asking
  <2>2. CASE ~ Decodes(p)
    BY <1>3, <2>2, NobodyAnswers DEF Answer, asking, Fine
  <2>3. QED
    BY <2>1, <2>2
<1>4. ASSUME NEW p \in Process, AnswerAgain(p)
      PROVE  Fine'
  BY <1>4, SentFine DEF AnswerAgain, asking
<1>5. ASSUME NEW p \in Process, MirrorRequest(p) \/ TakeRequest(p) \/ AnswerLost(p)
      PROVE  Fine'
  BY <1>5, NobodyAnswers DEF MirrorRequest, TakeRequest, AnswerLost, asking, answering, Fine
<1>6. CASE Restart
  BY <1>6, NobodyAnswers DEF Restart, asking, Fine
<1>7. ASSUME NEW p \in Process, Subscribe(p) \/ Close(p) \/ CloseFail(p) \/ Show(p) \/ Nothing(p) \/ Kill(p)
      PROVE  Fine'
  BY <1>7, NobodyAnswers
     DEF Subscribe, Close, CloseFail, Show, Nothing, Kill, Starts, Goto, asking, answering, TypeOK, Fine
<1>8. ASSUME NEW p \in Process, NEW q \in Partition, Assign(p, q) \/ Revoke(p, q) \/ Read(p, q)
      PROVE  Fine'
  BY <1>8, NobodyAnswers DEF Assign, Revoke, Read, Goto, asking, answering, TypeOK, Fine
<1>9. CASE UNCHANGED vars
  BY <1>9, NobodyAnswers DEF vars, Fine
<1>10. QED
  BY <1>1, <1>2, <1>3, <1>4, <1>5, <1>6, <1>7, <1>8, <1>9 DEF Next

\* Every answer in either cluster is to a request that could be read, and what it
\* recommends fits a list that the service may have loaded, however restarts
\* change the list between requests (recommendation_service.go:52-115).
THEOREM EveryAnswerFits == Spec => []AnswersFit
<1>1. Init => Fine
  BY DEF Init, Fine
<1>2. Fine => AnswersFit
  BY DEF Fine, FineAnswer, AnswersFit
<1>3. QED
  BY <1>1, <1>2, InitTyped, TypeStep, FineStep, PTL DEF Spec, TypeInv
=============================================================================
