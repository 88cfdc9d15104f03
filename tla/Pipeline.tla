------------------------------- MODULE Pipeline -------------------------------
\* From a search to a recommendation, over two clusters.
\*
\* A process of cmd/client runs one command: `search` publishes a request in the
\* source cluster, `recommendations` reads one message there and ends.  The
\* analytic program answers requests in the cluster its BOOTSTRAP_SERVER names:
\* the source by the default of config.go, the target by .env.analytic_client.
\* MirrorMaker copies every topic from the source to the target, never back.
\*
\* All clients are members of one consumer group, with auto-commit: the offset
\* of the message that ReadOneMessage returns is committed when its deferred
\* Close leaves the group, before the CLI prints the message.
\*
\* How the analytic program commits is BatchConsumer's matter, how a send is
\* acknowledged KafkaProducer's, where the list of popular products comes from
\* HdfsStore's: here its consumer may forget what it has read when it restarts,
\* a send succeeds, fails or is made twice, and a restart loads any list.
EXTENDS Naturals, Sequences

CONSTANTS
    Process,    \* processes of cmd/client
    Command,    \* Command[p]: the argument process p is started with
    Partition,  \* the partitions of the topic of recommendations
    Term,       \* the names of products and what else one can search for
    Searched,   \* the terms that clients do search for
    Contains,   \* the pairs <<t, n>> with n in t, whatever the case
    Lists,      \* the popularity lists the service may load, best first
    MaxFaults,  \* bound: faults of the environment in one behaviour
    NoOne

Cluster == {"source", "target"}

ASSUME PipelineAssumption ==
    /\ Command \in [Process -> {"search", "recommendations"}]
    /\ Searched \subseteq Term
    /\ Contains \subseteq Term \X Term
    /\ Lists \subseteq Seq(Term)
    /\ MaxFaults \in Nat
    /\ NoOne \notin Process

VARIABLES
    site,       \* the cluster the analytic program is configured for
    popular,    \* popularCache
    state,      \* state[p]: where process p is
    ask,        \* ask[p]: what p has searched for and the form it went out in
    requests,   \* requests[k]: the senders of the requests in cluster k
    taken,      \* the requests the analytic program has read
    tasks,      \* its ProcessMessage goroutines
    lost,       \* the requests whose goroutine has failed or died for good
    topic,      \* topic[k][q]: the recommendations in partition q of cluster k
    committed,  \* committed[q]: the clients' group in the source cluster
    owner,      \* owner[q]: the member that reads q there
    hand,       \* hand[p]: the partition and offset p has read, or <<>>
    closed,     \* the processes whose Close has committed what they read
    faults

asking    == <<ask, requests>>
answering == <<site, popular, taken, tasks, lost, topic>>
reading   == <<committed, owner, hand, closed>>
vars      == <<site, popular, state, ask, requests, taken, tasks, lost, topic,
               committed, owner, hand, closed, faults>>

Fault == faults < MaxFaults /\ faults' = faults + 1

Starts(p, command) == state[p] = "idle" /\ Command[p] = command

Goto(p, s) == state' = [state EXCEPT ![p] = s]

\* popularCache is empty when ReadRecommendations failed.
Init ==
    /\ site \in Cluster
    /\ popular \in Lists
    /\ state = [p \in Process |-> "idle"]
    /\ ask = [p \in Process |-> <<>>]
    /\ requests = [k \in Cluster |-> {}]
    /\ taken = {} /\ tasks = {} /\ lost = {}
    /\ topic = [k \in Cluster |-> [q \in Partition |-> <<>>]]
    /\ committed = [q \in Partition |-> 0]
    /\ owner = [q \in Partition |-> NoOne]
    /\ hand = [p \in Process |-> <<>>]
    /\ closed = {}
    /\ faults = 0

-----------------------------------------------------------------------------
\* client search

\* (An operator named Bug... is a plausible mistake in the operator that
\* follows it; no action uses one.  The properties are tested against them.)

\* The request goes out as Avro, or as JSON when Avro fails: a []byte, so that
\* JSON wraps it into base64.
Publish(p) ==
    /\ \E t \in Searched : \E f \in {"text", "avro"} : ask' = [ask EXCEPT ![p] = <<t, f>>]
    /\ requests' = [requests EXCEPT !["source"] = @ \cup {p}]

Search(p) ==
    /\ Starts(p, "search")
    /\ Goto(p, "asked")
    /\ Publish(p)
    /\ UNCHANGED <<answering, reading, faults>>

\* SendMessages gives up; the request is out or is not.  Or there was no
\* product file, no registry, no broker, and main panicked before.
SearchFail(p) ==
    /\ Starts(p, "search")
    /\ Fault
    /\ Goto(p, "failed")
    /\ Publish(p) \/ UNCHANGED asking
    /\ UNCHANGED <<answering, reading>>

-----------------------------------------------------------------------------
\* MirrorMaker

BugWrongWay == {<<"target", "source">>}
Mirrored    == {<<"source", "target">>}

MirrorRequest(p) ==
    /\ \E m \in Mirrored :
          /\ p \in requests[m[1]] \ requests[m[2]]
          /\ requests' = [requests EXCEPT ![m[2]] = @ \cup {p}]
    /\ UNCHANGED <<state, ask, answering, reading, faults>>

MirrorAnswer(q) ==
    /\ \E m \in Mirrored :
          LET from == topic[m[1]][q]
              to   == topic[m[2]][q]
          IN  /\ Len(to) < Len(from)
              /\ topic' = [topic EXCEPT ![m[2]][q] = Append(to, from[Len(to) + 1])]
    /\ UNCHANGED <<site, popular, state, asking, taken, tasks, lost, reading, faults>>

-----------------------------------------------------------------------------
\* cmd/analytic_client

Before(k, hits) == \A j \in hits : k <= j

BugInName(t) == {k \in DOMAIN popular : <<popular[k], t>> \in Contains}
Hits(t)      == {k \in DOMAIN popular : <<t, popular[k]>> \in Contains}

\* getRecommendedProduct: the first popular product that the search names.
Recommended(t) ==
    IF popular = <<>>      THEN <<t, "Recommended">>
    ELSE IF Hits(t) = {}   THEN <<popular[1], "Trending">>
    ELSE <<popular[CHOOSE k \in Hits(t) : Before(k, Hits(t))], "Popular">>

\* getAlternatives: of the first three popular products those that are not the
\* search itself, or three placeholders.
Placeholders == {"alt_1", "alt_2", "alt_3"}

Alternatives(t) ==
    LET alt == {popular[k] : k \in DOMAIN popular \cap 1 .. 3} \ {t}
    IN  IF alt = {} THEN Placeholders ELSE alt

BugEcho(p)  == [of |-> p, product |-> ask[p], alternatives |-> Alternatives(ask[p][1])]
AnswerTo(p) == [of           |-> p,
                product      |-> Recommended(ask[p][1]),
                alternatives |-> Alternatives(ask[p][1])]

TakeRequest(p) ==
    /\ p \in requests[site] \ taken
    /\ taken' = taken \cup {p}
    /\ tasks' = tasks \cup {p}
    /\ UNCHANGED <<site, popular, state, asking, lost, topic, reading, faults>>

Decodes(p) == ask[p][2] = "text"

Send(p, q) == topic' = [topic EXCEPT ![site][q] = Append(@, AnswerTo(p))]

\* ProcessMessage and SendRecommendation; what does not decode is dropped.
Answer(p) ==
    /\ p \in tasks
    /\ tasks' = tasks \ {p}
    /\ IF Decodes(p) THEN \E q \in Partition : Send(p, q) ELSE UNCHANGED topic
    /\ UNCHANGED <<site, popular, state, asking, taken, lost, reading, faults>>

\* The send fails for good, or is repeated after its acknowledgement got lost.
AnswerLost(p) ==
    /\ p \in tasks
    /\ Fault
    /\ tasks' = tasks \ {p}
    /\ lost' = lost \cup {p}
    /\ UNCHANGED <<site, popular, state, asking, taken, topic, reading>>

AnswerAgain(p) ==
    /\ p \in tasks
    /\ Decodes(p)
    /\ Fault
    /\ \E q \in Partition : Send(p, q)
    /\ UNCHANGED <<site, popular, state, asking, taken, tasks, lost, reading>>

\* Its goroutines die with it; those of requests that were committed leave nothing
\* behind.  The list is loaded again.
Restart ==
    /\ Fault
    /\ tasks' = {}
    /\ taken' \in SUBSET taken
    /\ lost' = lost \cup (tasks \cap taken')
    /\ popular' \in Lists
    /\ UNCHANGED <<site, state, asking, topic, reading>>

-----------------------------------------------------------------------------
\* client recommendations

Subscribe(p) ==
    /\ Starts(p, "recommendations")
    /\ Goto(p, "reading")
    /\ UNCHANGED <<asking, answering, reading, faults>>

\* The coordinator gives a partition to a member, and may move it later; that
\* of a member that has died is not free before its session times out.
Assign(p, q) ==
    /\ state[p] = "reading"
    /\ owner[q] = NoOne
    /\ owner' = [owner EXCEPT ![q] = p]
    /\ UNCHANGED <<state, asking, answering, committed, hand, closed, faults>>

Revoke(p, q) ==
    /\ owner[q] = p
    /\ state[p] \in {"reading", "dead"}
    /\ owner' = [owner EXCEPT ![q] = NoOne]
    /\ UNCHANGED <<state, asking, answering, committed, hand, closed, faults>>

Read(p, q) ==
    /\ state[p] = "reading"
    /\ owner[q] = p
    /\ committed[q] < Len(topic["source"][q])
    /\ hand' = [hand EXCEPT ![p] = <<q, committed[q]>>]
    /\ Goto(p, "holding")
    /\ UNCHANGED <<asking, answering, committed, owner, closed, faults>>

Released(p) == [q \in Partition |-> IF owner[q] = p THEN NoOne ELSE owner[q]]

BugSameOffset(p) == hand[p][2]
BugOneTooFar(p)  == hand[p][2] + 2
NextOffset(p)    == hand[p][2] + 1

\* The deferred Close commits and leaves.
Close(p) ==
    /\ state[p] = "holding"
    /\ committed' = [committed EXCEPT ![hand[p][1]] = NextOffset(p)]
    /\ closed' = closed \cup {p}
    /\ owner' = Released(p)
    /\ Goto(p, "closed")
    /\ UNCHANGED <<asking, answering, hand, faults>>

\* It does not commit, and its error is not looked at.
CloseFail(p) ==
    /\ state[p] = "holding"
    /\ Fault
    /\ owner' = Released(p)
    /\ Goto(p, "closed")
    /\ UNCHANGED <<asking, answering, committed, hand, closed>>

Show(p) ==
    /\ state[p] = "closed"
    /\ Goto(p, "shown")
    /\ UNCHANGED <<asking, answering, reading, faults>>

\* Ten seconds without a message, or an error of the consumer.
Nothing(p) ==
    /\ state[p] = "reading"
    /\ owner' = Released(p)
    /\ Goto(p, "nothing")
    /\ UNCHANGED <<asking, answering, committed, hand, closed, faults>>

\* The client catches no signal.
Kill(p) ==
    /\ state[p] \in {"reading", "holding", "closed"}
    /\ Fault
    /\ Goto(p, "dead")
    /\ UNCHANGED <<asking, answering, reading>>

Next ==
    \/ \E p \in Process :
          \/ Search(p) \/ SearchFail(p) \/ MirrorRequest(p)
          \/ TakeRequest(p) \/ Answer(p) \/ AnswerLost(p) \/ AnswerAgain(p)
          \/ Subscribe(p) \/ Close(p) \/ CloseFail(p) \/ Show(p) \/ Nothing(p) \/ Kill(p)
          \/ \E q \in Partition : Assign(p, q) \/ Revoke(p, q) \/ Read(p, q)
    \/ \E q \in Partition : MirrorAnswer(q)
    \/ Restart

Spec == Init /\ [][Next]_vars

\* The mirror runs and so does the analytic program.  Nobody has to search, nor
\* to read recommendations.
Fairness ==
    \A p \in Process : WF_vars(MirrorRequest(p)) /\ WF_vars(TakeRequest(p)) /\ WF_vars(Answer(p))

FairSpec == Spec /\ Fairness

-----------------------------------------------------------------------------
\* Properties

Answers == [of           : Process,
            product      : Term \X {"Recommended", "Trending", "Popular"},
            alternatives : (SUBSET Term) \cup {Placeholders}]

\* Every variable has its type.
TypeOK ==
    /\ site \in Cluster
    /\ popular \in Seq(Term)
    /\ state \in [Process -> {"idle", "asked", "failed", "reading", "holding",
                              "closed", "shown", "nothing", "dead"}]
    /\ ask \in [Process -> (Term \X {"text", "avro"}) \cup {<<>>}]
    /\ requests \in [Cluster -> SUBSET Process]
    /\ taken \in SUBSET Process /\ tasks \in SUBSET Process /\ lost \in SUBSET Process
    /\ topic \in [Cluster -> [Partition -> Seq(Answers)]]
    /\ committed \in [Partition -> Nat]
    /\ owner \in [Partition -> Process \cup {NoOne}]
    /\ hand \in [Process -> (Partition \X Nat) \cup {<<>>}]
    /\ closed \in SUBSET Process
    /\ faults \in 0 .. MaxFaults

\* Every recommendation below the committed offset has been read by exactly one
\* process that committed it, and nothing above is committed: none is skipped,
\* and two clients see the same one only when a Close failed, however their
\* reads, deaths and rebalances interleave (consumer.go:316-341).
OneCommits ==
    /\ \A q \in Partition : \A o \in 0 .. committed[q] :
          o < committed[q] => \E p \in closed : hand[p] = <<q, o>>
    /\ \A p \in closed : \A r \in closed : hand[p] = hand[r] => p = r
    /\ \A p \in closed : hand[p] # <<>> /\ hand[p][2] < committed[hand[p][1]]

\* The clients' group implements the offset ledger: it resumes behind messages
\* that one of the clients has read, whoever read them and whoever committed
\* (consumer.go:316-341, and the library's auto-commit in Close).
Received == {hand[p] : p \in {r \in Process : hand[r] # <<>>}}

Ledger == INSTANCE OffsetLedger WITH settled <- Received, frontier <- committed

LedgerRefined == Ledger!LedgerSpec

\* Reference for getRecommendedProduct and getAlternatives, for some list that
\* the service may have loaded (recommendation_service.go:83-115).
Fits(a, list) ==
    LET t     == ask[a.of][1]
        name  == a.product[1]
        other == a.alternatives
    IN  /\ \/ a.product[2] = "Recommended" /\ list = <<>> /\ name = t
           \/ /\ a.product[2] = "Trending" /\ list # <<>> /\ name = list[1]
              /\ \A k \in DOMAIN list : <<t, list[k]>> \notin Contains
           \/ /\ a.product[2] = "Popular" /\ <<t, name>> \in Contains
              /\ \E k \in DOMAIN list :
                    /\ list[k] = name
                    /\ \A j \in 1 .. k - 1 : <<t, list[j]>> \notin Contains
        /\ \/ other = Placeholders /\ \A k \in DOMAIN list \cap 1 .. 3 : list[k] = t
           \/ /\ other # {}
              /\ \A n \in Term : n \in other <=> n # t /\ \E k \in DOMAIN list \cap 1 .. 3 : list[k] = n

\* Every answer in either cluster fits, to a request that was readable.
AnswersFit ==
    \A k \in Cluster : \A q \in Partition : \A i \in DOMAIN topic[k][q] :
        LET a == topic[k][q][i]
        IN  ask[a.of][2] = "text" /\ \E list \in Lists : Fits(a, list)

Answered(p) == \E q \in Partition : \E i \in DOMAIN topic[site][q] : topic[site][q][i].of = p

\* A search whose request went out as text, be it that its sender gave up, is
\* answered in the cluster of the analytic program, through mirror and restarts,
\* unless its answer failed to be sent or its goroutine died when its offset had
\* been committed (cli.go:60, recommendation_service.go:52-80).
SearchIsAnswered ==
    \A p \in Process : ask[p] # <<>> /\ Decodes(p) ~> Answered(p) \/ p \in lost
=============================================================================
