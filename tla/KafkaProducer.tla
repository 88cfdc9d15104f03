---------------------------- MODULE KafkaProducer ----------------------------
\* KafkaProducer of internal/infra/clients/kafka/producer.go: concurrent calls
\* of SendMessages that share one client, one local queue and one unbuffered
\* DeliveryChan, as the ProcessMessage goroutines of cmd/analytic_client do.
\*
\* A call first produces all its messages, retrying without limit while the
\* local queue is full, and only then starts to read delivery reports.  It
\* counts every successful report it happens to receive, its own or not, and
\* reports success when the count reaches the number of its messages.
\*
\* The local queue and the broker are external to src/: a message occupies
\* the queue until somebody has received its delivery report.
EXTENDS Naturals, FiniteSets, FiniteSetsExt

CONSTANTS
    Sender,     \* the calls of SendMessages
    Count,      \* Count[s]: how many messages call s was given
    QueueCap,   \* the capacity of the client's local queue
    MaxFaults   \* bound: failed productions and deliveries in one behaviour

ASSUME ProducerAssumption ==
    /\ IsFiniteSet(Sender)
    /\ Count \in [Sender -> Nat]
    /\ QueueCap \in Nat \ {0}
    /\ MaxFaults \in Nat

VARIABLES
    pc,         \* pc[s]: where call s is, or what it returned
    produced,   \* produced[s]: how many of its messages it has produced
    delivered,  \* delivered[s]: its deliveredCount
    queued,     \* the messages the broker has not answered
    reports,    \* the delivery reports nobody has received from DeliveryChan
    acked,      \* the messages the broker has acknowledged, ever
    stopped,    \* Stop has been called
    faults      \* how many faults there have been

vars == <<pc, produced, delivered, queued, reports, acked, stopped, faults>>

\* The k-th message of call s is <<s, k>>.
MessagesOf(s) == {<<s, k>> : k \in 1 .. Count[s]}
Message == UNION {MessagesOf(s) : s \in Sender}

Returned == {"ok", "timeout", "cancelled", "error"}

Fault == faults < MaxFaults /\ faults' = faults + 1

Init ==
    /\ pc = [s \in Sender |-> "idle"]
    /\ produced = [s \in Sender |-> 0]
    /\ delivered = [s \in Sender |-> 0]
    /\ queued = {} /\ reports = {} /\ acked = {}
    /\ stopped = FALSE
    /\ faults = 0

-----------------------------------------------------------------------------
\* (An operator named Bug... is a plausible mistake in the operator that
\* follows it; no action uses one.  The properties are tested against them.)

\* The messages are serialized: with Avro, or with JSON when Avro fails.
Call(s) ==
    /\ pc[s] = "idle"
    /\ pc' = [pc EXCEPT ![s] = "produce"]
    /\ UNCHANGED <<produced, delivered, queued, reports, acked, stopped, faults>>

\* JSON fails as well: the call returns before it has produced anything.
SerializeFail(s) ==
    /\ pc[s] = "idle"
    /\ Fault
    /\ pc' = [pc EXCEPT ![s] = "error"]
    /\ UNCHANGED <<produced, delivered, queued, reports, acked, stopped>>

\* ErrQueueFull makes the call sleep and try again: it stays where it is,
\* and looks at neither its context nor a timeout.
QueueHasRoom == Cardinality(queued \cup reports) < QueueCap

Produce(s) ==
    /\ pc[s] = "produce"
    /\ ~stopped
    /\ produced[s] < Count[s]
    /\ QueueHasRoom
    /\ produced' = [produced EXCEPT ![s] = @ + 1]
    /\ queued' = queued \cup {<<s, produced[s] + 1>>}
    /\ UNCHANGED <<pc, delivered, reports, acked, stopped, faults>>

\* Any other error of Produce, which a closed producer always gives, ends the
\* call; what it has produced so far is on its way.
ProduceFail(s) ==
    /\ pc[s] = "produce"
    /\ produced[s] < Count[s]
    /\ IF stopped THEN UNCHANGED faults ELSE Fault
    /\ pc' = [pc EXCEPT ![s] = "error"]
    /\ UNCHANGED <<produced, delivered, queued, reports, acked, stopped>>

\* The call starts to wait; its 30 seconds begin here.
AllProduced(s) ==
    /\ pc[s] = "produce"
    /\ produced[s] = Count[s]
    /\ pc' = [pc EXCEPT ![s] = "wait"]
    /\ UNCHANGED <<produced, delivered, queued, reports, acked, stopped, faults>>

-----------------------------------------------------------------------------
\* The broker acknowledges a message, or its delivery fails for good; either
\* way a report waits for a receiver.
Ack(m) ==
    /\ m \in queued
    /\ queued' = queued \ {m}
    /\ reports' = reports \cup {m}
    /\ acked' = acked \cup {m}
    /\ UNCHANGED <<pc, produced, delivered, stopped, faults>>

DeliveryFail(m) ==
    /\ m \in queued
    /\ Fault
    /\ queued' = queued \ {m}
    /\ reports' = reports \cup {m}
    /\ UNCHANGED <<pc, produced, delivered, acked, stopped>>

-----------------------------------------------------------------------------
\* A failed delivery is logged and not counted, so its call times out.
BugCountFailures(m) == 1
Counted(m) == IF m \in acked THEN 1 ELSE 0

BugOneMore(s) == delivered[s] <= Count[s]
Awaiting(s)   == delivered[s] < Count[s]

BugPeek(m)  == reports
Received(m) == reports \ {m}

Receive(s, m) ==
    /\ pc[s] = "wait"
    /\ Awaiting(s)
    /\ m \in reports
    /\ reports' = Received(m)
    /\ delivered' = [delivered EXCEPT ![s] = @ + Counted(m)]
    /\ UNCHANGED <<pc, produced, queued, acked, stopped, faults>>

AllDelivered(s) ==
    /\ pc[s] = "wait"
    /\ delivered[s] = Count[s]
    /\ pc' = [pc EXCEPT ![s] = "ok"]
    /\ UNCHANGED <<produced, delivered, queued, reports, acked, stopped, faults>>

GiveUp(s, why) ==
    /\ pc[s] = "wait"
    /\ Awaiting(s)
    /\ pc' = [pc EXCEPT ![s] = why]
    /\ UNCHANGED <<produced, delivered, queued, reports, acked, stopped, faults>>

\* The 30 seconds are over.  (The mistake begins them anew with every event; a
\* closed channel has no end of them.)
BugTimerPerEvent(s) == ~stopped /\ GiveUp(s, "timeout")
Timeout(s)          == GiveUp(s, "timeout")

\* The context is cancelled.
Cancel(s) == GiveUp(s, "cancelled")

\* Stop closes the client without flushing it and then the channel: whatever
\* is queued is dropped, and a waiting call receives nothing but nil events.
Stop ==
    /\ ~stopped
    /\ stopped' = TRUE
    /\ queued' = {} /\ reports' = {}
    /\ UNCHANGED <<pc, produced, delivered, acked, faults>>

Next ==
    \/ \E s \in Sender :
          \/ Call(s) \/ SerializeFail(s) \/ Produce(s) \/ ProduceFail(s)
          \/ AllProduced(s) \/ AllDelivered(s) \/ Timeout(s) \/ Cancel(s)
          \/ \E m \in Message : Receive(s, m)
    \/ \E m \in Message : Ack(m) \/ DeliveryFail(m)
    \/ Stop

Spec == Init /\ [][Next]_vars

\* The goroutine of a call is scheduled, its 30 seconds pass, and the client
\* answers what it has queued (delivery.timeout.ms bounds that).  Nobody has
\* to call SendMessages or Stop, or to cancel.
Fairness ==
    /\ \A s \in Sender :
          /\ WF_vars(Produce(s)) /\ WF_vars(ProduceFail(s) /\ stopped)
          /\ WF_vars(AllProduced(s)) /\ WF_vars(AllDelivered(s)) /\ WF_vars(Timeout(s))
          /\ WF_vars(\E m \in Message : Receive(s, m))
    /\ \A m \in Message : WF_vars(Ack(m))

FairSpec == Spec /\ Fairness

-----------------------------------------------------------------------------
\* Every variable has its type.
TypeOK ==
    /\ pc \in [Sender -> {"idle", "produce", "wait"} \cup Returned]
    /\ produced \in [Sender -> Nat]
    /\ delivered \in [Sender -> Nat]
    /\ \A s \in Sender : produced[s] <= Count[s] /\ delivered[s] <= Count[s]
    /\ queued \in SUBSET Message
    /\ reports \in SUBSET Message
    /\ acked \in SUBSET Message
    /\ stopped \in BOOLEAN
    /\ faults \in 0 .. MaxFaults

\* The calls together never count more deliveries than the broker has
\* acknowledged, although they steal each other's reports (producer.go:108-137).
CountedWereAcked ==
    MapThenSumSet(LAMBDA s : delivered[s], Sender) + Cardinality(reports \cap acked)
        <= Cardinality(acked)

\* "All messages have been sent!": a call returns nil only when the broker has
\* acknowledged every one of its own messages (producer.go:100, 139).
SuccessIsOwn == \A s \in Sender : pc[s] = "ok" => MessagesOf(s) \subseteq acked

\* What one nil does not say, all of them say: when every call that has produced
\* anything has returned nil, the broker has acknowledged all their messages,
\* whoever received which report (producer.go:107-139).
SuccessTogether ==
    (\A s \in Sender : produced[s] > 0 => pc[s] = "ok")
        => \A s \in Sender : pc[s] = "ok" => MessagesOf(s) \subseteq acked

\* No report gets lost between the calls: what they have produced is counted,
\* queued or about to be received.  So when nothing fails, a call whose
\* reports were stolen is repaid with somebody else's.
NoReportLeaks ==
    faults = 0 /\ ~stopped =>
        MapThenSumSet(LAMBDA s : delivered[s], Sender) + Cardinality(queued \cup reports)
            = MapThenSumSet(LAMBDA s : produced[s], Sender)

\* A call that has begun to send returns, whatever fails and also when the
\* producer is stopped under it (producer.go:83-137).
EveryCallReturns == \A s \in Sender : pc[s] = "produce" ~> pc[s] \in Returned

\* What keeps a call from returning is a queue that is full for good, with
\* reports nobody is left to receive, and nothing else: not the calls that took
\* its reports, nor a failure, nor Stop (producer.go:83-137).
OnlyFullQueueHolds ==
    EveryCallReturns \/ <>[](Cardinality(queued \cup reports) = QueueCap)
=============================================================================
