-------------------------- MODULE RabbitRedelivery --------------------------
(***************************************************************************)
(* harnesses/integration/rabbitmq_redelivery_test_harness.py: consumers    *)
(* that take one message from a queue, process it and settle it, and the   *)
(* measurement its proofs rest on (remaining_after_failure).               *)
(*                                                                         *)
(* The broker is external: it delivers a message to one channel at a time, *)
(* takes the frames of a channel in order and in its own time, and         *)
(* returns to the queue what a lost connection had not settled.            *)
(*                                                                         *)
(* Not covered: the order of the queue, a broker that restarts (the queue  *)
(* is not durable), a publish that is lost on its way.                     *)
(***************************************************************************)
EXTENDS Integers, Sequences, FiniteSets

CONSTANTS
  Messages,
  Consumers,
  Buggy,      \* the consumers of class BuggyConsumer
  Interrupts, \* TRUE if a KeyboardInterrupt may end a consumer's work
  None

ASSUME RabbitAssumption ==
  /\ Buggy \subseteq Consumers /\ Interrupts \in BOOLEAN
  /\ IsFiniteSet(Messages) /\ None \notin Messages /\ None \notin Nat

VARIABLES
  published, \* messages handed to the broker
  ready,     \* those in the queue
  unacked,   \* per channel, those delivered and not settled
  frames,    \* per channel, the acks and nacks on their way to the broker
  up,        \* the connection of a consumer stands
  pc,        \* "idle" | "processing" | "settle" | "giveback" | "poll"
  cur,       \* the message in hand
  probing,   \* consumers inside remaining_after_failure
  result,    \* what it returned
  done,      \* history: messages some processor finished
  alone,     \* history: probes begun on one message that nobody else touched
  late       \* history: probes that ran into their deadline

broker == <<published, ready, unacked, frames>>
probe  == <<probing, result, alone, late>>
vars   == <<broker, up, pc, cur, done, probe>>

Held == ready \cup UNION {unacked[c] : c \in Consumers}

AutoAckNever(c) == FALSE
AutoAckAlways(c) == TRUE
AutoAck(c) == c \in Buggy

------------------------------------------------------------------------------
(* The broker and the world around it *)

Publish(m) ==
  /\ m \notin published
  /\ published' = published \cup {m} /\ ready' = ready \cup {m}
  /\ alone' = {}
  /\ UNCHANGED <<unacked, frames, up, pc, cur, done, probing, result, late>>

\* The next frame of a channel arrives.  A frame for a delivery the broker has
\* already taken back changes nothing.
BrokerTakes(c) ==
  /\ frames[c] # <<>>
  /\ LET f == Head(frames[c]) IN
       /\ unacked' = [unacked EXCEPT ![c] = @ \ {f.message}]
       /\ ready' = IF f.kind = "nack" THEN ready \cup (unacked[c] \cap {f.message}) ELSE ready
  /\ frames' = [frames EXCEPT ![c] = Tail(@)]
  /\ UNCHANGED <<published, up, pc, cur, done, probe>>

\* A connection breaks: by a network fault or the end of its process, whose
\* work in hand is gone with it.
Break(c) ==
  /\ up[c]
  /\ up' = [up EXCEPT ![c] = FALSE]
  /\ \/ UNCHANGED <<pc, cur, probing>>
     \/ /\ pc' = [pc EXCEPT ![c] = "idle"] /\ cur' = [cur EXCEPT ![c] = None]
        /\ probing' = probing \ {c}
  /\ UNCHANGED <<broker, done, result, alone, late>>

\* The broker notices, at a moment of its own, and queues what was unsettled.
BrokerRequeues(c) ==
  /\ ~up[c]
  /\ unacked[c] # {} \/ frames[c] # <<>>
  /\ ready' = ready \cup unacked[c]
  /\ unacked' = [unacked EXCEPT ![c] = {}] /\ frames' = [frames EXCEPT ![c] = <<>>]
  /\ UNCHANGED <<published, up, pc, cur, done, probe>>

\* A new connection and channel.
Reconnect(c) ==
  /\ ~up[c] /\ pc[c] = "idle" /\ unacked[c] = {} /\ frames[c] = <<>>
  /\ up' = [up EXCEPT ![c] = TRUE]
  /\ UNCHANGED <<broker, pc, cur, done, probe>>

------------------------------------------------------------------------------
(* process_one *)

Goto(c, label) == pc' = [pc EXCEPT ![c] = label]

\* process_one returned or raised: a probe goes on to poll, either way.
Leave(c) ==
  /\ Goto(c, IF c \in probing THEN "poll" ELSE "idle")
  /\ cur' = [cur EXCEPT ![c] = None]

\* basic_get: the broker moves a message to this channel, or forgets it at once.
Deliver(c, m) ==
  /\ m \in ready
  /\ ready' = ready \ {m}
  /\ unacked' = IF AutoAck(c) THEN unacked ELSE [unacked EXCEPT ![c] = @ \cup {m}]
  /\ cur' = [cur EXCEPT ![c] = m]
  /\ Goto(c, "processing")

Get(c) ==
  /\ pc[c] = "idle" /\ up[c] /\ c \notin probing
  /\ \E m \in Messages : Deliver(c, m)
  /\ alone' = {}
  /\ UNCHANGED <<published, frames, up, done, probing, result, late>>

ProcessorSucceeds(c) ==
  /\ pc[c] = "processing" /\ c \notin probing
  /\ done' = done \cup {cur[c]}
  /\ IF AutoAck(c) THEN Leave(c) ELSE Goto(c, "settle") /\ UNCHANGED cur
  /\ UNCHANGED <<broker, up, probe>>

ProcessorRaises(c) ==
  /\ pc[c] = "processing"
  /\ IF AutoAck(c) THEN Leave(c) ELSE Goto(c, "giveback") /\ UNCHANGED cur
  /\ UNCHANGED <<broker, up, done, probe>>

\* `except Exception` lets a KeyboardInterrupt through: no ack, no nack.
Interrupted(c) ==
  /\ Interrupts
  /\ pc[c] \in {"processing", "settle", "giveback"}
  /\ Goto(c, "idle") /\ cur' = [cur EXCEPT ![c] = None]
  /\ probing' = probing \ {c}
  /\ UNCHANGED <<broker, up, done, result, alone, late>>

\* basic_ack and basic_nack write a frame and return; on a connection that is
\* down they raise, and process_one raises with them.
SendAcksOnly(c, kind) ==
  frames' = IF up[c] /\ kind = "ack"
            THEN [frames EXCEPT ![c] = Append(@, [kind |-> kind, message |-> cur[c]])] ELSE frames
Send(c, kind) ==
  frames' = IF up[c] THEN [frames EXCEPT ![c] = Append(@, [kind |-> kind, message |-> cur[c]])]
            ELSE frames

SendAck(c) ==
  /\ pc[c] = "settle"
  /\ Send(c, "ack") /\ Leave(c)
  /\ UNCHANGED <<published, ready, unacked, up, done, probe>>

NackAndRetry(c) ==
  /\ pc[c] = "giveback"
  /\ Send(c, "nack") /\ Goto(c, "processing")
  /\ UNCHANGED <<published, ready, unacked, up, cur, done, probe>>
SendNack(c) ==
  /\ pc[c] = "giveback"
  /\ Send(c, "nack") /\ Leave(c)
  /\ UNCHANGED <<published, ready, unacked, up, done, probe>>

------------------------------------------------------------------------------
(* remaining_after_failure: a probe calls process_one with a processor that
   raises, then polls the number of ready messages. *)

StartProbe(c) ==
  /\ pc[c] = "idle" /\ up[c] /\ c \notin probing /\ result[c] = None
  /\ probing' = probing \cup {c}
  /\ \/ \E m \in Messages : Deliver(c, m) /\ alone' = IF Held = {m} THEN {c} ELSE {}
     \/ ready = {} /\ Goto(c, "poll") /\ alone' = {} /\ UNCHANGED <<ready, unacked, cur>>
  /\ UNCHANGED <<published, frames, up, done, result, late>>

EndProbe(c, count) ==
  /\ result' = [result EXCEPT ![c] = count]
  /\ probing' = probing \ {c}
  /\ Goto(c, "idle")

\* message_count is an answer of the broker; no answer, no result.
PollAnswers(c) ==
  /\ pc[c] = "poll" /\ up[c] /\ ready # {}
  /\ EndProbe(c, Cardinality(ready))
  /\ UNCHANGED <<broker, up, cur, done, alone, late>>

PollForever(c) == FALSE
PollDeadline(c) ==
  /\ pc[c] = "poll" /\ up[c] /\ ready = {}
  /\ EndProbe(c, 0) /\ late' = late \cup {c}
  /\ UNCHANGED <<broker, up, cur, done, alone>>

PollRaises(c) ==
  /\ pc[c] = "poll" /\ ~up[c]
  /\ probing' = probing \ {c} /\ Goto(c, "idle")
  /\ UNCHANGED <<broker, up, cur, done, result, alone, late>>

------------------------------------------------------------------------------
Init ==
  /\ published = {} /\ ready = {} /\ unacked = [c \in Consumers |-> {}]
  /\ frames = [c \in Consumers |-> <<>>] /\ up = [c \in Consumers |-> TRUE]
  /\ pc = [c \in Consumers |-> "idle"] /\ cur = [c \in Consumers |-> None]
  /\ probing = {} /\ result = [c \in Consumers |-> None]
  /\ done = {} /\ alone = {} /\ late = {}

Broker(c) == BrokerTakes(c) \/ BrokerRequeues(c)

\* What a consumer does of itself once it has been called.
Working(c) ==
  \/ ProcessorSucceeds(c) \/ ProcessorRaises(c) \/ Interrupted(c)
  \/ SendAck(c) \/ SendNack(c)
  \/ PollAnswers(c) \/ PollDeadline(c) \/ PollRaises(c)

Next == \/ \E m \in Messages : Publish(m)
        \/ \E c \in Consumers :
             Broker(c) \/ Break(c) \/ Reconnect(c) \/ Get(c) \/ StartProbe(c) \/ Working(c)

Spec == Init /\ [][Next]_vars

\* The broker serves its channels and a call that was made runs on; nobody has
\* to publish, to call, to reconnect or to break a connection.
Fairness == \A c \in Consumers : WF_vars(Broker(c)) /\ WF_vars(Working(c))
FairSpec == Spec /\ Fairness

------------------------------------------------------------------------------
(* Properties *)

\* The acking consumer keeps the promise of at-least-once delivery: a message
\* leaves the broker only after a processor finished it (:41-:51).
Promise == INSTANCE AtLeastOnce WITH held <- Held
AtLeastOnceDelivery == Promise!Spec

\* Two consumers work on one message only if the broker has given it up for one
\* of them, whose connection is down (:42).
InHand(c) == pc[c] \in {"processing", "settle", "giveback"}
OneWorkerPerMessage ==
  \A c, d \in Consumers :
    c # d /\ InHand(c) /\ InHand(d) /\ cur[c] = cur[d] => ~up[c] \/ ~up[d]

\* What remaining_after_failure returns tells the two consumers apart: of one
\* message nobody else touches it counts 0 for the buggy one, and 1 for the
\* acking one unless the requeue outlasts the deadline (:69-:84).
ProbeTellsApart ==
  \A c \in alone :
    result[c] # None => IF c \in Buggy THEN result[c] = 0 ELSE result[c] = 1 \/ c \in late

\* A message the broker holds comes back to the queue or has been processed:
\* no failure and no lost connection parks it for good (:47-:49).
Returns == \A m \in Messages : m \in Held ~> m \in ready \cup done

\* A probe ends, requeue or not (:79-:84).
ProbeEnds == \A c \in Consumers : c \in probing ~> c \notin probing

------------------------------------------------------------------------------
(* The inductive invariant of the safety properties: a message is in one place
   at a time, a frame is about a delivery of its own, what is acked is done, a
   buggy consumer's message has left the broker and is its alone, and a probe on
   one message finds the broker holding that message or, if it acked it by
   itself, nothing. *)

Frames == [kind : {"ack", "nack"}, message : Messages]

TypeOK ==
  /\ published \subseteq Messages /\ ready \subseteq Messages /\ done \subseteq Messages
  /\ unacked \in [Consumers -> SUBSET Messages] /\ frames \in [Consumers -> Seq(Frames)]
  /\ up \in [Consumers -> BOOLEAN]
  /\ pc \in [Consumers -> {"idle", "processing", "settle", "giveback", "poll"}]
  /\ cur \in [Consumers -> Messages \cup {None}]
  /\ probing \subseteq Consumers /\ alone \subseteq Consumers /\ late \subseteq Consumers
  /\ result \in [Consumers -> Nat \cup {None}]

OnePlace ==
  \A c \in Consumers :
    /\ ready \cap unacked[c] = {}
    /\ \A d \in Consumers \ {c} : unacked[c] \cap unacked[d] = {}

FramesFit ==
  \A c \in Consumers : \A i \in DOMAIN frames[c] :
    /\ frames[c][i].message \in unacked[c]
    /\ frames[c][i].kind = "ack" => frames[c][i].message \in done
    /\ \A j \in DOMAIN frames[c] : i # j => frames[c][i].message # frames[c][j].message

HandFits ==
  \A c \in Consumers : InHand(c) =>
    /\ cur[c] \in published
    /\ pc[c] = "settle" => cur[c] \in done
    /\ up[c] /\ c \notin Buggy =>
         cur[c] \in unacked[c] /\ \A i \in DOMAIN frames[c] : frames[c][i].message # cur[c]
    /\ c \in Buggy =>
         /\ pc[c] = "processing" /\ cur[c] \notin Held
         /\ \A d \in Buggy \ {c} : InHand(d) => cur[d] # cur[c]

Kept ==
  /\ done \subseteq published /\ Held \subseteq published
  /\ Buggy = {} => published \subseteq Held \cup done

DeliveryInv == TypeOK /\ OnePlace /\ FramesFit /\ HandFits /\ Kept

ProbeFits(c) ==
  /\ pc[c] # "settle" /\ (c \notin probing => pc[c] = "idle")
  /\ \A d \in Consumers \ {c} : unacked[d] = {}
  /\ IF c \in Buggy THEN ready \cup unacked[c] = {} ELSE \E m \in Messages : ready \cup unacked[c] = {m}
  /\ \A i \in DOMAIN frames[c] : frames[c][i].kind = "nack"
ProbesFit == \A c \in alone : ProbeFits(c)

RabbitInv == DeliveryInv /\ ProbesFit /\ ProbeTellsApart

=============================================================================
