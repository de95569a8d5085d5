----------------------- MODULE RabbitRedeliveryProofs -----------------------
(***************************************************************************)
(* Theorems about RabbitRedelivery, for any messages, any number of        *)
(* consumers and, but for at-least-once delivery, any of them buggy.       *)
(***************************************************************************)
EXTENDS RabbitRedelivery, FiniteSetTheorems, TLAPS

Channels == <<published, ready, unacked, frames, up, done>>

LEMMA HeldIs ==
  Held = ready \cup UNION {unacked[c] : c \in Consumers}
  BY DEF Held

\* Membership in Held, spelled out.
LEMMA InHeld ==
  ASSUME NEW m
  PROVE  m \in Held <=> m \in ready \/ \E c \in Consumers : m \in unacked[c]
  BY DEF Held

LEMMA InHeldNext ==
  ASSUME NEW m
  PROVE  m \in Held' <=> m \in ready' \/ \E c \in Consumers : m \in unacked'[c]
  BY DEF Held

\* A step that leaves the channels alone and takes no new message in hand.
LEMMA OnlyTheProgramMoves ==
  ASSUME DeliveryInv, UNCHANGED Channels,
         pc' \in [Consumers -> {"idle", "processing", "settle", "giveback", "poll"}],
         cur' \in [Consumers -> Messages \cup {None}],
         probing' \subseteq Consumers, alone' \subseteq Consumers, late' \subseteq Consumers,
         result' \in [Consumers -> Nat \cup {None}],
         \A c \in Consumers : pc'[c] \in {"processing", "settle", "giveback"} =>
           /\ InHand(c) /\ cur'[c] = cur[c] /\ (pc'[c] = "settle" => pc[c] = "settle")
           /\ c \in Buggy => pc'[c] = "processing"
  PROVE  DeliveryInv'
<1>1. TypeOK'
  BY DEF DeliveryInv, TypeOK, Channels
<1>2. OnePlace' /\ FramesFit'
  BY DEF DeliveryInv, OnePlace, FramesFit, Channels
<1>3. Held' = Held
  BY DEF Held, Channels
<1>4. HandFits'
  BY <1>3, RabbitAssumption DEF DeliveryInv, HandFits, InHand, Channels
<1>5. Kept'
  BY <1>3 DEF DeliveryInv, Kept, Channels
<1> QED
  BY <1>1, <1>2, <1>4, <1>5 DEF DeliveryInv

\* A delivery moves a message from the queue to one channel.
LEMMA DeliverKeeps ==
  ASSUME DeliveryInv, NEW c \in Consumers, NEW m \in Messages, Deliver(c, m),
         UNCHANGED <<published, frames, up, done, result, late>>,
         probing' \subseteq Consumers, alone' \subseteq Consumers, ~InHand(c)
  PROVE  DeliveryInv' /\ Held' = IF c \in Buggy THEN Held \ {m} ELSE Held
<1>1. /\ m \in ready /\ ready' = ready \ {m}
      /\ unacked' = IF c \in Buggy THEN unacked ELSE [unacked EXCEPT ![c] = @ \cup {m}]
      /\ cur' = [cur EXCEPT ![c] = m] /\ pc' = [pc EXCEPT ![c] = "processing"]
  BY DEF Deliver, AutoAck, Goto
<1>2. TypeOK /\ OnePlace /\ FramesFit /\ HandFits /\ Kept
  BY DEF DeliveryInv
<1>3. /\ unacked'[c] = IF c \in Buggy THEN unacked[c] ELSE unacked[c] \cup {m}
      /\ \A d \in Consumers \ {c} : unacked'[d] = unacked[d] /\ cur'[d] = cur[d] /\ pc'[d] = pc[d]
      /\ cur'[c] = m /\ pc'[c] = "processing"
  BY <1>1, <1>2 DEF TypeOK
<1>4. TypeOK'
  BY <1>1, <1>2 DEF TypeOK
<1>5. OnePlace'
  BY <1>1, <1>2, <1>3 DEF OnePlace
<1>6. FramesFit'
  BY <1>2, <1>3 DEF FramesFit
<1>7. \A i \in DOMAIN frames[c] : frames[c][i].message # m
  BY <1>1, <1>2 DEF FramesFit, OnePlace
<1>8. m \in published
  BY <1>1, <1>2, InHeld DEF Kept
<1>9. m \in Held /\ \A d \in Consumers : m \notin unacked[d]
  BY <1>1, <1>2, InHeld DEF OnePlace
<1>10. Held' = IF c \in Buggy THEN Held \ {m} ELSE Held
  <2>1. \A x : x \in Held' <=> IF c \in Buggy THEN x \in Held \ {m} ELSE x \in Held
    BY <1>1, <1>3, <1>9, InHeld, InHeldNext
  <2> QED
    BY <2>1
<1>11. HandFits'
  <2> SUFFICES ASSUME NEW d \in Consumers, InHand(d)'
               PROVE  /\ cur'[d] \in published'
                      /\ pc'[d] = "settle" => cur'[d] \in done'
                      /\ up'[d] /\ d \notin Buggy =>
                           /\ cur'[d] \in unacked'[d]
                           /\ \A i \in DOMAIN frames'[d] : frames'[d][i].message # cur'[d]
                      /\ d \in Buggy =>
                           /\ pc'[d] = "processing" /\ cur'[d] \notin Held'
                           /\ \A e \in Buggy \ {d} : InHand(e)' => cur'[e] # cur'[d]
    BY DEF HandFits
  <2>1. CASE d = c
    <3>1. \A e \in Buggy \ {c} : InHand(e)' => cur'[e] # m
      BY <1>2, <1>3, <1>9, RabbitAssumption DEF HandFits, InHand
    <3> QED
      BY <1>3, <1>7, <1>8, <1>10, <2>1, <3>1
  <2>2. CASE d # c
    <3>1. /\ cur[d] \in published
          /\ pc[d] = "settle" => cur[d] \in done
          /\ up[d] /\ d \notin Buggy =>
               cur[d] \in unacked[d] /\ \A i \in DOMAIN frames[d] : frames[d][i].message # cur[d]
          /\ d \in Buggy =>
               /\ pc[d] = "processing" /\ cur[d] \notin Held
               /\ \A e \in Buggy \ {d} : InHand(e) => cur[e] # cur[d]
      BY <1>2, <1>3, <2>2 DEF HandFits, InHand
    <3>2. d \in Buggy => cur'[d] \notin Held' /\ \A e \in Buggy \ {d} : InHand(e)' => cur'[e] # cur'[d]
      BY <1>3, <1>9, <1>10, <2>2, <3>1, RabbitAssumption DEF InHand
    <3> QED
      BY <1>3, <2>2, <3>1, <3>2
  <2> QED
    BY <2>1, <2>2
<1>12. Kept'
  BY <1>2, <1>10 DEF Kept
<1> QED
  BY <1>4, <1>5, <1>6, <1>10, <1>11, <1>12 DEF DeliveryInv

LEMMA TailFacts ==
  ASSUME NEW S, NEW s \in Seq(S), s # <<>>
  PROVE  \A i \in DOMAIN Tail(s) : i \in Nat /\ i # 0 /\ i + 1 \in DOMAIN s /\ Tail(s)[i] = s[i + 1]
  OBVIOUS

\* A frame leaves the broker with the message or puts it back; what it drops is done.
LEMMA BrokerTakesKeeps ==
  ASSUME DeliveryInv, NEW c \in Consumers, BrokerTakes(c)
  PROVE  /\ DeliveryInv'
         /\ Held' = Held \/ \E m \in done : m \in Messages /\ Held' = Held \ {m}
<1> DEFINE f == Head(frames[c])
<1>1. TypeOK /\ OnePlace /\ FramesFit /\ HandFits /\ Kept
  BY DEF DeliveryInv
<1>2. /\ frames[c] \in Seq(Frames) /\ frames[c] # <<>>
      /\ unacked' = [unacked EXCEPT ![c] = @ \ {f.message}]
      /\ ready' = IF f.kind = "nack" THEN ready \cup (unacked[c] \cap {f.message}) ELSE ready
      /\ frames' = [frames EXCEPT ![c] = Tail(@)]
      /\ UNCHANGED <<published, up, pc, cur, done, probe>>
  BY <1>1 DEF BrokerTakes, TypeOK
<1>3. f \in Frames /\ f = frames[c][1] /\ 1 \in DOMAIN frames[c]
  BY <1>2
<1>4. f.message \in Messages /\ f.kind \in {"ack", "nack"}
  BY <1>3 DEF Frames
<1>5. f.message \in unacked[c] /\ (f.kind = "ack" => f.message \in done)
  BY <1>1, <1>3 DEF FramesFit
<1>6. /\ frames'[c] = Tail(frames[c]) /\ Tail(frames[c]) \in Seq(Frames)
      /\ unacked'[c] = unacked[c] \ {f.message}
      /\ \A d \in Consumers \ {c} : unacked'[d] = unacked[d] /\ frames'[d] = frames[d]
  BY <1>1, <1>2 DEF TypeOK
<1>7. \A i \in DOMAIN frames'[c] :
        i + 1 \in DOMAIN frames[c] /\ frames'[c][i] = frames[c][i + 1] /\ i + 1 # 1
  <2>1. \A i \in DOMAIN Tail(frames[c]) :
          i \in Nat /\ i # 0 /\ i + 1 \in DOMAIN frames[c] /\ Tail(frames[c])[i] = frames[c][i + 1]
    BY <1>2, TailFacts
  <2> QED
    BY <1>6, <2>1
<1>8. \A i \in DOMAIN frames'[c] : frames'[c][i].message # f.message
  BY <1>1, <1>3, <1>7 DEF FramesFit
<1> HIDE DEF f
<1>9. TypeOK'
  BY <1>1, <1>2, <1>4, <1>6 DEF TypeOK, probe
<1>10. OnePlace'
  BY <1>1, <1>2, <1>5, <1>6 DEF OnePlace
<1>11. FramesFit'
  <2> SUFFICES ASSUME NEW d \in Consumers, NEW i \in DOMAIN frames'[d]
               PROVE  /\ frames'[d][i].message \in unacked'[d]
                      /\ frames'[d][i].kind = "ack" => frames'[d][i].message \in done'
                      /\ \A j \in DOMAIN frames'[d] : i # j => frames'[d][i].message # frames'[d][j].message
    BY DEF FramesFit
  <2>1. done' = done
    BY <1>2
  <2>2. CASE d # c
    BY <1>1, <1>6, <2>1, <2>2 DEF FramesFit
  <2>3. CASE d = c
    <3>1. /\ frames[c][i + 1].message \in unacked[c]
          /\ frames[c][i + 1].kind = "ack" => frames[c][i + 1].message \in done
      BY <1>1, <1>7, <2>3 DEF FramesFit
    <3>2. \A j \in DOMAIN frames'[c] : i # j => frames[c][i + 1].message # frames[c][j + 1].message
      <4>1. \A j \in DOMAIN frames'[c] : j \in Int
        BY <1>6
      <4> QED
        BY <1>1, <1>7, <2>3, <4>1 DEF FramesFit
    <3> QED
      BY <1>6, <1>7, <1>8, <2>1, <2>3, <3>1, <3>2
  <2> QED
    BY <2>2, <2>3
<1>12. HandFits'
  <2>0. \A x : x \in Held' => x \in Held
    BY <1>2, <1>5, <1>6, InHeld, InHeldNext
  <2> SUFFICES ASSUME NEW d \in Consumers, InHand(d)'
               PROVE  /\ cur'[d] \in published'
                      /\ pc'[d] = "settle" => cur'[d] \in done'
                      /\ up'[d] /\ d \notin Buggy =>
                           /\ cur'[d] \in unacked'[d]
                           /\ \A i \in DOMAIN frames'[d] : frames'[d][i].message # cur'[d]
                      /\ d \in Buggy =>
                           /\ pc'[d] = "processing" /\ cur'[d] \notin Held'
                           /\ \A e \in Buggy \ {d} : InHand(e)' => cur'[e] # cur'[d]
    BY DEF HandFits
  <2>1. InHand(d) /\ UNCHANGED <<published, up, pc, cur, done>>
    BY <1>2 DEF InHand
  <2>4. d \in Buggy =>
          /\ pc'[d] = "processing" /\ cur'[d] \notin Held'
          /\ \A e \in Buggy \ {d} : InHand(e)' => cur'[e] # cur'[d]
    BY <1>1, <2>0, <2>1 DEF HandFits, InHand
  <2>2. CASE d # c
    BY <1>1, <1>6, <2>1, <2>2, <2>4 DEF HandFits
  <2>3. CASE d = c
    <3>1. /\ cur[c] \in published
          /\ pc[c] = "settle" => cur[c] \in done
          /\ up[c] /\ c \notin Buggy =>
               cur[c] \in unacked[c] /\ \A i \in DOMAIN frames[c] : frames[c][i].message # cur[c]
      BY <1>1, <2>1, <2>3 DEF HandFits
    <3>2. up[c] /\ c \notin Buggy =>
            cur[c] \in unacked'[c] /\ \A i \in DOMAIN frames'[c] : frames'[c][i].message # cur[c]
      BY <1>3, <1>6, <1>7, <3>1
    <3> QED
      BY <2>1, <2>3, <2>4, <3>1, <3>2
  <2> QED
    BY <2>2, <2>3
<1>13. CASE f.kind = "nack"
  <2>1. \A x : x \in Held' <=> x \in Held
    BY <1>2, <1>5, <1>6, <1>13, InHeld, InHeldNext
  <2>2. Held' = Held
    BY <2>1
  <2>3. Kept'
    BY <1>1, <1>2, <2>2 DEF Kept
  <2> QED
    BY <1>9, <1>10, <1>11, <1>12, <2>2, <2>3 DEF DeliveryInv
<1>14. CASE f.kind = "ack"
  <2>1. ready' = ready /\ f.message \notin ready
    BY <1>1, <1>2, <1>5, <1>14 DEF OnePlace
  <2>2. \A d \in Consumers \ {c} : f.message \notin unacked[d]
    BY <1>1, <1>5 DEF OnePlace
  <2>3. \A x : x \in Held' <=> x \in Held /\ x # f.message
    BY <1>6, <2>1, <2>2, InHeld, InHeldNext
  <2>4. Held' = Held \ {f.message}
    BY <2>3
  <2>5. Kept'
    BY <1>1, <1>2, <1>5, <1>14, <2>4 DEF Kept
  <2> QED
    BY <1>4, <1>5, <1>9, <1>10, <1>11, <1>12, <1>14, <2>4, <2>5 DEF DeliveryInv
<1> QED
  BY <1>4, <1>13, <1>14

\* What a lost channel had not settled goes back to the queue.
LEMMA BrokerRequeuesKeeps ==
  ASSUME DeliveryInv, NEW c \in Consumers, BrokerRequeues(c)
  PROVE  DeliveryInv' /\ Held' = Held
<1>1. TypeOK /\ OnePlace /\ FramesFit /\ HandFits /\ Kept
  BY DEF DeliveryInv
<1>2. /\ ready' = ready \cup unacked[c] /\ ~up[c]
      /\ unacked' = [unacked EXCEPT ![c] = {}] /\ frames' = [frames EXCEPT ![c] = <<>>]
      /\ UNCHANGED <<published, up, pc, cur, done, probe>>
  BY DEF BrokerRequeues
<1>3. /\ unacked'[c] = {} /\ frames'[c] = <<>>
      /\ \A d \in Consumers \ {c} : unacked'[d] = unacked[d] /\ frames'[d] = frames[d]
  BY <1>1, <1>2 DEF TypeOK
<1>4. TypeOK'
  BY <1>1, <1>2 DEF TypeOK, probe
<1>5. OnePlace'
  BY <1>1, <1>2, <1>3 DEF OnePlace
<1>6. FramesFit'
  BY <1>1, <1>2, <1>3 DEF FramesFit
<1>7. \A x : x \in Held' <=> x \in Held
  BY <1>2, <1>3, InHeld, InHeldNext
<1>8. Held' = Held
  BY <1>7
<1>9. HandFits'
  BY <1>1, <1>2, <1>3, <1>8 DEF HandFits, InHand
<1>10. Kept'
  BY <1>1, <1>2, <1>8 DEF Kept
<1> QED
  BY <1>4, <1>5, <1>6, <1>8, <1>9, <1>10 DEF DeliveryInv

\* A frame joins the channel it is sent on; it is about the message in hand.
LEMMA SendKeeps ==
  ASSUME DeliveryInv, NEW c \in Consumers, NEW kind \in {"ack", "nack"},
         pc[c] = IF kind = "ack" THEN "settle" ELSE "giveback", Send(c, kind), Leave(c),
         UNCHANGED <<published, ready, unacked, up, done, probe>>
  PROVE  DeliveryInv'
<1> DEFINE g == [kind |-> kind, message |-> cur[c]]
<1>1. TypeOK /\ OnePlace /\ FramesFit /\ HandFits /\ Kept
  BY DEF DeliveryInv
<1>2. /\ InHand(c) /\ cur[c] \in published /\ cur[c] \in Messages
      /\ kind = "ack" => cur[c] \in done
      /\ up[c] => cur[c] \in unacked[c] /\ \A i \in DOMAIN frames[c] : frames[c][i].message # cur[c]
  BY <1>1, RabbitAssumption DEF HandFits, InHand, TypeOK
<1>3. /\ pc' \in [Consumers -> {"idle", "processing", "settle", "giveback", "poll"}]
      /\ cur' \in [Consumers -> Messages \cup {None}]
      /\ pc'[c] \in {"idle", "poll"}
      /\ \A d \in Consumers \ {c} : pc'[d] = pc[d] /\ cur'[d] = cur[d]
  BY <1>1 DEF Leave, Goto, TypeOK
<1>4. frames[c] \in Seq(Frames) /\ g \in Frames
  BY <1>1, <1>2 DEF TypeOK, Frames
<1>5. /\ frames' \in [Consumers -> Seq(Frames)]
      /\ \A d \in Consumers \ {c} : frames'[d] = frames[d]
      /\ frames'[c] = IF up[c] THEN Append(frames[c], g) ELSE frames[c]
  BY <1>1, <1>4 DEF Send, TypeOK
<1>6. /\ Append(frames[c], g)[Len(frames[c]) + 1] = g
      /\ DOMAIN Append(frames[c], g) = DOMAIN frames[c] \cup {Len(frames[c]) + 1}
      /\ \A i \in DOMAIN frames[c] : Append(frames[c], g)[i] = frames[c][i]
  BY <1>4
<1>7. g.kind = kind /\ g.message = cur[c]
  OBVIOUS
<1> HIDE DEF g
<1>8. TypeOK'
  BY <1>1, <1>3, <1>5 DEF TypeOK, probe
<1>9. OnePlace'
  BY <1>1 DEF OnePlace
<1>10. FramesFit'
  <2>1. ASSUME NEW d \in Consumers \ {c}, NEW i \in DOMAIN frames'[d]
        PROVE  /\ frames'[d][i].message \in unacked'[d]
               /\ frames'[d][i].kind = "ack" => frames'[d][i].message \in done'
               /\ \A j \in DOMAIN frames'[d] : i # j => frames'[d][i].message # frames'[d][j].message
    <3>1. frames'[d] = frames[d] /\ i \in DOMAIN frames[d] /\ UNCHANGED <<unacked, done>>
      BY <1>5
    <3> QED
      BY <1>1, <3>1 DEF FramesFit
  <2>2. ASSUME NEW i \in DOMAIN frames'[c]
        PROVE  /\ frames'[c][i].message \in unacked'[c]
               /\ frames'[c][i].kind = "ack" => frames'[c][i].message \in done'
               /\ \A j \in DOMAIN frames'[c] : i # j => frames'[c][i].message # frames'[c][j].message
    BY <1>1, <1>2, <1>5, <1>6, <1>7 DEF FramesFit
  <2> QED
    BY <2>1, <2>2 DEF FramesFit
<1>11. Held' = Held
  BY DEF Held
<1>12. HandFits'
  <2>1. \A d \in Consumers : InHand(d)' => d # c /\ InHand(d)
    BY <1>3 DEF InHand
  <2>2. \A d \in Consumers \ {c} : pc'[d] = pc[d] /\ cur'[d] = cur[d] /\ frames'[d] = frames[d]
    BY <1>3, <1>5
  <2>3. UNCHANGED <<published, unacked, done, up, Held>>
    BY <1>11
  <2> QED
    BY <1>1, <2>1, <2>2, <2>3, RabbitAssumption DEF HandFits
<1>13. Kept'
  BY <1>1, <1>11 DEF Kept
<1> QED
  BY <1>8, <1>9, <1>10, <1>12, <1>13 DEF DeliveryInv

LEMMA DeliveryStep ==
  ASSUME DeliveryInv, [Next]_vars
  PROVE  DeliveryInv' /\ (Buggy = {} => [Promise!Next]_<<Held, done>>)
<1>1. TypeOK /\ OnePlace /\ FramesFit /\ HandFits /\ Kept
  BY DEF DeliveryInv
<1> USE DEF Promise!Next, Promise!Publish, Promise!Process, Promise!Release
<1>2. ASSUME NEW m \in Messages, Publish(m)
      PROVE  DeliveryInv' /\ (Buggy = {} => [Promise!Next]_<<Held, done>>)
  <2>1. m \notin Held /\ m \notin done /\ m \notin published
    BY <1>1, <1>2 DEF Publish, Kept
  <2>2. /\ ready' = ready \cup {m} /\ published' = published \cup {m}
        /\ UNCHANGED <<unacked, frames, up, pc, cur, done, probing, result, late>>
    BY <1>2 DEF Publish
  <2>3. \A x : x \in Held' <=> x \in Held \cup {m}
    BY <2>2, InHeld, InHeldNext
  <2>4. Held' = Held \cup {m}
    BY <2>3
  <2>5. TypeOK' /\ FramesFit'
    BY <1>1, <1>2, <2>2 DEF TypeOK, FramesFit, Publish
  <2>6. OnePlace'
    BY <1>1, <2>1, <2>2, InHeld DEF OnePlace
  <2>7. Kept'
    BY <1>1, <2>2, <2>4 DEF Kept
  <2>8. HandFits'
    BY <1>1, <2>1, <2>2, <2>4 DEF HandFits, InHand
  <2> QED
    BY <2>1, <2>2, <2>4, <2>5, <2>6, <2>7, <2>8 DEF DeliveryInv
<1>3. ASSUME NEW c \in Consumers, Broker(c)
      PROVE  DeliveryInv' /\ (Buggy = {} => [Promise!Next]_<<Held, done>>)
  <2>1. CASE BrokerTakes(c)
    <3>1. DeliveryInv' /\ done' = done
      BY <2>1, BrokerTakesKeeps DEF BrokerTakes
    <3>2. Held' = Held \/ \E m \in done : m \in Messages /\ Held' = Held \ {m}
      BY <2>1, BrokerTakesKeeps
    <3> QED
      BY <3>1, <3>2
  <2>2. CASE BrokerRequeues(c)
    BY <2>2, BrokerRequeuesKeeps DEF BrokerRequeues
  <2> QED
    BY <1>3, <2>1, <2>2 DEF Broker
<1>4. ASSUME NEW c \in Consumers, Break(c) \/ Reconnect(c)
      PROVE  DeliveryInv' /\ (Buggy = {} => [Promise!Next]_<<Held, done>>)
  <2>1. UNCHANGED <<published, ready, unacked, frames, done>>
    BY <1>4 DEF Break, Reconnect, broker
  <2>2. Held' = Held
    BY <2>1 DEF Held
  <2>3. TypeOK'
    BY <1>1, <1>4, <2>1 DEF TypeOK, Break, Reconnect, broker, probe
  <2>4. OnePlace' /\ FramesFit' /\ Kept'
    BY <1>1, <2>1, <2>2 DEF OnePlace, FramesFit, Kept
  <2>5. HandFits'
    <3>1. \A d \in Consumers : InHand(d)' =>
            InHand(d) /\ pc'[d] = pc[d] /\ cur'[d] = cur[d] /\ (up'[d] => up[d])
      BY <1>1, <1>4 DEF InHand, TypeOK, Break, Reconnect
    <3> QED
      BY <1>1, <2>1, <2>2, <3>1, RabbitAssumption DEF HandFits
  <2> QED
    BY <2>1, <2>2, <2>3, <2>4, <2>5 DEF DeliveryInv
<1>5. ASSUME NEW c \in Consumers, Get(c)
      PROVE  DeliveryInv' /\ (Buggy = {} => [Promise!Next]_<<Held, done>>)
  <2>1. PICK m \in Messages : Deliver(c, m)
    BY <1>5 DEF Get
  <2>2. UNCHANGED <<published, frames, up, done, result, late>> /\ probing' \subseteq Consumers
        /\ alone' \subseteq Consumers /\ ~InHand(c)
    BY <1>1, <1>5 DEF Get, TypeOK, InHand
  <2> QED
    BY <2>1, <2>2, DeliverKeeps
<1>6. ASSUME NEW c \in Consumers, StartProbe(c)
      PROVE  DeliveryInv' /\ (Buggy = {} => [Promise!Next]_<<Held, done>>)
  <2>1. UNCHANGED <<published, frames, up, done, result, late>> /\ probing' \subseteq Consumers
        /\ alone' \subseteq Consumers /\ ~InHand(c)
    BY <1>1, <1>6 DEF StartProbe, TypeOK, InHand
  <2>2. ASSUME NEW m \in Messages, Deliver(c, m)
        PROVE  DeliveryInv' /\ (Buggy = {} => [Promise!Next]_<<Held, done>>)
    BY <2>1, <2>2, DeliverKeeps
  <2>3. CASE Goto(c, "poll") /\ UNCHANGED <<ready, unacked, cur>>
    <3>1. UNCHANGED Channels
      BY <2>1, <2>3 DEF Channels
    <3>2. Held' = Held
      BY <2>3 DEF Held
    <3> QED
      BY <1>1, <2>1, <2>3, <3>1, <3>2, RabbitAssumption, OnlyTheProgramMoves
      DEF Goto, InHand, TypeOK, HandFits
  <2> QED
    BY <1>6, <2>2, <2>3 DEF StartProbe
<1>7. ASSUME NEW c \in Consumers, ProcessorSucceeds(c)
      PROVE  DeliveryInv' /\ (Buggy = {} => [Promise!Next]_<<Held, done>>)
  <2>1. /\ done' = done \cup {cur[c]} /\ UNCHANGED <<broker, up, probe>>
        /\ pc' = [pc EXCEPT ![c] = pc'[c]] /\ cur' = [cur EXCEPT ![c] = cur'[c]]
        /\ pc'[c] \in {"settle", "poll", "idle"}
        /\ pc'[c] = "settle" => cur'[c] = cur[c] /\ c \notin Buggy
        /\ cur'[c] \in {cur[c], None} /\ InHand(c) /\ pc[c] = "processing"
    BY <1>1, <1>7 DEF ProcessorSucceeds, AutoAck, Goto, Leave, InHand, TypeOK
  <2>2. cur[c] \in published /\ cur[c] \in Messages
    BY <1>1, <2>1 DEF HandFits, TypeOK
  <2>3. Held' = Held
    BY <2>1 DEF Held, broker
  <2>4. TypeOK'
    BY <1>1, <2>1, <2>2 DEF TypeOK, broker, probe
  <2>5. OnePlace' /\ FramesFit'
    BY <1>1, <2>1 DEF OnePlace, FramesFit, broker
  <2>6. HandFits'
    <3>1. UNCHANGED <<published, unacked, frames, up, Held>> /\ cur[c] \in done' /\ done \subseteq done'
      BY <2>1, <2>3 DEF broker
    <3>2. \A d \in Consumers : InHand(d)' =>
            /\ InHand(d) /\ cur'[d] = cur[d]
            /\ IF d = c THEN c \notin Buggy ELSE pc'[d] = pc[d]
      BY <1>1, <2>1 DEF InHand, TypeOK
    <3> QED
      BY <1>1, <3>1, <3>2, RabbitAssumption DEF HandFits
  <2>7. Kept'
    BY <1>1, <2>1, <2>2, <2>3 DEF Kept, broker
  <2>8. Buggy = {} => cur[c] \in Held \cup done
    BY <1>1, <2>2 DEF Kept
  <2> QED
    BY <2>1, <2>2, <2>3, <2>4, <2>5, <2>6, <2>7, <2>8 DEF DeliveryInv
<1>8. ASSUME NEW c \in Consumers, ProcessorRaises(c) \/ Interrupted(c)
      PROVE  DeliveryInv' /\ (Buggy = {} => [Promise!Next]_<<Held, done>>)
  <2>1. UNCHANGED Channels
    BY <1>8 DEF Channels, broker, ProcessorRaises, Interrupted
  <2>2. Held' = Held /\ done' = done
    BY <2>1 DEF Held, Channels
  <2>3. CASE ProcessorRaises(c)
    <3>1. /\ pc' = [pc EXCEPT ![c] = pc'[c]] /\ cur' = [cur EXCEPT ![c] = cur'[c]]
          /\ pc'[c] \in {"giveback", "poll", "idle"} /\ cur'[c] \in {cur[c], None}
          /\ pc'[c] = "giveback" => cur'[c] = cur[c] /\ c \notin Buggy
          /\ pc[c] = "processing" /\ UNCHANGED probe
      BY <1>1, <2>3 DEF ProcessorRaises, AutoAck, Goto, Leave, TypeOK
    <3>2. \A d \in Buggy : InHand(d) => pc[d] = "processing"
      BY <1>1, RabbitAssumption DEF HandFits
    <3>3. /\ pc' \in [Consumers -> {"idle", "processing", "settle", "giveback", "poll"}]
          /\ cur' \in [Consumers -> Messages \cup {None}]
          /\ probing' \subseteq Consumers /\ alone' \subseteq Consumers /\ late' \subseteq Consumers
          /\ result' \in [Consumers -> Nat \cup {None}]
      BY <1>1, <3>1 DEF TypeOK, probe
    <3>4. \A d \in Consumers : InHand(d)' =>
            /\ InHand(d) /\ cur'[d] = cur[d] /\ (pc'[d] = "settle" => pc[d] = "settle")
            /\ d \in Buggy => pc'[d] = "processing"
      BY <1>1, <3>1, <3>2 DEF InHand, TypeOK
    <3> QED
      BY <2>1, <2>2, <3>3, <3>4, OnlyTheProgramMoves DEF InHand
  <2>4. CASE Interrupted(c)
    <3>1. \A d \in Buggy : InHand(d) => pc[d] = "processing"
      BY <1>1, RabbitAssumption DEF HandFits
    <3> QED
      BY <1>1, <2>1, <2>2, <2>4, <3>1, OnlyTheProgramMoves DEF Interrupted, Goto, InHand, TypeOK
  <2> QED
    BY <1>8, <2>3, <2>4
<1>9. ASSUME NEW c \in Consumers, SendAck(c) \/ SendNack(c)
      PROVE  DeliveryInv' /\ (Buggy = {} => [Promise!Next]_<<Held, done>>)
  <2>1. Held' = Held /\ done' = done
    BY <1>9 DEF Held, SendAck, SendNack
  <2>2. CASE SendAck(c)
    BY <2>1, <2>2, SendKeeps DEF SendAck
  <2>3. CASE SendNack(c)
    BY <2>1, <2>3, SendKeeps DEF SendNack
  <2> QED
    BY <1>9, <2>2, <2>3
<1>10. ASSUME NEW c \in Consumers, PollAnswers(c) \/ PollDeadline(c) \/ PollRaises(c)
       PROVE  DeliveryInv' /\ (Buggy = {} => [Promise!Next]_<<Held, done>>)
  <2>1. UNCHANGED Channels /\ cur' = cur
    BY <1>10 DEF Channels, broker, PollAnswers, PollDeadline, PollRaises
  <2>2. Held' = Held /\ done' = done
    BY <2>1 DEF Held, Channels
  <2>3. /\ pc' = [pc EXCEPT ![c] = "idle"] /\ probing' \subseteq Consumers
        /\ alone' = alone /\ late' \subseteq Consumers
    BY <1>1, <1>10 DEF PollAnswers, PollDeadline, PollRaises, EndProbe, Goto, TypeOK
  <2>4. result' \in [Consumers -> Nat \cup {None}]
    <3>1. IsFiniteSet(ready)
      BY <1>1, RabbitAssumption, FS_Subset DEF TypeOK
    <3>2. Cardinality(ready) \in Nat
      BY <3>1, FS_CardinalityType
    <3>3. result \in [Consumers -> Nat \cup {None}]
      BY <1>1 DEF TypeOK
    <3>4. result' = result \/ \E count \in Nat : result' = [result EXCEPT ![c] = count]
      BY <1>10, <3>2 DEF PollAnswers, PollDeadline, PollRaises, EndProbe
    <3> QED
      BY <3>3, <3>4
  <2> QED
    BY <1>1, <2>1, <2>2, <2>3, <2>4, RabbitAssumption, OnlyTheProgramMoves
    DEF InHand, TypeOK, HandFits
<1>11. CASE UNCHANGED vars
  <2>1. Held' = Held
    BY <1>11 DEF vars, broker, Held
  <2> QED
    BY <1>1, <1>11, <2>1, RabbitAssumption DEF DeliveryInv, TypeOK, OnePlace, FramesFit, HandFits, Kept, InHand,
                             vars, broker, probe
<1> QED
  BY <1>2, <1>3, <1>4, <1>5, <1>6, <1>7, <1>8, <1>9, <1>10, <1>11 DEF Next, Working

\* A step that leaves the broker, and a probe's own channel and place, alone.
LEMMA ProbeUntouched ==
  ASSUME NEW c \in Consumers, ProbeFits(c), UNCHANGED <<ready, unacked>>,
         frames'[c] = frames[c], pc'[c] = pc[c], c \in probing' <=> c \in probing
  PROVE  ProbeFits(c)'
  BY DEF ProbeFits

\* A probe's step back to idle.
LEMMA ProbeOver ==
  ASSUME NEW c \in Consumers, ProbeFits(c), UNCHANGED <<ready, unacked, frames>>, pc'[c] = "idle"
  PROVE  ProbeFits(c)'
  BY DEF ProbeFits

\* A probe that begins on the only message the broker holds.
LEMMA ProbeBegins ==
  ASSUME RabbitInv, NEW c \in Consumers, StartProbe(c)
  PROVE  ProbesFit' /\ ProbeTellsApart'
<1>1. TypeOK /\ OnePlace /\ FramesFit
  BY DEF RabbitInv, DeliveryInv
<1>2. /\ probing' = probing \cup {c} /\ result[c] = None /\ UNCHANGED <<frames, result>>
  BY DEF StartProbe
<1>3. CASE alone' = {}
  BY <1>3 DEF ProbesFit, ProbeTellsApart
<1>4. ASSUME NEW m \in Messages, Deliver(c, m), Held = {m}, alone' = {c}
      PROVE  ProbesFit' /\ ProbeTellsApart'
  <2>1. m \in ready /\ ready = {m}
    BY <1>4, InHeld DEF Deliver
  <2>2. \A d \in Consumers : unacked[d] = {}
    <3>1. \A d \in Consumers : \A x \in unacked[d] : x \in {m} /\ x \notin ready
      BY <1>1, <1>4, InHeld DEF OnePlace
    <3> QED
      BY <2>1, <3>1
  <2>3. /\ ready' = {} /\ pc'[c] = "processing"
        /\ unacked'[c] = IF c \in Buggy THEN {} ELSE {m}
        /\ \A d \in Consumers \ {c} : unacked'[d] = {}
    BY <1>1, <1>4, <2>1, <2>2 DEF Deliver, AutoAck, Goto, TypeOK
  <2>4. \A i \in DOMAIN frames'[c] : FALSE
    BY <1>1, <1>2, <2>2 DEF FramesFit
  <2>5. ProbeFits(c)'
    BY <1>2, <2>3, <2>4 DEF ProbeFits
  <2> QED
    BY <1>2, <1>4, <2>5 DEF ProbesFit, ProbeTellsApart
<1> QED
  BY <1>3, <1>4 DEF StartProbe

\* The frames of a probe put back what the broker holds for it.
LEMMA ProbeBroker ==
  ASSUME RabbitInv, NEW c \in alone, NEW d \in Consumers, Broker(d)
  PROVE  ProbeFits(c)'
<1>1. /\ TypeOK /\ OnePlace /\ FramesFit /\ ProbeFits(c) /\ c \in Consumers
      /\ UNCHANGED <<pc, probing>>
  BY DEF RabbitInv, DeliveryInv, ProbesFit, TypeOK, Broker, BrokerTakes, BrokerRequeues, probe
<1>2. CASE BrokerTakes(d)
  <2>1. frames[d] \in Seq(Frames) /\ frames[d] # <<>> /\ 1 \in DOMAIN frames[d]
    BY <1>1, <1>2 DEF BrokerTakes, TypeOK
  <2>2. frames[d][1].message \in unacked[d] /\ Head(frames[d]) = frames[d][1]
    BY <1>1, <2>1 DEF FramesFit
  <2>3. d = c
    BY <1>1, <2>2 DEF ProbeFits
  <2>4. frames[c][1].kind = "nack"
    BY <1>1, <2>1, <2>3 DEF ProbeFits
  <2>5. /\ ready' \cup unacked'[c] = ready \cup unacked[c]
        /\ \A e \in Consumers \ {c} : unacked'[e] = unacked[e]
        /\ frames'[c] = Tail(frames[c])
    BY <1>1, <1>2, <2>2, <2>3, <2>4 DEF BrokerTakes, TypeOK
  <2>6. \A i \in DOMAIN Tail(frames[c]) :
          i + 1 \in DOMAIN frames[c] /\ Tail(frames[c])[i] = frames[c][i + 1]
    BY <2>1, <2>3, TailFacts
  <2> QED
    BY <1>1, <2>5, <2>6 DEF ProbeFits
<1>3. CASE BrokerRequeues(d)
  <2>1. /\ ready' = ready \cup unacked[d] /\ unacked'[d] = {} /\ frames'[d] = <<>>
        /\ \A e \in Consumers \ {d} : unacked'[e] = unacked[e] /\ frames'[e] = frames[e]
    BY <1>1, <1>3 DEF BrokerRequeues, TypeOK
  <2>2. CASE d = c
    BY <1>1, <2>1, <2>2 DEF ProbeFits
  <2>3. CASE d # c
    <3>1. unacked[d] = {}
      BY <1>1, <2>3 DEF ProbeFits
    <3> QED
      BY <1>1, <2>1, <2>3, <3>1 DEF ProbeFits
  <2> QED
    BY <2>2, <2>3
<1> QED
  BY <1>2, <1>3 DEF Broker

\* A probe raises, gives its message back and polls; it never acks.
LEMMA ProbeWorks ==
  ASSUME RabbitInv, NEW c \in alone, NEW d \in Consumers, Working(d)
  PROVE  ProbeFits(c)'
<1>1. TypeOK /\ ProbeFits(c) /\ c \in Consumers /\ UNCHANGED <<ready, unacked>>
  BY DEF RabbitInv, DeliveryInv, ProbesFit, TypeOK, Working, broker, ProcessorSucceeds, ProcessorRaises,
         Interrupted, SendAck, SendNack, PollAnswers, PollDeadline, PollRaises
<1>2. /\ \E p : pc' = [pc EXCEPT ![d] = p]
      /\ probing' \in {probing, probing \ {d}}
      /\ \/ frames' = frames
         \/ \E g : frames' = [frames EXCEPT ![d] = g]
  BY DEF Working, broker, probe, ProcessorSucceeds, ProcessorRaises, Interrupted, SendAck, SendNack,
         PollAnswers, PollDeadline, PollRaises, EndProbe, Leave, Goto, Send
<1>3. CASE d # c
  <2>1. pc'[c] = pc[c] /\ frames'[c] = frames[c] /\ (c \in probing' <=> c \in probing)
    BY <1>1, <1>2, <1>3 DEF TypeOK
  <2> QED
    BY <1>1, <2>1, ProbeUntouched
<1>4. CASE d = c
  <2>1. CASE ProcessorSucceeds(c) \/ SendAck(c)
    BY <1>1, <2>1 DEF ProbeFits, ProcessorSucceeds, SendAck
  <2>2. CASE Interrupted(c) \/ PollAnswers(c) \/ PollDeadline(c) \/ PollRaises(c)
    <3>1. pc'[c] = "idle" /\ UNCHANGED frames
      BY <1>1, <2>2 DEF Interrupted, PollAnswers, PollDeadline, PollRaises, EndProbe, Goto, TypeOK, broker
    <3> QED
      BY <1>1, <3>1, ProbeOver
  <2>3. CASE ProcessorRaises(c)
    <3>1. /\ pc[c] = "processing" /\ UNCHANGED <<frames, probing>>
          /\ pc'[c] \in {"giveback", IF c \in probing THEN "poll" ELSE "idle"}
      BY <1>1, <2>3 DEF ProcessorRaises, Leave, Goto, TypeOK, broker, probe
    <3> QED
      BY <1>1, <3>1 DEF ProbeFits
  <2>4. CASE SendNack(c)
    <3>1. /\ pc[c] = "giveback" /\ UNCHANGED probing
          /\ pc'[c] = IF c \in probing THEN "poll" ELSE "idle"
      BY <1>1, <2>4 DEF SendNack, Leave, Goto, TypeOK, probe
    <3> DEFINE g == [kind |-> "nack", message |-> cur[c]]
    <3>2. g.kind = "nack"
      OBVIOUS
    <3> HIDE DEF g
    <3>3. frames[c] \in Seq(Frames) /\ frames'[c] \in {frames[c], Append(frames[c], g)}
      BY <1>1, <2>4 DEF SendNack, Send, TypeOK, g
    <3>4. /\ Append(frames[c], g)[Len(frames[c]) + 1] = g
          /\ DOMAIN Append(frames[c], g) = DOMAIN frames[c] \cup {Len(frames[c]) + 1}
          /\ \A i \in DOMAIN frames[c] : Append(frames[c], g)[i] = frames[c][i]
      BY <3>3
    <3>5. \A i \in DOMAIN frames'[c] : frames'[c][i].kind = "nack"
      BY <1>1, <3>2, <3>3, <3>4 DEF ProbeFits
    <3> QED
      BY <1>1, <3>1, <3>5 DEF ProbeFits
  <2> QED
    BY <1>4, <2>1, <2>2, <2>3, <2>4 DEF Working
<1> QED
  BY <1>3, <1>4

\* The count a probe returns is of the one message, or of none.
LEMMA ProbeCounts ==
  ASSUME RabbitInv, NEW d \in Consumers, Working(d)
  PROVE  ProbeTellsApart'
<1>1. TypeOK /\ ProbesFit /\ ProbeTellsApart
  BY DEF RabbitInv, DeliveryInv
<1>2. alone' = alone /\ alone \subseteq Consumers /\ late \subseteq late'
  BY <1>1 DEF Working, probe, ProcessorSucceeds, ProcessorRaises, Interrupted, SendAck, SendNack,
              PollAnswers, PollDeadline, PollRaises, TypeOK
<1>3. CASE UNCHANGED result
  BY <1>1, <1>2, <1>3 DEF ProbeTellsApart
<1>4. CASE PollAnswers(d)
  <2>1. ready # {} /\ result' = [result EXCEPT ![d] = Cardinality(ready)]
    BY <1>4 DEF PollAnswers, EndProbe
  <2>2. ASSUME d \in alone
        PROVE  d \notin Buggy /\ \E m : ready = {m}
    <3>1. IF d \in Buggy THEN ready \cup unacked[d] = {}
          ELSE \E m \in Messages : ready \cup unacked[d] = {m}
      BY <1>1, <2>2 DEF ProbesFit, ProbeFits
    <3>2. d \notin Buggy
      BY <2>1, <3>1
    <3>3. PICK m \in Messages : ready \cup unacked[d] = {m}
      BY <3>1, <3>2
    <3>4. ready = {m}
      BY <2>1, <3>3
    <3> QED
      BY <3>2, <3>4
  <2>3. d \in alone => d \notin Buggy /\ Cardinality(ready) = 1
    BY <2>2, FS_Singleton
  <2> QED
    BY <1>1, <1>2, <2>1, <2>3 DEF ProbeTellsApart, TypeOK
<1>5. CASE PollDeadline(d)
  <2>1. result' = [result EXCEPT ![d] = 0] /\ d \in late'
    BY <1>5 DEF PollDeadline, EndProbe
  <2> QED
    BY <1>1, <1>2, <2>1 DEF ProbeTellsApart, TypeOK
<1> QED
  BY <1>3, <1>4, <1>5
  DEF Working, probe, ProcessorSucceeds, ProcessorRaises, Interrupted, SendAck, SendNack, PollRaises

LEMMA ProbesStep ==
  ASSUME RabbitInv, [Next]_vars
  PROVE  ProbesFit' /\ ProbeTellsApart'
<1>1. TypeOK /\ ProbesFit /\ ProbeTellsApart /\ alone \subseteq Consumers
  BY DEF RabbitInv, DeliveryInv, TypeOK
<1>2. CASE (\E m \in Messages : Publish(m)) \/ (\E c \in Consumers : Get(c))
  BY <1>2 DEF Publish, Get, ProbesFit, ProbeTellsApart
<1>3. ASSUME NEW c \in Consumers, Broker(c)
      PROVE  ProbesFit' /\ ProbeTellsApart'
  <2>1. UNCHANGED <<alone, result, late>>
    BY <1>3 DEF Broker, BrokerTakes, BrokerRequeues, probe
  <2> QED
    BY <1>1, <1>3, <2>1, ProbeBroker DEF ProbesFit, ProbeTellsApart
<1>4. ASSUME NEW d \in Consumers, Break(d) \/ Reconnect(d)
      PROVE  ProbesFit' /\ ProbeTellsApart'
  <2>1. UNCHANGED <<alone, result, late, ready, unacked, frames>>
    BY <1>4 DEF Break, Reconnect, broker, probe
  <2>2. ASSUME NEW c \in alone
        PROVE  ProbeFits(c)'
    <3>1. \/ pc'[c] = pc[c] /\ (c \in probing' <=> c \in probing)
          \/ pc'[c] = "idle"
      BY <1>1, <1>4 DEF Break, Reconnect, probe, TypeOK
    <3> QED
      BY <1>1, <2>1, <3>1, ProbeUntouched, ProbeOver DEF ProbesFit
  <2> QED
    BY <1>1, <2>1, <2>2 DEF ProbesFit, ProbeTellsApart
<1>5. ASSUME NEW c \in Consumers, Working(c)
      PROVE  ProbesFit' /\ ProbeTellsApart'
  <2>1. alone' = alone
    BY <1>5 DEF Working, probe, ProcessorSucceeds, ProcessorRaises, Interrupted, SendAck, SendNack,
                PollAnswers, PollDeadline, PollRaises
  <2> QED
    BY <1>5, <2>1, ProbeWorks, ProbeCounts DEF ProbesFit
<1>6. CASE UNCHANGED vars
  BY <1>1, <1>6 DEF vars, broker, probe, ProbesFit, ProbeFits, ProbeTellsApart
<1> QED
  BY <1>2, <1>3, <1>4, <1>5, <1>6, ProbeBegins DEF Next

LEMMA RabbitInvariance == Spec => []RabbitInv
<1>1. Init => RabbitInv
  BY RabbitAssumption
  DEF Init, RabbitInv, DeliveryInv, TypeOK, OnePlace, FramesFit, HandFits, InHand, Kept, Held,
      ProbesFit, ProbeTellsApart
<1>2. RabbitInv /\ [Next]_vars => RabbitInv'
  BY DeliveryStep, ProbesStep DEF RabbitInv
<1> QED
  BY <1>1, <1>2, PTL DEF Spec

\* A queue with acking consumers delivers at least once: nothing published is
\* let go before a processor has finished it.
THEOREM AckingDeliversAtLeastOnce ==
  ASSUME Buggy = {}
  PROVE  Spec => AtLeastOnceDelivery
<1>1. Init => Promise!Init
  BY DEF Init, Promise!Init, Held
<1>2. RabbitInv /\ [Next]_vars => [Promise!Next]_Promise!vars
  BY DeliveryStep DEF Promise!vars, RabbitInv
<1> QED
  BY <1>1, <1>2, RabbitInvariance, PTL DEF Spec, Promise!Spec, AtLeastOnceDelivery

\* Two consumers with their connections up never work on the same message,
\* buggy ones included: what they auto-ack the broker hands to nobody else.
THEOREM OneWorker == Spec => []OneWorkerPerMessage
<1>1. RabbitInv => OneWorkerPerMessage
  <2> SUFFICES ASSUME RabbitInv, NEW c \in Consumers, NEW d \in Consumers,
                      c # d, InHand(c), InHand(d), cur[c] = cur[d], up[c], up[d]
               PROVE  FALSE
    BY DEF OneWorkerPerMessage
  <2>1. OnePlace /\ HandFits
    BY DEF RabbitInv, DeliveryInv
  <2>2. \A e \in Consumers : InHand(e) /\ up[e] =>
          IF e \in Buggy THEN cur[e] \notin Held ELSE cur[e] \in unacked[e]
    BY <2>1 DEF HandFits
  <2>3. CASE c \in Buggy /\ d \in Buggy
    BY <2>1, <2>3 DEF HandFits
  <2>4. CASE c \notin Buggy \/ d \notin Buggy
    BY <2>1, <2>2, <2>4, InHeld DEF OnePlace
  <2> QED
    BY <2>3, <2>4
<1> QED
  BY <1>1, RabbitInvariance, PTL

\* What a probe returns for a message nobody else touches tells an acking
\* consumer from a buggy one, however often it was interrupted or cut off
\* before and whoever else is connected.
THEOREM ProbesTellApart == Spec => []ProbeTellsApart
<1>1. RabbitInv => ProbeTellsApart
  BY DEF RabbitInv
<1> QED
  BY <1>1, RabbitInvariance, PTL

\* Every variable stays within its type.
THEOREM TypeCorrect == Spec => []TypeOK
<1>1. RabbitInv => TypeOK
  BY DEF RabbitInv, DeliveryInv
<1> QED
  BY <1>1, RabbitInvariance, PTL

=============================================================================
