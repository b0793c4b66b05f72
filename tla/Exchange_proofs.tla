---------------------------- MODULE Exchange_proofs ----------------------------
(***************************************************************************)
(* What an anchor computes a range from belongs to one exchange, the       *)
(* answers to a POLL keep apart, a POLL is ranged at most once, and        *)
(* Ranging implements TwoWayRanging: for any number of tags, anchors and   *)
(* restarts, any radio and any length of a run, as long as every loop()    *)
(* answers an event before the next one happens (Prompt).  Without that    *)
(* the first is false.                                                     *)
(*                                                                         *)
(* The stamps meet over three frames, so the invariant (Together) says of  *)
(* every frame that still has an effect to come (InAir) what the tables of *)
(* its sender and its receiver hold meanwhile: an anchor that answers has  *)
(* noted the POLL the tag has noted (OnePoll), a tag that hears an answer  *)
(* hears the one the anchor has noted (OneAck), and a RANGE carries what   *)
(* the anchor has (OneRange).  What loop() has not noted yet of the frame  *)
(* just sent is read from the chip (Asked, Acked, Settled).  A new         *)
(* exchange of a tag begins when nothing of the last one is in the air,    *)
(* for the timer ticks once in a period (OneFamily), and the slots keep    *)
(* its answers from being sent at once (InSlots).                          *)
(*                                                                         *)
(* That a POLL is ranged once needs that stamps are newer than what was    *)
(* ranged before (Aging), and the refinement also what a tag has noted of  *)
(* the frames it has sent (Current): the POLL it last sent is newer than   *)
(* those its table holds, and every device that a RANGE in the air names   *)
(* is answered and reported, or forgotten.                                 *)
(*                                                                         *)
(* That the sender of a RANGE is known needs that its anchor lists it, and *)
(* lists it as active, for as long as a frame of the exchange is in the    *)
(* air (Cached), and that a sweep drops inactive devices only (Sweeps).    *)
(***************************************************************************)
EXTENDS Ranging_proofs

(* The frame node m has heard and not handled yet is rxFrame[m].           *)
Hears(m) == receivedAck[m] \/ pc[m] \in {"get", "handle"}

(* The frames that still have an effect to come.                           *)
Underway == {pending[n].frame : n \in {m \in Node : Transmitting(m)}}
Heard == {rxFrame[m] : m \in {k \in Node : Hears(k)}}
InAir == Underway \cup Heard

(* Tag g asks and is answered, or meets an anchor.                         *)
Asking(g, f) == \/ f.type \in {"POLL", "RANGE"} /\ f.src = g
                \/ f.type = "POLL_ACK" /\ f.dst = g
Meeting(g, f) == \/ f.type = "BLINK" /\ f.src = g
                 \/ f.type = "RANGING_INIT" /\ f.dst = g

(* What table t says of the device with address x.                         *)
PollsSent(t, x) == {t.dev[i].pollSent : i \in SlotsOf(t, x)}
PollsReceived(t, x) == {t.dev[i].pollReceived : i \in SlotsOf(t, x)}
AcksSent(t, x) == {t.dev[i].ackSent : i \in SlotsOf(t, x)}
PollsRanged(t, x) == {t.dev[i].round1.poll : i \in SlotsOf(t, x)}
AllServed(t) == \A i \in Used(t) : t.dev[i].acked => t.dev[i].served

(* The same, once loop() has noted the frame just sent; a deaf tag is not  *)
(* answered any more.                                                      *)
Unnoted(n, type) == sentAck[n] /\ sentData[n].type = type

Asked(g, a) == IF deaf[g] THEN {}
               ELSE IF Unnoted(g, "POLL") THEN {txStamp[g]} ELSE PollsSent(table[g], a)
Settled(g) == deaf[g] \/ Unnoted(g, "POLL") \/ AllServed(table[g])
Taken(a, g) == PollsReceived(table[a], g)
Acked(a, g) == IF Unnoted(a, "POLL_ACK") /\ sentData[a].dst = g
               THEN {txStamp[a]} ELSE AcksSent(table[a], g)
Ranged(a, g) == PollsRanged(table[a], g)

Answering(a, g) ==
  /\ Transmitting(a)
  /\ pending[a].frame.type = "POLL_ACK" /\ pending[a].frame.dst = g
Reporting(g) == Transmitting(g) /\ pending[g].frame.type = "RANGE"

Chip == \A n \in Node :
  /\ pending[n] = Off \/ /\ Transmitting(n)
                         /\ pending[n].frame = sentData[n] /\ sentData[n].src = n
  /\ pc[n] \notin {"top", "recv"} => NoFlag(n)
  /\ pc[n] = "recv" => ~sentAck[n]
  /\ pc[n] = "off" => pending[n] = Off
  /\ pc[n] = "handle" => data[n] = rxFrame[n]
  /\ ~(sentAck[n] /\ receivedAck[n])
  /\ deaf[n] => n \in Tags /\ ~sentAck[n] /\ ~Hears(n)

OneFrame ==
  /\ \A f \in Heard : f.src \in Node /\ ~Transmitting(f.src)
  /\ \A e, f \in Heard : e = f
  /\ \A m \in Node : Hears(m) => rxFrame[m].src # m

OneFamily == \A g \in Tags :
  /\ due[g] => \A f \in InAir : ~Asking(g, f) /\ ~Meeting(g, f)
  /\ \A e, f \in InAir : ~(Asking(g, e) /\ Meeting(g, f))
  /\ Transmitting(g) /\ pending[g].frame.type = "POLL" =>
       \A f \in InAir : Asking(g, f) => f = pending[g].frame

OnePoll ==
  /\ \A f \in InAir : f.type = "POLL_ACK" =>
       /\ Settled(f.dst)
       /\ \A x \in Asked(f.dst, f.src), y \in Taken(f.src, f.dst) : x = y
  /\ \A f \in Heard : f.type = "POLL" =>
       /\ Settled(f.src)
       /\ \A a \in Anchors : Asked(f.src, a) \subseteq {Stamp(f)}

OneAck == \A f \in Heard : f.type = "POLL_ACK" => Acked(f.src, f.dst) \subseteq {Stamp(f)}

OneRange == \A f \in InAir : f.type = "RANGE" => \A a \in DOMAIN f.devices :
  /\ Taken(a, f.src) \subseteq {f.devices[a].poll}
  /\ Acked(a, f.src) \subseteq {f.devices[a].ack}
  /\ ~Answering(a, f.src)

Gap == 2 * DEFAULT_REPLY_DELAY_TIME
Whole(x) == \E k \in Int : x = k * Gap

InSlots ==
  /\ \A f \in InAir : f.type = "POLL" =>
       /\ \A a \in DOMAIN f.devices : Whole(f.devices[a] - DEFAULT_REPLY_DELAY_TIME)
       /\ \A a, b \in DOMAIN f.devices : f.devices[a] = f.devices[b] => a = b
  /\ \A f \in Heard, a \in Node : f.type = "POLL" /\ Answering(a, f.src) =>
       a \in DOMAIN f.devices /\ pending[a].wait = f.devices[a]
  /\ \A g \in Tags, a, b \in Node : Answering(a, g) /\ Answering(b, g) =>
       Whole(pending[a].wait - pending[b].wait) /\ (pending[a].wait = pending[b].wait => a = b)
  /\ \A g \in Tags, a \in Node : Answering(a, g) /\ Reporting(g) =>
       Whole(pending[a].wait - pending[g].wait - DEFAULT_REPLY_DELAY_TIME)
  /\ \A f \in Heard, a \in Node : f.type = "POLL_ACK" /\ Answering(a, f.dst) =>
       Whole(pending[a].wait)

(* A POLL is ranged once: stamp s of a POLL of tag g is older than its     *)
(* sequence number q; a POLL under way is newer than any ranged, or taken  *)
(* by an anchor that is still to take this one; and what an answer or a    *)
(* report is about is not ranged yet.                                      *)
Before(g, s, q) == s = NoStamp \/ (s[1] = g /\ s[2] < q)

Unranged(f) ==
  /\ f.type = "POLL" => /\ f.seq < seq[f.src]
                        /\ \A a \in Anchors : \A s \in Ranged(a, f.src) : Before(f.src, s, f.seq)
                        /\ \A a \in Anchors : Hears(a) \/ Transmitting(f.src) =>
                             \A s \in Taken(a, f.src) : Before(f.src, s, f.seq)
  /\ f.type = "POLL_ACK" => Taken(f.src, f.dst) \cap Ranged(f.src, f.dst) = {}
  /\ f.type = "RANGE" => \A a \in DOMAIN f.devices :
       Hears(a) \/ Transmitting(f.src) => f.devices[a].poll \notin Ranged(a, f.src)

Noticed(a, g) == Taken(a, g) \cup Ranged(a, g)

Aging ==
  /\ \A g \in Tags, a \in Anchors : \A s \in Noticed(a, g) : Before(g, s, seq[g])
  /\ \A g \in Tags, a \in Anchors : NoStamp \notin Taken(a, g)
  /\ \A f \in InAir : Unranged(f)

(* No sequence number has come round to the first again.                   *)
NoWrap == \A n \in Node : seq[n] < SEQ_MOD - 1

Together == Chip /\ OneFrame /\ OneFamily /\ OnePoll /\ OneAck /\ OneRange /\ InSlots

---------------------------------------------------------------------------
(* Tables *)

(* Two devices say the same of the exchange.                               *)
Same(d, e) ==
  /\ d.addr = e.addr /\ d.pollSent = e.pollSent /\ d.acked = e.acked /\ d.served = e.served
  /\ d.pollReceived = e.pollReceived /\ d.ackSent = e.ackSent /\ d.round1 = e.round1

Inherits(u, t) == \A j \in Used(u) : \E i \in Used(t) : Same(u.dev[j], t.dev[i])

(* Table u says nothing of an exchange that table t does not say.          *)
Narrows(u, t) ==
  /\ \A x : /\ PollsSent(u, x) \subseteq PollsSent(t, x)
            /\ PollsReceived(u, x) \subseteq PollsReceived(t, x)
            /\ AcksSent(u, x) \subseteq AcksSent(t, x)
            /\ PollsRanged(u, x) \subseteq PollsRanged(t, x)
  /\ AllServed(t) => AllServed(u)

LEMMA InheritsNarrows ==
  ASSUME NEW t, NEW u, Inherits(u, t)
  PROVE  Narrows(u, t)
<1>1. ASSUME NEW x, NEW j \in SlotsOf(u, x)
      PROVE  \E i \in SlotsOf(t, x) : Same(u.dev[j], t.dev[i])
  BY <1>1 DEF Inherits, SlotsOf, Same
<1>2. \A x : PollsSent(u, x) \subseteq PollsSent(t, x)
  BY <1>1 DEF PollsSent, Same
<1>3. \A x : PollsReceived(u, x) \subseteq PollsReceived(t, x)
  BY <1>1 DEF PollsReceived, Same
<1>4. \A x : AcksSent(u, x) \subseteq AcksSent(t, x)
  BY <1>1 DEF AcksSent, Same
<1>5. \A x : PollsRanged(u, x) \subseteq PollsRanged(t, x)
  BY <1>1 DEF PollsRanged, Same
<1>6. AllServed(t) => AllServed(u)
  BY DEF AllServed, Inherits, Same
<1> QED
  BY <1>2, <1>3, <1>4, <1>5, <1>6 DEF Narrows

LEMMA SameItself == \A t : Narrows(t, t)
  BY DEF Narrows

LEMMA EmptyNarrows ==
  ASSUME NEW n \in Node, NEW t
  PROVE  Narrows(EmptyTable(n), t)
<1>1. Used(EmptyTable(n)) = {}
  BY EmptyTableGood, MaxDevicesAssumption DEF Used, Slot
<1> QED
  BY <1>1, InheritsNarrows DEF Inherits

LEMMA AgedNarrows ==
  ASSUME NEW n \in Node, NEW t, Good(n, t)
  PROVE  /\ Narrows(Aged(t), t)
         /\ Used(Aged(t)) = Used(t) /\ \A i \in Used(t) : Same(Aged(t).dev[i], t.dev[i])
<1>1. t.dev \in [Slot -> Device(n)] /\ t = [dev |-> t.dev, num |-> t.num]
  BY DEF Good, TableOf
<1>2. Aged(t).num = t.num
  BY AgedGood
<1>3. Used(Aged(t)) = Used(t) /\ Used(t) \subseteq Slot
  BY <1>2 DEF Used
<1>4. \A i \in Slot : Aged(t).dev[i] = [t.dev[i] EXCEPT !.age = Older(@)]
  BY <1>1 DEF Aged
<1>5. \A i \in Slot : t.dev[i] \in Device(n)
  BY <1>1
<1>6. \A i \in Slot : Same(Aged(t).dev[i], t.dev[i])
  BY <1>4, <1>5 DEF Same, Device
<1> QED
  BY <1>3, <1>6, InheritsNarrows DEF Inherits

(* Putting a device into a slot changes its index only.                    *)
LEMMA PutSame ==
  ASSUME NEW n \in Node, NEW t, Good(n, t), NEW d \in Device(n), NEW i \in Slot
  PROVE  /\ Same(Put(t, i, d)[i], d)
         /\ \A j \in Slot \ {i} : Put(t, i, d)[j] = t.dev[j]
<1>1. t.dev \in [Slot -> Device(n)]
  BY DEF Good, TableOf
<1> DEFINE e == [d EXCEPT !.index = i]
<1>2. Same(e, d)
  BY DEF Same, Device
<1>3. Put(t, i, d) = [t.dev EXCEPT ![i] = e]
  BY DEF Put
<1> HIDE DEF e
<1> QED
  BY <1>1, <1>2, <1>3

LEMMA RemoveInherits ==
  ASSUME NEW n \in Node, NEW t, Good(n, t), NEW i \in Slot, t.num > 0
  PROVE  Inherits(RemoveNetworkDevice(t, i), t)
<1>1. t.dev \in [Slot -> Device(n)] /\ t.num \in Count
  BY DEF Good, TableOf
<1> DEFINE k == t.num - 1
           u == RemoveNetworkDevice(t, i)
<1>2. k \in Used(t) /\ k \in Slot
  BY <1>1, MaxDevicesAssumption DEF Slot, Count, Used
<1>3. Used(u) \subseteq Used(t)
  BY <1>1 DEF RemoveNetworkDevice, Used, Slot, Count
<1>4. \A j \in Slot : Same(u.dev[j], t.dev[j]) \/ Same(u.dev[j], t.dev[k])
  <2>1. CASE i = k
    BY <2>1 DEF RemoveNetworkDevice, Same
  <2>2. CASE i # k
    <3>1. u.dev = Put(t, i, t.dev[k])
      BY <2>2 DEF RemoveNetworkDevice
    <3>2. t.dev[k] \in Device(n)
      BY <1>1, <1>2
    <3>3. /\ Same(Put(t, i, t.dev[k])[i], t.dev[k])
          /\ \A j \in Slot \ {i} : Put(t, i, t.dev[k])[j] = t.dev[j]
      BY <3>2, PutSame
    <3> QED
      BY <3>1, <3>3 DEF Same
  <2> QED
    BY <2>1, <2>2
<1> HIDE DEF u, k
<1>5. Inherits(u, t)
  BY <1>2, <1>3, <1>4 DEF Inherits, Used
<1> QED
  BY <1>5 DEF u

(* addNetworkDevices adds at most the device it is given.                  *)
LEMMA AddSame ==
  ASSUME NEW n \in Node, NEW t, Good(n, t), NEW d \in Device(n),
         NEW u \in AddNetworkDevice(t, d)
  PROVE  \A j \in Used(u) : Same(u.dev[j], d) \/ \E i \in Used(t) : Same(u.dev[j], t.dev[i])
<1>1. t.dev \in [Slot -> Device(n)] /\ t.num \in Count
  BY DEF Good, TableOf
<1>2. \A i \in Slot : Same(t.dev[i], t.dev[i])
  BY DEF Same
<1>3. CASE d.addr \in Listed(t)
  BY <1>2, <1>3 DEF AddNetworkDevice, Used
<1>4. CASE d.addr \notin Listed(t)
  <2>1. PICK w \in Slot : /\ u.dev = Put(t, w, d)
                          /\ \A j \in Used(u) : j \in Used(t) \/ j = w
    <3>1. CASE t.num < MAX_DEVICES
      <4>1. t.num \in Slot
        BY <1>1, <3>1, MaxDevicesAssumption DEF Slot, Count
      <4>2. u = [dev |-> Put(t, t.num, d), num |-> t.num + 1]
        BY <1>4, <3>1 DEF AddNetworkDevice
      <4>3. \A j \in Used(u) : j \in Used(t) \/ j = t.num
        BY <1>1, <4>2 DEF Used, Slot, Count
      <4> QED
        BY <4>1, <4>2, <4>3
    <3>2. CASE ~(t.num < MAX_DEVICES)
      <4>1. PICK w \in Slot : u = [t EXCEPT !.dev = Put(t, w, d)]
        BY <1>4, <3>2 DEF AddNetworkDevice, Used
      <4>2. u.dev = Put(t, w, d) /\ u.num = t.num
        BY <4>1 DEF Good, TableOf
      <4> QED
        BY <4>2 DEF Used
    <3> QED
      BY <3>1, <3>2
  <2>2. Same(u.dev[w], d) /\ \A j \in Slot \ {w} : u.dev[j] = t.dev[j]
    BY <2>1, PutSame
  <2> QED
    BY <1>2, <2>1, <2>2 DEF Used
<1> QED
  BY <1>3, <1>4

---------------------------------------------------------------------------
(* Frames *)

LEMMA FrameNodes ==
  ASSUME NEW f \in Frame
  PROVE  /\ f.type \in {"POLL", "RANGE"} => f.src \in Tags /\ DOMAIN f.devices \subseteq Anchors
         /\ f.type = "BLINK" => f.src \in Tags
         /\ f.type \in {"POLL_ACK", "RANGING_INIT"} => f.src \in Anchors /\ f.dst \in Tags
<1>1. CASE f = NoFrame
  BY <1>1 DEF NoFrame
<1>2. CASE f \in Blinks
  BY <1>2 DEF Blinks
<1>3. CASE f \in Answers
  BY <1>3 DEF Answers
<1>4. ASSUME NEW D \in SUBSET Anchors, f \in Polls(D) \/ f \in Ranges(D)
      PROVE  f.type \in {"POLL", "RANGE"} /\ f.src \in Tags /\ DOMAIN f.devices \subseteq Anchors
  BY <1>4 DEF Polls, Ranges
<1> QED
  BY <1>1, <1>2, <1>3, <1>4, FrameCases

LEMMA InAirFrames ==
  ASSUME Inv
  PROVE  InAir \subseteq Frame
  BY DEF Inv, Sending, Receiving, Transmission, InAir, Underway, Heard

LEMMA OffSilent == ~(Off.wait >= 0)
  BY DEF Off

LEMMA SentBySource ==
  ASSUME Chip, NEW n \in Node, Transmitting(n)
  PROVE  pending[n].frame.src = n /\ pending[n].frame = sentData[n]
  BY OffSilent DEF Chip, Transmitting

LEMMA CalmSilent ==
  ASSUME Inv, Chip, Calm
  PROVE  \A n \in Node : NoFlag(n) /\ ~Hears(n)
<1>1. \A n \in Node : pc[n] = "off" \/ (pc[n] = "top" /\ NoFlag(n))
  BY DEF Calm, On
<1> QED
  BY <1>1 DEF Chip, Hears, NoFlag

---------------------------------------------------------------------------
(* Steps after which there is less in the air and less noted *)

LessInAir ==
  /\ \A n \in Node : pending'[n] = pending[n] \/ pending'[n] = Off
  /\ \A m \in Node : Hears(m)' => Hears(m) /\ rxFrame'[m] = rxFrame[m]
  /\ \A g \in Node : due'[g] => due[g]

LessNoted ==
  /\ \A g \in Tags : Settled(g) => Settled(g)'
  /\ \A g \in Tags, a \in Anchors :
       /\ Asked(g, a)' \subseteq Asked(g, a)
       /\ Taken(a, g)' \subseteq Taken(a, g)
       /\ Acked(a, g)' \subseteq Acked(a, g)
       /\ Ranged(a, g)' \subseteq Ranged(a, g)

(* What is noted of the exchanges that are under way.                      *)
LessAgreed == \A g \in Tags : (\E h \in InAir : Asking(g, h)) =>
  /\ Settled(g) => Settled(g)'
  /\ \A a \in Anchors : /\ Asked(g, a)' \subseteq Asked(g, a)
                        /\ Taken(a, g)' \subseteq Taken(a, g)
                        /\ Acked(a, g)' \subseteq Acked(a, g)

LEMMA LessInAirFacts ==
  ASSUME LessInAir
  PROVE  /\ Heard' \subseteq Heard /\ InAir' \subseteq InAir
         /\ \A n \in Node : Transmitting(n)' => Transmitting(n) /\ pending'[n] = pending[n]
         /\ \A a, g \in Node : Answering(a, g)' => Answering(a, g)
<1>1. \A n \in Node : Transmitting(n)' => Transmitting(n) /\ pending'[n] = pending[n]
  BY OffSilent DEF LessInAir, Transmitting
<1>2. Underway' \subseteq Underway
  BY <1>1 DEF Underway
<1>3. Heard' \subseteq Heard
  BY DEF Heard, LessInAir
<1>4. \A a, g \in Node : Answering(a, g)' => Answering(a, g)
  BY <1>1 DEF Answering
<1> QED
  BY <1>1, <1>2, <1>3, <1>4 DEF InAir

LEMMA LessTogether ==
  ASSUME Inv, Together, LessInAir, LessAgreed
  PROVE  OneFrame' /\ OneFamily' /\ OnePoll' /\ OneAck' /\ OneRange' /\ InSlots'
<1> USE DEF Together
<1>1. /\ Heard' \subseteq Heard /\ InAir' \subseteq InAir
      /\ \A n \in Node : Transmitting(n)' => Transmitting(n) /\ pending'[n] = pending[n]
      /\ \A a, g \in Node : Answering(a, g)' => Answering(a, g)
  BY LessInAirFacts
<1>2. /\ Tags \subseteq Node /\ Anchors \subseteq Node /\ Heard \subseteq InAir
      /\ \A a, g \in Node : Answering(a, g)' => pending'[a] = pending[a]
  BY <1>1 DEF Node, InAir, Answering
<1>3. \A f \in InAir :
        /\ f.type \in {"POLL", "RANGE"} => f.src \in Tags /\ DOMAIN f.devices \subseteq Anchors
        /\ f.type = "POLL_ACK" => f.src \in Anchors /\ f.dst \in Tags
  BY InAirFrames, FrameNodes
<1>4. OneFrame'
  <2>1. \A f \in Heard' : f.src \in Node /\ ~Transmitting(f.src)'
    BY <1>1 DEF OneFrame
  <2>2. \A m \in Node : Hears(m)' => rxFrame'[m].src # m
    BY DEF OneFrame, LessInAir
  <2> QED
    BY <1>1, <2>1, <2>2 DEF OneFrame
<1>5. OneFamily'
  BY <1>1, <1>2 DEF OneFamily, LessInAir, Asking, Meeting
<1>6. OnePoll'
  <2>1. ASSUME NEW f \in InAir', f.type = "POLL_ACK"
        PROVE  /\ Settled(f.dst)'
               /\ \A x \in Asked(f.dst, f.src)', y \in Taken(f.src, f.dst)' : x = y
    BY <1>1, <1>3, <2>1 DEF OnePoll, LessAgreed, Asking
  <2>2. ASSUME NEW f \in Heard', f.type = "POLL"
        PROVE  /\ Settled(f.src)'
               /\ \A a \in Anchors : Asked(f.src, a)' \subseteq {Stamp(f)}
    BY <1>1, <1>2, <1>3, <2>2 DEF OnePoll, LessAgreed, Asking
  <2> QED
    BY <2>1, <2>2 DEF OnePoll, Stamp
<1>7. OneAck'
  <2> SUFFICES ASSUME NEW f \in Heard', f.type = "POLL_ACK"
               PROVE  Acked(f.src, f.dst)' \subseteq {Stamp(f)}
    BY DEF OneAck, Stamp
  <2> QED
    BY <1>1, <1>2, <1>3 DEF OneAck, LessAgreed, Asking
<1>8. OneRange'
  <2> SUFFICES ASSUME NEW f \in InAir', f.type = "RANGE", NEW a \in DOMAIN f.devices
               PROVE  /\ Taken(a, f.src)' \subseteq {f.devices[a].poll}
                      /\ Acked(a, f.src)' \subseteq {f.devices[a].ack}
                      /\ ~Answering(a, f.src)'
    BY DEF OneRange
  <2> QED
    BY <1>1, <1>2, <1>3 DEF OneRange, LessAgreed, Asking
<1>9. InSlots'
  <2>1. \A f \in InAir' : f.type = "POLL" =>
          /\ \A a \in DOMAIN f.devices : Whole(f.devices[a] - DEFAULT_REPLY_DELAY_TIME)
          /\ \A a, b \in DOMAIN f.devices : f.devices[a] = f.devices[b] => a = b
    BY <1>1 DEF InSlots
  <2>2. \A f \in Heard', a \in Node : f.type = "POLL" /\ Answering(a, f.src)' =>
          a \in DOMAIN f.devices /\ pending'[a].wait = f.devices[a]
    BY <1>1, <1>2, <1>3 DEF InSlots
  <2>3. \A g \in Tags, a, b \in Node : Answering(a, g)' /\ Answering(b, g)' =>
          /\ Whole(pending'[a].wait - pending'[b].wait)
          /\ pending'[a].wait = pending'[b].wait => a = b
    BY <1>1, <1>2 DEF InSlots
  <2>4. \A g \in Tags, a \in Node : Answering(a, g)' /\ Reporting(g)' =>
          Whole(pending'[a].wait - pending'[g].wait - DEFAULT_REPLY_DELAY_TIME)
    BY <1>1, <1>2 DEF InSlots, Reporting
  <2>5. \A f \in Heard', a \in Node : f.type = "POLL_ACK" /\ Answering(a, f.dst)' =>
          Whole(pending'[a].wait)
    BY <1>1, <1>2, <1>3 DEF InSlots
  <2> QED
    BY <2>1, <2>2, <2>3, <2>4, <2>5 DEF InSlots, Whole
<1> QED
  BY <1>4, <1>5, <1>6, <1>7, <1>8, <1>9

(* Node m is as it was but for what its table has lost, or begins anew.    *)
Remembers(m) ==
  /\ sentAck'[m] = sentAck[m] /\ sentData'[m] = sentData[m] /\ txStamp'[m] = txStamp[m]
  /\ deaf[m] => deaf'[m]
Forgets(m) == ~sentAck'[m] /\ Used(table'[m]) = {}

LEMMA NarrowsLess ==
  ASSUME \A m \in Node : Narrows(table'[m], table[m]) /\ (Remembers(m) \/ Forgets(m))
  PROVE  LessNoted
<1> USE DEF Node
<1>1. \A t, x : Used(t) = {} =>
        PollsSent(t, x) = {} /\ AcksSent(t, x) = {} /\ AllServed(t)
  BY DEF PollsSent, AcksSent, AllServed, SlotsOf
<1>2. ASSUME NEW g \in Tags
      PROVE  (Settled(g) => Settled(g)') /\ \A a \in Anchors : Asked(g, a)' \subseteq Asked(g, a)
  <2>1. CASE Remembers(g)
    BY <2>1 DEF Remembers, Asked, Settled, Unnoted, Narrows
  <2>2. CASE Forgets(g)
    BY <1>1, <2>2 DEF Forgets, Asked, Settled, Unnoted
  <2> QED
    BY <2>1, <2>2
<1>3. ASSUME NEW g \in Tags, NEW a \in Anchors
      PROVE  Acked(a, g)' \subseteq Acked(a, g)
  <2>1. CASE Remembers(a)
    BY <2>1 DEF Remembers, Acked, Unnoted, Narrows
  <2>2. CASE Forgets(a)
    BY <1>1, <2>2 DEF Forgets, Acked, Unnoted
  <2> QED
    BY <2>1, <2>2
<1>4. ASSUME NEW g \in Tags, NEW a \in Anchors
      PROVE  Taken(a, g)' \subseteq Taken(a, g) /\ Ranged(a, g)' \subseteq Ranged(a, g)
  BY DEF Narrows, Taken, Ranged
<1> QED
  BY <1>2, <1>3, <1>4 DEF LessNoted

LEMMA SameNoted ==
  ASSUME Inv, UNCHANGED <<table, sentAck, sentData, txStamp, deaf>>
  PROVE  LessNoted
  BY NarrowsLess, SameItself DEF Remembers

LEMMA CheckForResetLess ==
  ASSUME Inv, Together, NEW n \in Node, CheckForReset(n)
  PROVE  LessInAir /\ LessNoted /\ Chip'
<1>1. /\ pending' = [pending EXCEPT ![n] = Off]
      /\ UNCHANGED <<table, sentAck, receivedAck, sentData, data, pc, txStamp, rxFrame, deaf, due>>
  BY DEF CheckForReset, Receiver
<1>2. LessInAir
  BY <1>1 DEF LessInAir, Hears, Inv, Sending
<1>3. LessNoted
  BY <1>1, SameNoted
<1>4. Chip'
  BY <1>1, OffSilent DEF Together, Chip, Transmitting, NoFlag, Hears, Inv, Sending
<1> QED
  BY <1>2, <1>3, <1>4

LEMMA RemoveNextInactiveLess ==
  ASSUME Inv, Together, NEW n \in Node, RemoveNextInactive(n)
  PROVE  /\ LessInAir /\ LessNoted /\ Chip'
         /\ Inherits(table'[n], table[n]) /\ \A m \in Node \ {n} : table'[m] = table[m]
<1>1. PICK i \in sweep[n] : table' = [table EXCEPT ![n] = RemoveNetworkDevice(@, i)]
  BY DEF RemoveNextInactive
<1>2. /\ i \in Slot /\ Good(n, table[n]) /\ Cardinality(sweep[n]) <= table[n].num
      /\ table[n].num \in Nat /\ IsFiniteSet(sweep[n]) /\ Cardinality(sweep[n]) \in Nat
  BY <1>1, GoodNum, SlotsFinite DEF Inv, Sweeping, Tables
<1>3. Cardinality(sweep[n]) > 0
  BY <1>1, <1>2, FS_EmptySet
<1>4. table[n].num > 0
  <2> DEFINE c == Cardinality(sweep[n])
             k == table[n].num
  <2>1. c > 0 /\ c \in Nat /\ k \in Nat /\ c <= k
    BY <1>2, <1>3
  <2> HIDE DEF c, k
  <2>2. k > 0
    BY <2>1
  <2> QED
    BY <2>2 DEF k
<1>5. Inherits(RemoveNetworkDevice(table[n], i), table[n])
  BY <1>2, <1>4, RemoveInherits
<1>6. Narrows(RemoveNetworkDevice(table[n], i), table[n])
  BY <1>5, InheritsNarrows
<1>7. \A m \in Node : Narrows(table'[m], table[m])
  BY <1>1, <1>6, SameItself DEF Inv, Tables
<1>8. Inherits(table'[n], table[n]) /\ \A m \in Node \ {n} : table'[m] = table[m]
  BY <1>1, <1>5 DEF Inv, Tables
<1>9. /\ UNCHANGED <<sentData, data, due, deaf, chipVars>>
      /\ pc[n] = "sweep" /\ (pc' = [pc EXCEPT ![n] = "top"] \/ pc' = pc)
  BY DEF RemoveNextInactive, Inv, Sweeping
<1>10. LessNoted
  BY <1>7, <1>9, NarrowsLess DEF Remembers, chipVars
<1>11. LessInAir
  BY <1>9 DEF LessInAir, Hears, chipVars, Inv, Sweeping
<1>12. Chip'
  BY <1>9 DEF Together, Chip, Transmitting, NoFlag, Hears, chipVars, Inv, Sweeping
<1> QED
  BY <1>10, <1>11, <1>12, <1>8

LEMMA RecoverySelectLess ==
  ASSUME Inv, Together, NEW n \in Node, RecoverySelect(n)
  PROVE  LessInAir /\ LessNoted /\ Chip'
<1>1. /\ pending' = [pending EXCEPT ![n] = Off] /\ deaf' = [deaf EXCEPT ![n] = TRUE]
      /\ UNCHANGED <<table, sentAck, receivedAck, sentData, data, pc, txStamp, rxFrame, due>>
      /\ pc[n] = "top" /\ NoFlag(n) /\ n \in Tags
  BY DEF RecoverySelect, RecoveryDue
<1>2. LessInAir
  BY <1>1 DEF LessInAir, Hears, Inv, Sending
<1>3. LessNoted
  BY <1>1, NarrowsLess, SameItself DEF Remembers, Inv, Flags
<1>4. Chip'
  BY <1>1, OffSilent DEF Together, Chip, Transmitting, NoFlag, Hears, Inv, Sending, Flags
<1> QED
  BY <1>2, <1>3, <1>4

LEMMA NothingSentLess ==
  ASSUME Inv, Together, NEW n \in Node, NothingSent(n)
  PROVE  LessInAir /\ LessNoted /\ Chip'
<1>1. /\ pc[n] = "top" /\ ~sentAck[n] /\ pc' = [pc EXCEPT ![n] = "recv"]
      /\ UNCHANGED <<table, sentAck, receivedAck, pending, sentData, data, txStamp, rxFrame,
                     due, deaf>>
  BY DEF NothingSent, chipVars
<1>2. LessInAir
  BY <1>1 DEF LessInAir, Hears, Inv, Sweeping
<1>3. LessNoted
  BY <1>1, SameNoted
<1>4. Chip'
  BY <1>1 DEF Together, Chip, Transmitting, NoFlag, Hears, Inv, Sweeping
<1> QED
  BY <1>2, <1>3, <1>4

LEMMA CheckReceivedLess ==
  ASSUME Inv, Together, NEW n \in Node, CheckReceived(n)
  PROVE  LessInAir /\ LessNoted /\ Chip'
<1>1. /\ pc[n] = "recv"
      /\ receivedAck' = [receivedAck EXCEPT ![n] = FALSE]
      /\ pc' = [pc EXCEPT ![n] = IF receivedAck[n] THEN "get" ELSE "top"]
      /\ UNCHANGED <<table, sentAck, pending, sentData, data, txStamp, rxFrame, due, deaf>>
  BY DEF CheckReceived
<1>2. receivedAck \in [Node -> BOOLEAN]
  BY DEF Inv, Flags
<1>3. \A m \in Node : Hears(m)' => Hears(m)
  BY <1>1, <1>2 DEF Hears, Inv, Sweeping
<1>4. LessInAir
  BY <1>1, <1>3 DEF LessInAir
<1>5. LessNoted
  BY <1>1, SameNoted
<1>6. Chip'
  <2> SUFFICES ASSUME NEW m \in Node
               PROVE  /\ \/ pending'[m] = Off
                         \/ /\ Transmitting(m)'
                            /\ pending'[m].frame = sentData'[m] /\ sentData'[m].src = m
                      /\ pc'[m] \notin {"top", "recv"} => NoFlag(m)'
                      /\ pc'[m] = "recv" => ~sentAck'[m]
                      /\ pc'[m] = "off" => pending'[m] = Off
                      /\ pc'[m] = "handle" => data'[m] = rxFrame'[m]
                      /\ ~(sentAck'[m] /\ receivedAck'[m])
                      /\ deaf'[m] => m \in Tags /\ ~sentAck'[m] /\ ~Hears(m)'
    BY DEF Chip
  <2>1. CASE m # n
    BY <1>1, <1>2, <2>1 DEF Together, Chip, Transmitting, NoFlag, Hears, Inv, Sweeping
  <2>2. CASE m = n
    BY <1>1, <1>2, <1>3, <2>2 DEF Together, Chip, Transmitting, NoFlag, Inv, Sweeping
  <2> QED
    BY <2>1, <2>2
<1> QED
  BY <1>4, <1>5, <1>6

LEMMA GetDataLess ==
  ASSUME Inv, Together, NEW n \in Node, GetData(n)
  PROVE  LessInAir /\ LessNoted /\ Chip'
<1>1. /\ pc[n] = "get" /\ pc' = [pc EXCEPT ![n] = "handle"]
      /\ data' = [data EXCEPT ![n] = rxFrame[n]]
      /\ UNCHANGED <<table, sentAck, receivedAck, pending, sentData, txStamp, rxFrame, due, deaf>>
  BY DEF GetData, chipVars
<1>2. LessInAir
  BY <1>1 DEF LessInAir, Hears, Inv, Sweeping
<1>3. LessNoted
  BY <1>1, SameNoted
<1>4. Chip'
  BY <1>1 DEF Together, Chip, Transmitting, NoFlag, Hears, Inv, Sweeping, Receiving
<1> QED
  BY <1>2, <1>3, <1>4

LEMMA RestartLess ==
  ASSUME Inv, Together, NEW n \in Node, Restart(n)
  PROVE  LessInAir /\ LessNoted /\ Chip'
<1>1. /\ table' = [table EXCEPT ![n] = EmptyTable(n)]
      /\ sentData' = [sentData EXCEPT ![n] = NoFrame]
      /\ data' = [data EXCEPT ![n] = NoFrame]
      /\ pc' = [pc EXCEPT ![n] = "top"]
      /\ sentAck' = [sentAck EXCEPT ![n] = FALSE]
      /\ receivedAck' = [receivedAck EXCEPT ![n] = FALSE]
      /\ due' = [due EXCEPT ![n] = FALSE]
      /\ pending' = [pending EXCEPT ![n] = Off]
      /\ txStamp' = [txStamp EXCEPT ![n] = NoStamp]
      /\ rxFrame' = [rxFrame EXCEPT ![n] = NoFrame]
      /\ deaf' = [deaf EXCEPT ![n] = FALSE]
  BY DEF Restart
<1>2. ~Hears(n)' /\ \A m \in Node \ {n} : (Hears(m)' <=> Hears(m)) /\ rxFrame'[m] = rxFrame[m]
  BY <1>1 DEF Hears, Inv, Sweeping, Flags, Receiving
<1>3. LessInAir
  BY <1>1, <1>2 DEF LessInAir, Inv, Sending, Flags
<1>4. \A m \in Node : Narrows(table'[m], table[m])
  BY <1>1, EmptyNarrows, SameItself DEF Inv, Tables
<1>5. Forgets(n)
  <2>1. Used(EmptyTable(n)) = {}
    BY EmptyTableGood, MaxDevicesAssumption DEF Used, Slot
  <2> QED
    BY <1>1, <2>1 DEF Forgets, Inv, Tables, Flags
<1>6. \A m \in Node \ {n} : Remembers(m)
  BY <1>1 DEF Remembers, Inv, Sending, Flags
<1>7. LessNoted
  BY <1>4, <1>5, <1>6, NarrowsLess
<1>8. Chip'
  <2>1. \A m \in Node \ {n} :
          /\ \/ pending'[m] = Off
             \/ Transmitting(m)' /\ pending'[m].frame = sentData'[m] /\ sentData'[m].src = m
          /\ pc'[m] \notin {"top", "recv"} => NoFlag(m)'
          /\ pc'[m] = "recv" => ~sentAck'[m]
          /\ pc'[m] = "off" => pending'[m] = Off
          /\ pc'[m] = "handle" => data'[m] = rxFrame'[m]
          /\ ~(sentAck'[m] /\ receivedAck'[m])
          /\ deaf'[m] => m \in Tags /\ ~sentAck'[m] /\ ~Hears(m)'
    BY <1>1, <1>2 DEF Together, Chip, Transmitting, NoFlag, Inv, Sweeping, Sending, Receiving, Flags
  <2>2. /\ pending'[n] = Off /\ pc'[n] = "top" /\ ~sentAck'[n] /\ ~deaf'[n]
    BY <1>1 DEF Inv, Sweeping, Sending, Receiving, Flags
  <2> QED
    BY <2>1, <2>2 DEF Chip
<1> QED
  BY <1>3, <1>7, <1>8

(* What loop() notes of a frame it has sent.                               *)
LEMMA MarkUsedDevices ==
  ASSUME NEW n \in Node, NEW t, Good(n, t), NEW marked
  PROVE  /\ Used(MarkUsed(t, marked)) = Used(t)
         /\ \A i \in Used(t) : MarkUsed(t, marked).dev[i] = marked[i]
<1>1. t = [dev |-> t.dev, num |-> t.num]
  BY DEF Good, TableOf
<1> QED
  BY <1>1 DEF MarkUsed, Used

LEMMA PollMarkedTable ==
  ASSUME NEW n \in Node, NEW t, Good(n, t), NEW s, NEW u,
         u = MarkUsed(t, [i \in Slot |-> PollMarked(t.dev[i], s)])
  PROVE  /\ AllServed(u)
         /\ \A x : /\ PollsSent(u, x) \subseteq {s}
                   /\ PollsReceived(u, x) \subseteq PollsReceived(t, x)
                   /\ AcksSent(u, x) \subseteq AcksSent(t, x)
                   /\ PollsRanged(u, x) \subseteq PollsRanged(t, x)
<1>1. Used(u) = Used(t) /\ \A i \in Used(t) : u.dev[i] = PollMarked(t.dev[i], s)
  BY MarkUsedDevices DEF Used
<1>2. \A i \in Used(t) : t.dev[i] \in Device(n)
  BY DEF Good, TableOf, Used
<1>3. \A i \in Used(t) : /\ u.dev[i].addr = t.dev[i].addr /\ u.dev[i].pollSent = s
                         /\ ~u.dev[i].acked /\ u.dev[i].pollReceived = t.dev[i].pollReceived
                         /\ u.dev[i].ackSent = t.dev[i].ackSent
                         /\ u.dev[i].round1 = t.dev[i].round1
  BY <1>1, <1>2 DEF PollMarked, Device
<1>4. \A x : SlotsOf(u, x) = SlotsOf(t, x) /\ SlotsOf(t, x) \subseteq Used(t)
  BY <1>1, <1>3 DEF SlotsOf
<1> QED
  BY <1>1, <1>3, <1>4 DEF AllServed, PollsSent, PollsReceived, AcksSent, PollsRanged

AckMarked(d, s, dst) == [d EXCEPT !.ackSent = IF d.addr = dst THEN s ELSE d.ackSent]

LEMMA AckMarkedTable ==
  ASSUME NEW n \in Node, NEW t, Good(n, t), NEW s, NEW dst, NEW u,
         u = MarkUsed(t, [i \in Slot |-> AckMarked(t.dev[i], s, dst)])
  PROVE  /\ AllServed(t) => AllServed(u)
         /\ AcksSent(u, dst) \subseteq {s}
         /\ \A x : /\ PollsReceived(u, x) \subseteq PollsReceived(t, x)
                   /\ PollsRanged(u, x) \subseteq PollsRanged(t, x)
                   /\ x # dst => AcksSent(u, x) \subseteq AcksSent(t, x)
<1>1. /\ Used(u) = Used(t)
      /\ \A i \in Used(t) : u.dev[i] = AckMarked(t.dev[i], s, dst)
  BY MarkUsedDevices DEF Used
<1>2. \A i \in Used(t) : t.dev[i] \in Device(n)
  BY DEF Good, TableOf, Used
<1>3. \A i \in Used(t) :
        /\ u.dev[i].addr = t.dev[i].addr
        /\ u.dev[i].ackSent = IF t.dev[i].addr = dst THEN s ELSE t.dev[i].ackSent
        /\ u.dev[i].acked = t.dev[i].acked /\ u.dev[i].served = t.dev[i].served
        /\ u.dev[i].pollReceived = t.dev[i].pollReceived
        /\ u.dev[i].round1 = t.dev[i].round1
  BY <1>1, <1>2 DEF AckMarked, Device
<1>4. \A x : /\ SlotsOf(u, x) = SlotsOf(t, x) /\ SlotsOf(t, x) \subseteq Used(t)
             /\ \A i \in SlotsOf(t, x) : t.dev[i].addr = x
  BY <1>1, <1>3 DEF SlotsOf
<1>5. AllServed(t) => AllServed(u)
  BY <1>1, <1>3 DEF AllServed
<1>6. AcksSent(u, dst) \subseteq {s}
  BY <1>3, <1>4 DEF AcksSent
<1>7. \A x : x # dst => AcksSent(u, x) \subseteq AcksSent(t, x)
  BY <1>3, <1>4 DEF AcksSent
<1>8. \A x : PollsReceived(u, x) \subseteq PollsReceived(t, x)
  BY <1>3, <1>4 DEF PollsReceived
<1>9. \A x : PollsRanged(u, x) \subseteq PollsRanged(t, x)
  BY <1>3, <1>4 DEF PollsRanged
<1> QED
  BY <1>5, <1>6, <1>7, <1>8, <1>9

LEMMA HandleSentLess ==
  ASSUME Inv, Together, NEW n \in Node, HandleSent(n)
  PROVE  LessInAir /\ LessNoted /\ Chip'
<1>1. /\ pc[n] = "top" /\ sentAck[n]
      /\ sentAck' = [sentAck EXCEPT ![n] = FALSE]
      /\ pc' = [pc EXCEPT ![n] = "recv"] \/ pc' = [pc EXCEPT ![n] = "top"]
      /\ UNCHANGED <<sentData, data, due, deaf, receivedAck, txStamp, rxFrame>>
  BY DEF HandleSent
<1>2. pending' = [pending EXCEPT ![n] = Off] \/ pending' = pending
  BY DEF HandleSent, PollSent, PollAckSent, OtherSent, Receiver
<1>3. ~receivedAck[n]
  BY <1>1 DEF Together, Chip
<1>4. LessInAir
  BY <1>1, <1>2 DEF LessInAir, Hears, Inv, Sweeping, Sending
<1>5. Chip'
  BY <1>1, <1>2, <1>3, OffSilent DEF Together, Chip, Transmitting, NoFlag, Hears, Inv, Sweeping,
     Sending, Flags
<1> DEFINE t == table[n]
           s == txStamp[n]
<1>6. Good(n, t)
  BY DEF Inv, Tables
<1>7. /\ \A m \in Node \ {n} : table'[m] = table[m]
      /\ \/ /\ n \in Tags /\ sentData[n].type = "POLL"
            /\ table'[n] = MarkUsed(t, [i \in Slot |-> PollMarked(t.dev[i], s)])
         \/ /\ n \in Anchors /\ sentData[n].type = "POLL_ACK"
            /\ table'[n] = MarkUsed(t, [i \in Slot |-> AckMarked(t.dev[i], s, sentData[n].dst)])
         \/ /\ ~(n \in Tags /\ sentData[n].type = "POLL")
            /\ ~(n \in Anchors /\ sentData[n].type = "POLL_ACK")
            /\ table'[n] = t
  BY DEF HandleSent, PollSent, PollAckSent, OtherSent, AckMarked, Inv, Tables
<1>8. LessNoted
  <2>1. \A g \in Tags, a \in Anchors : g \in Node /\ a \in Node /\ g \notin Anchors /\ a \notin Tags
    BY NodeAssumption DEF Node
  <2>2. /\ sentAck'[n] = FALSE
        /\ \A m \in Node \ {n} : sentAck'[m] = sentAck[m]
    BY <1>1 DEF Inv, Flags
  <2>3. ASSUME NEW g \in Tags
        PROVE  (Settled(g) => Settled(g)') /\ \A a \in Anchors : Asked(g, a)' \subseteq Asked(g, a)
    <3>1. CASE g # n
      BY <1>1, <1>7, <2>1, <2>2, <3>1 DEF Asked, Settled, Unnoted, Node
    <3>2. CASE g = n /\ sentData[n].type = "POLL"
      <4>1. AllServed(table'[g]) /\ \A a : PollsSent(table'[g], a) \subseteq {s}
        BY <1>6, <1>7, <3>2, PollMarkedTable
      <4> QED
        BY <1>1, <2>2, <3>2, <4>1 DEF Asked, Settled, Unnoted
    <3>3. CASE g = n /\ sentData[n].type # "POLL"
      <4>1. table'[g] = table[g]
        BY <1>7, <3>3, NodeAssumption
      <4> QED
        BY <1>1, <2>2, <3>3, <4>1 DEF Asked, Settled, Unnoted
    <3> QED
      BY <3>1, <3>2, <3>3
  <2>4. ASSUME NEW g \in Tags, NEW a \in Anchors
        PROVE  /\ Taken(a, g)' \subseteq Taken(a, g)
               /\ Acked(a, g)' \subseteq Acked(a, g)
               /\ Ranged(a, g)' \subseteq Ranged(a, g)
    <3>1. CASE a # n
      BY <1>1, <1>7, <2>1, <2>2, <3>1 DEF Taken, Acked, Ranged, Unnoted
    <3>2. CASE a = n /\ sentData[n].type = "POLL_ACK"
      <4> DEFINE u == table'[n]
                 dst == sentData[n].dst
      <4>1. u = MarkUsed(t, [i \in Slot |-> AckMarked(t.dev[i], s, dst)])
        BY <1>7, <2>1, <3>2
      <4> HIDE DEF u, dst
      <4>2. /\ AcksSent(u, dst) \subseteq {s}
            /\ PollsReceived(u, g) \subseteq PollsReceived(t, g)
            /\ PollsRanged(u, g) \subseteq PollsRanged(t, g)
            /\ g # dst => AcksSent(u, g) \subseteq AcksSent(t, g)
        BY <1>6, <4>1, AckMarkedTable
      <4> QED
        BY <1>1, <2>2, <3>2, <4>2 DEF Taken, Acked, Ranged, Unnoted, u, dst
    <3>3. CASE a = n /\ sentData[n].type # "POLL_ACK"
      <4>1. table'[a] = table[a]
        BY <1>7, <2>1, <3>3
      <4> QED
        BY <1>1, <2>2, <3>3, <4>1 DEF Taken, Acked, Ranged, Unnoted
    <3> QED
      BY <3>1, <3>2, <3>3
  <2> QED
    BY <2>3, <2>4 DEF LessNoted
<1> QED
  BY <1>4, <1>5, <1>8

---------------------------------------------------------------------------
(* The timer: a tag opens an exchange, or announces itself, when nothing   *)
(* of its last one is in the air.                                          *)

(* Node n starts to send e after the given wait.                           *)
Starts(n, e, wait) ==
  /\ pending' = [pending EXCEPT ![n] = [wait |-> wait, frame |-> e]]
  /\ sentData' = [sentData EXCEPT ![n] = e]
  /\ e.src = n

LEMMA StartsFacts ==
  ASSUME Inv, NEW n \in Node, NEW e, NEW wait \in Nat, Starts(n, e, wait)
  PROVE  /\ Transmitting(n)' /\ pending'[n].frame = e /\ pending'[n].wait = wait
         /\ \A m \in Node \ {n} : /\ pending'[m] = pending[m]
                                  /\ Transmitting(m)' <=> Transmitting(m)
         /\ Underway' \subseteq Underway \cup {e}
         /\ \A a, g \in Node : Answering(a, g)' =>
              \/ a = n /\ e.type = "POLL_ACK" /\ e.dst = g
              \/ a # n /\ Answering(a, g) /\ pending'[a] = pending[a]
         /\ \A g \in Node : Reporting(g)' =>
              \/ g = n /\ e.type = "RANGE"
              \/ g # n /\ Reporting(g) /\ pending'[g] = pending[g]
<1>1. pending'[n] = [wait |-> wait, frame |-> e] /\ \A m \in Node \ {n} : pending'[m] = pending[m]
  BY DEF Starts, Inv, Sending
<1>2. Transmitting(n)' /\ pending'[n].frame = e /\ pending'[n].wait = wait
  BY <1>1 DEF Transmitting
<1>3. \A m \in Node \ {n} : Transmitting(m)' <=> Transmitting(m)
  BY <1>1 DEF Transmitting
<1>4. Underway' \subseteq Underway \cup {e}
  BY <1>1, <1>2, <1>3 DEF Underway
<1>5. \A a, g \in Node : Answering(a, g)' =>
        \/ a = n /\ e.type = "POLL_ACK" /\ e.dst = g
        \/ a # n /\ Answering(a, g) /\ pending'[a] = pending[a]
  BY <1>1, <1>2, <1>3 DEF Answering
<1>6. \A g \in Node : Reporting(g)' =>
        \/ g = n /\ e.type = "RANGE"
        \/ g # n /\ Reporting(g) /\ pending'[g] = pending[g]
  BY <1>1, <1>2, <1>3 DEF Reporting
<1> QED
  BY <1>1, <1>2, <1>3, <1>4, <1>5, <1>6

(* The replies a POLL asks for are in slots of their own.                  *)
InOwnSlots(devs) ==
  /\ \A a \in DOMAIN devs : Whole(devs[a] - DEFAULT_REPLY_DELAY_TIME)
  /\ \A a, b \in DOMAIN devs : devs[a] = devs[b] => a = b

LEMMA PollSlots ==
  ASSUME NEW t, NEW S \in SUBSET Used(t)
  PROVE  InOwnSlots(ByAddress(t, S, [i \in S |-> getReplyTimeOfIndex(i)]))
<1> DEFINE devs == ByAddress(t, S, [i \in S |-> getReplyTimeOfIndex(i)])
           slot(a) == CHOOSE i \in S : t.dev[i].addr = a
<1>1. \A i \in S : i \in Int
  BY MaxDevicesAssumption DEF Used, Slot
<1>2. DOMAIN devs = {t.dev[i].addr : i \in S}
  BY DEF ByAddress
<1>3. ASSUME NEW a \in DOMAIN devs
      PROVE  /\ slot(a) \in S /\ slot(a) \in Int /\ t.dev[slot(a)].addr = a
             /\ devs[a] = (2 * slot(a) + 1) * 3000
  <2>1. \E i \in S : t.dev[i].addr = a
    BY <1>2
  <2>2. slot(a) \in S /\ t.dev[slot(a)].addr = a
    BY <2>1
  <2>3. devs[a] = getReplyTimeOfIndex(slot(a))
    BY <1>2, <2>2 DEF ByAddress
  <2> QED
    BY <1>1, <2>2, <2>3 DEF getReplyTimeOfIndex, DEFAULT_REPLY_DELAY_TIME
<1> HIDE DEF devs, slot
<1>4. \A a \in DOMAIN devs : Whole(devs[a] - DEFAULT_REPLY_DELAY_TIME)
  <2> TAKE a \in DOMAIN devs
  <2>1. devs[a] - DEFAULT_REPLY_DELAY_TIME = slot(a) * Gap
    BY <1>3 DEF Gap, DEFAULT_REPLY_DELAY_TIME
  <2> QED
    BY <1>3, <2>1 DEF Whole
<1>5. \A a, b \in DOMAIN devs : devs[a] = devs[b] => a = b
  <2> SUFFICES ASSUME NEW a \in DOMAIN devs, NEW b \in DOMAIN devs, devs[a] = devs[b]
               PROVE  a = b
    OBVIOUS
  <2> DEFINE i == slot(a)
             j == slot(b)
  <2>1. i \in Int /\ j \in Int /\ (2 * i + 1) * 3000 = (2 * j + 1) * 3000
    BY <1>3
  <2> HIDE DEF i, j
  <2>2. i = j
    BY <2>1
  <2> QED
    BY <1>3, <2>2 DEF i, j
<1> QED
  BY <1>4, <1>5 DEF InOwnSlots, devs

LEMMA TimerTickSends ==
  ASSUME Inv, NEW n \in Node, TimerTick(n)
  PROVE  \/ TransmitNothing
         \/ /\ n \in Tags
            /\ \E e : /\ Starts(n, e, 0) /\ seq' = [seq EXCEPT ![n] = (@ + 1) % SEQ_MOD]
                      /\ e.seq = seq[n]
                      /\ e.type = "BLINK" \/ (e.type = "POLL" /\ InOwnSlots(e.devices))
<1>1. CASE n \in Tags /\ Transmit(n, Blink(n, Listed(table[n])), 0)
  <2> DEFINE e == Blink(n, Listed(table[n]))
  <2>1. e.src = n /\ e.type = "BLINK" /\ e.seq = seq[n]
    BY DEF Blink
  <2>2. Starts(n, e, 0) /\ seq' = [seq EXCEPT ![n] = (@ + 1) % SEQ_MOD]
    BY <1>1, <2>1 DEF Transmit, Starts
  <2> QED
    BY <1>1, <2>1, <2>2
<1>2. CASE n \in Tags /\ TransmitPoll(n)
  <2> DEFINE t == table[n]
             S == FirstOf(Used(t), devicePerPollTransmit)
             devs == ByAddress(t, S, [i \in S |-> getReplyTimeOfIndex(i)])
             e == Poll(n, devs)
  <2>1. InOwnSlots(devs)
    BY FirstOfSubset, PollSlots
  <2>2. Transmit(n, e, 0)
    BY <1>2 DEF TransmitPoll
  <2> HIDE DEF devs
  <2>3. e.src = n /\ e.type = "POLL" /\ e.devices = devs /\ e.seq = seq[n]
    BY DEF Poll
  <2>4. Starts(n, e, 0) /\ seq' = [seq EXCEPT ![n] = (@ + 1) % SEQ_MOD]
    BY <2>2, <2>3 DEF Transmit, Starts
  <2> QED
    BY <1>2, <2>1, <2>3, <2>4
<1> QED
  BY <1>1, <1>2 DEF TimerTick

(* While all is calm nothing is heard and nothing sent is still to note.   *)
LEMMA CalmFacts ==
  ASSUME Inv, Chip, Calm
  PROVE  /\ \A n \in Node : ~sentAck[n] /\ ~receivedAck[n] /\ ~Hears(n)
         /\ Heard = {} /\ InAir = Underway
<1>1. \A n \in Node : ~sentAck[n] /\ ~receivedAck[n] /\ ~Hears(n)
  BY CalmSilent DEF NoFlag
<1>2. Heard = {}
  BY <1>1 DEF Heard
<1> QED
  BY <1>1, <1>2 DEF InAir

LEMMA TimerTickFacts ==
  ASSUME Prompt, Inv, Together, NEW n \in Node, TimerTick(n)
  PROVE  /\ Calm /\ due[n] /\ pc[n] = "top"
         /\ due' = [due EXCEPT ![n] = FALSE]
         /\ UNCHANGED <<table, deaf, sentAck, receivedAck, txStamp, rxFrame, data>>
         /\ \A m \in Node : Hears(m)' <=> Hears(m)
         /\ pc' = pc \/ pc' = [pc EXCEPT ![n] = "sweep"]
         /\ LessNoted
<1>1. /\ Calm /\ due[n] /\ pc[n] = "top"
      /\ due' = [due EXCEPT ![n] = FALSE]
      /\ UNCHANGED <<table, deaf, sentAck, receivedAck, txStamp, rxFrame, data>>
      /\ pc' = pc \/ pc' = [pc EXCEPT ![n] = "sweep"]
  BY DEF TimerTick, IfPrompt, Inv, Sweeping
<1>2. \A m \in Node : ~sentAck[m]
  BY <1>1, CalmFacts DEF Together
<1>3. \A m \in Node : Hears(m)' <=> Hears(m)
  BY <1>1 DEF Hears, Inv, Sweeping
<1>4. LessNoted
  BY <1>1, <1>2 DEF LessNoted, Asked, Settled, Taken, Acked, Ranged, Unnoted, Node
<1> QED
  BY <1>1, <1>3, <1>4

LEMMA TimerTickTogether ==
  ASSUME Prompt, Inv, Together, NEW n \in Node, TimerTick(n)
  PROVE  Together'
<1>1. /\ Calm /\ due[n] /\ pc[n] = "top"
      /\ due' = [due EXCEPT ![n] = FALSE]
      /\ UNCHANGED <<table, deaf, sentAck, receivedAck, txStamp, rxFrame, data>>
      /\ \A m \in Node : Hears(m)' <=> Hears(m)
      /\ pc' = pc \/ pc' = [pc EXCEPT ![n] = "sweep"]
      /\ LessNoted
  BY TimerTickFacts
<1>2. /\ \A m \in Node : ~sentAck[m] /\ ~receivedAck[m] /\ ~Hears(m)
      /\ Heard = {} /\ InAir = Underway
  BY <1>1, CalmFacts DEF Together
<1>3. Heard' = {} /\ InAir' = Underway'
  BY <1>1, <1>2 DEF Heard, InAir
<1>4. CASE TransmitNothing
  <2>1. LessInAir
    BY <1>1, <1>4 DEF LessInAir, TransmitNothing, Inv, Flags
  <2>2. Chip'
    BY <1>1, <1>2, <1>4 DEF Together, Chip, TransmitNothing, Transmitting, NoFlag, Inv, Sweeping
  <2> QED
    BY <1>1, <2>1, <2>2, LessTogether DEF Together, LessNoted, LessAgreed
<1>5. ASSUME n \in Tags, NEW e, Starts(n, e, 0),
             e.type = "BLINK" \/ (e.type = "POLL" /\ InOwnSlots(e.devices))
      PROVE  Together'
  <2> USE DEF Together
  <2>1. /\ Transmitting(n)' /\ pending'[n].frame = e
        /\ \A m \in Node \ {n} : /\ pending'[m] = pending[m]
                                 /\ Transmitting(m)' <=> Transmitting(m)
        /\ InAir' \subseteq InAir \cup {e}
        /\ \A a, g \in Node : Answering(a, g)' => Answering(a, g) /\ pending'[a] = pending[a]
        /\ \A g \in Node : Reporting(g)' => Reporting(g) /\ pending'[g] = pending[g]
    BY <1>2, <1>3, <1>5, StartsFacts
  <2>2. \A f \in InAir : /\ f.type = "POLL_ACK" => f.src \in Anchors /\ f.dst \in Tags
                         /\ f.type = "RANGE" => f.src \in Tags /\ DOMAIN f.devices \subseteq Anchors
    BY InAirFrames, FrameNodes
  <2>3. Tags \subseteq Node /\ Anchors \subseteq Node /\ e.src = n
    BY <1>5 DEF Node, Starts
  <2>4. Chip'
    <3>1. sentData'[n] = e /\ \A m \in Node \ {n} : sentData'[m] = sentData[m]
      BY <1>5 DEF Starts, Inv, Sending
    <3> QED
      BY <1>1, <1>2, <2>1, <2>3, <3>1 DEF Chip, NoFlag, Inv, Sweeping
  <2>5. OneFrame'
    BY <1>1, <1>2, <1>3 DEF OneFrame
  <2>6. OneFamily'
    <3> SUFFICES ASSUME NEW g \in Tags
                 PROVE  /\ due'[g] => \A f \in InAir' : ~Asking(g, f) /\ ~Meeting(g, f)
                        /\ \A f, h \in InAir' : ~(Asking(g, f) /\ Meeting(g, h))
                        /\ Transmitting(g)' /\ pending'[g].frame.type = "POLL" =>
                             \A f \in InAir' : Asking(g, f) => f = pending'[g].frame
      BY DEF OneFamily, Asking, Meeting
    <3>1. CASE g = n
      <4>1. ~due'[g] /\ due[g]
        BY <1>1, <3>1 DEF Inv, Flags
      <4>2. \A f \in InAir' : Asking(g, f) \/ Meeting(g, f) => f = e
        BY <2>1, <4>1 DEF OneFamily
      <4>3. ~(Asking(g, e) /\ Meeting(g, e))
        BY DEF Asking, Meeting
      <4> QED
        BY <2>1, <3>1, <4>1, <4>2, <4>3
    <3>2. CASE g # n
      <4>1. due'[g] = due[g] /\ g \in Node
        BY <1>1, <2>3, <3>2 DEF Inv, Flags
      <4>2. ~Asking(g, e) /\ ~Meeting(g, e)
        BY <1>5, <2>3, <3>2 DEF Asking, Meeting
      <4> QED
        BY <2>1, <3>2, <4>1, <4>2 DEF OneFamily
    <3> QED
      BY <3>1, <3>2
  <2>7. OnePoll'
    <3>1. ASSUME NEW f \in InAir', f.type = "POLL_ACK"
          PROVE  /\ Settled(f.dst)'
                 /\ \A x \in Asked(f.dst, f.src)', y \in Taken(f.src, f.dst)' : x = y
      BY <1>1, <1>5, <2>1, <2>2, <3>1 DEF OnePoll, LessNoted
    <3> QED
      BY <1>3, <3>1 DEF OnePoll
  <2>8. OneAck'
    BY <1>3 DEF OneAck
  <2>9. OneRange'
    <3> SUFFICES ASSUME NEW f \in InAir', f.type = "RANGE", NEW a \in DOMAIN f.devices
                 PROVE  /\ Taken(a, f.src)' \subseteq {f.devices[a].poll}
                        /\ Acked(a, f.src)' \subseteq {f.devices[a].ack}
                        /\ ~Answering(a, f.src)'
      BY DEF OneRange
    <3>1. f \in InAir /\ f.src \in Tags /\ a \in Anchors
      BY <1>5, <2>1, <2>2
    <3> QED
      BY <1>1, <2>1, <2>3, <3>1 DEF OneRange, LessNoted
  <2>10. InSlots'
    <3>1. \A f \in InAir' : f.type = "POLL" =>
            /\ \A a \in DOMAIN f.devices : Whole(f.devices[a] - DEFAULT_REPLY_DELAY_TIME)
            /\ \A a, b \in DOMAIN f.devices : f.devices[a] = f.devices[b] => a = b
      BY <1>5, <2>1 DEF InSlots, InOwnSlots
    <3>2. \A g \in Tags, a, b \in Node : Answering(a, g)' /\ Answering(b, g)' =>
            /\ Whole(pending'[a].wait - pending'[b].wait)
            /\ pending'[a].wait = pending'[b].wait => a = b
      BY <2>1, <2>3 DEF InSlots
    <3>3. \A g \in Tags, a \in Node : Answering(a, g)' /\ Reporting(g)' =>
            Whole(pending'[a].wait - pending'[g].wait - DEFAULT_REPLY_DELAY_TIME)
      BY <2>1, <2>3 DEF InSlots
    <3> QED
      BY <1>3, <3>1, <3>2, <3>3 DEF InSlots, Whole
  <2> QED
    BY <2>4, <2>5, <2>6, <2>7, <2>8, <2>9, <2>10
<1> QED
  BY <1>4, <1>5, TimerTickSends

---------------------------------------------------------------------------
(* The radio and the clock *)

LEMMA TxDoneFacts ==
  ASSUME Prompt, Inv, Together, NEW n \in Node, TxDone(n)
  PROVE  LET f == pending[n].frame
         IN /\ Transmitting(n) /\ pending[n].wait = 0 /\ f.src = n /\ f \in InAir
            /\ \A m \in Node : ~sentAck[m] /\ ~receivedAck[m] /\ ~Hears(m)
            /\ Heard = {}
            /\ \A m \in Node : Hears(m)' => m # n /\ rxFrame'[m] = f /\ ~deaf[m] /\ pc[m] = "top"
            /\ Heard' \subseteq {f} /\ InAir' \subseteq InAir
            /\ ~Transmitting(n)' /\ pending'[n] = Off
            /\ \A m \in Node : Transmitting(m)' => Transmitting(m) /\ pending'[m] = pending[m]
            /\ \A m \in Node : pending'[m] = pending[m] \/ pending'[m] = Off
            /\ UNCHANGED <<loopVars, time, restarts>>
            /\ \A m \in Node \ {n} : sentAck'[m] = sentAck[m] /\ txStamp'[m] = txStamp[m]
            /\ deaf[n] => sentAck'[n] = sentAck[n]
            /\ ~deaf[n] => sentAck'[n] /\ txStamp'[n] = Stamp(f)
<1> DEFINE f == pending[n].frame
<1>1. Calm /\ pending[n].wait = 0 /\ UNCHANGED <<loopVars, time, restarts>>
  BY DEF TxDone, IfPrompt
<1>2. \A m \in Node : ~sentAck[m] /\ ~receivedAck[m] /\ ~Hears(m)
  BY <1>1, CalmFacts DEF Together
<1>3. Heard = {}
  BY <1>1, CalmFacts DEF Together
<1>4. Transmitting(n) /\ f.src = n
  BY <1>1, SentBySource DEF Transmitting, Together
<1>5. f \in Underway /\ Underway \subseteq InAir
  BY <1>4 DEF Underway, InAir
<1>6. PICK heard \in SUBSET {m \in On \ {n} : ~deaf[m]} :
        /\ pending' = [m \in Node |-> IF m \in heard \cup {n} THEN Off ELSE pending[m]]
        /\ receivedAck' = [m \in Node |-> m \in heard \/ receivedAck[m]]
        /\ rxFrame' = [m \in Node |-> IF m \in heard THEN f ELSE rxFrame[m]]
  BY DEF TxDone
<1> HIDE DEF f
<1>7. \A m \in Node : Hears(m)' => m \in heard
  BY <1>1, <1>2, <1>6 DEF Hears, loopVars
<1>8. \A m \in Node : Hears(m)' => m # n /\ rxFrame'[m] = f /\ ~deaf[m] /\ pc[m] = "top"
  BY <1>1, <1>6, <1>7 DEF On, Calm
<1>9. \A m \in Node : pending'[m] = pending[m] \/ pending'[m] = Off
  BY <1>6
<1>10. \A m \in Node : Transmitting(m)' => Transmitting(m) /\ pending'[m] = pending[m]
  BY <1>9, OffSilent DEF Transmitting
<1>11. ~Transmitting(n)' /\ pending'[n] = Off
  BY <1>6, OffSilent DEF Transmitting
<1>12. Heard' \subseteq {f}
  BY <1>8 DEF Heard
<1>13. Underway' \subseteq Underway
  BY <1>10 DEF Underway
<1>14. InAir' \subseteq InAir
  BY <1>5, <1>12, <1>13 DEF InAir
<1>15. /\ \A m \in Node \ {n} : sentAck'[m] = sentAck[m] /\ txStamp'[m] = txStamp[m]
       /\ deaf[n] => sentAck'[n] = sentAck[n]
       /\ ~deaf[n] => sentAck'[n] /\ txStamp'[n] = Stamp(f)
  BY DEF TxDone, Inv, Flags, f
<1> QED
  BY <1>1, <1>2, <1>3, <1>4, <1>5, <1>8, <1>9, <1>10, <1>11, <1>12, <1>14, <1>15 DEF f

(* The frame just sent: what its sender has still to note of it.           *)
LEMMA TxDoneNotes ==
  ASSUME Prompt, Inv, Together, NEW n \in Node, TxDone(n)
  PROVE  LET f == pending[n].frame
         IN /\ \A g \in Tags : Settled(g) => Settled(g)'
            /\ f.type = "POLL" => Settled(n)'
            /\ \A g \in Tags, a \in Anchors :
                 /\ IF f.type = "POLL" /\ g = n THEN Asked(g, a)' \subseteq {Stamp(f)}
                                                ELSE Asked(g, a)' \subseteq Asked(g, a)
                 /\ IF f.type = "POLL_ACK" /\ a = n /\ g = f.dst
                    THEN Acked(a, g)' \subseteq {Stamp(f)}
                    ELSE Acked(a, g)' \subseteq Acked(a, g)
                 /\ Taken(a, g)' = Taken(a, g) /\ Ranged(a, g)' = Ranged(a, g)
<1> DEFINE f == pending[n].frame
<1>1. /\ \A m \in Node : ~sentAck[m]
      /\ \A m \in Node \ {n} : sentAck'[m] = sentAck[m] /\ txStamp'[m] = txStamp[m]
      /\ deaf[n] => sentAck'[n] = sentAck[n]
      /\ ~deaf[n] => sentAck'[n] /\ txStamp'[n] = Stamp(f)
      /\ UNCHANGED <<table, sentData, deaf>>
  BY TxDoneFacts DEF loopVars
<1>2. f = sentData[n]
  BY TxDoneFacts, SentBySource DEF Together
<1> HIDE DEF f
<1>3. \A g \in Tags, a \in Anchors : g \in Node /\ a \in Node /\ ~deaf[a]
  BY NodeAssumption DEF Together, Chip, Node
<1>4. \A g \in Tags : (Settled(g) => Settled(g)') /\ (f.type = "POLL" /\ g = n => Settled(g)')
  BY <1>1, <1>2, <1>3 DEF Settled, Unnoted, Node
<1>5. ASSUME NEW g \in Tags, NEW a \in Anchors
      PROVE  IF f.type = "POLL" /\ g = n THEN Asked(g, a)' \subseteq {Stamp(f)}
                                         ELSE Asked(g, a)' \subseteq Asked(g, a)
  BY <1>1, <1>2, <1>3 DEF Asked, Unnoted
<1>6. ASSUME NEW g \in Tags, NEW a \in Anchors
      PROVE  IF f.type = "POLL_ACK" /\ a = n /\ g = f.dst
             THEN Acked(a, g)' \subseteq {Stamp(f)}
             ELSE Acked(a, g)' \subseteq Acked(a, g)
  BY <1>1, <1>2, <1>3 DEF Acked, Unnoted
<1>7. f.type = "POLL" => n \in Tags
  BY TxDoneFacts, InAirFrames, FrameNodes DEF f
<1> QED
  BY <1>1, <1>4, <1>5, <1>6, <1>7 DEF Taken, Ranged, f

LEMMA TxDoneTogether ==
  ASSUME Prompt, Inv, Together, NEW n \in Node, TxDone(n)
  PROVE  Together'
<1> USE DEF Together
<1> DEFINE f == pending[n].frame
<1>1. /\ Transmitting(n) /\ pending[n].wait = 0 /\ f.src = n /\ f \in InAir
      /\ \A m \in Node : ~sentAck[m] /\ ~receivedAck[m] /\ ~Hears(m)
      /\ \A m \in Node : Hears(m)' => m # n /\ rxFrame'[m] = f /\ ~deaf[m] /\ pc[m] = "top"
      /\ Heard' \subseteq {f} /\ InAir' \subseteq InAir
      /\ ~Transmitting(n)' /\ pending'[n] = Off
      /\ \A m \in Node : Transmitting(m)' => Transmitting(m) /\ pending'[m] = pending[m]
      /\ \A m \in Node : pending'[m] = pending[m] \/ pending'[m] = Off
      /\ UNCHANGED <<table, sentData, deaf, pc, data, due>>
  BY TxDoneFacts DEF loopVars
<1>2. /\ \A g \in Tags : Settled(g) => Settled(g)'
      /\ f.type = "POLL" => Settled(n)'
      /\ \A g \in Tags, a \in Anchors :
           /\ IF f.type = "POLL" /\ g = n THEN Asked(g, a)' \subseteq {Stamp(f)}
                                          ELSE Asked(g, a)' \subseteq Asked(g, a)
           /\ IF f.type = "POLL_ACK" /\ a = n /\ g = f.dst
              THEN Acked(a, g)' \subseteq {Stamp(f)}
              ELSE Acked(a, g)' \subseteq Acked(a, g)
           /\ Taken(a, g)' = Taken(a, g)
  BY TxDoneNotes
<1>3. \A h \in InAir :
        /\ h.type \in {"POLL", "RANGE"} => h.src \in Tags /\ DOMAIN h.devices \subseteq Anchors
        /\ h.type = "POLL_ACK" => h.src \in Anchors /\ h.dst \in Tags
  BY InAirFrames, FrameNodes
<1>4. Tags \subseteq Node /\ Anchors \subseteq Node
  BY DEF Node
<1>5. \A a, g \in Node : Answering(a, g)' => /\ a # n /\ Answering(a, g)
                                             /\ pending'[a] = pending[a]
  BY <1>1 DEF Answering
<1>6. \A g \in Node : Reporting(g)' => Reporting(g) /\ pending'[g] = pending[g]
  BY <1>1 DEF Reporting
<1>7. f.type = "POLL" => \A h \in InAir : Asking(n, h) => h = f
  BY <1>1, <1>3 DEF OneFamily
<1>8. \A a, g \in Node :
        Answering(a, g) => pending[a].frame \in InAir /\ Asking(g, pending[a].frame)
  BY DEF Answering, InAir, Underway, Asking
<1>9. Chip'
  <2> SUFFICES ASSUME NEW m \in Node
               PROVE  /\ \/ pending'[m] = Off
                         \/ /\ Transmitting(m)'
                            /\ pending'[m].frame = sentData'[m] /\ sentData'[m].src = m
                      /\ pc'[m] \notin {"top", "recv"} => NoFlag(m)'
                      /\ pc'[m] = "recv" => ~sentAck'[m]
                      /\ pc'[m] = "off" => pending'[m] = Off
                      /\ pc'[m] = "handle" => data'[m] = rxFrame'[m]
                      /\ ~(sentAck'[m] /\ receivedAck'[m])
                      /\ deaf'[m] => m \in Tags /\ ~sentAck'[m] /\ ~Hears(m)'
    BY DEF Chip
  <2>1. pending'[m] = Off \/ /\ Transmitting(m)'
                             /\ pending'[m].frame = sentData'[m] /\ sentData'[m].src = m
    BY <1>1 DEF Chip, Transmitting
  <2>2. pc[m] = "top" \/ pc[m] = "off"
    <3>1. Calm
      BY DEF TxDone, IfPrompt
    <3> QED
      BY <3>1 DEF Calm, On
  <2>3. /\ \A k \in Node \ {n} : ~sentAck'[k]
        /\ deaf[n] => ~sentAck'[n]
    BY <1>1, TxDoneFacts
  <2>4. pc[m] = "off" => pending'[m] = Off /\ ~sentAck'[m] /\ ~receivedAck'[m] /\ m # n
    <3>1. pc[m] = "off" => m # n
      BY <1>1, OffSilent DEF Chip, Transmitting
    <3>2. pc[m] = "off" => ~Hears(m)'
      BY <1>1
    <3> QED
      BY <1>1, <2>3, <3>1, <3>2 DEF Chip, Hears
  <2>5. ~(sentAck'[m] /\ receivedAck'[m])
    BY <1>1, <2>3 DEF Hears
  <2>6. deaf'[m] => m \in Tags /\ ~sentAck'[m] /\ ~Hears(m)'
    BY <1>1, <2>3 DEF Chip
  <2> QED
    BY <1>1, <2>1, <2>2, <2>4, <2>5, <2>6 DEF NoFlag
<1> HIDE DEF f
<1>10. OneFrame'
  BY <1>1 DEF OneFrame
<1>11. OneFamily'
  BY <1>1, <1>4 DEF OneFamily, Asking, Meeting
<1>12. OnePoll'
  <2>1. ASSUME NEW h \in InAir', h.type = "POLL_ACK"
        PROVE  /\ Settled(h.dst)'
               /\ \A x \in Asked(h.dst, h.src)', y \in Taken(h.src, h.dst)' : x = y
    <3>1. h \in InAir /\ h.dst \in Tags /\ h.src \in Anchors
      BY <1>1, <1>3, <2>1
    <3>2. ~(f.type = "POLL" /\ h.dst = n)
      BY <1>7, <2>1, <3>1 DEF Asking
    <3> QED
      BY <1>2, <2>1, <3>1, <3>2 DEF OnePoll
  <2>2. ASSUME NEW h \in Heard', h.type = "POLL"
        PROVE  Settled(h.src)' /\ \A a \in Anchors : Asked(h.src, a)' \subseteq {Stamp(h)}
    <3>1. h = f /\ f.src = n /\ n \in Tags
      BY <1>1, <1>3, <2>2
    <3> QED
      BY <1>2, <2>2, <3>1
  <2> QED
    BY <2>1, <2>2 DEF OnePoll, Stamp
<1>13. OneAck'
  <2> SUFFICES ASSUME NEW h \in Heard', h.type = "POLL_ACK"
               PROVE  Acked(h.src, h.dst)' \subseteq {Stamp(h)}
    BY DEF OneAck, Stamp
  <2>1. h = f /\ f.src = n /\ n \in Anchors /\ f.dst \in Tags
    BY <1>1, <1>3
  <2> QED
    BY <1>2, <2>1
<1>14. OneRange'
  <2> SUFFICES ASSUME NEW h \in InAir', h.type = "RANGE", NEW a \in DOMAIN h.devices
               PROVE  /\ Taken(a, h.src)' \subseteq {h.devices[a].poll}
                      /\ Acked(a, h.src)' \subseteq {h.devices[a].ack}
                      /\ ~Answering(a, h.src)'
    BY DEF OneRange
  <2>1. h \in InAir /\ h.src \in Tags /\ a \in Anchors
    BY <1>1, <1>3
  <2>2. ~Answering(a, h.src)
    BY <2>1 DEF OneRange
  <2>3. ~(f.type = "POLL_ACK" /\ a = n /\ h.src = f.dst)
    BY <1>1, <2>2 DEF Answering, f
  <2> QED
    BY <1>2, <1>4, <1>5, <2>1, <2>3 DEF OneRange
<1>15. InSlots'
  <2>1. \A h \in InAir' : h.type = "POLL" =>
          /\ \A a \in DOMAIN h.devices : Whole(h.devices[a] - DEFAULT_REPLY_DELAY_TIME)
          /\ \A a, b \in DOMAIN h.devices : h.devices[a] = h.devices[b] => a = b
    BY <1>1 DEF InSlots
  <2>2. ASSUME NEW h \in Heard', NEW a \in Node, h.type = "POLL", Answering(a, h.src)'
        PROVE  FALSE
    <3>1. h = f /\ f.src = n /\ f.type = "POLL" /\ Answering(a, n)
      BY <1>1, <1>5, <2>2
    <3>2. pending[a].frame = f
      BY <1>7, <1>8, <3>1
    <3> QED
      BY <3>1, <3>2 DEF Answering
  <2>3. \A g \in Tags, a, b \in Node : Answering(a, g)' /\ Answering(b, g)' =>
          /\ Whole(pending'[a].wait - pending'[b].wait)
          /\ pending'[a].wait = pending'[b].wait => a = b
    BY <1>4, <1>5 DEF InSlots
  <2>4. \A g \in Tags, a \in Node : Answering(a, g)' /\ Reporting(g)' =>
          Whole(pending'[a].wait - pending'[g].wait - DEFAULT_REPLY_DELAY_TIME)
    BY <1>4, <1>5, <1>6 DEF InSlots
  <2>5. ASSUME NEW h \in Heard', NEW a \in Node, h.type = "POLL_ACK", Answering(a, h.dst)'
        PROVE  Whole(pending'[a].wait)
    <3>1. h = f /\ f.type = "POLL_ACK" /\ f.dst \in Tags
      BY <1>1, <1>3, <2>5
    <3>2. Answering(a, f.dst) /\ pending'[a] = pending[a]
      BY <1>4, <1>5, <2>5, <3>1
    <3>3. Answering(n, f.dst)
      BY <1>1, <3>1 DEF Answering, f
    <3>4. Whole(pending[a].wait - pending[n].wait)
      BY <3>1, <3>2, <3>3 DEF InSlots
    <3>5. pending[a].wait \in Int
      BY DEF Inv, Sending, Transmission
    <3>6. pending[a].wait - pending[n].wait = pending[a].wait
      BY <1>1, <3>5
    <3> QED
      BY <3>2, <3>4, <3>6
  <2> QED
    BY <2>1, <2>2, <2>3, <2>4, <2>5 DEF InSlots, Whole
<1> QED
  BY <1>9, <1>10, <1>11, <1>12, <1>13, <1>14, <1>15

LEMMA NextSlotFacts ==
  ASSUME Prompt, Inv, Together, NextSlot
  PROVE  /\ Heard = {} /\ Heard' = {} /\ InAir' = InAir
         /\ \A m \in Node : (Hears(m)' <=> Hears(m)) /\ ~Hears(m)
         /\ UNCHANGED <<loopVars, sentAck, receivedAck, txStamp, rxFrame>>
         /\ \A m \in Node : /\ Transmitting(m)' <=> Transmitting(m)
                            /\ pending'[m].frame = pending[m].frame
                            /\ ~Transmitting(m) => pending'[m] = pending[m]
         /\ \E w \in Int : \A m \in Node :
              Transmitting(m) => pending[m].wait \in Int /\ pending'[m].wait = pending[m].wait - w
<1>1. Calm /\ UNCHANGED <<loopVars, sentAck, receivedAck, txStamp, rxFrame>>
  BY DEF NextSlot, IfPrompt
<1>2. (\A m \in Node : ~Hears(m)) /\ Heard = {} /\ InAir = Underway
  BY <1>1, CalmFacts DEF Together
<1>3. /\ \A m \in Node : Hears(m)' <=> Hears(m)
      /\ Heard' = {} /\ InAir' = Underway'
  BY <1>1, <1>2 DEF Hears, Heard, InAir, loopVars
<1>4. PICK n \in Node :
        /\ pending[n].wait > 0
        /\ \A m \in Node : Transmitting(m) => pending[m].wait >= pending[n].wait
        /\ pending' = [m \in Node |-> IF Transmitting(m)
                                      THEN [pending[m] EXCEPT !.wait = @ - pending[n].wait]
                                      ELSE pending[m]]
  BY DEF NextSlot
<1>5. \A m \in Node : pending[m] \in Transmission /\ pending[m].wait \in Int
  BY DEF Inv, Sending, Transmission
<1>6. ASSUME NEW m \in Node, Transmitting(m)
      PROVE  /\ Transmitting(m)' /\ pending'[m].frame = pending[m].frame
             /\ pending'[m].wait = pending[m].wait - pending[n].wait
  <2>1. pending'[m] = [pending[m] EXCEPT !.wait = pending[m].wait - pending[n].wait]
    BY <1>4, <1>6
  <2>2. /\ pending'[m].frame = pending[m].frame
        /\ pending'[m].wait = pending[m].wait - pending[n].wait
    BY <1>5, <2>1 DEF Transmission
  <2> DEFINE v == pending[m].wait
             w == pending[n].wait
             x == pending'[m].wait
  <2>3. v \in Int /\ w \in Int /\ v >= w /\ x = v - w
    BY <1>4, <1>5, <1>6, <2>2
  <2> HIDE DEF v, w, x
  <2>4. x >= 0
    BY <2>3
  <2> QED
    BY <2>2, <2>4 DEF Transmitting, x
<1>7. ASSUME NEW m \in Node, ~Transmitting(m)
      PROVE  pending'[m] = pending[m] /\ ~Transmitting(m)'
  BY <1>4, <1>7 DEF Transmitting
<1>8. \A m \in Node : /\ Transmitting(m)' <=> Transmitting(m)
                      /\ pending'[m].frame = pending[m].frame
  BY <1>6, <1>7
<1>9. Underway' = Underway
  BY <1>8 DEF Underway
<1> QED
  BY <1>1, <1>2, <1>3, <1>5, <1>6, <1>7, <1>8, <1>9

Apart(r, s, p, q) ==
  /\ r - s = p - q /\ (r = s => p = q)
  /\ r - s - DEFAULT_REPLY_DELAY_TIME = p - q - DEFAULT_REPLY_DELAY_TIME

LEMMA NextSlotTogether ==
  ASSUME Prompt, Inv, Together, NextSlot
  PROVE  Together'
<1> USE DEF Together
<1>1. /\ Heard = {} /\ Heard' = {} /\ InAir' = InAir
      /\ \A m \in Node : (Hears(m)' <=> Hears(m)) /\ ~Hears(m)
      /\ UNCHANGED <<table, sentData, deaf, pc, data, due, sentAck, receivedAck, txStamp, rxFrame>>
      /\ \A m \in Node : /\ Transmitting(m)' <=> Transmitting(m)
                         /\ pending'[m].frame = pending[m].frame
                         /\ ~Transmitting(m) => pending'[m] = pending[m]
  BY NextSlotFacts DEF loopVars
<1>2. PICK w \in Int : \A m \in Node :
        Transmitting(m) => pending[m].wait \in Int /\ pending'[m].wait = pending[m].wait - w
  BY NextSlotFacts
<1>3. /\ \A a, g \in Node : Answering(a, g)' <=> Answering(a, g)
      /\ \A g \in Node : Reporting(g)' <=> Reporting(g)
      /\ \A a, g \in Node : Answering(a, g) => Transmitting(a)
      /\ \A g \in Node : Reporting(g) => Transmitting(g)
  BY <1>1 DEF Answering, Reporting
<1>4. Tags \subseteq Node /\ Anchors \subseteq Node
  BY DEF Node
<1>5. Chip'
  BY <1>1, OffSilent DEF Chip, NoFlag, Transmitting
<1>6. OneFrame'
  BY <1>1 DEF OneFrame
<1>7. OneFamily'
  BY <1>1, <1>4 DEF OneFamily, Asking, Meeting
<1>8. LessNoted
  BY <1>1, SameNoted
<1>9. \A f \in InAir :
        /\ f.type = "RANGE" => f.src \in Tags /\ DOMAIN f.devices \subseteq Anchors
        /\ f.type = "POLL_ACK" => f.src \in Anchors /\ f.dst \in Tags
  BY InAirFrames, FrameNodes
<1>10. OnePoll'
  <2>1. ASSUME NEW f \in InAir', f.type = "POLL_ACK"
        PROVE  /\ Settled(f.dst)'
               /\ \A x \in Asked(f.dst, f.src)', y \in Taken(f.src, f.dst)' : x = y
    BY <1>1, <1>8, <1>9, <2>1 DEF OnePoll, LessNoted
  <2> QED
    BY <1>1, <2>1 DEF OnePoll
<1>11. OneAck'
  BY <1>1 DEF OneAck
<1>12. OneRange'
  <2> SUFFICES ASSUME NEW f \in InAir', f.type = "RANGE", NEW a \in DOMAIN f.devices
               PROVE  /\ Taken(a, f.src)' \subseteq {f.devices[a].poll}
                      /\ Acked(a, f.src)' \subseteq {f.devices[a].ack}
                      /\ ~Answering(a, f.src)'
    BY DEF OneRange
  <2> QED
    BY <1>1, <1>3, <1>4, <1>8, <1>9 DEF OneRange, LessNoted
<1>13. InSlots'
  <2>1. \A f \in InAir' : f.type = "POLL" =>
          /\ \A a \in DOMAIN f.devices : Whole(f.devices[a] - DEFAULT_REPLY_DELAY_TIME)
          /\ \A a, b \in DOMAIN f.devices : f.devices[a] = f.devices[b] => a = b
    BY <1>1 DEF InSlots
  <2>2. \A m, k \in Node : Transmitting(m) /\ Transmitting(k) =>
          Apart(pending'[m].wait, pending'[k].wait, pending[m].wait, pending[k].wait)
    <3> SUFFICES ASSUME NEW m \in Node, NEW k \in Node, Transmitting(m), Transmitting(k)
                 PROVE  Apart(pending'[m].wait, pending'[k].wait, pending[m].wait, pending[k].wait)
      OBVIOUS
    <3> DEFINE p == pending[m].wait
               q == pending[k].wait
               r == pending'[m].wait
               s == pending'[k].wait
    <3>1. p \in Int /\ q \in Int /\ r = p - w /\ s = q - w
      BY <1>2
    <3> HIDE DEF p, q, r, s
    <3>2. Apart(r, s, p, q)
      BY <3>1 DEF Apart, DEFAULT_REPLY_DELAY_TIME
    <3> QED
      BY <3>2 DEF p, q, r, s
  <2>3. \A g \in Tags, a, b \in Node : Answering(a, g)' /\ Answering(b, g)' =>
          /\ Whole(pending'[a].wait - pending'[b].wait)
          /\ pending'[a].wait = pending'[b].wait => a = b
    BY <1>3, <1>4, <2>2 DEF InSlots, Apart
  <2>4. \A g \in Tags, a \in Node : Answering(a, g)' /\ Reporting(g)' =>
          Whole(pending'[a].wait - pending'[g].wait - DEFAULT_REPLY_DELAY_TIME)
    BY <1>3, <1>4, <2>2 DEF InSlots, Apart
  <2> QED
    BY <1>1, <2>1, <2>3, <2>4 DEF InSlots, Whole
<1> QED
  BY <1>5, <1>6, <1>7, <1>10, <1>11, <1>12, <1>13

LEMMA ElapseFacts ==
  ASSUME Inv, Together, Elapse
  PROVE  /\ InAir = {} /\ InAir' = {} /\ Heard' = {}
         /\ \A m \in Node : ~Transmitting(m)' /\ ~Hears(m)'
         /\ \A m \in Node : Narrows(table'[m], table[m])
         /\ UNCHANGED <<chipVars, pc, data, sentData, deaf, seq>>
<1>1. /\ Calm /\ UNCHANGED <<chipVars, pc, data, sentData, deaf, seq>>
      /\ \A m \in Node : ~Transmitting(m)
  BY DEF Elapse
<1>2. (\A m \in Node : ~Hears(m)) /\ Heard = {} /\ InAir = Underway
  BY <1>1, CalmFacts DEF Together
<1>3. Underway = {}
  BY <1>1 DEF Underway
<1>4. \A m \in Node : ~Transmitting(m)' /\ ~Hears(m)'
  BY <1>1, <1>2 DEF Transmitting, Hears, chipVars
<1>5. Underway' = {} /\ Heard' = {}
  BY <1>4 DEF Underway, Heard
<1>6. \A m \in Node : Narrows(table'[m], table[m])
  BY AgedNarrows, SameItself DEF Elapse, Inv, Tables
<1> QED
  BY <1>1, <1>2, <1>3, <1>4, <1>5, <1>6 DEF InAir

LEMMA ElapseTogether ==
  ASSUME Inv, Together, Elapse
  PROVE  Together'
<1>1. /\ InAir' = {} /\ Heard' = {}
      /\ \A m \in Node : ~Transmitting(m)' /\ ~Hears(m)'
      /\ UNCHANGED <<chipVars, pc, data, sentData, deaf>>
  BY ElapseFacts
<1>2. Chip'
  BY <1>1 DEF Together, Chip, NoFlag, Transmitting, chipVars
<1>3. OneFrame' /\ OneFamily' /\ OnePoll' /\ OneAck' /\ OneRange'
  BY <1>1 DEF OneFrame, OneFamily, OnePoll, OneAck, OneRange
<1>4. InSlots'
  BY <1>1 DEF InSlots, Answering
<1> QED
  BY <1>2, <1>3, <1>4 DEF Together

---------------------------------------------------------------------------
(* What loop() notes of a frame it has received *)

(* The only device of an address is replaced by another of that address.   *)
Replaced(t, g, i, e, v) ==
  /\ Used(v) = Used(t) /\ v.dev[i] = e
  /\ \A j \in Used(t) \ {i} : v.dev[j] = t.dev[j]
  /\ SlotsOf(v, g) = {i}
  /\ \A x : x # g => SlotsOf(v, x) = SlotsOf(t, x) /\ i \notin SlotsOf(v, x)

LEMMA OneReplaced ==
  ASSUME NEW n \in Node, NEW t, Good(n, t), NEW g, NEW i \in SlotsOf(t, g),
         NEW e, e.addr = g
  PROVE  Replaced(t, g, i, e, [t EXCEPT !.dev[i] = e])
<1> DEFINE v == [t EXCEPT !.dev[i] = e]
<1>1. /\ t = [dev |-> t.dev, num |-> t.num] /\ DOMAIN t.dev = Slot
      /\ i \in Slot /\ i \in Used(t) /\ t.dev[i].addr = g /\ UniqueAddresses(t)
  BY DEF Good, TableOf, TableOK, SlotsOf, Used
<1>2. v.num = t.num /\ v.dev = [t.dev EXCEPT ![i] = e]
  BY <1>1
<1> HIDE DEF v
<1>3. /\ Used(v) = Used(t) /\ v.dev[i] = e
      /\ \A j \in Used(t) \ {i} : v.dev[j] = t.dev[j]
  BY <1>1, <1>2 DEF Used
<1>4. SlotsOf(v, g) = {i}
  BY <1>1, <1>3 DEF SlotsOf, UniqueAddresses
<1>5. \A x : x # g => SlotsOf(v, x) = SlotsOf(t, x) /\ i \notin SlotsOf(v, x)
  BY <1>1, <1>3 DEF SlotsOf
<1> QED
  BY <1>3, <1>4, <1>5 DEF Replaced, v

WithDevice(t, i, e) == [t EXCEPT !.dev[i] = e]

(* What table v, made of table t, says of the exchange.                    *)
NotesPoll(t, v, g, s) ==
  /\ PollsReceived(v, g) \subseteq {s}
  /\ PollsRanged(v, g) \subseteq PollsRanged(t, g) \cup {NoStamp}
  /\ \A x : x # g => /\ PollsReceived(v, x) \subseteq PollsReceived(t, x)
                     /\ AcksSent(v, x) \subseteq AcksSent(t, x)
                     /\ PollsRanged(v, x) \subseteq PollsRanged(t, x)

NotesRange(t, v, g, p) ==
  /\ PollsRanged(v, g) \subseteq {p}
  /\ \A x : /\ PollsReceived(v, x) \subseteq PollsReceived(t, x)
            /\ AcksSent(v, x) \subseteq AcksSent(t, x)
            /\ x # g => PollsRanged(v, x) \subseteq PollsRanged(t, x)

NotesAck(t, v) ==
  /\ AllServed(v)
  /\ \A x : /\ PollsSent(v, x) \subseteq PollsSent(t, x)
            /\ PollsReceived(v, x) \subseteq PollsReceived(t, x)
            /\ AcksSent(v, x) \subseteq AcksSent(t, x)
            /\ PollsRanged(v, x) \subseteq PollsRanged(t, x)

(* The devices in the slots S are one for a, with the POLL of the table    *)
(* and the reception s.                                                    *)
Reports(t, u, S, a, s) ==
  \A j \in S : /\ u.dev[j].addr = a /\ u.dev[j].ackReceived = s
               /\ u.dev[j].pollSent \in PollsSent(t, a)

LEMMA PollNotedTable ==
  ASSUME NEW n \in Anchors, NEW t, Good(n, t), NEW g \in Tags, NEW d \in NewDevice(n, g),
         NEW u \in AddNetworkDevice(t, d), NEW i \in SlotsOf(u, g), NEW s,
         NEW old, old = u.dev[i], NEW v, v = WithDevice(u, i, PollNoted(old, s))
  PROVE  NotesPoll(t, v, g, s)
<1>1. /\ n \in Node /\ g \in Partner(n)
      /\ d.addr = g /\ d.round1 = NoRound
  BY NodeAssumption DEF Partner, Node, NewDevice
<1>2. d \in Device(n)
  BY <1>1, NewDeviceType
<1>3. Good(n, u)
  BY <1>1, <1>2, AddGood
<1>4. \A j \in Used(u) : Same(u.dev[j], d) \/ \E k \in Used(t) : Same(u.dev[j], t.dev[k])
  BY <1>1, <1>2, AddSame
<1> DEFINE e == PollNoted(u.dev[i], s)
<1>5. i \in Used(u) /\ u.dev[i] \in Device(n) /\ u.dev[i].addr = g
  BY <1>3 DEF SlotsOf, Used, Good, TableOf
<1>6. e.addr = g /\ e.pollReceived = s /\ e.round1 = u.dev[i].round1
  BY <1>5 DEF PollNoted, Device
<1>7. v = [u EXCEPT !.dev[i] = e]
  BY DEF WithDevice
<1> HIDE DEF e
<1>13. Replaced(u, g, i, e, [u EXCEPT !.dev[i] = e])
  BY <1>1, <1>3, <1>6, OneReplaced
<1>8. /\ v.dev[i] = e /\ SlotsOf(v, g) = {i}
      /\ \A j \in Used(u) \ {i} : v.dev[j] = u.dev[j]
      /\ \A x : x # g => SlotsOf(v, x) = SlotsOf(u, x) /\ i \notin SlotsOf(v, x)
  BY <1>7, <1>13 DEF Replaced
<1>9. PollsReceived(v, g) \subseteq {s}
  BY <1>6, <1>8 DEF PollsReceived
<1>10. PollsRanged(v, g) \subseteq PollsRanged(t, g) \cup {NoStamp}
  <2>1. u.dev[i].round1 = NoRound \/ \E k \in SlotsOf(t, g) : u.dev[i].round1 = t.dev[k].round1
    BY <1>1, <1>4, <1>5 DEF Same, SlotsOf
  <2> QED
    BY <1>6, <1>8, <2>1 DEF PollsRanged, NoRound
<1>11. ASSUME NEW x, x # g
       PROVE  \A j \in SlotsOf(v, x) : \E k \in SlotsOf(t, x) : Same(v.dev[j], t.dev[k])
  <2>1. \A j \in SlotsOf(v, x) : j \in Used(u) \ {i} /\ v.dev[j] = u.dev[j] /\ u.dev[j].addr = x
    BY <1>8, <1>11 DEF SlotsOf
  <2> QED
    BY <1>1, <1>4, <1>11, <2>1 DEF Same, SlotsOf
<1>12. ASSUME NEW x, x # g
       PROVE  /\ PollsReceived(v, x) \subseteq PollsReceived(t, x)
              /\ AcksSent(v, x) \subseteq AcksSent(t, x)
              /\ PollsRanged(v, x) \subseteq PollsRanged(t, x)
  <2>1. PollsReceived(v, x) \subseteq PollsReceived(t, x)
    BY <1>11, <1>12 DEF PollsReceived, Same
  <2>2. AcksSent(v, x) \subseteq AcksSent(t, x)
    BY <1>11, <1>12 DEF AcksSent, Same
  <2>3. PollsRanged(v, x) \subseteq PollsRanged(t, x)
    BY <1>11, <1>12 DEF PollsRanged, Same
  <2> QED
    BY <2>1, <2>2, <2>3
<1> QED
  BY <1>9, <1>10, <1>12 DEF NotesPoll

RangeNoted(d, q, r) == [d EXCEPT !.age = 0, !.quality = q, !.round1 = r]

LEMMA RangeNotedTable ==
  ASSUME NEW n \in Node, NEW t, Good(n, t), NEW g, NEW i \in SlotsOf(t, g), NEW q, NEW r,
         NEW p, p = r.poll, NEW old, old = t.dev[i],
         NEW v, v = WithDevice(t, i, RangeNoted(old, q, r))
  PROVE  NotesRange(t, v, g, p)
<1> DEFINE e == RangeNoted(t.dev[i], q, r)
<1>1. i \in Used(t) /\ t.dev[i] \in Device(n) /\ t.dev[i].addr = g
  BY DEF SlotsOf, Used, Good, TableOf
<1>2. /\ e.addr = g /\ e.round1 = r /\ e.pollReceived = t.dev[i].pollReceived
      /\ e.ackSent = t.dev[i].ackSent
  BY <1>1 DEF RangeNoted, Device
<1>3. v = [t EXCEPT !.dev[i] = e]
  BY DEF WithDevice
<1> HIDE DEF e
<1>12. Replaced(t, g, i, e, [t EXCEPT !.dev[i] = e])
  BY <1>2, OneReplaced
<1>4. /\ v.dev[i] = e /\ SlotsOf(v, g) = {i}
      /\ \A j \in Used(t) \ {i} : v.dev[j] = t.dev[j]
      /\ \A x : x # g => SlotsOf(v, x) = SlotsOf(t, x) /\ i \notin SlotsOf(v, x)
  BY <1>3, <1>12 DEF Replaced
<1>5. \A x : SlotsOf(v, x) = SlotsOf(t, x) \/ x = g
  BY <1>4
<1>6. ASSUME NEW x, x # g
      PROVE  \A j \in SlotsOf(v, x) : j \in SlotsOf(t, x) /\ v.dev[j] = t.dev[j]
  BY <1>4, <1>6 DEF SlotsOf
<1>7. \A x : \A j \in SlotsOf(v, x) :
        /\ j \in SlotsOf(t, x) /\ v.dev[j].pollReceived = t.dev[j].pollReceived
        /\ v.dev[j].ackSent = t.dev[j].ackSent
  BY <1>2, <1>4, <1>6
<1>8. PollsRanged(v, g) \subseteq {p}
  BY <1>2, <1>4 DEF PollsRanged
<1>9. \A x : PollsReceived(v, x) \subseteq PollsReceived(t, x)
  BY <1>7 DEF PollsReceived
<1>10. \A x : AcksSent(v, x) \subseteq AcksSent(t, x)
  BY <1>7 DEF AcksSent
<1>11. \A x : x # g => PollsRanged(v, x) \subseteq PollsRanged(t, x)
  BY <1>6 DEF PollsRanged
<1> QED
  BY <1>8, <1>9, <1>10, <1>11 DEF NotesRange

(* The tag that has served all it has heard of reports to the anchor it    *)
(* hears of now, and to no other.                                          *)
LEMMA AckNotedTable ==
  ASSUME NEW n \in Node, NEW t, Good(n, t), AllServed(t), NEW a, NEW i \in SlotsOf(t, a),
         NEW s \in Stamps, NEW old, old = t.dev[i],
         NEW u, u = WithDevice(t, i, AckNoted(old, s)),
         NEW v, v = Serve(u, Answered(u))
  PROVE  NotesAck(t, v) /\ Reports(t, u, Answered(u), a, s)
<1> DEFINE e == AckNoted(t.dev[i], s)
<1>1. i \in Used(t) /\ t.dev[i] \in Device(n) /\ t.dev[i].addr = a
  BY DEF SlotsOf, Used, Good, TableOf
<1>2. /\ e.addr = a /\ e.acked /\ e.served = t.dev[i].served /\ e.ackReceived = s
      /\ e.pollSent = t.dev[i].pollSent /\ e.pollReceived = t.dev[i].pollReceived
      /\ e.ackSent = t.dev[i].ackSent /\ e.round1 = t.dev[i].round1
  BY <1>1 DEF AckNoted, Device
<1>3. u = [t EXCEPT !.dev[i] = e] /\ Noted(n, t.dev[i], e)
  BY <1>1, Notes DEF WithDevice
<1> HIDE DEF e
<1>4. Good(n, [t EXCEPT !.dev[i] = e]) /\ Replaced(t, a, i, e, [t EXCEPT !.dev[i] = e])
  BY <1>1, <1>2, <1>3, OneNoted, OneReplaced DEF Used
<1>5. /\ Good(n, u) /\ Used(u) = Used(t) /\ u.dev[i] = e /\ SlotsOf(u, a) = {i}
      /\ \A j \in Used(t) \ {i} : u.dev[j] = t.dev[j]
  BY <1>3, <1>4 DEF Replaced
<1> DEFINE X == {j \in Used(u) : u.dev[j].acked /\ ~u.dev[j].served}
           S == Answered(u)
<1>6. X \subseteq {i}
  BY <1>5 DEF AllServed
<1>7. X \subseteq S /\ S \subseteq X
  <2>1. S = FirstOf(X, devicePerTransmit)
    BY DEF Answered
  <2> HIDE DEF X
  <2>2. \A j \in X : {k \in X : k < j} = {}
    <3>1. \A j, k \in X : j = i /\ k = i /\ i \in Int
      BY <1>1, <1>6 DEF Used, Slot
    <3> QED
      BY <3>1
  <2>3. Cardinality({}) < devicePerTransmit
    BY FS_EmptySet, RangingAssumption
  <2> QED
    BY <2>1, <2>2, <2>3 DEF FirstOf
<1> HIDE DEF S
<1>8. \A j \in S : /\ u.dev[j].addr = a /\ u.dev[j].ackReceived = s
                  /\ u.dev[j].pollSent \in PollsSent(t, a)
  BY <1>2, <1>5, <1>6, <1>7 DEF PollsSent
<1>9. /\ Used(v) = Used(u)
      /\ \A j \in Used(u) : v.dev[j] = IF j \in S THEN [u.dev[j] EXCEPT !.served = TRUE]
                                               ELSE u.dev[j]
  BY <1>5 DEF Serve, Used, Good, TableOf, S
<1>10. \A j \in Used(u) : u.dev[j] \in Device(n)
  BY <1>5 DEF Good, TableOf, Used
<1>11. ASSUME NEW j \in Used(u)
       PROVE  /\ j \in S => v.dev[j].served
              /\ j \notin S => v.dev[j] = u.dev[j]
              /\ v.dev[j].addr = u.dev[j].addr /\ v.dev[j].pollSent = u.dev[j].pollSent
              /\ v.dev[j].pollReceived = u.dev[j].pollReceived
              /\ v.dev[j].ackSent = u.dev[j].ackSent /\ v.dev[j].round1 = u.dev[j].round1
  <2> DEFINE d == u.dev[j]
             c == v.dev[j]
  <2>1. c = (IF j \in S THEN [d EXCEPT !.served = TRUE] ELSE d) /\ d \in Device(n)
    BY <1>9, <1>10
  <2> HIDE DEF d, c
  <2>2. /\ j \in S => c.served
        /\ j \notin S => c = d
        /\ c.addr = d.addr /\ c.pollSent = d.pollSent /\ c.pollReceived = d.pollReceived
        /\ c.ackSent = d.ackSent /\ c.round1 = d.round1
    BY <2>1 DEF Device
  <2> QED
    BY <2>2 DEF c, d
<1>12. \A j \in Used(t) :
         /\ v.dev[j].addr = t.dev[j].addr /\ v.dev[j].pollSent = t.dev[j].pollSent
         /\ v.dev[j].pollReceived = t.dev[j].pollReceived
         /\ v.dev[j].ackSent = t.dev[j].ackSent /\ v.dev[j].round1 = t.dev[j].round1
  BY <1>1, <1>2, <1>5, <1>11
<1>13. \A x : SlotsOf(v, x) = SlotsOf(t, x) /\ SlotsOf(t, x) \subseteq Used(t)
  BY <1>5, <1>9, <1>12 DEF SlotsOf
<1>14. AllServed(v)
  BY <1>7, <1>9, <1>11 DEF AllServed
<1>15. \A x : PollsSent(v, x) = PollsSent(t, x)
  BY <1>12, <1>13 DEF PollsSent
<1>16. \A x : PollsReceived(v, x) = PollsReceived(t, x)
  BY <1>12, <1>13 DEF PollsReceived
<1>17. \A x : AcksSent(v, x) = AcksSent(t, x)
  BY <1>12, <1>13 DEF AcksSent
<1>18. \A x : PollsRanged(v, x) = PollsRanged(t, x)
  BY <1>12, <1>13 DEF PollsRanged
<1> QED
  BY <1>8, <1>14, <1>15, <1>16, <1>17, <1>18 DEF S, NotesAck, Reports

(* The frame being handled: all that hear one hear the same, and its       *)
(* sender sends nothing.                                                   *)
LEMMA HandlingFacts ==
  ASSUME Inv, Together, NEW n \in Node, HandleReceived(n)
  PROVE  LET f == data[n]
         IN /\ pc[n] = "handle" /\ f = rxFrame[n] /\ f \in Frame /\ f \in Heard /\ f \in InAir
            /\ f.src \in Node /\ f.src # n /\ ~Transmitting(f.src)
            /\ ~sentAck[n] /\ ~receivedAck[n] /\ ~deaf[n]
            /\ \A h \in Heard : h = f
            /\ \A m \in Node : Hears(m)' => Hears(m) /\ rxFrame'[m] = rxFrame[m]
            /\ Heard' \subseteq Heard
            /\ pc' = [pc EXCEPT ![n] = "top"] /\ data' = [data EXCEPT ![n] = NoFrame]
            /\ UNCHANGED <<due, deaf, sentAck, receivedAck, txStamp, rxFrame>>
<1>1. /\ pc[n] = "handle"
      /\ pc' = [pc EXCEPT ![n] = "top"] /\ data' = [data EXCEPT ![n] = NoFrame]
      /\ UNCHANGED <<due, deaf, sentAck, receivedAck, txStamp, rxFrame>>
  BY DEF HandleReceived
<1> DEFINE f == data[n]
<1>2. f = rxFrame[n] /\ ~sentAck[n] /\ ~receivedAck[n] /\ ~deaf[n] /\ Hears(n)
  BY <1>1 DEF Together, Chip, NoFlag, Hears
<1>3. f \in Heard /\ f \in InAir /\ f \in Frame
  BY <1>2 DEF Heard, InAir, Inv, Receiving
<1>4. f.src \in Node /\ f.src # n /\ ~Transmitting(f.src) /\ \A h \in Heard : h = f
  BY <1>2, <1>3 DEF Together, OneFrame
<1>5. \A m \in Node : Hears(m)' => Hears(m) /\ rxFrame'[m] = rxFrame[m]
  BY <1>1 DEF Hears, Inv, Sweeping
<1>6. Heard' \subseteq Heard
  BY <1>5 DEF Heard
<1> QED
  BY <1>1, <1>2, <1>3, <1>4, <1>5, <1>6

(* A frame that is not answered.                                           *)
LEMMA NoReplyLess ==
  ASSUME Inv, Together, NEW n \in Node, HandleReceived(n), TransmitNothing
  PROVE  LessInAir /\ Chip'
<1>1. /\ pc[n] = "handle" /\ ~sentAck[n] /\ ~receivedAck[n]
      /\ \A m \in Node : Hears(m)' => Hears(m) /\ rxFrame'[m] = rxFrame[m]
      /\ pc' = [pc EXCEPT ![n] = "top"] /\ data' = [data EXCEPT ![n] = NoFrame]
      /\ UNCHANGED <<due, deaf, sentAck, receivedAck, txStamp, rxFrame, pending, sentData>>
  BY HandlingFacts DEF TransmitNothing
<1>2. LessInAir
  BY <1>1 DEF LessInAir
<1>3. Chip'
  BY <1>1 DEF Together, Chip, NoFlag, Transmitting, Inv, Sweeping, Receiving
<1> QED
  BY <1>2, <1>3

(* A frame that is answered with frame e, of the same exchange.            *)
LEMMA ReplyFacts ==
  ASSUME Inv, Together, NEW n \in Node, HandleReceived(n), NEW e, NEW wait \in Nat,
         Starts(n, e, wait), e.type # "POLL",
         \A g \in Tags : /\ Asking(g, e) => Asking(g, data[n])
                         /\ Meeting(g, e) => Meeting(g, data[n])
  PROVE  /\ Chip' /\ OneFrame' /\ OneFamily'
         /\ InAir' \subseteq InAir \cup {e} /\ Heard' \subseteq Heard
<1> DEFINE f == data[n]
<1>1. /\ pc[n] = "handle" /\ ~sentAck[n] /\ ~receivedAck[n]
      /\ \A m \in Node : Hears(m)' => Hears(m) /\ rxFrame'[m] = rxFrame[m]
      /\ pc' = [pc EXCEPT ![n] = "top"] /\ data' = [data EXCEPT ![n] = NoFrame]
      /\ UNCHANGED <<due, deaf, sentAck, receivedAck, txStamp, rxFrame>>
  BY HandlingFacts
<1>2. /\ f \in Heard /\ f \in InAir /\ f.src \in Node /\ f.src # n /\ ~Transmitting(f.src)
      /\ \A h \in Heard : h = f
      /\ Heard' \subseteq Heard
  BY HandlingFacts
<1>3. /\ Transmitting(n)' /\ pending'[n].frame = e
      /\ \A m \in Node \ {n} : pending'[m] = pending[m] /\ (Transmitting(m)' <=> Transmitting(m))
      /\ Underway' \subseteq Underway \cup {e}
  BY StartsFacts
<1>4. InAir' \subseteq InAir \cup {e}
  BY <1>2, <1>3 DEF InAir
<1>5. sentData'[n] = e /\ e.src = n /\ \A m \in Node \ {n} : sentData'[m] = sentData[m]
  BY DEF Starts, Inv, Sending
<1>6. Chip'
  BY <1>1, <1>3, <1>5 DEF Together, Chip, NoFlag, Inv, Sweeping, Receiving, Hears
<1>7. OneFrame'
  BY <1>1, <1>2, <1>3 DEF Together, OneFrame
<1>8. OneFamily'
  <2> SUFFICES ASSUME NEW g \in Tags
               PROVE  /\ due'[g] => \A h \in InAir' : ~Asking(g, h) /\ ~Meeting(g, h)
                      /\ \A h, k \in InAir' : ~(Asking(g, h) /\ Meeting(g, k))
                      /\ Transmitting(g)' /\ pending'[g].frame.type = "POLL" =>
                           \A h \in InAir' : Asking(g, h) => h = pending'[g].frame
    BY DEF OneFamily, Asking, Meeting
  <2> HIDE DEF f
  <2>1. g \in Node
    BY DEF Node
  <2>2. (Asking(g, e) => Asking(g, f)) /\ (Meeting(g, e) => Meeting(g, f))
    BY DEF f
  <2>3. /\ due[g] => \A h \in InAir : ~Asking(g, h) /\ ~Meeting(g, h)
        /\ \A h, k \in InAir : ~(Asking(g, h) /\ Meeting(g, k))
    BY DEF Together, OneFamily
  <2>4. /\ due'[g] => \A h \in InAir' : ~Asking(g, h) /\ ~Meeting(g, h)
        /\ \A h, k \in InAir' : ~(Asking(g, h) /\ Meeting(g, k))
    BY <1>1, <1>2, <1>4, <2>2, <2>3
  <2>5. ASSUME Transmitting(g)', pending'[g].frame.type = "POLL"
        PROVE  \A h \in InAir' : Asking(g, h) => h = pending'[g].frame
    <3>1. g # n /\ Transmitting(g) /\ pending'[g] = pending[g]
      BY <1>3, <2>1, <2>5
    <3>2. \A h \in InAir : Asking(g, h) => h = pending[g].frame
      BY <2>5, <3>1 DEF Together, OneFamily
    <3>3. pending[g].frame.src = g
      BY <2>1, <3>1, SentBySource DEF Together
    <3>4. ~Asking(g, f)
      BY <1>2, <3>1, <3>2, <3>3
    <3> QED
      BY <1>4, <2>2, <3>1, <3>2, <3>4
  <2> QED
    BY <2>4, <2>5
<1> QED
  BY <1>2, <1>4, <1>6, <1>7, <1>8

LEMMA IgnoreTogether ==
  ASSUME Inv, Together, NEW n \in Node, HandleReceived(n), IgnoreFrame(n, data[n])
  PROVE  LessInAir /\ LessAgreed /\ Chip'
<1>1. TransmitNothing /\ UNCHANGED <<table, sentAck, sentData, txStamp, deaf>>
  BY HandlingFacts DEF IgnoreFrame, TransmitNothing
<1> QED
  BY <1>1, SameNoted, NoReplyLess DEF LessNoted, LessAgreed

(* A tag that has just met an anchor is not asking any.                    *)
LEMMA RangingInitTogether ==
  ASSUME Inv, Together, NEW n \in Node, HandleReceived(n), RangingInitAtTag(n, data[n])
  PROVE  LessInAir /\ LessAgreed /\ Chip'
<1> DEFINE f == data[n]
<1>1. /\ TransmitNothing /\ n \in Tags
      /\ \A m \in Node \ {n} : table'[m] = table[m]
      /\ Meeting(n, f)
  BY DEF RangingInitAtTag, Meeting, Inv, Tables
<1>2. f \in InAir /\ UNCHANGED <<sentAck, sentData, txStamp, deaf>>
  BY <1>1, HandlingFacts DEF TransmitNothing
<1> HIDE DEF f
<1>3. \A h \in InAir : ~Asking(n, h)
  BY <1>1, <1>2 DEF Together, OneFamily
<1>4. LessAgreed
  <2> SUFFICES ASSUME NEW g \in Tags, g # n
               PROVE  /\ Settled(g) => Settled(g)'
                      /\ \A a \in Anchors : /\ Asked(g, a)' \subseteq Asked(g, a)
                                            /\ Taken(a, g)' \subseteq Taken(a, g)
                                            /\ Acked(a, g)' \subseteq Acked(a, g)
    BY <1>3 DEF LessAgreed
  <2>1. table'[g] = table[g] /\ \A a \in Anchors : table'[a] = table[a]
    BY <1>1, NodeAssumption DEF Node
  <2> QED
    BY <1>2, <2>1 DEF Settled, Asked, Taken, Acked, Unnoted
<1> QED
  BY <1>1, <1>4, NoReplyLess

LEMMA RangeNotes ==
  ASSUME Inv, NEW n \in Node, NEW f, RangeAtAnchor(n, f)
  PROVE  NotesRange(table[n], table'[n], f.src, f.devices[n].poll)
<1> DEFINE t == table[n]
           r == f.devices[n]
           v == table'[n]
           p == r.poll
<1>1. Good(n, t)
  BY DEF Inv, Tables
<1>2. PICK i \in SlotsOf(t, f.src), q \in Quality :
        table' = [table EXCEPT ![n].dev[i] = [@ EXCEPT !.age = 0, !.quality = q, !.round1 = r]]
  BY DEF RangeAtAnchor
<1> DEFINE old == t.dev[i]
<1>3. v = WithDevice(t, i, RangeNoted(old, q, r)) /\ old = t.dev[i] /\ p = r.poll
  BY <1>2 DEF WithDevice, RangeNoted, Inv, Tables
<1> HIDE DEF t, r, v, p, old
<1>4. NotesRange(t, v, f.src, p)
  BY <1>1, <1>3, RangeNotedTable
<1> QED
  BY <1>4 DEF t, v, p, r

LEMMA RangeTogether ==
  ASSUME Inv, Together, NEW n \in Node, HandleReceived(n), RangeAtAnchor(n, data[n])
  PROVE  LessInAir /\ LessAgreed /\ Chip'
<1> DEFINE f == data[n]
<1>1. TransmitNothing /\ n \in Anchors /\ \A m \in Node \ {n} : table'[m] = table[m]
  BY DEF RangeAtAnchor, Inv, Tables
<1>2. UNCHANGED <<sentAck, sentData, txStamp, deaf>>
  BY <1>1, HandlingFacts DEF TransmitNothing
<1> HIDE DEF f
<1>3. \A x : /\ PollsReceived(table'[n], x) \subseteq PollsReceived(table[n], x)
             /\ AcksSent(table'[n], x) \subseteq AcksSent(table[n], x)
  BY RangeNotes DEF NotesRange, f
<1>4. LessAgreed
  <2>1. \A g \in Tags : table'[g] = table[g]
    BY <1>1, NodeAssumption DEF Node
  <2>2. \A g \in Tags : Settled(g) => Settled(g)'
    BY <1>2, <2>1 DEF Settled, Unnoted
  <2>3. ASSUME NEW g \in Tags, NEW a \in Anchors
        PROVE  /\ Asked(g, a)' \subseteq Asked(g, a)
               /\ Taken(a, g)' \subseteq Taken(a, g)
               /\ Acked(a, g)' \subseteq Acked(a, g)
    <3>1. Asked(g, a)' \subseteq Asked(g, a)
      BY <1>2, <2>1 DEF Asked, Unnoted
    <3>2. /\ PollsReceived(table'[a], g) \subseteq PollsReceived(table[a], g)
          /\ AcksSent(table'[a], g) \subseteq AcksSent(table[a], g)
      BY <1>1, <1>3 DEF Node
    <3>3. Taken(a, g)' \subseteq Taken(a, g) /\ Acked(a, g)' \subseteq Acked(a, g)
      BY <1>2, <3>2 DEF Taken, Acked, Unnoted
    <3> QED
      BY <3>1, <3>3
  <2> QED
    BY <2>2, <2>3 DEF LessAgreed
<1> QED
  BY <1>1, <1>4, NoReplyLess

LEMMA BlinkTogether ==
  ASSUME Inv, Together, NEW n \in Node, HandleReceived(n), BlinkAtAnchor(n, data[n])
  PROVE  Together'
<1> USE DEF Together
<1> DEFINE f == data[n]
<1>1. n \in Anchors /\ f.type = "BLINK" /\ table' = table
  BY DEF BlinkAtAnchor
<1>2. /\ f \in Frame /\ f \in Heard /\ \A h \in Heard : h = f
      /\ UNCHANGED <<deaf, sentAck, txStamp, rxFrame>> /\ ~sentAck[n]
  BY HandlingFacts
<1>3. CASE TransmitNothing
  <2>1. LessNoted
    BY <1>1, <1>2, <1>3, SameNoted DEF TransmitNothing
  <2> QED
    BY <1>3, <2>1, NoReplyLess, LessTogether DEF LessNoted, LessAgreed
<1>4. ASSUME NEW slot \in RandomSlots, Transmit(n, RangingInit(n, f.src), slotDuration * slot)
      PROVE  Together'
  <2> DEFINE e == RangingInit(n, f.src)
             wait == slotDuration * slot
  <2>1. wait \in Nat
    BY RangingAssumption DEF slotDuration
  <2>2. e.type = "RANGING_INIT" /\ e.dst = f.src /\ e.src = n
    BY DEF RangingInit
  <2>3. Starts(n, e, wait)
    BY <1>4, <2>2 DEF Transmit, Starts
  <2>4. \A g \in Tags : /\ Asking(g, e) => Asking(g, f)
                        /\ Meeting(g, e) => Meeting(g, f)
    BY <1>1, <2>2 DEF Asking, Meeting
  <2> HIDE DEF e, wait
  <2>5. /\ Chip' /\ OneFrame' /\ OneFamily'
        /\ InAir' \subseteq InAir \cup {e} /\ Heard' \subseteq Heard
    BY <2>1, <2>2, <2>3, <2>4, ReplyFacts
  <2>6. /\ \A a, g \in Node : Answering(a, g)' =>
             a # n /\ Answering(a, g) /\ pending'[a] = pending[a]
        /\ \A g \in Node : Reporting(g)' =>
             g # n /\ Reporting(g) /\ pending'[g] = pending[g]
    BY <2>1, <2>2, <2>3, StartsFacts
  <2> HIDE DEF f
  <2>7. LessNoted
    <3>1. sentData' = [sentData EXCEPT ![n] = e]
      BY <2>3 DEF Starts
    <3>2. \A m \in Node : Unnoted(m, "POLL")' <=> Unnoted(m, "POLL")
      BY <1>2, <3>1 DEF Unnoted, Inv, Sending
    <3>3. \A m, g \in Node : (Unnoted(m, "POLL_ACK") /\ sentData[m].dst = g)'
                                <=> (Unnoted(m, "POLL_ACK") /\ sentData[m].dst = g)
      BY <1>2, <3>1 DEF Unnoted, Inv, Sending
    <3>4. Tags \subseteq Node /\ Anchors \subseteq Node
      BY DEF Node
    <3>5. \A g \in Tags : Settled(g) => Settled(g)'
      BY <1>1, <1>2, <3>2, <3>4 DEF Settled
    <3>6. ASSUME NEW g \in Tags, NEW a \in Anchors
          PROVE  Asked(g, a)' \subseteq Asked(g, a) /\ Acked(a, g)' \subseteq Acked(a, g)
      BY <1>1, <1>2, <3>2, <3>3, <3>4 DEF Asked, Acked
    <3>7. ASSUME NEW g \in Tags, NEW a \in Anchors
          PROVE  Taken(a, g)' \subseteq Taken(a, g) /\ Ranged(a, g)' \subseteq Ranged(a, g)
      BY <1>1 DEF Taken, Ranged
    <3> QED
      BY <3>5, <3>6, <3>7 DEF LessNoted
  <2>8. \A h \in InAir :
          /\ h.type \in {"POLL", "RANGE"} => h.src \in Tags /\ DOMAIN h.devices \subseteq Anchors
          /\ h.type = "POLL_ACK" => h.src \in Anchors /\ h.dst \in Tags
    BY InAirFrames, FrameNodes
  <2>9. Tags \subseteq Node /\ Anchors \subseteq Node /\ Heard \subseteq InAir
    BY DEF Node, InAir
  <2>10. OnePoll'
    <3>1. ASSUME NEW h \in InAir', h.type = "POLL_ACK"
          PROVE  /\ Settled(h.dst)'
                 /\ \A x \in Asked(h.dst, h.src)', y \in Taken(h.src, h.dst)' : x = y
      BY <2>2, <2>5, <2>7, <2>8, <3>1 DEF OnePoll, LessNoted
    <3>2. ASSUME NEW h \in Heard', h.type = "POLL"
          PROVE  Settled(h.src)' /\ \A a \in Anchors : Asked(h.src, a)' \subseteq {Stamp(h)}
      BY <1>1, <1>2, <2>5, <3>2
    <3> QED
      BY <3>1, <3>2 DEF OnePoll, Stamp
  <2>11. OneAck'
    BY <1>1, <1>2, <2>5 DEF OneAck
  <2>12. OneRange'
    <3> SUFFICES ASSUME NEW h \in InAir', h.type = "RANGE", NEW a \in DOMAIN h.devices
                 PROVE  /\ Taken(a, h.src)' \subseteq {h.devices[a].poll}
                        /\ Acked(a, h.src)' \subseteq {h.devices[a].ack}
                        /\ ~Answering(a, h.src)'
      BY DEF OneRange
    <3>1. h \in InAir /\ h.src \in Tags /\ a \in Anchors
      BY <2>2, <2>5, <2>8
    <3> QED
      BY <2>6, <2>7, <2>9, <3>1 DEF OneRange, LessNoted
  <2>13. InSlots'
    <3>1. \A h \in InAir' : h.type = "POLL" =>
            /\ \A a \in DOMAIN h.devices : Whole(h.devices[a] - DEFAULT_REPLY_DELAY_TIME)
            /\ \A a, b \in DOMAIN h.devices : h.devices[a] = h.devices[b] => a = b
      BY <2>2, <2>5 DEF InSlots
    <3>2. \A h \in Heard' : h.type \notin {"POLL", "POLL_ACK"}
      BY <1>1, <1>2, <2>5
    <3>3. \A g \in Tags, a, b \in Node : Answering(a, g)' /\ Answering(b, g)' =>
            /\ Whole(pending'[a].wait - pending'[b].wait)
            /\ pending'[a].wait = pending'[b].wait => a = b
      BY <2>6, <2>9 DEF InSlots
    <3>4. \A g \in Tags, a \in Node : Answering(a, g)' /\ Reporting(g)' =>
            Whole(pending'[a].wait - pending'[g].wait - DEFAULT_REPLY_DELAY_TIME)
      BY <2>6, <2>9 DEF InSlots
    <3> QED
      BY <3>1, <3>2, <3>3, <3>4 DEF InSlots, Whole
  <2> QED
    BY <2>5, <2>10, <2>11, <2>12, <2>13
<1> QED
  BY <1>3, <1>4 DEF BlinkAtAnchor

(* What is noted when the handler of n changes its table and no other.     *)
LEMMA HandlerNotes ==
  ASSUME NEW n \in Node, ~sentAck[n], ~deaf[n], UNCHANGED <<deaf, sentAck, txStamp>>,
         \A m \in Node \ {n} : table'[m] = table[m] /\ sentData'[m] = sentData[m]
  PROVE  /\ \A g \in Tags \ {n} : /\ Settled(g)' <=> Settled(g)
                                  /\ \A x : Asked(g, x)' = Asked(g, x)
         /\ \A a \in Anchors \ {n} : \A x : /\ Taken(a, x)' = Taken(a, x)
                                            /\ Acked(a, x)' = Acked(a, x)
                                            /\ Ranged(a, x)' = Ranged(a, x)
         /\ Settled(n) <=> AllServed(table[n])
         /\ Settled(n)' <=> AllServed(table'[n])
         /\ \A x : /\ Asked(n, x) = PollsSent(table[n], x)
                   /\ Asked(n, x)' = PollsSent(table'[n], x)
                   /\ Acked(n, x) = AcksSent(table[n], x)
                   /\ Acked(n, x)' = AcksSent(table'[n], x)
                   /\ Taken(n, x)' = PollsReceived(table'[n], x)
                   /\ Ranged(n, x)' = PollsRanged(table'[n], x)
<1>1. \A m \in Node \ {n} : table'[m] = table[m]
  OBVIOUS
<1>2. \A g \in Tags \ {n} : g \in Node \ {n}
  BY DEF Node
<1>3. \A a \in Anchors \ {n} : a \in Node \ {n}
  BY DEF Node
<1>4. \A m \in Node \ {n} : \A type : Unnoted(m, type)' <=> Unnoted(m, type)
  BY DEF Unnoted
<1>5. ~(\E type : Unnoted(n, type)) /\ ~(\E type : Unnoted(n, type)')
  BY DEF Unnoted
<1>6. \A g \in Tags \ {n} : /\ Settled(g)' <=> Settled(g)
                            /\ \A x : Asked(g, x)' = Asked(g, x)
  BY <1>1, <1>2, <1>4 DEF Settled, Asked
<1>7. \A a \in Anchors \ {n} : \A x : /\ Taken(a, x)' = Taken(a, x)
                                      /\ Ranged(a, x)' = Ranged(a, x)
  BY <1>1, <1>3 DEF Taken, Ranged
<1>8. \A a \in Anchors \ {n} : \A x : Acked(a, x)' = Acked(a, x)
  BY <1>1, <1>3, <1>4 DEF Acked
<1>9. (Settled(n) <=> AllServed(table[n])) /\ (Settled(n)' <=> AllServed(table'[n]))
  BY <1>5 DEF Settled
<1>10. \A x : /\ Asked(n, x) = PollsSent(table[n], x)
              /\ Asked(n, x)' = PollsSent(table'[n], x)
              /\ Acked(n, x) = AcksSent(table[n], x)
              /\ Acked(n, x)' = AcksSent(table'[n], x)
              /\ Taken(n, x)' = PollsReceived(table'[n], x)
              /\ Ranged(n, x)' = PollsRanged(table'[n], x)
  BY <1>5 DEF Asked, Acked, Taken, Ranged
<1> QED
  BY <1>6, <1>7, <1>8, <1>9, <1>10

LEMMA PollNotes ==
  ASSUME Inv, NEW n \in Node, NEW f \in Frame, PollAtAnchor(n, f)
  PROVE  /\ NotesPoll(table[n], table'[n], f.src, Stamp(rxFrame[n]))
         /\ \A m \in Node \ {n} : table'[m] = table[m]
<1> DEFINE t == table[n]
           s == Stamp(rxFrame[n])
           v == table'[n]
           g == f.src
<1>1. Good(n, t) /\ n \in Anchors /\ g \in Tags
  BY FrameFields DEF PollAtAnchor, Inv, Tables
<1> HIDE DEF s
<1>2. PICK d \in NewDevice(n, g) :
        \E u \in AddNetworkDevice(t, d) : \E i \in SlotsOf(u, g) :
          table' = [table EXCEPT ![n] = [u EXCEPT !.dev[i] = PollNoted(@, s)]]
  BY DEF PollAtAnchor, s
<1>3. PICK u \in AddNetworkDevice(t, d) : \E i \in SlotsOf(u, g) :
        table' = [table EXCEPT ![n] = [u EXCEPT !.dev[i] = PollNoted(@, s)]]
  BY <1>2
<1>4. PICK i \in SlotsOf(u, g) :
        table' = [table EXCEPT ![n] = [u EXCEPT !.dev[i] = PollNoted(@, s)]]
  BY <1>3
<1> DEFINE old == u.dev[i]
<1>5. v = WithDevice(u, i, PollNoted(old, s)) /\ old = u.dev[i]
  BY <1>4 DEF WithDevice, Inv, Tables
<1>6. \A m \in Node \ {n} : table'[m] = table[m]
  BY <1>4 DEF Inv, Tables
<1> HIDE DEF t, v, g, old
<1>7. NotesPoll(t, v, g, s)
  BY <1>1, <1>5, PollNotedTable
<1> QED
  BY <1>6, <1>7 DEF t, v, g, s

LEMMA WholeDifference ==
  \A x, y \in Int : Whole(x - DEFAULT_REPLY_DELAY_TIME) /\ Whole(y - DEFAULT_REPLY_DELAY_TIME)
                      => Whole(x - y)
<1> SUFFICES ASSUME NEW x \in Int, NEW y \in Int, NEW j \in Int, NEW k \in Int,
                    x - DEFAULT_REPLY_DELAY_TIME = j * Gap,
                    y - DEFAULT_REPLY_DELAY_TIME = k * Gap
             PROVE  x - y = (j - k) * Gap
  BY DEF Whole
<1> QED
  BY DEF Gap, DEFAULT_REPLY_DELAY_TIME

LEMMA PollTogether ==
  ASSUME Inv, Together, NEW n \in Node, HandleReceived(n),
         NEW f, f = data[n], PollAtAnchor(n, f)
  PROVE  Together'
<1> USE DEF Together
<1> DEFINE g == f.src
           s == Stamp(f)
           e == PollAck(n, g)
           wait == f.devices[n]
<1>1. /\ n \in Anchors /\ f.type = "POLL" /\ n \in DOMAIN f.devices
      /\ Transmit(n, e, wait)
  BY DEF PollAtAnchor
<1>2. /\ f \in Frame /\ f \in Heard /\ f \in InAir /\ \A h \in Heard : h = f
      /\ ~Transmitting(f.src) /\ f.src # n /\ f = rxFrame[n]
      /\ UNCHANGED <<deaf, sentAck, txStamp>> /\ ~sentAck[n] /\ ~deaf[n]
  BY HandlingFacts
<1>3. g \in Tags /\ wait \in Nat /\ n \notin Tags /\ g \notin Anchors
  BY <1>1, <1>2, FrameFields, NodeAssumption
<1>4. e.type = "POLL_ACK" /\ e.dst = g /\ e.src = n
  BY DEF PollAck
<1>5. Starts(n, e, wait)
  BY <1>1, <1>4 DEF Transmit, Starts
<1>6. \A x \in Tags : /\ Asking(x, e) => Asking(x, f)
                      /\ Meeting(x, e) => Meeting(x, f)
  BY <1>1, <1>4 DEF Asking, Meeting
<1>7. /\ NotesPoll(table[n], table'[n], g, s)
      /\ \A m \in Node \ {n} : table'[m] = table[m] /\ sentData'[m] = sentData[m]
  BY <1>1, <1>2, <1>5, PollNotes DEF Starts, Inv, Sending
<1> HIDE DEF e, wait, s, g
<1>8. /\ Chip' /\ OneFrame' /\ OneFamily'
      /\ InAir' \subseteq InAir \cup {e} /\ Heard' \subseteq Heard
  BY <1>3, <1>4, <1>5, <1>6, ReplyFacts
<1>9. /\ \A a, x \in Node : Answering(a, x)' =>
           \/ a = n /\ x = g
           \/ a # n /\ Answering(a, x) /\ pending'[a] = pending[a]
      /\ \A x \in Node : Reporting(x)' =>
           x # n /\ Reporting(x) /\ pending'[x] = pending[x]
      /\ pending'[n].wait = wait
  BY <1>3, <1>4, <1>5, StartsFacts
<1>10. /\ \A x \in Tags : Settled(x)' <=> Settled(x)
       /\ \A x \in Tags, a \in Anchors : Asked(x, a)' = Asked(x, a)
  BY <1>2, <1>3, <1>7, HandlerNotes
<1>11. Taken(n, g)' \subseteq {s}
  BY <1>7 DEF NotesPoll, Taken
<1>12. ASSUME NEW x \in Tags, NEW a \in Anchors, a # n \/ x # g
       PROVE  Taken(a, x)' \subseteq Taken(a, x) /\ Acked(a, x)' \subseteq Acked(a, x)
  <2>1. CASE a # n
    BY <1>2, <1>7, <2>1, HandlerNotes
  <2>2. CASE a = n /\ x # g
    <3>1. /\ PollsReceived(table'[n], x) \subseteq PollsReceived(table[n], x)
          /\ AcksSent(table'[n], x) \subseteq AcksSent(table[n], x)
      BY <1>7, <2>2 DEF NotesPoll
    <3>2. /\ Acked(n, x) = AcksSent(table[n], x) /\ Acked(n, x)' = AcksSent(table'[n], x)
          /\ Taken(n, x)' = PollsReceived(table'[n], x)
      BY <1>2, <1>7, HandlerNotes
    <3> QED
      BY <2>2, <3>1, <3>2 DEF Taken
  <2> QED
    BY <1>12, <2>1, <2>2
<1>13. \A h \in InAir :
        /\ h.type \in {"POLL", "RANGE"} => h.src \in Tags /\ DOMAIN h.devices \subseteq Anchors
        /\ h.type = "POLL_ACK" => h.src \in Anchors /\ h.dst \in Tags
  BY InAirFrames, FrameNodes
<1>14. Tags \subseteq Node /\ Anchors \subseteq Node /\ Heard \subseteq InAir
  BY DEF Node, InAir
<1>15. \A x \in Anchors : Asked(g, x) \subseteq {s}
  BY <1>1, <1>2 DEF OnePoll, g, s
<1>16. OnePoll'
  <2>1. ASSUME NEW h \in InAir', h.type = "POLL_ACK"
        PROVE  /\ Settled(h.dst)'
               /\ \A x \in Asked(h.dst, h.src)', y \in Taken(h.src, h.dst)' : x = y
    <3>1. h.src \in Anchors /\ h.dst \in Tags
      BY <1>1, <1>3, <1>4, <1>8, <1>13, <2>1
    <3>2. CASE h.src = n /\ h.dst = g
      <4>1. Settled(g)
        BY <1>1, <1>2 DEF OnePoll, g
      <4> QED
        BY <1>1, <1>3, <1>10, <1>11, <1>15, <3>2, <4>1
    <3>3. CASE h.src # n \/ h.dst # g
      <4>1. h \in InAir
        BY <1>4, <1>8, <3>3
      <4>2. /\ Settled(h.dst)
            /\ \A x \in Asked(h.dst, h.src), y \in Taken(h.src, h.dst) : x = y
        BY <2>1, <4>1 DEF OnePoll
      <4> QED
        BY <1>10, <1>12, <3>1, <3>3, <4>2
    <3> QED
      BY <3>2, <3>3
  <2>2. ASSUME NEW h \in Heard', h.type = "POLL"
        PROVE  Settled(h.src)' /\ \A a \in Anchors : Asked(h.src, a)' \subseteq {Stamp(h)}
    <3>1. h \in Heard /\ h.src \in Tags
      BY <1>8, <1>13, <1>14, <2>2
    <3> QED
      BY <1>10, <2>2, <3>1 DEF OnePoll
  <2> QED
    BY <2>1, <2>2 DEF OnePoll, Stamp
<1>17. OneAck'
  BY <1>1, <1>2, <1>8 DEF OneAck
<1>18. OneRange'
  <2> SUFFICES ASSUME NEW h \in InAir', h.type = "RANGE", NEW a \in DOMAIN h.devices
               PROVE  /\ Taken(a, h.src)' \subseteq {h.devices[a].poll}
                      /\ Acked(a, h.src)' \subseteq {h.devices[a].ack}
                      /\ ~Answering(a, h.src)'
    BY DEF OneRange
  <2>1. h \in InAir /\ h.src \in Tags /\ a \in Anchors
    BY <1>4, <1>8, <1>13
  <2>2. h.src # g
    <3>1. h \notin Heard
      BY <1>1, <1>2
    <3>2. PICK k \in Node : Transmitting(k) /\ h = pending[k].frame
      BY <2>1, <3>1 DEF InAir, Underway
    <3>3. h.src = k
      BY <3>2, SentBySource
    <3> QED
      BY <1>2, <3>2, <3>3 DEF g
  <2>3. /\ Taken(a, h.src) \subseteq {h.devices[a].poll}
        /\ Acked(a, h.src) \subseteq {h.devices[a].ack}
        /\ ~Answering(a, h.src)
    BY <2>1 DEF OneRange
  <2>4. Taken(a, h.src)' \subseteq Taken(a, h.src) /\ Acked(a, h.src)' \subseteq Acked(a, h.src)
    BY <1>12, <2>1, <2>2
  <2> QED
    BY <1>9, <1>14, <2>1, <2>2, <2>3, <2>4
<1>19. InSlots'
  <2>1. \A h \in InAir' : h.type = "POLL" =>
          /\ \A a \in DOMAIN h.devices : Whole(h.devices[a] - DEFAULT_REPLY_DELAY_TIME)
          /\ \A a, b \in DOMAIN h.devices : h.devices[a] = h.devices[b] => a = b
    BY <1>4, <1>8 DEF InSlots
  <2>2. \A a \in Node : Answering(a, g)' =>
          a \in DOMAIN f.devices /\ pending'[a].wait = f.devices[a]
    BY <1>1, <1>2, <1>3, <1>9, <1>14 DEF InSlots, g, wait
  <2>3. \A h \in Heard', a \in Node : h.type = "POLL" /\ Answering(a, h.src)' =>
          a \in DOMAIN h.devices /\ pending'[a].wait = h.devices[a]
    BY <1>2, <1>8, <2>2 DEF g
  <2>4. ASSUME NEW x \in Tags, NEW a \in Node, NEW b \in Node, Answering(a, x)', Answering(b, x)'
        PROVE  /\ Whole(pending'[a].wait - pending'[b].wait)
               /\ pending'[a].wait = pending'[b].wait => a = b
    <3>1. CASE x # g
      BY <1>9, <1>14, <2>4, <3>1 DEF InSlots
    <3>2. CASE x = g
      <4>1. /\ a \in DOMAIN f.devices /\ pending'[a].wait = f.devices[a]
            /\ b \in DOMAIN f.devices /\ pending'[b].wait = f.devices[b]
        BY <2>2, <2>4, <3>2
      <4>2. /\ Whole(f.devices[a] - DEFAULT_REPLY_DELAY_TIME)
            /\ Whole(f.devices[b] - DEFAULT_REPLY_DELAY_TIME)
            /\ f.devices[a] = f.devices[b] => a = b
        BY <1>1, <1>2, <4>1 DEF InSlots
      <4>3. f.devices[a] \in Int /\ f.devices[b] \in Int
        BY <1>1, <1>2, <4>1, FrameFields
      <4>4. Whole(f.devices[a] - f.devices[b])
        BY <4>2, <4>3, WholeDifference
      <4> QED
        BY <4>1, <4>2, <4>4
    <3> QED
      BY <3>1, <3>2
  <2>5. \A x \in Tags, a \in Node : Answering(a, x)' /\ Reporting(x)' =>
          Whole(pending'[a].wait - pending'[x].wait - DEFAULT_REPLY_DELAY_TIME)
    <3>1. ~Reporting(g)
      BY <1>2 DEF Reporting, g
    <3> QED
      BY <1>9, <1>14, <3>1 DEF InSlots
  <2>6. \A h \in Heard' : h.type # "POLL_ACK"
    BY <1>1, <1>2, <1>8
  <2> QED
    BY <2>1, <2>3, <2>4, <2>5, <2>6 DEF InSlots, Whole
<1> QED
  BY <1>8, <1>16, <1>17, <1>18, <1>19

(* The RANGE of a tag that has served all it has heard of before.          *)
LEMMA AckNotes ==
  ASSUME Inv, NEW n \in Node, NEW f \in Frame, PollAckAtTag(n, f), AllServed(table[n])
  PROVE  /\ NotesAck(table[n], table'[n])
         /\ \A m \in Node \ {n} : table'[m] = table[m]
         /\ \/ TransmitNothing
            \/ \E e : /\ Starts(n, e, DEFAULT_REPLY_DELAY_TIME) /\ e.type = "RANGE"
                      /\ \A a \in DOMAIN e.devices :
                           /\ a = f.src
                           /\ e.devices[a].poll \in PollsSent(table[n], f.src)
                           /\ e.devices[a].ack = Stamp(rxFrame[n])
<1> DEFINE t == table[n]
           v == table'[n]
           a == f.src
           s == Stamp(rxFrame[n])
<1>1. Good(n, t) /\ s \in Stamps /\ AllServed(t)
  BY FrameStamp DEF Inv, Tables, Receiving
<1> HIDE DEF s
<1>2. PICK i \in SlotsOf(t, a) : TransmitRange(n, [t EXCEPT !.dev[i] = AckNoted(@, s)])
  BY DEF PollAckAtTag, s
<1> DEFINE old == t.dev[i]
           u == WithDevice(t, i, AckNoted(old, s))
           S == Answered(u)
           measured == [j \in S |-> [poll |-> u.dev[j].pollSent, ack |-> u.dev[j].ackReceived]]
           devs == ByAddress(u, S, measured)
<1>3. TransmitRange(n, u)
  BY <1>2 DEF WithDevice
<1> HIDE DEF u
<1>4. /\ table' = [table EXCEPT ![n] = Serve(u, S)]
      /\ TransmitNothing \/ Transmit(n, RangeFrame(n, devs), DEFAULT_REPLY_DELAY_TIME)
  BY <1>3 DEF TransmitRange
<1>5. v = Serve(u, Answered(u)) /\ \A m \in Node \ {n} : table'[m] = table[m]
  BY <1>4 DEF Inv, Tables
<1>6. old = t.dev[i] /\ u = WithDevice(t, i, AckNoted(old, s))
  BY DEF u
<1> HIDE DEF t, v, a, old, S
<1>7. NotesAck(t, v) /\ Reports(t, u, Answered(u), a, s)
  BY <1>1, <1>5, <1>6, AckNotedTable
<1>8. \A j \in S : /\ u.dev[j].addr = a /\ measured[j].ack = s
                   /\ measured[j].poll \in PollsSent(t, a)
  BY <1>7 DEF Reports, S
<1> HIDE DEF measured
<1>9. ASSUME NEW x \in DOMAIN devs
      PROVE  x = a /\ devs[x].poll \in PollsSent(t, a) /\ devs[x].ack = s
  <2>1. DOMAIN devs = {u.dev[j].addr : j \in S}
    BY DEF ByAddress
  <2>2. PICK j \in S : x = u.dev[j].addr
    BY <2>1
  <2> DEFINE k == CHOOSE o \in S : u.dev[o].addr = x
  <2>3. k \in S
    BY <2>2
  <2>4. devs[x] = measured[k]
    BY <2>1 DEF ByAddress
  <2> HIDE DEF k, devs
  <2> QED
    BY <1>8, <2>2, <2>3, <2>4
<1> HIDE DEF devs
<1> DEFINE e == RangeFrame(n, devs)
<1>10. e.type = "RANGE" /\ e.src = n /\ e.devices = devs
  BY DEF RangeFrame
<1>11. ASSUME Transmit(n, e, DEFAULT_REPLY_DELAY_TIME)
       PROVE  Starts(n, e, DEFAULT_REPLY_DELAY_TIME)
  BY <1>10, <1>11 DEF Transmit, Starts
<1> HIDE DEF e
<1>12. \/ TransmitNothing
       \/ /\ Starts(n, e, DEFAULT_REPLY_DELAY_TIME) /\ e.type = "RANGE"
          /\ \A x \in DOMAIN e.devices : /\ x = a /\ e.devices[x].poll \in PollsSent(t, a)
                                         /\ e.devices[x].ack = s
  BY <1>4, <1>9, <1>10, <1>11 DEF e
<1> QED
  BY <1>5, <1>7, <1>12 DEF t, v, a, s

LEMMA PollAckTogether ==
  ASSUME Inv, Together, NEW n \in Node, HandleReceived(n),
         NEW f, f = data[n], PollAckAtTag(n, f)
  PROVE  Together'
<1> USE DEF Together
<1> DEFINE c == f.src
<1>1. n \in Tags /\ f.type = "POLL_ACK" /\ f.dst = n
  BY DEF PollAckAtTag
<1>2. /\ f \in Frame /\ f \in Heard /\ f \in InAir /\ \A h \in Heard : h = f
      /\ ~Transmitting(c) /\ c # n /\ f = rxFrame[n]
      /\ UNCHANGED <<deaf, sentAck, txStamp>> /\ ~sentAck[n] /\ ~deaf[n]
  BY HandlingFacts
<1>3. c \in Anchors /\ n \notin Anchors
  BY <1>1, <1>2, FrameNodes, NodeAssumption
<1>4. /\ AllServed(table[n])
      /\ \A x \in PollsSent(table[n], c), y \in Taken(c, n) : x = y
      /\ Acked(c, n) \subseteq {Stamp(f)}
  <2>1. Settled(n) /\ \A x \in Asked(n, c), y \in Taken(c, n) : x = y
    BY <1>1, <1>2 DEF OnePoll
  <2>2. Acked(c, n) \subseteq {Stamp(f)}
    BY <1>1, <1>2 DEF OneAck
  <2> QED
    BY <1>2, <2>1, <2>2 DEF Settled, Asked, Unnoted
<1>5. /\ NotesAck(table[n], table'[n])
      /\ \A m \in Node \ {n} : table'[m] = table[m]
      /\ \/ TransmitNothing
         \/ \E e : /\ Starts(n, e, DEFAULT_REPLY_DELAY_TIME) /\ e.type = "RANGE"
                   /\ \A a \in DOMAIN e.devices :
                        /\ a = c
                        /\ e.devices[a].poll \in PollsSent(table[n], c)
                        /\ e.devices[a].ack = Stamp(f)
  BY <1>2, <1>4, AckNotes
<1>6. ASSUME \A m \in Node \ {n} : sentData'[m] = sentData[m]
      PROVE  /\ \A g \in Tags : Settled(g) => Settled(g)'
             /\ \A g \in Tags, a \in Anchors : /\ Asked(g, a)' \subseteq Asked(g, a)
                                               /\ Taken(a, g)' = Taken(a, g)
                                               /\ Acked(a, g)' = Acked(a, g)
  <2>1. /\ \A g \in Tags \ {n} : /\ Settled(g)' <=> Settled(g)
                                 /\ \A x : Asked(g, x)' = Asked(g, x)
        /\ \A a \in Anchors \ {n} : \A x : Taken(a, x)' = Taken(a, x) /\ Acked(a, x)' = Acked(a, x)
        /\ Settled(n)' <=> AllServed(table'[n])
        /\ \A x : Asked(n, x) = PollsSent(table[n], x) /\ Asked(n, x)' = PollsSent(table'[n], x)
    BY <1>2, <1>5, <1>6, HandlerNotes
  <2>2. Settled(n)' /\ \A x : Asked(n, x)' \subseteq Asked(n, x)
    BY <1>5, <2>1 DEF NotesAck
  <2> QED
    BY <1>3, <2>1, <2>2
<1>7. CASE TransmitNothing
  <2>1. LessAgreed
    BY <1>6, <1>7 DEF LessAgreed, TransmitNothing
  <2> QED
    BY <1>7, <2>1, NoReplyLess, LessTogether
<1>8. ASSUME NEW e, Starts(n, e, DEFAULT_REPLY_DELAY_TIME), e.type = "RANGE",
             \A a \in DOMAIN e.devices :
               /\ a = c
               /\ e.devices[a].poll \in PollsSent(table[n], c)
               /\ e.devices[a].ack = Stamp(f)
      PROVE  Together'
  <2>1. e.src = n /\ \A m \in Node \ {n} : sentData'[m] = sentData[m]
    BY <1>8 DEF Starts, Inv, Sending
  <2>2. DEFAULT_REPLY_DELAY_TIME \in Nat
    BY DEF DEFAULT_REPLY_DELAY_TIME
  <2>3. \A g \in Tags : /\ Asking(g, e) => Asking(g, f)
                        /\ Meeting(g, e) => Meeting(g, f)
    BY <1>1, <1>8, <2>1 DEF Asking, Meeting
  <2>4. /\ Chip' /\ OneFrame' /\ OneFamily'
        /\ InAir' \subseteq InAir \cup {e} /\ Heard' \subseteq Heard
    BY <1>8, <2>2, <2>3, ReplyFacts
  <2>5. /\ \A a, g \in Node : Answering(a, g)' =>
             a # n /\ Answering(a, g) /\ pending'[a] = pending[a]
        /\ \A g \in Node : Reporting(g)' =>
             g = n \/ (g # n /\ Reporting(g) /\ pending'[g] = pending[g])
        /\ pending'[n].wait = DEFAULT_REPLY_DELAY_TIME
    BY <1>8, <2>2, StartsFacts
  <2>6. /\ \A g \in Tags : Settled(g) => Settled(g)'
        /\ \A g \in Tags, a \in Anchors : /\ Asked(g, a)' \subseteq Asked(g, a)
                                          /\ Taken(a, g)' = Taken(a, g)
                                          /\ Acked(a, g)' = Acked(a, g)
    BY <1>6, <2>1
  <2>7. \A h \in InAir :
          /\ h.type \in {"POLL", "RANGE"} => h.src \in Tags /\ DOMAIN h.devices \subseteq Anchors
          /\ h.type = "POLL_ACK" => h.src \in Anchors /\ h.dst \in Tags
    BY InAirFrames, FrameNodes
  <2>8. Tags \subseteq Node /\ Anchors \subseteq Node /\ Heard \subseteq InAir
    BY DEF Node, InAir
  <2>9. OnePoll'
    <3>1. ASSUME NEW h \in InAir', h.type = "POLL_ACK"
          PROVE  /\ Settled(h.dst)'
                 /\ \A x \in Asked(h.dst, h.src)', y \in Taken(h.src, h.dst)' : x = y
      <4>1. h \in InAir /\ h.src \in Anchors /\ h.dst \in Tags
        BY <1>8, <2>4, <2>7, <3>1
      <4> QED
        BY <2>6, <3>1, <4>1 DEF OnePoll
    <3>2. ASSUME NEW h \in Heard', h.type = "POLL"
          PROVE  Settled(h.src)' /\ \A a \in Anchors : Asked(h.src, a)' \subseteq {Stamp(h)}
      BY <1>1, <1>2, <2>4, <3>2
    <3> QED
      BY <3>1, <3>2 DEF OnePoll, Stamp
  <2>10. OneAck'
    <3> SUFFICES ASSUME NEW h \in Heard', h.type = "POLL_ACK"
                 PROVE  Acked(h.src, h.dst)' \subseteq {Stamp(h)}
      BY DEF OneAck, Stamp
    <3>1. h = f
      BY <1>2, <2>4
    <3> QED
      BY <1>1, <1>3, <1>4, <2>6, <3>1
  <2>11. OneRange'
    <3> SUFFICES ASSUME NEW h \in InAir', h.type = "RANGE", NEW a \in DOMAIN h.devices
                 PROVE  /\ Taken(a, h.src)' \subseteq {h.devices[a].poll}
                        /\ Acked(a, h.src)' \subseteq {h.devices[a].ack}
                        /\ ~Answering(a, h.src)'
      BY DEF OneRange
    <3>1. CASE h = e
      <4>1. a = c /\ h.src = n
        BY <1>8, <2>1, <3>1
      <4>2. ~Answering(c, n)'
        BY <1>2, <1>3, <2>5, <2>8 DEF Answering
      <4>3. Taken(c, n) \subseteq {h.devices[a].poll}
        BY <1>4, <1>8, <3>1
      <4>4. Acked(c, n) \subseteq {h.devices[a].ack}
        BY <1>4, <1>8, <3>1
      <4> QED
        BY <1>1, <1>3, <2>6, <4>1, <4>2, <4>3, <4>4
    <3>2. CASE h # e
      <4>1. h \in InAir /\ h.src \in Tags /\ a \in Anchors
        BY <2>4, <2>7, <3>2
      <4> QED
        BY <2>5, <2>6, <2>8, <4>1 DEF OneRange
    <3> QED
      BY <3>1, <3>2
  <2>12. InSlots'
    <3>1. \A h \in InAir' : h.type = "POLL" =>
            /\ \A a \in DOMAIN h.devices : Whole(h.devices[a] - DEFAULT_REPLY_DELAY_TIME)
            /\ \A a, b \in DOMAIN h.devices : h.devices[a] = h.devices[b] => a = b
      BY <1>8, <2>4 DEF InSlots
    <3>2. \A h \in Heard' : h.type # "POLL"
      BY <1>1, <1>2, <2>4
    <3>3. \A g \in Tags, a, b \in Node : Answering(a, g)' /\ Answering(b, g)' =>
            /\ Whole(pending'[a].wait - pending'[b].wait)
            /\ pending'[a].wait = pending'[b].wait => a = b
      BY <2>5, <2>8 DEF InSlots
    <3>4. \A a \in Node : Answering(a, n)' => Whole(pending'[a].wait)
      BY <1>1, <1>2, <2>5, <2>8 DEF InSlots
    <3>5. ASSUME NEW g \in Tags, NEW a \in Node, Answering(a, g)', Reporting(g)'
          PROVE  Whole(pending'[a].wait - pending'[g].wait - DEFAULT_REPLY_DELAY_TIME)
      <4>1. CASE g # n
        BY <2>5, <2>8, <3>5, <4>1 DEF InSlots
      <4>2. CASE g = n
        <5> DEFINE w == pending'[a].wait
                   z == pending'[g].wait
        <5>1. Whole(w) /\ z = DEFAULT_REPLY_DELAY_TIME
          BY <2>5, <3>4, <3>5, <4>2
        <5> HIDE DEF w, z
        <5>2. PICK k \in Int : w = k * Gap
          BY <5>1 DEF Whole
        <5>3. w - z - DEFAULT_REPLY_DELAY_TIME = (k - 1) * Gap
          BY <5>1, <5>2 DEF Gap, DEFAULT_REPLY_DELAY_TIME
        <5>4. Whole(w - z - DEFAULT_REPLY_DELAY_TIME)
          BY <5>2, <5>3 DEF Whole
        <5> QED
          BY <5>4 DEF w, z
      <4> QED
        BY <4>1, <4>2
    <3>6. \A h \in Heard', a \in Node : h.type = "POLL_ACK" /\ Answering(a, h.dst)' =>
            Whole(pending'[a].wait)
      BY <1>1, <1>2, <2>4, <3>4
    <3> QED
      BY <3>1, <3>2, <3>3, <3>5, <3>6 DEF InSlots, Whole
  <2> QED
    BY <2>4, <2>9, <2>10, <2>11, <2>12
<1> QED
  BY <1>5, <1>7, <1>8

LEMMA HandleReceivedTogether ==
  ASSUME Inv, Together, NEW n \in Node, HandleReceived(n)
  PROVE  Together'
<1>1. \/ BlinkAtAnchor(n, data[n]) \/ RangingInitAtTag(n, data[n]) \/ PollAtAnchor(n, data[n])
      \/ RangeAtAnchor(n, data[n]) \/ PollAckAtTag(n, data[n]) \/ IgnoreFrame(n, data[n])
  BY DEF HandleReceived
<1>2. ASSUME LessInAir /\ LessAgreed /\ Chip'
      PROVE  Together'
  BY <1>2, LessTogether DEF Together
<1>3. CASE PollAtAnchor(n, data[n])
  BY <1>3, PollTogether
<1>4. CASE PollAckAtTag(n, data[n])
  BY <1>4, PollAckTogether
<1> QED
  BY <1>1, <1>2, <1>3, <1>4, BlinkTogether, RangingInitTogether, RangeTogether, IgnoreTogether

---------------------------------------------------------------------------
LEMMA InitTogether ==
  ASSUME Init
  PROVE  Together
<1>1. \A n \in Node : /\ pending[n] = Off /\ ~sentAck[n] /\ ~receivedAck[n] /\ ~deaf[n]
                      /\ pc[n] \in {"top", "off"}
  BY DEF Init
<1>2. \A n \in Node : ~Transmitting(n) /\ ~Hears(n)
  BY <1>1, OffSilent DEF Transmitting, Hears
<1>3. InAir = {} /\ Heard = {}
  BY <1>2 DEF InAir, Underway, Heard
<1>4. Chip
  BY <1>1 DEF Chip, NoFlag
<1>5. OneFrame /\ OneFamily /\ OnePoll /\ OneAck /\ OneRange
  BY <1>2, <1>3 DEF OneFrame, OneFamily, OnePoll, OneAck, OneRange, Node
<1>6. InSlots
  BY <1>2, <1>3 DEF InSlots, Answering
<1> QED
  BY <1>4, <1>5, <1>6 DEF Together

(* A step with which there is only less in the air and less noted.         *)
Recedes(n) ==
  \/ CheckForReset(n) \/ RemoveNextInactive(n) \/ RecoverySelect(n) \/ HandleSent(n)
  \/ NothingSent(n) \/ CheckReceived(n) \/ GetData(n) \/ Restart(n)

LEMMA RecedesTogether ==
  ASSUME Inv, Together, NEW n \in Node, Recedes(n)
  PROVE  Together'
<1>1. LessInAir /\ LessNoted /\ Chip'
  BY CheckForResetLess, RemoveNextInactiveLess, RecoverySelectLess, HandleSentLess,
     NothingSentLess, CheckReceivedLess, GetDataLess, RestartLess DEF Recedes
<1> QED
  BY <1>1, LessTogether DEF Together, LessNoted, LessAgreed

LEMMA StutterTogether ==
  ASSUME Together, UNCHANGED vars
  PROVE  Together'
<1>1. UNCHANGED <<table, sentData, deaf, pc, data, due, sentAck, receivedAck, pending,
                 txStamp, rxFrame>>
  BY DEF vars, loopVars, chipVars
<1> USE <1>1 DEF Together
<1>2. /\ Heard' = Heard /\ InAir' = InAir
      /\ \A n \in Node : (Hears(n)' <=> Hears(n)) /\ (Transmitting(n)' <=> Transmitting(n))
      /\ \A a, g : Answering(a, g)' <=> Answering(a, g)
      /\ \A g : Reporting(g)' <=> Reporting(g)
  BY DEF Heard, InAir, Underway, Hears, Transmitting, Answering, Reporting
<1>3. \A g, a : /\ Settled(g)' <=> Settled(g)
                /\ Asked(g, a)' = Asked(g, a) /\ Taken(a, g)' = Taken(a, g)
                /\ Acked(a, g)' = Acked(a, g)
  BY DEF Settled, Asked, Taken, Acked, Unnoted
<1>4. Chip'
  BY <1>2 DEF Chip, NoFlag
<1>5. OneFrame' /\ OneFamily' /\ OneAck'
  BY <1>2, <1>3 DEF OneFrame, OneFamily, OneAck, Asking, Meeting, Stamp, Node
<1>6. OnePoll' /\ OneRange'
  BY <1>2, <1>3 DEF OnePoll, OneRange, Stamp
<1>7. InSlots'
  BY <1>2 DEF InSlots, Whole
<1> QED
  BY <1>4, <1>5, <1>6, <1>7

LEMMA NextTogether ==
  ASSUME Prompt, Inv, Together, [Next]_vars
  PROVE  Together'
<1>1. ASSUME NEW n \in Node, Loop(n) \/ TxDone(n) \/ Restart(n)
      PROVE  Recedes(n) \/ TimerTick(n) \/ HandleReceived(n) \/ TxDone(n)
  BY <1>1 DEF Loop, Recedes
<1>2. ASSUME NEW n \in Node, Loop(n) \/ TxDone(n) \/ Restart(n)
      PROVE  Together'
  BY <1>1, <1>2, RecedesTogether, TimerTickTogether, HandleReceivedTogether, TxDoneTogether
<1> QED
  BY <1>2, NextSlotTogether, ElapseTogether, StutterTogether DEF Next

(* The stamps of an exchange belong together, if every loop() answers an   *)
(* event before the next one happens.                                      *)
LEMMA TogetherAlways ==
  ASSUME Prompt
  PROVE  Spec => [](Inv /\ Together)
<1>1. Init => Inv /\ Together
  BY InitInv, InitTogether
<1>2. Inv /\ Together /\ [Next]_vars => (Inv /\ Together)'
  BY NextInv, NextTogether
<1> QED
  BY <1>1, <1>2, PTL DEF Spec

LEMMA TogetherOneExchange ==
  ASSUME Inv, Together
  PROVE  RangeOfOneExchange
<1> SUFFICES ASSUME NEW n \in Node, Ranging(n), NEW i \in SlotsOf(table[n], data[n].src)
             PROVE  /\ table[n].dev[i].pollReceived = data[n].devices[n].poll
                    /\ table[n].dev[i].ackSent = data[n].devices[n].ack
                    /\ Stamp(rxFrame[n]) = Stamp(data[n])
  BY DEF RangeOfOneExchange
<1> DEFINE f == data[n]
<1>1. f = rxFrame[n] /\ ~sentAck[n] /\ f \in InAir /\ f.type = "RANGE" /\ n \in DOMAIN f.devices
  BY DEF Ranging, Together, Chip, NoFlag, InAir, Heard, Hears
<1>2. /\ Taken(n, f.src) \subseteq {f.devices[n].poll}
      /\ Acked(n, f.src) \subseteq {f.devices[n].ack}
  BY <1>1 DEF Together, OneRange
<1>3. table[n].dev[i].pollReceived \in Taken(n, f.src)
  BY DEF Taken, PollsReceived
<1>4. table[n].dev[i].ackSent \in Acked(n, f.src)
  BY <1>1 DEF Acked, AcksSent, Unnoted
<1> QED
  BY <1>1, <1>2, <1>3, <1>4

LEMMA TogetherSlots ==
  ASSUME Inv, Together
  PROVE  SlotsDisjoint
<1> SUFFICES ASSUME NEW m \in Node, NEW n \in Node, m # n, Exchange(m) = Exchange(n),
                    Exchange(m) # NoAddress
             PROVE  Spaced(pending[m].wait, pending[n].wait)
  BY DEF SlotsDisjoint
<1>1. ASSUME NEW k \in Node, Exchange(k) # NoAddress
      PROVE  \/ Answering(k, Exchange(k)) /\ Exchange(k) \in Tags
             \/ Reporting(k) /\ Exchange(k) = k /\ k \in Tags
  <2> DEFINE e == pending[k].frame
  <2>1. e.type \in {"POLL_ACK", "RANGE"} /\ Exchange(k) = IF e.type = "RANGE" THEN k ELSE e.dst
    BY <1>1 DEF Exchange
  <2>2. pending[k] # Off
    BY <2>1 DEF Off, NoFrame
  <2>3. Transmitting(k) /\ e.src = k /\ e \in Frame
    BY <2>2, SentBySource DEF Together, Chip, Inv, Sending, Transmission
  <2> QED
    BY <2>1, <2>3, FrameNodes DEF Answering, Reporting
<1>2. ASSUME NEW a \in Node, NEW g \in Tags, Answering(a, g), Reporting(g)
      PROVE  Spaced(pending[a].wait, pending[g].wait) /\ Spaced(pending[g].wait, pending[a].wait)
  <2> DEFINE w == pending[a].wait
             z == pending[g].wait
  <2>1. w \in Int /\ z \in Int
    BY DEF Inv, Sending, Transmission, Node
  <2>2. Whole(w - z - DEFAULT_REPLY_DELAY_TIME)
    BY <1>2 DEF Together, InSlots
  <2> HIDE DEF w, z
  <2>3. PICK k \in Int : w - z - DEFAULT_REPLY_DELAY_TIME = k * Gap
    BY <2>2 DEF Whole
  <2>4. Spaced(w, z) /\ Spaced(z, w)
    BY <2>1, <2>3 DEF Spaced, Gap, DEFAULT_REPLY_DELAY_TIME
  <2> QED
    BY <2>4 DEF w, z
<1>3. ASSUME NEW g \in Tags, Answering(m, g), Answering(n, g)
      PROVE  Spaced(pending[m].wait, pending[n].wait)
  <2> DEFINE w == pending[m].wait
             z == pending[n].wait
  <2>1. w \in Int /\ z \in Int
    BY DEF Inv, Sending, Transmission, Node
  <2>2. Whole(w - z) /\ w # z
    BY <1>3 DEF Together, InSlots
  <2> HIDE DEF w, z
  <2>3. PICK k \in Int : w - z = k * Gap
    BY <2>2 DEF Whole
  <2>4. Spaced(w, z)
    BY <2>1, <2>2, <2>3 DEF Spaced, Gap, DEFAULT_REPLY_DELAY_TIME
  <2> QED
    BY <2>4 DEF w, z
<1> QED
  BY <1>1, <1>2, <1>3

(* When an anchor computes a range, its stamps and the ones of the RANGE   *)
(* are of one POLL and one POLL_ACK.                                       *)
THEOREM OneExchange ==
  ASSUME Prompt
  PROVE  Spec => []RangeOfOneExchange
  BY TogetherAlways, TogetherOneExchange, PTL

(* Of the answers to one POLL and the RANGE that the tag sends meanwhile,  *)
(* no two begin closer together than the reply delay.                      *)
THEOREM SlotsApart ==
  ASSUME Prompt
  PROVE  Spec => []SlotsDisjoint
  BY TogetherAlways, TogetherSlots, PTL

---------------------------------------------------------------------------
(* A POLL is ranged once *)

LEMMA NoticedStamps ==
  ASSUME Inv
  PROVE  \A a \in Anchors : \A g : Noticed(a, g) \subseteq Stamps
<1> SUFFICES ASSUME NEW a \in Anchors, NEW g
             PROVE  Noticed(a, g) \subseteq Stamps
  OBVIOUS
<1> DEFINE t == table[a]
<1>1. \A i \in SlotsOf(t, g) : t.dev[i] \in Device(a)
  BY DEF Inv, Tables, Good, TableOf, SlotsOf, Used, Node
<1> HIDE DEF t
<1>2. \A d \in Device(a) : d.pollReceived \in Stamps /\ d.round1.poll \in Stamps
  BY DEF Device, Round, Stamps, Sequence
<1> QED
  BY <1>1, <1>2 DEF Noticed, Taken, Ranged, PollsReceived, PollsRanged, t

LEMMA BeforeLater ==
  \A g : \A s \in Stamps, p, q \in Sequence : Before(g, s, p) /\ p <= q => Before(g, s, q)
  BY Constants DEF Before, Stamps, Sequence

(* Without a wrap the sequence numbers grow.                               *)
Grows == \A m \in Node : seq[m] \in Sequence /\ seq'[m] \in Sequence /\ seq[m] <= seq'[m]

LEMMA SeqGrows ==
  ASSUME Inv, Inv', NoWrap, NEW n \in Node,
         seq' = seq \/ seq' = [seq EXCEPT ![n] = (@ + 1) % SEQ_MOD]
  PROVE  Grows /\ (seq' # seq => seq[n] < seq'[n])
<1>1. seq \in [Node -> Sequence] /\ seq' \in [Node -> Sequence]
  BY DEF Inv, Sending
<1>2. \A s \in Sequence : s < SEQ_MOD - 1 => (s + 1) % SEQ_MOD = s + 1
  BY Constants DEF Sequence
<1> DEFINE p == seq[n]
           q == seq'[n]
<1>3. p \in Sequence /\ q \in Sequence /\ (q = p \/ q = p + 1) /\ (seq' # seq => q = p + 1)
  BY <1>1, <1>2 DEF NoWrap
<1> HIDE DEF p, q
<1>4. p <= q /\ (seq' # seq => p < q)
  BY <1>3, Constants DEF Sequence
<1>5. \A s \in Sequence : s <= s
  BY Constants DEF Sequence
<1>6. \A m \in Node \ {n} : seq'[m] = seq[m]
  BY <1>1
<1> QED
  BY <1>1, <1>4, <1>5, <1>6 DEF Grows, p, q

LEMMA NextGrows ==
  ASSUME Inv, Inv', NoWrap, [Next]_vars
  PROVE  Grows
<1>1. CASE UNCHANGED seq
  <2>1. \A s \in Sequence : s <= s
    BY Constants DEF Sequence
  <2> QED
    BY <1>1, <2>1 DEF Grows, Inv, Sending
<1>2. ASSUME NEW n \in Node, Loop(n) \/ TxDone(n) \/ Restart(n)
      PROVE  Grows
  <2>1. CASE HandleReceived(n)
    <3>1. seq' = seq \/ seq' = [seq EXCEPT ![n] = (@ + 1) % SEQ_MOD]
      BY <2>1 DEF HandleReceived, BlinkAtAnchor, RangingInitAtTag, PollAtAnchor,
         RangeAtAnchor, PollAckAtTag, TransmitRange, IgnoreFrame, Transmit, TransmitNothing
    <3> QED
      BY <3>1, SeqGrows
  <2>2. CASE TimerTick(n)
    <3>1. seq' = seq \/ seq' = [seq EXCEPT ![n] = (@ + 1) % SEQ_MOD]
      BY <2>2, TimerTickSends DEF TransmitNothing
    <3> QED
      BY <3>1, SeqGrows
  <2>3. CASE ~HandleReceived(n) /\ ~TimerTick(n)
    <3>1. UNCHANGED seq
      BY <1>2, <2>3 DEF Loop, CheckForReset, RemoveNextInactive, RecoverySelect, HandleSent,
         NothingSent, CheckReceived, GetData, TxDone, Restart, loopVars
    <3> QED
      BY <1>1, <3>1
  <2> QED
    BY <2>1, <2>2, <2>3
<1>3. CASE NextSlot \/ Elapse \/ UNCHANGED vars
  <2>1. UNCHANGED seq
    BY <1>3 DEF NextSlot, Elapse, vars, loopVars
  <2> QED
    BY <1>1, <2>1
<1> QED
  BY <1>2, <1>3 DEF Next

(* Less is noticed, and nobody that has sent what is heard sends again.    *)
LessRanged == \A g \in Tags, a \in Anchors :
  Taken(a, g)' \subseteq Taken(a, g) /\ Ranged(a, g)' \subseteq Ranged(a, g)

Hushed == \A f \in Heard :
  ~Transmitting(f.src)' /\ \A a \in Anchors : Hears(a)' => Hears(a)

LEMMA UnderwaySent ==
  ASSUME Inv, Together
  PROVE  \A f \in Underway : f.src \in Node /\ Transmitting(f.src) /\ pending[f.src].frame = f
  BY SentBySource DEF Underway, Together

LEMMA NoticedKept ==
  ASSUME Inv, Aging, Grows, NEW g \in Tags, NEW a \in Anchors
  PROVE  \A s \in Noticed(a, g) : Before(g, s, seq'[g])
<1> DEFINE p == seq[g]
           q == seq'[g]
<1>1. p \in Sequence /\ q \in Sequence /\ p <= q
  BY DEF Grows, Node
<1>2. \A s \in Noticed(a, g) : s \in Stamps /\ Before(g, s, p)
  BY NoticedStamps DEF Aging
<1> HIDE DEF p, q
<1>3. \A s \in Noticed(a, g) : Before(g, s, q)
  BY <1>1, <1>2, BeforeLater
<1> QED
  BY <1>3 DEF q

LEMMA UnrangedKept ==
  ASSUME Inv, Together, Aging, Grows, LessRanged, Hushed, NEW f \in InAir
  PROVE  Unranged(f)'
<1>1. /\ f.type \in {"POLL", "RANGE"} => f.src \in Tags /\ DOMAIN f.devices \subseteq Anchors
      /\ f.type = "POLL_ACK" => f.src \in Anchors /\ f.dst \in Tags
      /\ f.seq \in Sequence
  BY InAirFrames, FrameNodes, FrameFields
<1>2. Unranged(f)
  BY DEF Aging
<1>3. CASE f.type = "POLL"
  <2> DEFINE g == f.src
             p == seq[g]
             q == seq'[g]
             r == f.seq
  <2>1. p \in Sequence /\ q \in Sequence /\ p <= q /\ r \in Sequence /\ r < p
    BY <1>1, <1>2, <1>3 DEF Grows, Node, Unranged
  <2> HIDE DEF p, q, r
  <2>2. r < q
    BY <2>1, Constants DEF Sequence
  <2>3. \A a \in Anchors : Hears(a)' \/ Transmitting(f.src)' => Hears(a) \/ Transmitting(f.src)
    BY UnderwaySent DEF InAir, Hushed
  <2> QED
    BY <1>1, <1>2, <1>3, <2>2, <2>3 DEF Unranged, LessRanged, Before, q, r
<1>4. CASE f.type = "POLL_ACK"
  BY <1>1, <1>2, <1>4 DEF Unranged, LessRanged
<1>5. CASE f.type = "RANGE"
  <2>1. \A a \in Anchors : Hears(a)' \/ Transmitting(f.src)' => Hears(a) \/ Transmitting(f.src)
    BY UnderwaySent DEF InAir, Hushed
  <2> QED
    BY <1>1, <1>2, <1>5, <2>1 DEF Unranged, LessRanged
<1> QED
  BY <1>3, <1>4, <1>5 DEF Unranged

LEMMA AgingKept ==
  ASSUME Inv, Together, Aging, Grows, LessRanged, Hushed, NEW E,
         InAir' \subseteq InAir \cup E, \A f \in E : Unranged(f)'
  PROVE  Aging'
<1>1. \A g \in Tags, a \in Anchors : \A s \in Noticed(a, g)' : Before(g, s, seq'[g])
  BY NoticedKept DEF LessRanged, Noticed
<1>2. \A f \in InAir' : Unranged(f)'
  BY UnrangedKept
<1>3. \A g \in Tags, a \in Anchors : NoStamp \notin Taken(a, g)'
  BY DEF Aging, LessRanged
<1> QED
  BY <1>1, <1>2, <1>3 DEF Aging, Before

LEMMA AgingNoReply ==
  ASSUME Inv, Together, Aging, Grows, LessRanged, Hushed, InAir' \subseteq InAir
  PROVE  Aging'
<1> DEFINE E == {}
<1>1. InAir' \subseteq InAir \cup E /\ \A f \in E : Unranged(f)'
  OBVIOUS
<1> HIDE DEF E
<1> QED
  BY <1>1, AgingKept

LEMMA AgingReply ==
  ASSUME Inv, Together, Aging, Grows, LessRanged, Hushed, NEW e, Unranged(e)',
         InAir' \subseteq InAir \cup {e}
  PROVE  Aging'
<1> DEFINE E == {e}
<1>1. InAir' \subseteq InAir \cup E /\ \A f \in E : Unranged(f)'
  BY DEF Unranged
<1> HIDE DEF E
<1> QED
  BY <1>1, AgingKept

LEMMA LessHushed ==
  ASSUME Together, LessInAir
  PROVE  Hushed
  BY LessInAirFacts DEF Hushed, Together, OneFrame, LessInAir, Node

LEMMA LessAging ==
  ASSUME Inv, Together, Aging, Grows, LessInAir, LessRanged
  PROVE  Aging'
  BY LessHushed, LessInAirFacts, AgingNoReply

LEMMA RecedesAging ==
  ASSUME Inv, Together, Aging, Grows, NEW n \in Node, Recedes(n)
  PROVE  Aging'
<1>1. LessInAir /\ LessNoted
  BY CheckForResetLess, RemoveNextInactiveLess, RecoverySelectLess, HandleSentLess,
     NothingSentLess, CheckReceivedLess, GetDataLess, RestartLess DEF Recedes
<1>2. LessRanged
  BY <1>1 DEF LessNoted, LessRanged
<1> QED
  BY <1>1, <1>2, LessAging

LEMMA TimerTickAging ==
  ASSUME Prompt, Inv, Inv', NoWrap, Together, Aging, Grows, NEW n \in Node, TimerTick(n)
  PROVE  Aging'
<1>1. /\ Calm /\ UNCHANGED rxFrame /\ \A m \in Node : Hears(m)' <=> Hears(m)
      /\ LessNoted
  BY TimerTickFacts
<1>2. Heard = {} /\ InAir = Underway /\ \A m \in Node : ~Hears(m)
  BY <1>1, CalmFacts DEF Together
<1>3. Heard' = {} /\ InAir' = Underway'
  BY <1>1, <1>2 DEF Heard, InAir
<1>4. LessRanged /\ Hushed
  BY <1>1, <1>2 DEF LessNoted, LessRanged, Hushed
<1>5. CASE TransmitNothing
  <2>1. InAir' \subseteq InAir
    BY <1>2, <1>3, <1>5 DEF TransmitNothing, Underway, Transmitting
  <2> QED
    BY <1>4, <2>1, AgingNoReply
<1>6. ASSUME n \in Tags, NEW e, Starts(n, e, 0), e.seq = seq[n],
             seq' = [seq EXCEPT ![n] = (@ + 1) % SEQ_MOD], e.type \in {"BLINK", "POLL"}
      PROVE  Aging'
  <2>1. e.src = n /\ InAir' \subseteq InAir \cup {e}
    BY <1>2, <1>3, <1>6, StartsFacts DEF Starts
  <2>2. seq[n] < seq'[n]
    <3>1. seq' # seq
      <4>1. \A s \in Sequence : s < SEQ_MOD - 1 => (s + 1) % SEQ_MOD # s
        BY Constants DEF Sequence
      <4> QED
        BY <1>6, <4>1 DEF NoWrap, Inv, Sending
    <3> QED
      BY <1>6, <3>1, SeqGrows
  <2>3. \A a \in Anchors : \A s \in Taken(a, n) \cup Ranged(a, n) : Before(n, s, seq[n])
    BY <1>6 DEF Aging, Noticed
  <2>4. Unranged(e)'
    BY <1>4, <1>6, <2>1, <2>2, <2>3 DEF Unranged, LessRanged, Before
  <2> QED
    BY <1>4, <2>1, <2>4, AgingReply
<1> QED
  BY <1>5, <1>6, TimerTickSends

LEMMA TxDoneAging ==
  ASSUME Prompt, Inv, Together, Aging, Grows, NEW n \in Node, TxDone(n)
  PROVE  Aging'
<1>1. Heard = {} /\ InAir' \subseteq InAir
  BY TxDoneFacts
<1>2. LessRanged /\ Hushed
  BY <1>1, TxDoneNotes DEF LessRanged, Hushed
<1> QED
  BY <1>1, <1>2, AgingNoReply

LEMMA NextSlotAging ==
  ASSUME Prompt, Inv, Together, Aging, Grows, NextSlot
  PROVE  Aging'
<1>1. Heard = {} /\ InAir' \subseteq InAir /\ UNCHANGED loopVars
  BY NextSlotFacts
<1>2. LessRanged /\ Hushed
  BY <1>1 DEF LessRanged, Hushed, Taken, Ranged, loopVars
<1> QED
  BY <1>1, <1>2, AgingNoReply

LEMMA ElapseAging ==
  ASSUME Inv, Together, Aging, Grows, Elapse
  PROVE  Aging'
<1>1. InAir = {} /\ InAir' \subseteq InAir /\ \A m \in Node : Narrows(table'[m], table[m])
  BY ElapseFacts
<1>2. LessRanged /\ Hushed
  BY <1>1 DEF LessRanged, Hushed, Taken, Ranged, Narrows, InAir, Node
<1> QED
  BY <1>1, <1>2, AgingNoReply

LEMMA StutterAging ==
  ASSUME Inv, Together, Aging, Grows, UNCHANGED vars
  PROVE  Aging'
<1>1. UNCHANGED <<table, due, receivedAck, pc, rxFrame, pending>>
  BY DEF vars, loopVars, chipVars
<1>2. LessInAir /\ LessRanged
  BY <1>1 DEF LessInAir, LessRanged, Hears, Taken, Ranged, Node
<1> QED
  BY <1>2, LessAging

---------------------------------------------------------------------------
(* What is noted of a frame that has been received, and its answer         *)

LEMMA ReplyHushed ==
  ASSUME Inv, Together, NEW n \in Node, HandleReceived(n), NEW e, NEW wait \in Nat,
         Starts(n, e, wait)
  PROVE  Hushed /\ InAir' \subseteq InAir \cup {e}
<1>1. /\ data[n].src # n /\ ~Transmitting(data[n].src) /\ \A h \in Heard : h = data[n]
      /\ data[n].src \in Node
      /\ \A m \in Node : Hears(m)' => Hears(m)
      /\ Heard' \subseteq Heard
  BY HandlingFacts
<1>2. /\ \A m \in Node \ {n} : Transmitting(m)' <=> Transmitting(m)
      /\ Underway' \subseteq Underway \cup {e}
  BY StartsFacts
<1>3. Hushed
  BY <1>1, <1>2 DEF Hushed, Node
<1> QED
  BY <1>1, <1>2, <1>3 DEF InAir

LEMMA MildAging ==
  ASSUME Inv, Together, Aging, Grows, NEW n \in Node, HandleReceived(n),
         \/ BlinkAtAnchor(n, data[n]) \/ RangingInitAtTag(n, data[n])
         \/ IgnoreFrame(n, data[n])
  PROVE  Aging'
<1>1. LessRanged
  <2>1. \A a \in Anchors : table'[a] = table[a]
    BY NodeAssumption DEF BlinkAtAnchor, RangingInitAtTag, IgnoreFrame, Inv, Tables, Node
  <2> QED
    BY <2>1 DEF LessRanged, Taken, Ranged
<1>2. CASE TransmitNothing
  BY <1>1, <1>2, NoReplyLess, LessAging
<1>3. ASSUME NEW wait \in Nat, NEW e, e = RangingInit(n, data[n].src), Transmit(n, e, wait)
      PROVE  Aging'
  <2>1. e.type = "RANGING_INIT" /\ e.src = n
    BY <1>3 DEF RangingInit
  <2>2. Starts(n, e, wait)
    BY <1>3, <2>1 DEF Transmit, Starts
  <2>3. Hushed /\ InAir' \subseteq InAir \cup {e}
    BY <2>2, ReplyHushed
  <2>4. Unranged(e)'
    BY <2>1 DEF Unranged
  <2> QED
    BY <1>1, <2>3, <2>4, AgingReply
<1>4. ASSUME NEW slot \in RandomSlots
      PROVE  slotDuration * slot \in Nat
  <2>1. slot \in 1 .. 7
    BY RangingAssumption
  <2> QED
    BY <2>1 DEF slotDuration
<1> QED
  BY <1>2, <1>3, <1>4 DEF BlinkAtAnchor, RangingInitAtTag, IgnoreFrame

LEMMA PollAging ==
  ASSUME Inv, Together, Aging, Grows, NEW n \in Node, HandleReceived(n),
         NEW f, f = data[n], PollAtAnchor(n, f)
  PROVE  Aging'
<1> DEFINE g == f.src
           s == Stamp(f)
           e == PollAck(n, g)
           wait == f.devices[n]
<1>1. /\ n \in Anchors /\ f.type = "POLL" /\ n \in DOMAIN f.devices
      /\ Transmit(n, e, wait)
  BY DEF PollAtAnchor
<1>2. /\ f \in Frame /\ f \in Heard /\ f \in InAir /\ \A h \in Heard : h = f
      /\ ~Transmitting(f.src) /\ f = rxFrame[n]
  BY HandlingFacts
<1>3. g \in Tags /\ wait \in Nat /\ f.seq \in Sequence /\ g # NoAddress
  BY <1>1, <1>2, FrameFields, NodeAssumption DEF Node
<1>4. e.type = "POLL_ACK" /\ e.dst = g /\ e.src = n
  BY DEF PollAck
<1>5. Starts(n, e, wait)
  BY <1>1, <1>4 DEF Transmit, Starts
<1>6. /\ NotesPoll(table[n], table'[n], g, s)
      /\ \A m \in Node \ {n} : table'[m] = table[m]
  BY <1>2, PollNotes
<1>7. f.seq < seq[g] /\ \A a \in Anchors : \A x \in Ranged(a, g) : Before(g, x, f.seq)
  BY <1>1, <1>2 DEF Aging, Unranged
<1>8. s # NoStamp /\ s[1] = g /\ s[2] = f.seq
  BY <1>3 DEF Stamp, NoStamp
<1> HIDE DEF e, wait, s, g
<1>9. Hushed /\ InAir' \subseteq InAir \cup {e}
  BY <1>3, <1>5, ReplyHushed
<1>10. Taken(n, g)' \subseteq {s} /\ Ranged(n, g)' \subseteq Ranged(n, g) \cup {NoStamp}
  BY <1>6 DEF NotesPoll, Taken, Ranged
<1>11. ASSUME NEW a \in Anchors, NEW x, a # n \/ x # g
       PROVE  Taken(a, x)' \subseteq Taken(a, x) /\ Ranged(a, x)' \subseteq Ranged(a, x)
  BY <1>6, <1>11 DEF NotesPoll, Taken, Ranged, Node
<1>12. \A a \in Anchors : \A x : Ranged(a, x)' \subseteq Ranged(a, x) \cup {NoStamp}
  BY <1>10, <1>11
<1>13. \A x \in Tags, a \in Anchors : \A y \in Noticed(a, x)' : Before(x, y, seq'[x])
  <2> DEFINE q == seq'[g]
             p == seq[g]
             r == f.seq
  <2>1. p \in Sequence /\ q \in Sequence /\ p <= q /\ r \in Sequence /\ r < p
    BY <1>3, <1>7 DEF Grows, Node
  <2> HIDE DEF p, q, r
  <2>2. r < q
    BY <2>1, Constants DEF Sequence
  <2>3. Before(g, s, seq'[g])
    BY <1>8, <2>2 DEF Before, q, r
  <2>4. \A x : Before(x, NoStamp, seq'[x])
    BY DEF Before
  <2> QED
    BY <1>10, <1>11, <2>3, <2>4, NoticedKept DEF Noticed
<1>14. s \notin Ranged(n, g) \cup {NoStamp}
  <2>1. ~(f.seq < f.seq)
    BY <1>3, Constants DEF Sequence
  <2> QED
    BY <1>1, <1>7, <1>8, <2>1 DEF Before
<1>15. \A x \in Tags, a \in Anchors : NoStamp \notin Taken(a, x)'
  BY <1>8, <1>10, <1>11 DEF Aging
<1>16. /\ ~Hears(n)' /\ \A m \in Node : Hears(m)' => Hears(m)
       /\ \A m \in Node \ {n} : Transmitting(m)' <=> Transmitting(m)
  <2>1. /\ pc' = [pc EXCEPT ![n] = "top"] /\ UNCHANGED receivedAck /\ ~receivedAck[n]
        /\ \A m \in Node : Hears(m)' => Hears(m)
    BY HandlingFacts
  <2>2. ~Hears(n)'
    BY <2>1 DEF Hears, Inv, Sweeping
  <2>3. \A m \in Node \ {n} : Transmitting(m)' <=> Transmitting(m)
    BY <1>3, <1>5, StartsFacts
  <2> QED
    BY <2>1, <2>2, <2>3
<1>17. ASSUME NEW h \in InAir'
       PROVE  Unranged(h)'
  <2>1. h = e \/ (h \in InAir /\ h.seq \in Sequence)
    BY <1>9, InAirFrames, FrameFields
  <2>2. /\ h.type \in {"POLL", "RANGE"} => h.src \in Tags /\ DOMAIN h.devices \subseteq Anchors
        /\ h.type = "POLL_ACK" => h.src \in Anchors /\ h.dst \in Tags
    BY <1>1, <1>3, <1>4, <2>1, InAirFrames, FrameNodes
  <2>3. CASE h.type = "POLL_ACK"
    <3>1. CASE h.src = n /\ h.dst = g
      BY <1>10, <1>14, <2>3, <3>1 DEF Unranged
    <3>2. CASE h.src # n \/ h.dst # g
      <4>1. h \in InAir
        BY <1>4, <2>1, <3>2
      <4>2. Taken(h.src, h.dst) \cap Ranged(h.src, h.dst) = {}
        BY <2>3, <4>1 DEF Aging, Unranged
      <4> QED
        BY <1>11, <2>2, <2>3, <3>2, <4>2 DEF Unranged
    <3> QED
      BY <3>1, <3>2
  <2>4. CASE h.type = "POLL"
    <3> DEFINE p == seq[h.src]
               q == seq'[h.src]
               r == h.seq
    <3>1. h \in InAir
      BY <1>4, <2>1, <2>4
    <3>2. /\ r < p
          /\ \A a \in Anchors : \A x \in Ranged(a, h.src) : Before(h.src, x, h.seq)
      BY <2>4, <3>1 DEF Aging, Unranged
    <3>6. p \in Sequence /\ q \in Sequence /\ p <= q /\ r \in Sequence
      BY <1>4, <2>1, <2>2, <2>4 DEF Grows, Node
    <3> HIDE DEF p, q, r
    <3>3. r < q
      BY <3>2, <3>6, Constants DEF Sequence
    <3>4. Before(h.src, NoStamp, h.seq)
      BY DEF Before
    <3>5. \A a \in Anchors : \A x \in Ranged(a, h.src)' : Before(h.src, x, h.seq)
      BY <1>12, <3>2, <3>4
    <3>7. ASSUME NEW a \in Anchors, Hears(a)' \/ Transmitting(h.src)'
          PROVE  \A x \in Taken(a, h.src)' : Before(h.src, x, h.seq)
      <4>1. h.src # n /\ h.src \in Node
        BY <1>1, <2>2, <2>4, NodeAssumption DEF Node
      <4>2. Hears(a) \/ Transmitting(h.src)
        BY <1>16, <3>7, <4>1 DEF Node
      <4>3. \A x \in Taken(a, h.src) : Before(h.src, x, h.seq)
        BY <2>4, <3>1, <4>2 DEF Aging, Unranged
      <4>4. a # n \/ h.src # g
        BY <1>2, <1>16, <3>7, <4>1 DEF g
      <4> QED
        BY <1>11, <4>3, <4>4
    <3> QED
      BY <2>4, <3>3, <3>5, <3>7 DEF Unranged, Before, q, r
  <2>5. CASE h.type = "RANGE"
    <3>1. h \in Underway
      BY <1>1, <1>2, <1>4, <2>1, <2>5 DEF InAir
    <3>2. Transmitting(h.src) /\ h.src # g
      BY <1>2, <3>1, UnderwaySent DEF g
    <3>3. \A a \in DOMAIN h.devices : h.devices[a].poll \notin Ranged(a, h.src)
      BY <2>5, <3>1, <3>2 DEF Aging, Unranged, InAir
    <3> QED
      BY <1>11, <2>2, <2>5, <3>2, <3>3 DEF Unranged
  <2> QED
    BY <2>3, <2>4, <2>5 DEF Unranged
<1> QED
  BY <1>13, <1>15, <1>17 DEF Aging, Before

LEMMA RangeAging ==
  ASSUME Inv, Together, Aging, Grows, NEW n \in Node, HandleReceived(n),
         NEW f, f = data[n], RangeAtAnchor(n, f)
  PROVE  Aging'
<1> DEFINE g == f.src
           p == f.devices[n].poll
<1>1. /\ n \in Anchors /\ f.type = "RANGE" /\ n \in DOMAIN f.devices
      /\ TransmitNothing /\ SlotsOf(table[n], g) # {}
      /\ \A m \in Node \ {n} : table'[m] = table[m]
  BY DEF RangeAtAnchor, Inv, Tables
<1>2. /\ f \in Frame /\ f \in Heard /\ f \in InAir /\ \A h \in Heard : h = f
      /\ ~Transmitting(g) /\ ~receivedAck[n] /\ UNCHANGED receivedAck
      /\ pc' = [pc EXCEPT ![n] = "top"]
  BY HandlingFacts
<1>3. LessInAir
  BY <1>1, NoReplyLess
<1>4. /\ InAir' \subseteq InAir /\ \A m \in Node : Hears(m)' => Hears(m)
      /\ \A m \in Node : Transmitting(m)' => Transmitting(m)
  BY <1>3, LessInAirFacts DEF LessInAir
<1>5. ~Hears(n)'
  BY <1>2 DEF Hears, Inv, Sweeping
<1>6. g \in Tags
  BY <1>1, <1>2, FrameNodes
<1>7. NotesRange(table[n], table'[n], g, p)
  BY <1>1, RangeNotes
<1>8. Taken(n, g) \subseteq {p} /\ \A a \in DOMAIN f.devices : ~Answering(a, g)
  BY <1>1, <1>2 DEF Together, OneRange
<1>9. p \in Taken(n, g)
  <2>1. Taken(n, g) # {}
    BY <1>1 DEF Taken, PollsReceived
  <2> QED
    BY <1>8, <2>1
<1>10. Before(g, p, seq'[g])
  BY <1>1, <1>6, <1>9, NoticedKept DEF Noticed
<1> HIDE DEF p, g
<1>11. /\ Ranged(n, g)' \subseteq {p}
       /\ \A x : Taken(n, x)' \subseteq Taken(n, x)
       /\ \A x : x # g => Ranged(n, x)' \subseteq Ranged(n, x)
  BY <1>7 DEF NotesRange, Taken, Ranged
<1>12. \A a \in Anchors \ {n} : \A x : Taken(a, x)' = Taken(a, x) /\ Ranged(a, x)' = Ranged(a, x)
  BY <1>1 DEF Taken, Ranged, Node
<1>13. \A x \in Tags, a \in Anchors : \A y \in Noticed(a, x)' : Before(x, y, seq'[x])
  BY <1>10, <1>11, <1>12, NoticedKept DEF Noticed
<1>14. ASSUME NEW h \in InAir'
       PROVE  Unranged(h)'
  <2>1. h \in InAir /\ h.seq \in Sequence
    BY <1>4, InAirFrames, FrameFields
  <2>2. /\ h.type \in {"POLL", "RANGE"} => h.src \in Tags /\ DOMAIN h.devices \subseteq Anchors
        /\ h.type = "POLL_ACK" => h.src \in Anchors /\ h.dst \in Tags
    BY <2>1, InAirFrames, FrameNodes
  <2>3. h = f \/ (h \in Underway /\ Transmitting(h.src) /\ pending[h.src].frame = h)
    BY <1>2, <2>1, UnderwaySent DEF InAir
  <2>4. Unranged(h)
    BY <2>1 DEF Aging
  <2>5. CASE h.type = "POLL_ACK"
    <3>1. h.src # n \/ h.dst # g
      BY <1>1, <1>8, <2>3, <2>5 DEF Answering
    <3>2. /\ Taken(h.src, h.dst)' \subseteq Taken(h.src, h.dst)
          /\ Ranged(h.src, h.dst)' \subseteq Ranged(h.src, h.dst)
      BY <1>11, <1>12, <2>2, <2>5, <3>1
    <3> QED
      BY <2>4, <2>5, <3>2 DEF Unranged
  <2>6. CASE h.type = "POLL"
    <3> DEFINE q == seq[h.src]
               k == seq'[h.src]
               r == h.seq
    <3>1. h.src # g
      BY <1>1, <1>2, <2>3, <2>6 DEF g
    <3>2. r < q /\ \A a \in Anchors : \A x \in Ranged(a, h.src) : Before(h.src, x, h.seq)
      BY <2>4, <2>6 DEF Unranged
    <3>3. q \in Sequence /\ k \in Sequence /\ q <= k /\ r \in Sequence
      BY <2>1, <2>2, <2>6 DEF Grows, Node
    <3> HIDE DEF q, k, r
    <3>4. r < k
      BY <3>2, <3>3, Constants DEF Sequence
    <3>5. \A a \in Anchors : \A x \in Ranged(a, h.src)' : Before(h.src, x, h.seq)
      BY <1>11, <1>12, <3>1, <3>2
    <3>6. \A a \in Anchors : Hears(a)' \/ Transmitting(h.src)' =>
            \A x \in Taken(a, h.src)' : Before(h.src, x, h.seq)
      BY <1>4, <1>11, <1>12, <2>2, <2>4, <2>6 DEF Unranged, Node
    <3> QED
      BY <2>6, <3>4, <3>5, <3>6 DEF Unranged, Before, r, k
  <2>7. CASE h.type = "RANGE"
    <3> SUFFICES ASSUME NEW a \in DOMAIN h.devices, Hears(a)' \/ Transmitting(h.src)'
                 PROVE  h.devices[a].poll \notin Ranged(a, h.src)'
      BY <2>7 DEF Unranged
    <3>1. a \in Node /\ h.src \in Node /\ a \in Anchors
      BY <2>2, <2>7 DEF Node
    <3>2. h.devices[a].poll \notin Ranged(a, h.src)
      BY <1>4, <2>4, <2>7, <3>1 DEF Unranged
    <3>3. a # n \/ h.src # g
      BY <1>2, <1>4, <1>5, <2>3, <3>1 DEF g
    <3> QED
      BY <1>11, <1>12, <3>1, <3>2, <3>3
  <2> QED
    BY <2>5, <2>6, <2>7 DEF Unranged
<1>15. \A x \in Tags, a \in Anchors : NoStamp \notin Taken(a, x)'
  BY <1>11, <1>12 DEF Aging
<1> QED
  BY <1>13, <1>14, <1>15 DEF Aging, Before

LEMMA PollAckAging ==
  ASSUME Inv, Together, Aging, Grows, NEW n \in Node, HandleReceived(n),
         NEW f, f = data[n], PollAckAtTag(n, f)
  PROVE  Aging'
<1> DEFINE c == f.src
<1>1. n \in Tags /\ f.type = "POLL_ACK" /\ f.dst = n
  BY DEF PollAckAtTag
<1>2. /\ f \in Frame /\ f \in Heard /\ f \in InAir /\ f = rxFrame[n]
      /\ ~sentAck[n] /\ ~deaf[n]
  BY HandlingFacts
<1>3. c \in Anchors /\ n \notin Anchors
  BY <1>1, <1>2, FrameNodes, NodeAssumption
<1>4. AllServed(table[n]) /\ \A x \in PollsSent(table[n], c), y \in Taken(c, n) : x = y
  <2>1. Settled(n) /\ \A x \in Asked(n, c), y \in Taken(c, n) : x = y
    BY <1>1, <1>2 DEF Together, OnePoll
  <2> QED
    BY <1>2, <2>1 DEF Settled, Asked, Unnoted
<1>5. /\ \A m \in Node \ {n} : table'[m] = table[m]
      /\ \/ TransmitNothing
         \/ \E e : /\ Starts(n, e, DEFAULT_REPLY_DELAY_TIME) /\ e.type = "RANGE"
                   /\ \A a \in DOMAIN e.devices :
                        a = c /\ e.devices[a].poll \in PollsSent(table[n], c)
  BY <1>2, <1>4, AckNotes
<1>6. /\ LessRanged
      /\ \A a \in Anchors : Ranged(a, n)' = Ranged(a, n)
  BY <1>3, <1>5 DEF LessRanged, Taken, Ranged, Node
<1>7. CASE TransmitNothing
  BY <1>6, <1>7, NoReplyLess, LessAging
<1>8. ASSUME NEW e, Starts(n, e, DEFAULT_REPLY_DELAY_TIME), e.type = "RANGE",
             \A a \in DOMAIN e.devices :
               a = c /\ e.devices[a].poll \in PollsSent(table[n], c)
      PROVE  Aging'
  <2>1. DEFAULT_REPLY_DELAY_TIME \in Nat /\ e.src = n
    BY <1>8 DEF DEFAULT_REPLY_DELAY_TIME, Starts
  <2>2. Hushed /\ InAir' \subseteq InAir \cup {e}
    BY <1>8, <2>1, ReplyHushed
  <2>3. Taken(c, n) \cap Ranged(c, n) = {}
    BY <1>1, <1>2 DEF Aging, Unranged
  <2>4. Taken(c, n) = {} => Ranged(c, n) = {}
    BY DEF Taken, Ranged, PollsReceived, PollsRanged
  <2>5. \A x \in PollsSent(table[n], c) : x \notin Ranged(c, n)
    BY <1>4, <2>3, <2>4
  <2>6. Unranged(e)'
    BY <1>3, <1>6, <1>8, <2>1, <2>5 DEF Unranged
  <2> QED
    BY <1>6, <2>2, <2>6, AgingReply
<1> QED
  BY <1>5, <1>7, <1>8

LEMMA NextAging ==
  ASSUME Prompt, Inv, Inv', NoWrap, Together, Aging, [Next]_vars
  PROVE  Aging'
<1>1. Grows
  BY NextGrows
<1>2. ASSUME NEW n \in Node, HandleReceived(n)
      PROVE  Aging'
  <2>1. \/ BlinkAtAnchor(n, data[n]) \/ RangingInitAtTag(n, data[n]) \/ PollAtAnchor(n, data[n])
        \/ RangeAtAnchor(n, data[n]) \/ PollAckAtTag(n, data[n]) \/ IgnoreFrame(n, data[n])
    BY <1>2 DEF HandleReceived
  <2> QED
    BY <1>1, <1>2, <2>1, MildAging, PollAging, RangeAging, PollAckAging
<1>3. ASSUME NEW n \in Node, Loop(n) \/ TxDone(n) \/ Restart(n)
      PROVE  Aging'
  <2>1. Recedes(n) \/ TimerTick(n) \/ HandleReceived(n) \/ TxDone(n)
    BY <1>3 DEF Loop, Recedes
  <2> QED
    BY <1>1, <1>2, <2>1, RecedesAging, TimerTickAging, TxDoneAging
<1> QED
  BY <1>1, <1>3, NextSlotAging, ElapseAging, StutterAging DEF Next

LEMMA InitAging ==
  ASSUME Init
  PROVE  Aging
<1>1. InAir = {}
  BY OffSilent DEF Init, InAir, Underway, Heard, Hears, Transmitting
<1>2. \A a \in Anchors : Used(table[a]) = {}
  BY EmptyTableGood, MaxDevicesAssumption DEF Init, Used, Slot, Node
<1>3. \A a \in Anchors : \A g : Noticed(a, g) = {}
  BY <1>2 DEF Noticed, Taken, Ranged, PollsReceived, PollsRanged, SlotsOf
<1>4. \A a \in Anchors : \A g : Taken(a, g) = {}
  BY <1>3 DEF Noticed
<1> QED
  BY <1>1, <1>3, <1>4 DEF Aging

LEMMA AgingServedOnce ==
  ASSUME Inv, Together, Aging
  PROVE  ServedOncePerPoll
<1> SUFFICES ASSUME NEW n \in Node, Ranging(n), NEW i \in SlotsOf(table[n], data[n].src)
             PROVE  table[n].dev[i].round1.poll # data[n].devices[n].poll
  BY DEF ServedOncePerPoll
<1> DEFINE f == data[n]
<1>1. /\ f = rxFrame[n] /\ Hears(n) /\ f \in InAir /\ f.type = "RANGE"
      /\ n \in DOMAIN f.devices
  BY DEF Ranging, Together, Chip, InAir, Heard, Hears
<1>2. f.devices[n].poll \notin Ranged(n, f.src)
  BY <1>1 DEF Aging, Unranged
<1>3. table[n].dev[i].round1.poll \in Ranged(n, f.src)
  BY DEF Ranged, PollsRanged
<1> QED
  BY <1>2, <1>3

(* An anchor computes at most one range per POLL, as long as every loop()  *)
(* answers an event before the next one happens and the sequence numbers,  *)
(* by which the model tells the POLLs of a tag apart, have not come round. *)
THEOREM ServedOnce ==
  ASSUME Prompt
  PROVE  Spec /\ []NoWrap => []ServedOncePerPoll
<1>1. Init => Inv /\ Together /\ Aging
  BY InitInv, InitTogether, InitAging
<1>2. NoWrap /\ (Inv /\ Together /\ Aging) /\ [Next]_vars => (Inv /\ Together /\ Aging)'
  <2> SUFFICES ASSUME NoWrap, Inv, Together, Aging, [Next]_vars
               PROVE  Inv' /\ Together' /\ Aging'
    OBVIOUS
  <2>1. Inv'
    BY NextInv
  <2> QED
    BY <2>1, NextTogether, NextAging
<1>3. Inv /\ Together /\ Aging => ServedOncePerPoll
  BY AgingServedOnce
<1> QED
  BY <1>1, <1>2, <1>3, PTL DEF Spec

---------------------------------------------------------------------------
(* The abstract exchange: what the two tables of a pair say                *)

TagSays(d) == [asked |-> PollOf(d.pollSent), answered |-> d.acked, reported |-> d.served]
AnchorSays(d) == [taken |-> PollOf(d.pollReceived), ranged |-> PollOf(d.round1.poll)]

(* What table t of a tag, or of an anchor, says of the device at x.        *)
TagView(t, x) ==
  IF x \in Listed(t) THEN TagSays(t.dev[CHOOSE i \in SlotsOf(t, x) : TRUE]) ELSE Pairs!Stranger
AnchorView(t, x) ==
  IF x \in Listed(t) THEN AnchorSays(t.dev[CHOOSE i \in SlotsOf(t, x) : TRUE]) ELSE Pairs!Fresh

Pair == Tags \X Anchors
OfTag == [p \in Pair |-> TagView(table[p[1]], p[2])]
OfAnchor == [p \in Pair |-> AnchorView(table[p[2]], p[1])]

LEMMA PairsStep ==
  /\ UNCHANGED <<OfTag, OfAnchor>> => UNCHANGED Pairs!pairVars
  /\ \A P : Pairs!OnlyTagSide(P) <=>
       /\ OfTag' \in [Pair -> Pairs!TagSide]
       /\ \A q \in Pair \ P : OfTag'[q] = OfTag[q]
       /\ UNCHANGED OfAnchor
  /\ \A P : Pairs!OnlyAnchorSide(P) <=>
       /\ OfAnchor' \in [Pair -> Pairs!AnchorSide]
       /\ \A q \in Pair \ P : OfAnchor'[q] = OfAnchor[q]
       /\ UNCHANGED OfTag
<1>1. UNCHANGED <<OfTag, OfAnchor>> => UNCHANGED Pairs!pairVars
  BY DEF Pairs!pairVars, OfTag, OfAnchor, Pair, TagView, AnchorView, TagSays, AnchorSays,
     DeviceOf, Knows, Pairs!Stranger, Pairs!Fresh, Pairs!Never
<1>2. \A P : Pairs!OnlyTagSide(P) <=>
       /\ OfTag' \in [Pair -> Pairs!TagSide]
       /\ \A q \in Pair \ P : OfTag'[q] = OfTag[q]
       /\ UNCHANGED OfAnchor
  BY DEF Pairs!OnlyTagSide, Pairs!Pair, OfTag, OfAnchor, Pair, TagView, AnchorView, TagSays,
     AnchorSays, DeviceOf, Knows, Pairs!Stranger, Pairs!Fresh, Pairs!Never
<1>3. \A P : Pairs!OnlyAnchorSide(P) <=>
       /\ OfAnchor' \in [Pair -> Pairs!AnchorSide]
       /\ \A q \in Pair \ P : OfAnchor'[q] = OfAnchor[q]
       /\ UNCHANGED OfTag
  BY DEF Pairs!OnlyAnchorSide, Pairs!Pair, OfTag, OfAnchor, Pair, TagView, AnchorView, TagSays,
     AnchorSays, DeviceOf, Knows, Pairs!Stranger, Pairs!Fresh, Pairs!Never
<1> QED
  BY <1>1, <1>2, <1>3

---------------------------------------------------------------------------
(* The abstract exchange: the frame just sent, and the report under way    *)

(* What node n has sent is sent, and is what is heard now.                 *)
JustSent == \A n \in Node : sentAck[n] =>
  /\ ~Transmitting(n) /\ sentData[n].src = n /\ txStamp[n] = Stamp(sentData[n])
  /\ \A f \in Heard : f = sentData[n]

(* Tag g asks with a POLL its table does not hold yet.                     *)
Opening(g) == sentData[g].type = "POLL" /\ (Transmitting(g) \/ sentAck[g])

Dated == \A g \in Tags :
  /\ Opening(g) => sentData[g].seq < seq[g]
  /\ \A a \in Anchors : \A s \in PollsSent(table[g], a) :
       Before(g, s, seq[g]) /\ (Opening(g) => Before(g, s, sentData[g].seq))

(* Table t of a tag has reported POLL p to anchor a, or has forgotten it.  *)
Holds(t, a, p) == \A i \in SlotsOf(t, a) :
  LET d == t.dev[i] IN d.pollSent = NoStamp \/ (d.pollSent = p /\ d.acked /\ d.served)

Reported == \A f \in InAir : f.type = "RANGE" =>
  \A a \in DOMAIN f.devices : Holds(table[f.src], a, f.devices[a].poll)

Current == JustSent /\ Dated /\ Reported

(* Every device of v is as it was in t, further answered or reported, or   *)
(* it is new.                                                              *)
Keeps(v, t) == \A x : \A j \in SlotsOf(v, x) :
  \/ v.dev[j].pollSent = NoStamp
  \/ \E i \in SlotsOf(t, x) : /\ v.dev[j].pollSent = t.dev[i].pollSent
                              /\ t.dev[i].acked => v.dev[j].acked
                              /\ t.dev[i].served => v.dev[j].served

TagsKeep == \A g \in Tags : Keeps(table'[g], table[g])

LEMMA KeepsHolds ==
  ASSUME NEW v, NEW t, Keeps(v, t), NEW a
  PROVE  /\ PollsSent(v, a) \subseteq PollsSent(t, a) \cup {NoStamp}
         /\ \A p : Holds(t, a, p) => Holds(v, a, p)
<1>1. PollsSent(v, a) \subseteq PollsSent(t, a) \cup {NoStamp}
  BY DEF Keeps, PollsSent
<1>2. ASSUME NEW p, Holds(t, a, p)
      PROVE  Holds(v, a, p)
  BY <1>2 DEF Keeps, Holds
<1> QED
  BY <1>1, <1>2

LEMMA InheritsKeeps ==
  ASSUME NEW v, NEW t, Inherits(v, t)
  PROVE  Keeps(v, t)
<1> SUFFICES ASSUME NEW x, NEW j \in SlotsOf(v, x)
             PROVE  \E i \in SlotsOf(t, x) : /\ v.dev[j].pollSent = t.dev[i].pollSent
                                             /\ t.dev[i].acked => v.dev[j].acked
                                             /\ t.dev[i].served => v.dev[j].served
  BY DEF Keeps
<1>1. PICK i \in Used(t) : Same(v.dev[j], t.dev[i])
  BY DEF Inherits, SlotsOf
<1> QED
  BY <1>1 DEF Same, SlotsOf

LEMMA KeepsItself == \A t : Keeps(t, t)
  BY DEF Keeps

LEMMA TablesKeep ==
  ASSUME \A g \in Tags : table'[g] = table[g]
  PROVE  TagsKeep
  BY KeepsItself DEF TagsKeep

LEMMA SentStamps ==
  ASSUME Inv
  PROVE  \A g \in Tags : \A a : PollsSent(table[g], a) \subseteq Stamps
<1> SUFFICES ASSUME NEW g \in Tags, NEW a
             PROVE  PollsSent(table[g], a) \subseteq Stamps
  OBVIOUS
<1> DEFINE t == table[g]
<1>1. \A i \in SlotsOf(t, a) : t.dev[i] \in Device(g)
  BY DEF Inv, Tables, Good, TableOf, SlotsOf, Used, Node
<1> HIDE DEF t
<1>2. \A d \in Device(g) : d.pollSent \in Stamps
  BY DEF Device
<1> QED
  BY <1>1, <1>2 DEF PollsSent, t

---------------------------------------------------------------------------
(* Steps that keep what is current *)

SentKept ==
  /\ Heard' \subseteq Heard
  /\ \A m \in Node : sentAck'[m] =>
       /\ sentAck[m] /\ sentData'[m] = sentData[m] /\ txStamp'[m] = txStamp[m]
       /\ Transmitting(m)' => Transmitting(m)

OpeningKept ==
  \A g \in Tags : Opening(g)' => Opening(g) /\ sentData'[g] = sentData[g]

LEMMA JustSentKept ==
  ASSUME JustSent, SentKept
  PROVE  JustSent'
  BY DEF JustSent, SentKept

LEMMA DatedKept ==
  ASSUME Inv, Inv', Dated, Grows, TagsKeep, OpeningKept
  PROVE  Dated'
<1> SUFFICES ASSUME NEW g \in Tags
             PROVE  /\ Opening(g)' => sentData'[g].seq < seq'[g]
                    /\ \A a \in Anchors : \A s \in PollsSent(table'[g], a) :
                         /\ Before(g, s, seq'[g])
                         /\ Opening(g)' => Before(g, s, sentData'[g].seq)
  BY DEF Dated, Before
<1> DEFINE p == seq[g]
           q == seq'[g]
           r == sentData'[g].seq
<1>1. p \in Sequence /\ q \in Sequence /\ p <= q
  BY DEF Grows, Node
<1>2. r \in Sequence
  BY FrameFields DEF Inv, Sending, Node
<1>3. Opening(g)' => r < p
  BY DEF Dated, OpeningKept
<1>4. \A a \in Anchors : \A s \in PollsSent(table[g], a) :
        s \in Stamps /\ Before(g, s, p) /\ (Opening(g)' => Before(g, s, r))
  BY SentStamps DEF Dated, OpeningKept
<1>5. \A a \in Anchors : \A s \in PollsSent(table'[g], a) :
        s = NoStamp \/ s \in PollsSent(table[g], a)
  BY KeepsHolds DEF TagsKeep
<1> HIDE DEF p, q, r
<1>6. r < p => r < q
  BY <1>1, <1>2, Constants DEF Sequence
<1>7. \A s : s = NoStamp => Before(g, s, q) /\ Before(g, s, r)
  BY DEF Before
<1>8. \A a \in Anchors : \A s \in PollsSent(table'[g], a) :
        Before(g, s, q) /\ (Opening(g)' => Before(g, s, r))
  BY <1>1, <1>4, <1>5, <1>7, BeforeLater
<1> QED
  BY <1>3, <1>6, <1>8 DEF p, q, r

LEMMA ReportedKept ==
  ASSUME Inv, Reported, TagsKeep, InAir' \subseteq InAir
  PROVE  Reported'
<1> SUFFICES ASSUME NEW f \in InAir', f.type = "RANGE", NEW a \in DOMAIN f.devices
             PROVE  Holds(table'[f.src], a, f.devices[a].poll)
  BY DEF Reported, Holds
<1>1. f \in InAir /\ f.src \in Tags
  BY InAirFrames, FrameNodes
<1>2. Holds(table[f.src], a, f.devices[a].poll)
  BY <1>1 DEF Reported
<1> QED
  BY <1>1, <1>2, KeepsHolds DEF TagsKeep

LEMMA ReportedReply ==
  ASSUME Inv, Reported, TagsKeep, NEW e, InAir' \subseteq InAir \cup {e},
         e.type = "RANGE" =>
           \A a \in DOMAIN e.devices : Holds(table'[e.src], a, e.devices[a].poll)
  PROVE  Reported'
<1> SUFFICES ASSUME NEW f \in InAir', f.type = "RANGE", NEW a \in DOMAIN f.devices, f # e
             PROVE  Holds(table'[f.src], a, f.devices[a].poll)
  BY DEF Reported, Holds
<1>1. f \in InAir /\ f.src \in Tags
  BY InAirFrames, FrameNodes
<1>2. Holds(table[f.src], a, f.devices[a].poll)
  BY <1>1 DEF Reported
<1> QED
  BY <1>1, <1>2, KeepsHolds DEF TagsKeep

LEMMA RecedesKept ==
  ASSUME Inv, Together, NEW n \in Node, Recedes(n)
  PROVE  SentKept /\ OpeningKept /\ InAir' \subseteq InAir
<1>1. LessInAir
  BY CheckForResetLess, RemoveNextInactiveLess, RecoverySelectLess, HandleSentLess,
     NothingSentLess, CheckReceivedLess, GetDataLess, RestartLess DEF Recedes
<1>2. /\ Heard' \subseteq Heard /\ InAir' \subseteq InAir
      /\ \A m \in Node : Transmitting(m)' => Transmitting(m)
  BY <1>1, LessInAirFacts
<1>3. ASSUME NEW m \in Node
      PROVE  /\ sentAck'[m] => sentAck[m]
             /\ \/ sentData'[m] = sentData[m] /\ txStamp'[m] = txStamp[m]
                \/ ~sentAck'[m] /\ ~Transmitting(m)'
  <2>1. CASE HandleSent(n)
    <3>1. UNCHANGED <<sentData, txStamp>> /\ sentAck' = [sentAck EXCEPT ![n] = FALSE]
      BY <2>1 DEF HandleSent
    <3> QED
      BY <3>1 DEF Inv, Flags
  <2>2. CASE Restart(n)
    <3>1. /\ sentData' = [sentData EXCEPT ![n] = NoFrame]
          /\ sentAck' = [sentAck EXCEPT ![n] = FALSE]
          /\ txStamp' = [txStamp EXCEPT ![n] = NoStamp]
          /\ pending' = [pending EXCEPT ![n] = Off]
      BY <2>2 DEF Restart
    <3>2. CASE m # n
      BY <3>1, <3>2 DEF Inv, Flags, Sending
    <3>3. CASE m = n
      <4>1. ~sentAck'[n] /\ pending'[n] = Off
        BY <3>1 DEF Inv, Flags, Sending
      <4> QED
        BY <3>3, <4>1, OffSilent DEF Transmitting
    <3> QED
      BY <3>2, <3>3
  <2>3. CASE ~HandleSent(n) /\ ~Restart(n)
    <3>1. UNCHANGED <<sentData, sentAck, txStamp>>
      BY <2>3 DEF Recedes, CheckForReset, RemoveNextInactive, RecoverySelect, NothingSent,
         CheckReceived, GetData, chipVars
    <3> QED
      BY <3>1
  <2> QED
    BY <2>1, <2>2, <2>3
<1>4. SentKept
  BY <1>2, <1>3 DEF SentKept
<1>5. OpeningKept
  BY <1>2, <1>3 DEF OpeningKept, Opening, Node
<1> QED
  BY <1>2, <1>4, <1>5

(* A tag notes its POLL when it has been sent; no other step asks.         *)
LEMMA RecedesKeep ==
  ASSUME Inv, Together, NEW n \in Node, Recedes(n),
         ~(HandleSent(n) /\ n \in Tags /\ sentData[n].type = "POLL")
  PROVE  TagsKeep
<1>1. \A g \in Tags : g \in Node /\ g \notin Anchors
  BY NodeAssumption DEF Node
<1>2. CASE RemoveNextInactive(n)
  <2>1. Inherits(table'[n], table[n]) /\ \A m \in Node \ {n} : table'[m] = table[m]
    BY <1>2, RemoveNextInactiveLess
  <2> QED
    BY <1>1, <2>1, InheritsKeeps, KeepsItself DEF TagsKeep
<1>3. CASE Restart(n)
  <2>1. table' = [table EXCEPT ![n] = EmptyTable(n)]
    BY <1>3 DEF Restart
  <2>2. table'[n] = EmptyTable(n) /\ \A m \in Node \ {n} : table'[m] = table[m]
    BY <2>1 DEF Inv, Tables
  <2>3. Used(EmptyTable(n)) = {}
    BY EmptyTableGood, MaxDevicesAssumption DEF Used, Slot
  <2>4. Keeps(EmptyTable(n), table[n])
    BY <2>3, InheritsKeeps DEF Inherits
  <2> QED
    BY <1>1, <2>2, <2>4, KeepsItself DEF TagsKeep
<1>4. CASE HandleSent(n)
  <2>1. \A g \in Tags : table'[g] = table[g]
    BY <1>1, <1>4 DEF HandleSent, PollSent, PollAckSent, OtherSent, Inv, Tables
  <2> QED
    BY <2>1, TablesKeep
<1>5. CASE \/ CheckForReset(n) \/ RecoverySelect(n)
           \/ NothingSent(n) \/ CheckReceived(n) \/ GetData(n)
  <2>1. UNCHANGED table
    BY <1>5 DEF CheckForReset, RecoverySelect, NothingSent, CheckReceived, GetData
  <2> QED
    BY <2>1, TablesKeep
<1> QED
  BY <1>2, <1>3, <1>4, <1>5 DEF Recedes

LEMMA CurrentKept ==
  ASSUME Inv, Inv', Current, Grows, SentKept, OpeningKept, TagsKeep, InAir' \subseteq InAir
  PROVE  Current'
  BY JustSentKept, DatedKept, ReportedKept DEF Current

(* The POLL that has been sent is noted.                                   *)
LEMMA PollSentCurrent ==
  ASSUME Inv, Inv', Together, Current, Grows, NEW n \in Node, HandleSent(n),
         n \in Tags, sentData[n].type = "POLL"
  PROVE  Current'
<1> DEFINE s == txStamp[n]
           f == sentData[n]
<1>1. /\ sentAck[n] /\ ~sentAck'[n] /\ UNCHANGED sentData
      /\ table' = [table EXCEPT ![n] =
           MarkUsed(@, [i \in Slot |-> PollMarked(table[n].dev[i], s)])]
      /\ pending' = [pending EXCEPT ![n] = Off]
  BY NodeAssumption DEF HandleSent, PollSent, PollAckSent, OtherSent, Receiver, Inv, Flags
<1>2. /\ ~Transmitting(n) /\ f.src = n /\ s = Stamp(f) /\ \A h \in Heard : h = f
  BY <1>1 DEF Current, JustSent
<1>3. SentKept /\ OpeningKept /\ InAir' \subseteq InAir
  BY RecedesKept DEF Recedes
<1>4. \A m \in Node \ {n} : table'[m] = table[m]
  BY <1>1 DEF Inv, Tables
<1>5. \A a : PollsSent(table'[n], a) \subseteq {s}
  <2> DEFINE t == table[n]
             u == table'[n]
  <2>1. Good(n, t)
    BY DEF Inv, Tables
  <2>2. u = MarkUsed(t, [i \in Slot |-> PollMarked(t.dev[i], s)])
    BY <1>1 DEF Inv, Tables
  <2> HIDE DEF t, u, s
  <2>3. \A a : PollsSent(u, a) \subseteq {s}
    BY <2>1, <2>2, PollMarkedTable
  <2> QED
    BY <2>3 DEF u
<1>6. JustSent'
  BY <1>3, JustSentKept DEF Current
<1>7. Reported'
  <2> SUFFICES ASSUME NEW h \in InAir', h.type = "RANGE", NEW a \in DOMAIN h.devices
               PROVE  Holds(table'[h.src], a, h.devices[a].poll)
    BY DEF Reported, Holds
  <2>1. h \in InAir /\ h.src \in Tags
    BY <1>3, InAirFrames, FrameNodes
  <2>2. h \in Underway
    BY <1>2, <2>1 DEF InAir
  <2>3. h.src # n
    BY <1>2, <2>2, UnderwaySent
  <2> QED
    BY <1>4, <2>1, <2>3 DEF Current, Reported, Node
<1>8. Dated'
  <2> SUFFICES ASSUME NEW g \in Tags
               PROVE  /\ Opening(g)' => sentData'[g].seq < seq'[g]
                      /\ \A a \in Anchors : \A x \in PollsSent(table'[g], a) :
                           /\ Before(g, x, seq'[g])
                           /\ Opening(g)' => Before(g, x, sentData'[g].seq)
    BY DEF Dated, Before
  <2>1. seq' = seq
    BY DEF HandleSent
  <2>2. CASE g # n
    BY <1>1, <1>3, <1>4, <2>1, <2>2 DEF Current, Dated, OpeningKept, Node
  <2>3. CASE g = n
    <3>1. ~Opening(n)'
      BY <1>1, OffSilent DEF Opening, Transmitting, Inv, Sending
    <3>2. Opening(n)
      BY <1>1 DEF Opening
    <3>3. f.seq < seq[n]
      BY <3>2 DEF Current, Dated
    <3>4. Before(n, s, seq[n])
      BY <1>2, <3>3 DEF Before, Stamp
    <3> QED
      BY <1>5, <2>1, <2>3, <3>1, <3>4
  <2> QED
    BY <2>2, <2>3
<1> QED
  BY <1>6, <1>7, <1>8 DEF Current

LEMMA RecedesCurrent ==
  ASSUME Inv, Inv', Together, Current, Grows, NEW n \in Node, Recedes(n)
  PROVE  Current'
<1>1. CASE HandleSent(n) /\ n \in Tags /\ sentData[n].type = "POLL"
  BY <1>1, PollSentCurrent
<1>2. CASE ~(HandleSent(n) /\ n \in Tags /\ sentData[n].type = "POLL")
  BY <1>2, RecedesKept, RecedesKeep, CurrentKept
<1> QED
  BY <1>1, <1>2

LEMMA TimerTickCurrent ==
  ASSUME Prompt, Inv, Inv', NoWrap, Together, Current, Grows, NEW n \in Node, TimerTick(n)
  PROVE  Current'
<1>1. /\ Calm /\ UNCHANGED <<table, sentAck, txStamp, rxFrame>>
      /\ \A m \in Node : Hears(m)' <=> Hears(m)
  BY TimerTickFacts
<1>2. Heard = {} /\ InAir = Underway /\ \A m \in Node : ~sentAck[m] /\ ~Hears(m)
  BY <1>1, CalmFacts DEF Together
<1>3. Heard' = {} /\ InAir' = Underway'
  BY <1>1, <1>2 DEF Heard, InAir
<1>4. TagsKeep /\ SentKept /\ JustSent'
  BY <1>1, <1>2, <1>3, TablesKeep DEF SentKept, JustSent
<1>5. CASE TransmitNothing
  <2>1. OpeningKept /\ InAir' \subseteq InAir
    BY <1>1, <1>2, <1>3, <1>5 DEF TransmitNothing, OpeningKept, Opening, Underway, Transmitting
  <2> QED
    BY <1>4, <2>1, CurrentKept
<1>6. ASSUME n \in Tags, NEW e, Starts(n, e, 0), e.seq = seq[n],
             seq' = [seq EXCEPT ![n] = (@ + 1) % SEQ_MOD], e.type \in {"BLINK", "POLL"}
      PROVE  Current'
  <2>1. InAir' \subseteq InAir \cup {e}
    BY <1>2, <1>3, <1>6, StartsFacts
  <2>2. Reported'
    BY <1>4, <1>6, <2>1, ReportedReply DEF Current
  <2>3. seq[n] < seq'[n]
    <3>1. seq' # seq
      <4>1. \A s \in Sequence : s < SEQ_MOD - 1 => (s + 1) % SEQ_MOD # s
        BY Constants DEF Sequence
      <4> QED
        BY <1>6, <4>1 DEF NoWrap, Inv, Sending
    <3> QED
      BY <1>6, <3>1, SeqGrows
  <2>4. sentData'[n] = e /\ \A m \in Node \ {n} : /\ sentData'[m] = sentData[m]
                                                  /\ seq'[m] = seq[m]
                                                  /\ Transmitting(m)' <=> Transmitting(m)
    <3>1. \A m \in Node \ {n} : Transmitting(m)' <=> Transmitting(m)
      BY <1>6, StartsFacts
    <3>2. sentData'[n] = e /\ \A m \in Node \ {n} : sentData'[m] = sentData[m]
      BY <1>6 DEF Starts, Inv, Sending
    <3>3. \A m \in Node \ {n} : seq'[m] = seq[m]
      BY <1>6 DEF Inv, Sending
    <3> QED
      BY <3>1, <3>2, <3>3
  <2>5. ASSUME NEW g \in Tags
        PROVE  /\ Opening(g)' => sentData'[g].seq < seq'[g]
               /\ \A a \in Anchors : \A s \in PollsSent(table'[g], a) :
                    /\ Before(g, s, seq'[g])
                    /\ Opening(g)' => Before(g, s, sentData'[g].seq)
    <3>1. CASE g # n
      BY <1>1, <2>4, <3>1 DEF Current, Dated, Opening, Node
    <3>2. CASE g = n
      <4> DEFINE p == seq[n]
                 q == seq'[n]
                 r == sentData'[n].seq
      <4>1. r = p /\ p < q
        BY <1>6, <2>3, <2>4
      <4>2. p \in Sequence /\ q \in Sequence /\ p <= q
        BY DEF Grows
      <4>3. \A a \in Anchors : \A s \in PollsSent(table'[n], a) : s \in Stamps /\ Before(n, s, p)
        BY <1>1, <1>6, SentStamps DEF Current, Dated
      <4> HIDE DEF p, q, r
      <4>4. \A a \in Anchors : \A s \in PollsSent(table'[n], a) :
              Before(n, s, q) /\ Before(n, s, r)
        BY <4>1, <4>2, <4>3, BeforeLater
      <4> QED
        BY <3>2, <4>1, <4>4 DEF p, q, r
    <3> QED
      BY <3>1, <3>2
  <2>6. Dated'
    BY <2>5 DEF Dated, Before
  <2> QED
    BY <1>4, <2>2, <2>6 DEF Current
<1> QED
  BY <1>5, <1>6, TimerTickSends

LEMMA TxDoneCurrent ==
  ASSUME Prompt, Inv, Inv', Together, Current, Grows, NEW n \in Node, TxDone(n)
  PROVE  Current'
<1> DEFINE f == pending[n].frame
<1>1. /\ Transmitting(n) /\ f.src = n
      /\ \A m \in Node : ~sentAck[m]
      /\ Heard' \subseteq {f} /\ InAir' \subseteq InAir /\ ~Transmitting(n)'
      /\ \A m \in Node : Transmitting(m)' => Transmitting(m)
      /\ UNCHANGED loopVars
      /\ \A m \in Node \ {n} : sentAck'[m] = sentAck[m]
      /\ deaf[n] => sentAck'[n] = sentAck[n]
      /\ ~deaf[n] => txStamp'[n] = Stamp(f)
  BY TxDoneFacts
<1>2. f = sentData[n]
  BY <1>1, SentBySource DEF Together
<1> HIDE DEF f
<1>3. JustSent'
  <2> SUFFICES ASSUME NEW m \in Node, sentAck'[m]
               PROVE  /\ ~Transmitting(m)' /\ sentData'[m].src = m
                      /\ txStamp'[m] = Stamp(sentData'[m])
                      /\ \A h \in Heard' : h = sentData'[m]
    BY DEF JustSent, Stamp
  <2>1. m = n /\ ~deaf[n]
    BY <1>1
  <2> QED
    BY <1>1, <1>2, <2>1 DEF loopVars
<1>4. TagsKeep
  BY <1>1, TablesKeep DEF loopVars
<1>5. OpeningKept
  BY <1>1 DEF OpeningKept, Opening, loopVars, Node
<1>6. Dated' /\ Reported'
  BY <1>1, <1>4, <1>5, DatedKept, ReportedKept DEF Current
<1> QED
  BY <1>3, <1>6 DEF Current

LEMMA NextSlotCurrent ==
  ASSUME Prompt, Inv, Inv', Together, Current, Grows, NextSlot
  PROVE  Current'
<1>1. /\ Heard' = {} /\ InAir' = InAir /\ UNCHANGED <<loopVars, sentAck, txStamp>>
      /\ \A m \in Node : Transmitting(m)' <=> Transmitting(m)
  BY NextSlotFacts
<1>2. TagsKeep
  BY <1>1, TablesKeep DEF loopVars
<1>3. SentKept /\ OpeningKept
  BY <1>1 DEF SentKept, OpeningKept, Opening, loopVars, Node
<1> QED
  BY <1>1, <1>2, <1>3, CurrentKept

LEMMA ElapseTables ==
  ASSUME Inv, Elapse
  PROVE  \A m \in Node :
           table'[m] = table[m]
           \/ (/\ Used(table'[m]) = Used(table[m])
               /\ \A i \in Used(table[m]) : Same(table'[m].dev[i], table[m].dev[i]))
<1> SUFFICES ASSUME NEW m \in Node, table'[m] # table[m]
             PROVE  /\ Used(table'[m]) = Used(table[m])
                    /\ \A i \in Used(table[m]) : Same(table'[m].dev[i], table[m].dev[i])
  OBVIOUS
<1> DEFINE t == table[m]
           u == table'[m]
<1>1. u = Aged(t) /\ Good(m, t)
  BY DEF Elapse, Inv, Tables
<1> HIDE DEF t, u
<1>2. Used(u) = Used(t) /\ \A i \in Used(t) : Same(u.dev[i], t.dev[i])
  BY <1>1, AgedNarrows
<1> QED
  BY <1>2 DEF t, u

LEMMA ElapseCurrent ==
  ASSUME Inv, Inv', Together, Current, Grows, Elapse
  PROVE  Current'
<1>1. /\ InAir = {} /\ InAir' = {} /\ Heard' = {}
      /\ \A m \in Node : ~Transmitting(m)'
      /\ UNCHANGED <<chipVars, sentData>>
  BY ElapseFacts
<1>2. ASSUME NEW g \in Tags
      PROVE  Keeps(table'[g], table[g])
  <2>1. Inherits(table'[g], table[g])
    BY ElapseTables DEF Inherits, Same, Node
  <2> QED
    BY <2>1, InheritsKeeps
<1>3. TagsKeep
  BY <1>2 DEF TagsKeep
<1>4. SentKept /\ OpeningKept
  BY <1>1 DEF SentKept, OpeningKept, Opening, chipVars, Node
<1> QED
  BY <1>1, <1>3, <1>4, CurrentKept

LEMMA StutterCurrent ==
  ASSUME Inv, Inv', Current, Grows, UNCHANGED vars
  PROVE  Current'
<1>1. UNCHANGED <<table, sentData, sentAck, receivedAck, pc, rxFrame, txStamp, pending>>
  BY DEF vars, loopVars, chipVars
<1>2. TagsKeep
  BY <1>1, TablesKeep
<1>3. SentKept /\ OpeningKept /\ InAir' \subseteq InAir
  BY <1>1 DEF SentKept, OpeningKept, Opening, InAir, Underway, Heard, Hears, Transmitting
<1> QED
  BY <1>2, <1>3, CurrentKept

---------------------------------------------------------------------------
(* What is current when a frame is handled *)

LEMMA NoReplyKept ==
  ASSUME Inv, Together, NEW n \in Node, HandleReceived(n), TransmitNothing
  PROVE  SentKept /\ OpeningKept /\ InAir' \subseteq InAir
<1>1. Heard' \subseteq Heard /\ UNCHANGED <<sentAck, txStamp, sentData, pending>>
  BY HandlingFacts DEF TransmitNothing
<1>2. SentKept /\ OpeningKept
  BY <1>1 DEF SentKept, OpeningKept, Opening, Transmitting
<1>3. InAir' \subseteq InAir
  BY <1>1 DEF InAir, Underway, Transmitting
<1> QED
  BY <1>2, <1>3

LEMMA ReplyKept ==
  ASSUME Inv, Together, NEW n \in Node, HandleReceived(n), NEW e, NEW wait \in Nat,
         Starts(n, e, wait), e.type # "POLL"
  PROVE  SentKept /\ OpeningKept /\ InAir' \subseteq InAir \cup {e}
<1>1. Heard' \subseteq Heard /\ UNCHANGED <<sentAck, txStamp>> /\ ~sentAck[n]
  BY HandlingFacts
<1>2. /\ \A m \in Node \ {n} : Transmitting(m)' <=> Transmitting(m)
      /\ Underway' \subseteq Underway \cup {e}
  BY StartsFacts
<1>3. sentData'[n] = e /\ \A m \in Node \ {n} : sentData'[m] = sentData[m]
  BY DEF Starts, Inv, Sending
<1>4. SentKept
  BY <1>1, <1>2, <1>3 DEF SentKept
<1>5. OpeningKept
  BY <1>1, <1>2, <1>3 DEF OpeningKept, Opening, Node
<1> QED
  BY <1>1, <1>2, <1>4, <1>5 DEF InAir

LEMMA ReplyCurrent ==
  ASSUME Inv, Inv', Together, Current, Grows, NEW n \in Node, HandleReceived(n), TagsKeep,
         NEW e, NEW wait \in Nat, Starts(n, e, wait), e.type # "POLL",
         e.type = "RANGE" =>
           \A a \in DOMAIN e.devices : Holds(table'[n], a, e.devices[a].poll)
  PROVE  Current'
<1>1. e.src = n
  BY DEF Starts
<1>2. SentKept /\ OpeningKept /\ InAir' \subseteq InAir \cup {e}
  BY ReplyKept
<1> QED
  BY <1>1, <1>2, JustSentKept, DatedKept, ReportedReply DEF Current

LEMMA NoReplyCurrent ==
  ASSUME Inv, Inv', Together, Current, Grows, NEW n \in Node, HandleReceived(n), TagsKeep,
         TransmitNothing
  PROVE  Current'
  BY NoReplyKept, CurrentKept

(* A device is met, or was known: it is new and not asked yet, or as it    *)
(* was.                                                                    *)
LEMMA MeetsTable ==
  ASSUME Inv, NEW n \in Node, NEW f \in Frame, RangingInitAtTag(n, f)
  PROVE  /\ n \in Tags /\ TransmitNothing /\ \A m \in Node \ {n} : table'[m] = table[m]
         /\ \A j \in Used(table'[n]) :
              \/ table'[n].dev[j].pollSent = NoStamp
              \/ \E i \in Used(table[n]) : Same(table'[n].dev[j], table[n].dev[i])
<1> DEFINE t == table[n]
           u == table'[n]
<1>1. n \in Tags /\ f.type = "RANGING_INIT" /\ TransmitNothing
  BY DEF RangingInitAtTag
<1>2. f.src \in Anchors
  BY <1>1, FrameNodes
<1>3. PICK d \in NewDevice(n, f.src) : \E v \in AddNetworkDevice(t, d) :
             table' = [table EXCEPT ![n] = v]
  BY DEF RangingInitAtTag
<1>4. u \in AddNetworkDevice(t, d) /\ \A m \in Node \ {n} : table'[m] = table[m]
  BY <1>3 DEF Inv, Tables
<1>5. d \in Device(n) /\ d.pollSent = NoStamp
  <2>1. d.pollSent = NoStamp
    BY DEF NewDevice
  <2>2. d \in Device(n)
    BY <1>1, <1>2, NewDeviceType DEF Partner
  <2> QED
    BY <2>1, <2>2
<1>6. Good(n, t)
  BY DEF Inv, Tables
<1> HIDE DEF t, u
<1>7. \A j \in Used(u) : Same(u.dev[j], d) \/ \E i \in Used(t) : Same(u.dev[j], t.dev[i])
  BY <1>4, <1>5, <1>6, AddSame
<1>8. \A j \in Used(u) : u.dev[j].pollSent = NoStamp
                         \/ \E i \in Used(t) : Same(u.dev[j], t.dev[i])
  BY <1>5, <1>7 DEF Same
<1> QED
  BY <1>1, <1>4, <1>8 DEF t, u

LEMMA MildCurrent ==
  ASSUME Inv, Inv', Together, Current, Grows, NEW n \in Node, HandleReceived(n),
         NEW f, f = data[n], BlinkAtAnchor(n, f) \/ RangingInitAtTag(n, f)
                             \/ RangeAtAnchor(n, f) \/ IgnoreFrame(n, f)
  PROVE  Current'
<1>1. \A g \in Tags : g \in Node /\ g \notin Anchors
  BY NodeAssumption DEF Node
<1>2. CASE RangingInitAtTag(n, f)
  <2>1. f \in Frame
    BY HandlingFacts
  <2>2. /\ n \in Tags /\ TransmitNothing /\ \A m \in Node \ {n} : table'[m] = table[m]
        /\ \A j \in Used(table'[n]) :
             \/ table'[n].dev[j].pollSent = NoStamp
             \/ \E i \in Used(table[n]) : Same(table'[n].dev[j], table[n].dev[i])
    BY <1>2, <2>1, MeetsTable
  <2>3. Keeps(table'[n], table[n])
    BY <2>2 DEF Keeps, SlotsOf, Same
  <2>4. TagsKeep
    BY <1>1, <2>2, <2>3, KeepsItself DEF TagsKeep
  <2> QED
    BY <2>2, <2>4, NoReplyCurrent
<1>3. CASE ~RangingInitAtTag(n, f)
  <2>1. \A g \in Tags : table'[g] = table[g]
    BY <1>1, <1>3 DEF BlinkAtAnchor, RangeAtAnchor, IgnoreFrame, Inv, Tables
  <2>2. TagsKeep
    BY <2>1, TablesKeep
  <2>3. CASE TransmitNothing
    BY <2>2, <2>3, NoReplyCurrent
  <2>4. ASSUME NEW wait \in Nat, NEW e, e = RangingInit(n, f.src), Transmit(n, e, wait)
        PROVE  Current'
    <3>1. e.type = "RANGING_INIT" /\ e.src = n
      BY <2>4 DEF RangingInit
    <3>2. Starts(n, e, wait)
      BY <2>4, <3>1 DEF Transmit, Starts
    <3> QED
      BY <2>2, <2>4, <3>1, <3>2, ReplyCurrent
  <2>5. \A slot \in RandomSlots : slotDuration * slot \in Nat
    BY RangingAssumption DEF slotDuration
  <2> QED
    BY <1>3, <2>3, <2>4, <2>5 DEF BlinkAtAnchor, RangeAtAnchor, IgnoreFrame
<1> QED
  BY <1>2, <1>3

LEMMA PollCurrent ==
  ASSUME Inv, Inv', Together, Current, Grows, NEW n \in Node, HandleReceived(n),
         NEW f, f = data[n], PollAtAnchor(n, f)
  PROVE  Current'
<1> DEFINE e == PollAck(n, f.src)
           wait == f.devices[n]
<1>1. /\ n \in Anchors /\ f.type = "POLL" /\ n \in DOMAIN f.devices /\ Transmit(n, e, wait)
  BY DEF PollAtAnchor
<1>2. f \in Frame
  BY HandlingFacts
<1>3. wait \in Nat
  BY <1>1, <1>2, FrameFields
<1>4. e.type = "POLL_ACK" /\ e.src = n
  BY DEF PollAck
<1>5. Starts(n, e, wait)
  BY <1>1, <1>4 DEF Transmit, Starts
<1>6. \A m \in Node \ {n} : table'[m] = table[m]
  BY <1>2, PollNotes
<1>7. TagsKeep
  BY <1>1, <1>6, TablesKeep, NodeAssumption DEF Node
<1> HIDE DEF e, wait
<1> QED
  BY <1>3, <1>4, <1>5, <1>7, ReplyCurrent

(* The tag that hears of a has a's answer, and reports to some that have   *)
(* answered; nothing else changes of what its table says.                  *)
AnswersTable(t, u, v, i, S) ==
  /\ Used(v) = Used(t) /\ S \subseteq Used(t)
  /\ \A j \in Used(t) :
       /\ v.dev[j].addr = t.dev[j].addr /\ u.dev[j].addr = t.dev[j].addr
       /\ v.dev[j].pollSent = t.dev[j].pollSent /\ u.dev[j].pollSent = t.dev[j].pollSent
       /\ j # i => v.dev[j].acked = t.dev[j].acked
       /\ v.dev[j].served = t.dev[j].served \/ j \in S
       /\ j \in S => v.dev[j].acked /\ v.dev[j].served
  /\ v.dev[i].acked

LEMMA AckAnswersTable ==
  ASSUME NEW n \in Node, NEW t, Good(n, t), NEW a, NEW i \in SlotsOf(t, a),
         NEW s \in Stamps, NEW old, old = t.dev[i],
         NEW u, u = WithDevice(t, i, AckNoted(old, s)),
         NEW v, v = Serve(u, Answered(u))
  PROVE  AnswersTable(t, u, v, i, Answered(u))
<1> DEFINE e == AckNoted(t.dev[i], s)
<1>1. i \in Used(t) /\ t.dev[i] \in Device(n) /\ t.dev[i].addr = a
  BY DEF SlotsOf, Used, Good, TableOf
<1>2. /\ e.addr = a /\ e.acked = TRUE /\ e.served = t.dev[i].served
      /\ e.pollSent = t.dev[i].pollSent
  BY <1>1 DEF AckNoted, Device
<1>3. u = [t EXCEPT !.dev[i] = e] /\ Noted(n, t.dev[i], e)
  BY <1>1, Notes DEF WithDevice
<1> HIDE DEF e
<1>4. Good(n, [t EXCEPT !.dev[i] = e]) /\ Replaced(t, a, i, e, [t EXCEPT !.dev[i] = e])
  BY <1>1, <1>2, <1>3, OneNoted, OneReplaced DEF Used
<1>5. /\ Good(n, u) /\ Used(u) = Used(t) /\ u.dev[i] = e
      /\ \A j \in Used(t) \ {i} : u.dev[j] = t.dev[j]
  BY <1>3, <1>4 DEF Replaced
<1> DEFINE S == Answered(u)
<1>6. \A j \in S : j \in Used(u) /\ u.dev[j].acked
  BY FirstOfSubset DEF Answered
<1> HIDE DEF S
<1>7. /\ Used(v) = Used(u)
      /\ \A j \in Used(u) : v.dev[j] = IF j \in S THEN [u.dev[j] EXCEPT !.served = TRUE]
                                               ELSE u.dev[j]
  BY <1>5 DEF Serve, Used, Good, TableOf, S
<1>8. \A j \in Used(u) : u.dev[j] \in Device(n)
  BY <1>5 DEF Good, TableOf, Used
<1>9. ASSUME NEW j \in Used(u)
      PROVE  /\ v.dev[j].addr = u.dev[j].addr /\ v.dev[j].pollSent = u.dev[j].pollSent
             /\ v.dev[j].acked = u.dev[j].acked
             /\ j \notin S => v.dev[j] = u.dev[j]
             /\ j \in S => v.dev[j].served
  <2> DEFINE d == u.dev[j]
             c == v.dev[j]
  <2>1. c = (IF j \in S THEN [d EXCEPT !.served = TRUE] ELSE d) /\ d \in Device(n)
    BY <1>7, <1>8
  <2> HIDE DEF d, c
  <2>2. /\ c.addr = d.addr /\ c.pollSent = d.pollSent /\ c.acked = d.acked
        /\ j \notin S => c = d
        /\ j \in S => c.served
    BY <2>1 DEF Device
  <2> QED
    BY <2>2 DEF c, d
<1>10. ASSUME NEW j \in Used(t)
       PROVE  /\ v.dev[j].addr = t.dev[j].addr /\ u.dev[j].addr = t.dev[j].addr
              /\ v.dev[j].pollSent = t.dev[j].pollSent /\ u.dev[j].pollSent = t.dev[j].pollSent
              /\ j # i => v.dev[j].acked = t.dev[j].acked
              /\ v.dev[j].served = t.dev[j].served \/ j \in S
              /\ j \in S => v.dev[j].acked /\ v.dev[j].served
  <2>1. CASE j = i
    BY <1>1, <1>2, <1>5, <1>6, <1>9, <2>1
  <2>2. CASE j # i
    BY <1>5, <1>6, <1>9, <2>2
  <2> QED
    BY <2>1, <2>2
<1>11. v.dev[i].acked
  BY <1>1, <1>2, <1>5, <1>9
<1> QED
  BY <1>5, <1>6, <1>7, <1>10, <1>11 DEF AnswersTable, S

LEMMA AckAnswers ==
  ASSUME Inv, NEW n \in Node, NEW f \in Frame, PollAckAtTag(n, f)
  PROVE  /\ \A m \in Node \ {n} : table'[m] = table[m]
         /\ \E i \in SlotsOf(table[n], f.src) : \E u, S : AnswersTable(table[n], u, table'[n], i, S)
         /\ \/ TransmitNothing
            \/ \E e : /\ Starts(n, e, DEFAULT_REPLY_DELAY_TIME) /\ e.type = "RANGE"
                      /\ \A a \in DOMAIN e.devices : Holds(table'[n], a, e.devices[a].poll)
<1> DEFINE t == table[n]
           v == table'[n]
           a == f.src
           s == Stamp(rxFrame[n])
<1>1. Good(n, t) /\ s \in Stamps
  BY FrameStamp DEF Inv, Tables, Receiving
<1> HIDE DEF s
<1>2. PICK i \in SlotsOf(t, a) : TransmitRange(n, [t EXCEPT !.dev[i] = AckNoted(@, s)])
  BY DEF PollAckAtTag, s
<1> DEFINE old == t.dev[i]
           u == WithDevice(t, i, AckNoted(old, s))
           S == Answered(u)
           measured == [j \in S |-> [poll |-> u.dev[j].pollSent, ack |-> u.dev[j].ackReceived]]
           devs == ByAddress(u, S, measured)
<1>3. TransmitRange(n, u)
  BY <1>2 DEF WithDevice
<1> HIDE DEF u
<1>4. /\ table' = [table EXCEPT ![n] = Serve(u, S)]
      /\ TransmitNothing \/ Transmit(n, RangeFrame(n, devs), DEFAULT_REPLY_DELAY_TIME)
  BY <1>3 DEF TransmitRange
<1>5. v = Serve(u, Answered(u)) /\ \A m \in Node \ {n} : table'[m] = table[m]
  BY <1>4 DEF Inv, Tables
<1>6. old = t.dev[i] /\ u = WithDevice(t, i, AckNoted(old, s))
  BY DEF u
<1> HIDE DEF t, v, a, old
<1>7. AnswersTable(t, u, v, i, Answered(u))
  BY <1>1, <1>5, <1>6, AckAnswersTable
<1> HIDE DEF S
<1>8. AnswersTable(t, u, v, i, S)
  BY <1>7 DEF S
<1>9. \A j \in S : measured[j].poll = u.dev[j].pollSent
  OBVIOUS
<1> HIDE DEF measured
<1>10. ASSUME NEW x \in DOMAIN devs
       PROVE  Holds(v, x, devs[x].poll)
  <2>1. DOMAIN devs = {u.dev[j].addr : j \in S}
    BY DEF ByAddress
  <2>2. PICK j \in S : x = u.dev[j].addr
    BY <2>1
  <2> DEFINE k == CHOOSE o \in S : u.dev[o].addr = x
  <2>3. k \in S /\ u.dev[k].addr = x
    BY <2>2
  <2>4. devs[x] = measured[k]
    BY <2>1 DEF ByAddress
  <2> HIDE DEF k, devs
  <2>5. \A l \in SlotsOf(v, x) : l = k
    BY <1>1, <1>8, <2>3 DEF SlotsOf, AnswersTable, Good, TableOK, UniqueAddresses
  <2> QED
    BY <1>8, <1>9, <2>3, <2>4, <2>5 DEF Holds, AnswersTable, SlotsOf
<1> HIDE DEF devs
<1> DEFINE e == RangeFrame(n, devs)
<1>11. e.type = "RANGE" /\ e.src = n /\ e.devices = devs
  BY DEF RangeFrame
<1>12. ASSUME Transmit(n, e, DEFAULT_REPLY_DELAY_TIME)
       PROVE  Starts(n, e, DEFAULT_REPLY_DELAY_TIME)
  BY <1>11, <1>12 DEF Transmit, Starts
<1> HIDE DEF e
<1>13. \/ TransmitNothing
       \/ /\ Starts(n, e, DEFAULT_REPLY_DELAY_TIME) /\ e.type = "RANGE"
          /\ \A x \in DOMAIN e.devices : Holds(v, x, e.devices[x].poll)
  BY <1>4, <1>10, <1>11, <1>12 DEF e
<1> QED
  BY <1>5, <1>8, <1>13 DEF t, v, a

LEMMA PollAckCurrent ==
  ASSUME Inv, Inv', Together, Current, Grows, NEW n \in Node, HandleReceived(n),
         NEW f, f = data[n], PollAckAtTag(n, f)
  PROVE  Current'
<1> DEFINE t == table[n]
           v == table'[n]
<1>1. f \in Frame
  BY HandlingFacts
<1>2. /\ \A m \in Node \ {n} : table'[m] = table[m]
      /\ \E i \in SlotsOf(t, f.src) : \E u, S : AnswersTable(t, u, v, i, S)
      /\ \/ TransmitNothing
         \/ \E e : /\ Starts(n, e, DEFAULT_REPLY_DELAY_TIME) /\ e.type = "RANGE"
                   /\ \A a \in DOMAIN e.devices : Holds(v, a, e.devices[a].poll)
  BY <1>1, AckAnswers
<1> HIDE DEF t, v
<1>3. PICK i \in SlotsOf(t, f.src) : \E u, S : AnswersTable(t, u, v, i, S)
  BY <1>2
<1>4. ASSUME NEW j \in Used(t)
      PROVE  /\ v.dev[j].pollSent = t.dev[j].pollSent
             /\ t.dev[j].acked => v.dev[j].acked
             /\ t.dev[j].served => v.dev[j].served
  BY <1>3 DEF AnswersTable
<1>5. \A x : SlotsOf(v, x) = SlotsOf(t, x) /\ SlotsOf(t, x) \subseteq Used(t)
  BY <1>3 DEF AnswersTable, SlotsOf
<1>6. Keeps(v, t)
  BY <1>4, <1>5 DEF Keeps
<1>7. TagsKeep
  BY <1>2, <1>6, KeepsItself, NodeAssumption DEF TagsKeep, Node, t, v
<1>8. CASE TransmitNothing
  BY <1>7, <1>8, NoReplyCurrent
<1>9. ASSUME NEW e, Starts(n, e, DEFAULT_REPLY_DELAY_TIME), e.type = "RANGE",
             \A a \in DOMAIN e.devices : Holds(v, a, e.devices[a].poll)
      PROVE  Current'
  <2>1. DEFAULT_REPLY_DELAY_TIME \in Nat
    BY DEF DEFAULT_REPLY_DELAY_TIME
  <2>2. \A a \in DOMAIN e.devices : Holds(table'[n], a, e.devices[a].poll)
    BY <1>9 DEF v
  <2> QED
    BY <1>7, <1>9, <2>1, <2>2, ReplyCurrent
<1> QED
  BY <1>2, <1>8, <1>9

LEMMA NextCurrent ==
  ASSUME Prompt, Inv, Inv', NoWrap, Together, Current, [Next]_vars
  PROVE  Current'
<1>1. Grows
  BY NextGrows
<1>2. ASSUME NEW n \in Node, HandleReceived(n)
      PROVE  Current'
  <2> DEFINE f == data[n]
  <2>1. \/ BlinkAtAnchor(n, f) \/ RangingInitAtTag(n, f) \/ PollAtAnchor(n, f)
        \/ RangeAtAnchor(n, f) \/ PollAckAtTag(n, f) \/ IgnoreFrame(n, f)
    BY <1>2 DEF HandleReceived
  <2>2. f = data[n]
    OBVIOUS
  <2> HIDE DEF f
  <2> QED
    BY <1>1, <1>2, <2>1, <2>2, MildCurrent, PollCurrent, PollAckCurrent
<1>3. ASSUME NEW n \in Node, Loop(n) \/ TxDone(n) \/ Restart(n)
      PROVE  Current'
  <2>1. Recedes(n) \/ TimerTick(n) \/ HandleReceived(n) \/ TxDone(n)
    BY <1>3 DEF Loop, Recedes
  <2> QED
    BY <1>1, <1>2, <2>1, RecedesCurrent, TimerTickCurrent, TxDoneCurrent
<1> QED
  BY <1>1, <1>3, NextSlotCurrent, ElapseCurrent, StutterCurrent DEF Next

LEMMA InitCurrent ==
  ASSUME Init
  PROVE  Current
<1>1. InAir = {} /\ \A n \in Node : ~sentAck[n] /\ ~Transmitting(n)
  BY OffSilent DEF Init, InAir, Underway, Heard, Hears, Transmitting
<1>2. \A g \in Tags : Used(table[g]) = {}
  BY EmptyTableGood, MaxDevicesAssumption DEF Init, Used, Slot, Node
<1>3. \A g \in Tags : \A a : PollsSent(table[g], a) = {}
  BY <1>2 DEF PollsSent, SlotsOf
<1> QED
  BY <1>1, <1>3 DEF Current, JustSent, Dated, Reported, Opening, Node

---------------------------------------------------------------------------
(* Its steps, on what the tables say *)

LEMMA PairsAsk ==
  ASSUME NEW t, NEW P \in SUBSET {p \in Pair : p[1] = t}, Pairs!OnlyTagSide(P),
         \A p \in P : /\ OfTag'[p].asked > OfTag[p].asked
                      /\ ~OfTag'[p].answered /\ ~OfTag'[p].reported
                      /\ \A q \in P : OfTag'[p] = OfTag'[q]
  PROVE  Pairs!Ask(t)
  BY DEF Pairs!Ask, Pairs!PairsOfTag, Pairs!Pair, OfTag, Pair, TagView, TagSays,
     DeviceOf, Knows, Pairs!Stranger, Pairs!Never

LEMMA PairsTake ==
  ASSUME NEW p \in Pair, Pairs!OnlyAnchorSide({q \in Pair : q[2] = p[2]}),
         OfAnchor'[p].taken > OfAnchor[p].taken,
         OfAnchor'[p].ranged = OfAnchor[p].ranged,
         \A q \in Pair \ {p} : OfAnchor'[q] \in {OfAnchor[q], Pairs!Fresh}
  PROVE  Pairs!Take(p)
  BY DEF Pairs!Take, Pairs!PairsOfAnchor, Pairs!Pair, OfAnchor, Pair, AnchorView, AnchorSays,
     DeviceOf, Knows, Pairs!Fresh, Pairs!Never

LEMMA PairsAnswer ==
  ASSUME NEW p \in Pair, Pairs!OnlyTagSide({q \in Pair : q[1] = p[1]}),
         -1 \in {OfTag[p].asked, OfAnchor[p].taken} \/ OfTag[p].asked = OfAnchor[p].taken,
         OfTag'[p].answered,
         \A q \in Pair : q[1] = p[1] =>
           /\ OfTag'[q].asked = OfTag[q].asked
           /\ OfTag'[q].answered # OfTag[q].answered => q = p
           /\ OfTag'[q].reported # OfTag[q].reported => OfTag'[q].reported /\ OfTag'[q].answered
  PROVE  Pairs!Answer(p)
  BY DEF Pairs!Answer, Pairs!PairsOfTag, Pairs!Pair, OfTag, OfAnchor, Pair, TagView, TagSays,
     AnchorView, AnchorSays, DeviceOf, Knows, Pairs!Stranger, Pairs!Fresh, Pairs!Never

LEMMA PairsComputeRange ==
  ASSUME NEW p \in Pair,
         OfAnchor[p].taken # -1, OfAnchor[p].ranged # OfAnchor[p].taken,
         \/ OfTag[p].asked = -1
         \/ OfTag[p].asked = OfAnchor[p].taken /\ OfTag[p].answered /\ OfTag[p].reported,
         OfAnchor' = [OfAnchor EXCEPT ![p].ranged = OfAnchor[p].taken],
         UNCHANGED OfTag
  PROVE  Pairs!ComputeRange(p)
  BY DEF Pairs!ComputeRange, Pairs!Pair, OfTag, OfAnchor, Pair, TagView, TagSays,
     AnchorView, AnchorSays, DeviceOf, Knows, Pairs!Stranger, Pairs!Fresh, Pairs!Never

LEMMA PairsTagForgets ==
  ASSUME NEW t, Pairs!OnlyTagSide({p \in Pair : p[1] = t}),
         \A p \in Pair : OfTag'[p] # OfTag[p] => OfTag'[p].asked = -1
  PROVE  Pairs!TagForgets(t)
  BY DEF Pairs!TagForgets, Pairs!PairsOfTag, Pairs!Pair, OfTag, Pair, TagView, TagSays,
     DeviceOf, Knows, Pairs!Stranger, Pairs!Never

LEMMA PairsAnchorForgets ==
  ASSUME NEW a, Pairs!OnlyAnchorSide({p \in Pair : p[2] = a}),
         \A p \in Pair : OfAnchor'[p] \in {OfAnchor[p], Pairs!Fresh}
  PROVE  Pairs!AnchorForgets(a)
  BY DEF Pairs!AnchorForgets, Pairs!PairsOfAnchor, Pairs!Pair, OfAnchor, Pair, AnchorView,
     AnchorSays, DeviceOf, Knows, Pairs!Fresh, Pairs!Never

LEMMA PairsInit ==
  ASSUME OfTag = [p \in Pair |-> Pairs!Stranger], OfAnchor = [p \in Pair |-> Pairs!Fresh]
  PROVE  Pairs!Init
  BY DEF Pairs!Init, Pairs!Pair, OfTag, OfAnchor, Pair, TagView, TagSays,
     AnchorView, AnchorSays, DeviceOf, Knows, Pairs!Stranger, Pairs!Fresh, Pairs!Never

---------------------------------------------------------------------------
(* Numbers of POLLs, and views of tables *)

LEMMA PollNumbers ==
  /\ PollOf(NoStamp) = -1
  /\ \A g \in Node, q \in Sequence : PollOf(<<g, q>>) = q
  /\ \A s \in Stamps : PollOf(s) \in Int
  /\ \A s \in Stamps : s # NoStamp => PollOf(s) = s[2] /\ s[2] \in Sequence /\ PollOf(s) # -1
<1>1. \A q \in Sequence : q \in Int /\ q # -1
  BY Constants DEF Sequence
<1>2. \A g \in Node, q \in Sequence : <<g, q>> # NoStamp
  BY NodeAssumption DEF NoStamp
<1>3. \A s \in Stamps : s[2] \in Sequence
  BY DEF Stamps
<1> QED
  BY <1>1, <1>2, <1>3 DEF PollOf

LEMMA EarlierPolls ==
  ASSUME NEW g, NEW s \in Stamps, NEW q \in Sequence, Before(g, s, q)
  PROVE  PollOf(s) < q
<1>1. CASE s = NoStamp
  <2>1. -1 < q
    BY Constants DEF Sequence
  <2> QED
    BY <1>1, <2>1, PollNumbers
<1>2. CASE s # NoStamp
  BY <1>2, PollNumbers DEF Before
<1> QED
  BY <1>1, <1>2

LEMMA ViewsOf ==
  ASSUME NEW n \in Node, NEW t, Good(n, t), NEW x
  PROVE  /\ \A i \in SlotsOf(t, x) : /\ TagView(t, x) = TagSays(t.dev[i])
                                     /\ AnchorView(t, x) = AnchorSays(t.dev[i])
         /\ SlotsOf(t, x) = {} => TagView(t, x) = Pairs!Stranger /\ AnchorView(t, x) = Pairs!Fresh
         /\ \A i \in SlotsOf(t, x) : t.dev[i] \in Device(n)
<1>1. ASSUME NEW i \in SlotsOf(t, x)
      PROVE  /\ TagView(t, x) = TagSays(t.dev[i])
             /\ AnchorView(t, x) = AnchorSays(t.dev[i])
  <2>1. x \in Listed(t)
    BY DEF SlotsOf, Listed
  <2>2. (CHOOSE j \in SlotsOf(t, x) : TRUE) \in SlotsOf(t, x)
    OBVIOUS
  <2>3. \A j \in SlotsOf(t, x) : j = i
    BY DEF SlotsOf, Good, TableOK, UniqueAddresses
  <2>4. (CHOOSE j \in SlotsOf(t, x) : TRUE) = i
    BY <2>2, <2>3
  <2> QED
    BY <2>1, <2>4 DEF TagView, AnchorView
<1>2. ASSUME SlotsOf(t, x) = {}
      PROVE  TagView(t, x) = Pairs!Stranger /\ AnchorView(t, x) = Pairs!Fresh
  <2>1. x \notin Listed(t)
    BY <1>2 DEF SlotsOf, Listed
  <2> QED
    BY <2>1 DEF TagView, AnchorView
<1>3. \A i \in SlotsOf(t, x) : t.dev[i] \in Device(n)
  BY DEF Good, TableOf, SlotsOf, Used
<1> QED
  BY <1>1, <1>2, <1>3

LEMMA ViewTypes ==
  ASSUME NEW n \in Node, NEW t, Good(n, t), NEW x
  PROVE  TagView(t, x) \in Pairs!TagSide /\ AnchorView(t, x) \in Pairs!AnchorSide
<1>1. CASE SlotsOf(t, x) = {}
  <2>1. Pairs!Stranger \in Pairs!TagSide
    BY DEF Pairs!Stranger, Pairs!TagSide, Pairs!Never
  <2>2. Pairs!Fresh \in Pairs!AnchorSide
    BY DEF Pairs!Fresh, Pairs!AnchorSide, Pairs!Never
  <2> QED
    BY <1>1, <2>1, <2>2, ViewsOf
<1>2. ASSUME NEW i \in SlotsOf(t, x)
      PROVE  TagView(t, x) \in Pairs!TagSide /\ AnchorView(t, x) \in Pairs!AnchorSide
  <2> DEFINE d == t.dev[i]
  <2>1. d \in Device(n) /\ TagView(t, x) = TagSays(d) /\ AnchorView(t, x) = AnchorSays(d)
    BY <1>2, ViewsOf
  <2> HIDE DEF d
  <2>2. /\ d.pollSent \in Stamps /\ d.pollReceived \in Stamps /\ d.round1.poll \in Stamps
        /\ d.acked \in BOOLEAN /\ d.served \in BOOLEAN
    BY <2>1 DEF Device, Round, Stamps, Sequence
  <2> QED
    BY <2>1, <2>2, PollNumbers DEF TagSays, AnchorSays, Pairs!TagSide, Pairs!AnchorSide
<1> QED
  BY <1>1, <1>2

LEMMA SaysSame ==
  ASSUME NEW d, NEW e, Same(d, e)
  PROVE  TagSays(d) = TagSays(e) /\ AnchorSays(d) = AnchorSays(e)
  BY DEF Same, TagSays, AnchorSays

LEMMA SameViews ==
  ASSUME NEW n \in Node, NEW t, Good(n, t), NEW v, Good(n, v), Used(v) = Used(t),
         \A i \in Used(t) : Same(v.dev[i], t.dev[i])
  PROVE  \A x : TagView(v, x) = TagView(t, x) /\ AnchorView(v, x) = AnchorView(t, x)
<1> SUFFICES ASSUME NEW x
             PROVE  TagView(v, x) = TagView(t, x) /\ AnchorView(v, x) = AnchorView(t, x)
  OBVIOUS
<1>1. SlotsOf(v, x) = SlotsOf(t, x)
  BY DEF SlotsOf, Same
<1>2. CASE SlotsOf(t, x) = {}
  BY <1>1, <1>2, ViewsOf
<1>3. ASSUME NEW i \in SlotsOf(t, x)
      PROVE  TagView(v, x) = TagView(t, x) /\ AnchorView(v, x) = AnchorView(t, x)
  <2>1. Same(v.dev[i], t.dev[i])
    BY DEF SlotsOf
  <2>2. /\ TagView(t, x) = TagSays(t.dev[i]) /\ AnchorView(t, x) = AnchorSays(t.dev[i])
        /\ TagView(v, x) = TagSays(v.dev[i]) /\ AnchorView(v, x) = AnchorSays(v.dev[i])
    BY <1>1, <1>3, ViewsOf
  <2> QED
    BY <2>1, <2>2, SaysSame
<1> QED
  BY <1>2, <1>3

(* A table that has inherited all it says, but for devices just met.       *)
LEMMA MetViews ==
  ASSUME NEW n \in Node, NEW t, Good(n, t), NEW v, Good(n, v),
         \A j \in Used(v) : \/ v.dev[j].pollSent = NoStamp
                            \/ \E i \in Used(t) : Same(v.dev[j], t.dev[i])
  PROVE  \A x : TagView(v, x) = TagView(t, x) \/ TagView(v, x).asked = -1
<1> SUFFICES ASSUME NEW x
             PROVE  TagView(v, x) = TagView(t, x) \/ TagView(v, x).asked = -1
  OBVIOUS
<1>1. CASE SlotsOf(v, x) = {}
  BY <1>1, ViewsOf DEF Pairs!Stranger, Pairs!Never
<1>2. ASSUME NEW j \in SlotsOf(v, x)
      PROVE  TagView(v, x) = TagView(t, x) \/ TagView(v, x).asked = -1
  <2>1. j \in Used(v) /\ v.dev[j].addr = x /\ TagView(v, x) = TagSays(v.dev[j])
    BY <1>2, ViewsOf DEF SlotsOf
  <2>2. CASE v.dev[j].pollSent = NoStamp
    BY <2>1, <2>2, PollNumbers DEF TagSays
  <2>3. ASSUME NEW i \in Used(t), Same(v.dev[j], t.dev[i])
        PROVE  TagView(v, x) = TagView(t, x)
    <3>1. i \in SlotsOf(t, x)
      BY <2>1, <2>3 DEF Same, SlotsOf
    <3> QED
      BY <2>1, <2>3, <3>1, ViewsOf, SaysSame
  <2> QED
    BY <2>1, <2>2, <2>3
<1> QED
  BY <1>1, <1>2

LEMMA InheritedViews ==
  ASSUME NEW n \in Node, NEW t, Good(n, t), NEW v, Good(n, v), Inherits(v, t)
  PROVE  \A x : /\ TagView(v, x) = TagView(t, x) \/ TagView(v, x).asked = -1
                /\ AnchorView(v, x) \in {AnchorView(t, x), Pairs!Fresh}
<1>1. \A x : TagView(v, x) = TagView(t, x) \/ TagView(v, x).asked = -1
  BY MetViews DEF Inherits
<1>2. ASSUME NEW x, SlotsOf(v, x) = {}
      PROVE  AnchorView(v, x) = Pairs!Fresh
  BY <1>2, ViewsOf
<1>3. ASSUME NEW x, NEW j \in SlotsOf(v, x)
      PROVE  AnchorView(v, x) = AnchorView(t, x)
  <2>1. PICK i \in Used(t) : Same(v.dev[j], t.dev[i])
    BY DEF Inherits, SlotsOf
  <2>2. i \in SlotsOf(t, x)
    BY <2>1 DEF Same, SlotsOf
  <2> QED
    BY <1>3, <2>1, <2>2, ViewsOf, SaysSame
<1> QED
  BY <1>1, <1>2, <1>3

LEMMA MarkedViews ==
  ASSUME NEW n \in Node, NEW t, Good(n, t), NEW s, NEW u, Good(n, u),
         u = MarkUsed(t, [i \in Slot |-> PollMarked(t.dev[i], s)])
  PROVE  \A x : TagView(u, x) =
           IF x \in Listed(t) THEN [asked |-> PollOf(s), answered |-> FALSE, reported |-> FALSE]
                              ELSE TagView(t, x)
<1>1. Used(u) = Used(t) /\ \A i \in Used(t) : u.dev[i] = PollMarked(t.dev[i], s)
  BY MarkUsedDevices DEF Used
<1>2. \A i \in Used(t) : t.dev[i] \in Device(n)
  BY DEF Good, TableOf, Used
<1>3. \A i \in Used(t) : /\ u.dev[i].addr = t.dev[i].addr /\ u.dev[i].pollSent = s
                         /\ u.dev[i].acked = FALSE /\ u.dev[i].served = FALSE
  BY <1>1, <1>2 DEF PollMarked, Device
<1> SUFFICES ASSUME NEW x
             PROVE  TagView(u, x) =
               IF x \in Listed(t) THEN [asked |-> PollOf(s), answered |-> FALSE, reported |-> FALSE]
                                  ELSE TagView(t, x)
  OBVIOUS
<1>4. SlotsOf(u, x) = SlotsOf(t, x) /\ (x \in Listed(t) <=> SlotsOf(t, x) # {})
  BY <1>1, <1>3 DEF SlotsOf, Listed
<1>5. CASE SlotsOf(t, x) = {}
  BY <1>4, <1>5, ViewsOf
<1>6. ASSUME NEW i \in SlotsOf(t, x)
      PROVE  TagView(u, x) = [asked |-> PollOf(s), answered |-> FALSE, reported |-> FALSE]
  <2>1. TagView(u, x) = TagSays(u.dev[i]) /\ i \in Used(t)
    BY <1>4, <1>6, ViewsOf DEF SlotsOf
  <2> QED
    BY <1>3, <2>1 DEF TagSays
<1> QED
  BY <1>4, <1>5, <1>6

LEMMA AckMarkedViews ==
  ASSUME NEW n \in Node, NEW t, Good(n, t), NEW s, NEW dst, NEW u, Good(n, u),
         u = MarkUsed(t, [i \in Slot |-> AckMarked(t.dev[i], s, dst)])
  PROVE  \A x : AnchorView(u, x) = AnchorView(t, x)
<1>1. Used(u) = Used(t) /\ \A i \in Used(t) : u.dev[i] = AckMarked(t.dev[i], s, dst)
  BY MarkUsedDevices DEF Used
<1>2. \A i \in Used(t) : t.dev[i] \in Device(n)
  BY DEF Good, TableOf, Used
<1>3. \A i \in Used(t) : /\ u.dev[i].addr = t.dev[i].addr
                         /\ u.dev[i].pollReceived = t.dev[i].pollReceived
                         /\ u.dev[i].round1 = t.dev[i].round1
  BY <1>1, <1>2 DEF AckMarked, Device
<1> SUFFICES ASSUME NEW x
             PROVE  AnchorView(u, x) = AnchorView(t, x)
  OBVIOUS
<1>4. SlotsOf(u, x) = SlotsOf(t, x)
  BY <1>1, <1>3 DEF SlotsOf
<1>5. CASE SlotsOf(t, x) = {}
  BY <1>4, <1>5, ViewsOf
<1>6. ASSUME NEW i \in SlotsOf(t, x)
      PROVE  AnchorView(u, x) = AnchorView(t, x)
  <2>1. /\ AnchorView(u, x) = AnchorSays(u.dev[i]) /\ AnchorView(t, x) = AnchorSays(t.dev[i])
        /\ i \in Used(t)
    BY <1>4, <1>6, ViewsOf DEF SlotsOf
  <2> QED
    BY <1>3, <2>1 DEF AnchorSays
<1> QED
  BY <1>5, <1>6

LEMMA PollNotedViews ==
  ASSUME NEW n \in Anchors, NEW t, Good(n, t), NEW g \in Tags, NEW d \in NewDevice(n, g),
         NEW u \in AddNetworkDevice(t, d), NEW i \in SlotsOf(u, g), NEW s,
         NEW old, old = u.dev[i], NEW v, v = WithDevice(u, i, PollNoted(old, s)), Good(n, v)
  PROVE  /\ AnchorView(v, g) = [taken |-> PollOf(s), ranged |-> AnchorView(t, g).ranged]
         /\ \A x : x # g => AnchorView(v, x) \in {AnchorView(t, x), Pairs!Fresh}
<1>1. /\ n \in Node /\ g \in Partner(n)
      /\ d.addr = g /\ d.round1 = NoRound
  BY NodeAssumption DEF Partner, Node, NewDevice
<1>2. d \in Device(n)
  BY <1>1, NewDeviceType
<1>3. Good(n, u)
  BY <1>1, <1>2, AddGood
<1>4. \A j \in Used(u) : Same(u.dev[j], d) \/ \E k \in Used(t) : Same(u.dev[j], t.dev[k])
  BY <1>1, <1>2, AddSame
<1> DEFINE e == PollNoted(u.dev[i], s)
<1>5. i \in Used(u) /\ u.dev[i] \in Device(n) /\ u.dev[i].addr = g
  BY <1>3 DEF SlotsOf, Used, Good, TableOf
<1>6. e.addr = g /\ e.pollReceived = s /\ e.round1 = u.dev[i].round1
  BY <1>5 DEF PollNoted, Device
<1>7. v = [u EXCEPT !.dev[i] = e]
  BY DEF WithDevice
<1> HIDE DEF e
<1>8. Replaced(u, g, i, e, [u EXCEPT !.dev[i] = e])
  BY <1>1, <1>3, <1>6, OneReplaced
<1>9. /\ v.dev[i] = e /\ SlotsOf(v, g) = {i}
      /\ \A j \in Used(u) \ {i} : v.dev[j] = u.dev[j]
      /\ \A x : x # g => SlotsOf(v, x) = SlotsOf(u, x) /\ i \notin SlotsOf(v, x)
  BY <1>7, <1>8 DEF Replaced
<1>10. AnchorView(v, g) = AnchorSays(e)
  BY <1>1, <1>9, ViewsOf
<1>11. PollOf(u.dev[i].round1.poll) = AnchorView(t, g).ranged
  <2>1. CASE SlotsOf(t, g) = {}
    <3>1. Same(u.dev[i], d)
      BY <1>4, <1>5, <2>1 DEF Same, SlotsOf
    <3>2. u.dev[i].round1.poll = NoStamp
      BY <1>1, <3>1 DEF Same, NoRound
    <3>3. AnchorView(t, g).ranged = -1
      BY <1>1, <2>1, ViewsOf DEF Pairs!Fresh, Pairs!Never
    <3> QED
      BY <3>2, <3>3, PollNumbers
  <2>2. ASSUME NEW k \in SlotsOf(t, g)
        PROVE  PollOf(u.dev[i].round1.poll) = AnchorView(t, g).ranged
    <3>1. u = t
      BY <1>1, <2>2 DEF AddNetworkDevice, Listed, SlotsOf
    <3>2. AnchorView(t, g) = AnchorSays(u.dev[i])
      BY <1>1, <3>1, ViewsOf
    <3> QED
      BY <3>2 DEF AnchorSays
  <2> QED
    BY <2>1, <2>2
<1>12. AnchorView(v, g) = [taken |-> PollOf(s), ranged |-> AnchorView(t, g).ranged]
  BY <1>6, <1>10, <1>11 DEF AnchorSays
<1>13. ASSUME NEW x, x # g
       PROVE  AnchorView(v, x) \in {AnchorView(t, x), Pairs!Fresh}
  <2>1. CASE SlotsOf(v, x) = {}
    BY <1>1, <2>1, ViewsOf
  <2>2. ASSUME NEW j \in SlotsOf(v, x)
        PROVE  AnchorView(v, x) = AnchorView(t, x)
    <3>1. j \in Used(u) /\ v.dev[j] = u.dev[j] /\ u.dev[j].addr = x
      BY <1>9, <1>13, <2>2 DEF SlotsOf
    <3>2. PICK k \in Used(t) : Same(u.dev[j], t.dev[k])
      BY <1>1, <1>4, <1>13, <3>1 DEF Same
    <3>3. k \in SlotsOf(t, x)
      BY <3>1, <3>2 DEF Same, SlotsOf
    <3>4. AnchorView(v, x) = AnchorSays(v.dev[j]) /\ AnchorView(t, x) = AnchorSays(t.dev[k])
      BY <1>1, <2>2, <3>3, ViewsOf
    <3> QED
      BY <3>1, <3>2, <3>4, SaysSame
  <2> QED
    BY <2>1, <2>2
<1> QED
  BY <1>12, <1>13

(* What table v, made of table t, says after device d of g is given a      *)
(* range of POLL k.                                                        *)
RangeViews(t, v, g, d, k) ==
  /\ AnchorView(t, g) = AnchorSays(d)
  /\ AnchorView(v, g) = [taken |-> AnchorView(t, g).taken, ranged |-> PollOf(k)]
  /\ \A x : x # g => AnchorView(v, x) = AnchorView(t, x)

LEMMA RangeNotedViews ==
  ASSUME NEW n \in Node, NEW t, Good(n, t), NEW g, NEW i \in SlotsOf(t, g), NEW q, NEW r,
         NEW k, k = r.poll, NEW old, old = t.dev[i],
         NEW v, v = WithDevice(t, i, RangeNoted(old, q, r)), Good(n, v)
  PROVE  RangeViews(t, v, g, old, k)
<1> DEFINE e == RangeNoted(t.dev[i], q, r)
<1>1. i \in Used(t) /\ t.dev[i] \in Device(n) /\ t.dev[i].addr = g
  BY DEF SlotsOf, Used, Good, TableOf
<1>2. e.addr = g /\ e.round1 = r /\ e.pollReceived = t.dev[i].pollReceived
  BY <1>1 DEF RangeNoted, Device
<1>3. v = [t EXCEPT !.dev[i] = e]
  BY DEF WithDevice
<1> HIDE DEF e
<1>4. Replaced(t, g, i, e, [t EXCEPT !.dev[i] = e])
  BY <1>2, OneReplaced
<1>5. /\ v.dev[i] = e /\ SlotsOf(v, g) = {i}
      /\ \A j \in Used(t) \ {i} : v.dev[j] = t.dev[j]
      /\ \A x : x # g => SlotsOf(v, x) = SlotsOf(t, x) /\ i \notin SlotsOf(v, x)
  BY <1>3, <1>4 DEF Replaced
<1>6. AnchorView(t, g) = AnchorSays(t.dev[i]) /\ AnchorView(v, g) = AnchorSays(e)
  BY <1>5, ViewsOf
<1>7. AnchorView(v, g) = [taken |-> AnchorView(t, g).taken, ranged |-> PollOf(k)]
  BY <1>2, <1>6 DEF AnchorSays
<1>8. ASSUME NEW x, x # g
      PROVE  AnchorView(v, x) = AnchorView(t, x)
  <2>1. SlotsOf(v, x) = SlotsOf(t, x) /\ \A j \in SlotsOf(t, x) : v.dev[j] = t.dev[j]
    BY <1>5, <1>8 DEF SlotsOf
  <2>2. CASE SlotsOf(t, x) = {}
    BY <2>1, <2>2, ViewsOf
  <2>3. ASSUME NEW j \in SlotsOf(t, x)
        PROVE  AnchorView(v, x) = AnchorView(t, x)
    <3>1. AnchorView(v, x) = AnchorSays(v.dev[j]) /\ AnchorView(t, x) = AnchorSays(t.dev[j])
      BY <2>1, <2>3, ViewsOf
    <3> QED
      BY <2>1, <2>3, <3>1
  <2> QED
    BY <2>2, <2>3
<1> QED
  BY <1>6, <1>7, <1>8 DEF RangeViews

LEMMA AnswerViews ==
  ASSUME NEW n \in Node, NEW t, Good(n, t), NEW v, Good(n, v), NEW a, NEW i \in SlotsOf(t, a),
         NEW u, NEW S, AnswersTable(t, u, v, i, S)
  PROVE  /\ TagView(v, a).answered
         /\ TagView(t, a) = TagSays(t.dev[i])
         /\ \A x : /\ TagView(v, x).asked = TagView(t, x).asked
                   /\ TagView(v, x).answered # TagView(t, x).answered => x = a
                   /\ TagView(v, x).reported # TagView(t, x).reported =>
                        TagView(v, x).reported /\ TagView(v, x).answered
<1>1. \A x : SlotsOf(v, x) = SlotsOf(t, x)
  BY DEF AnswersTable, SlotsOf
<1>2. \A x : \A j \in SlotsOf(t, x) : /\ TagView(v, x) = TagSays(v.dev[j])
                                      /\ TagView(t, x) = TagSays(t.dev[j])
                                      /\ j \in Used(t) /\ t.dev[j].addr = x
  BY <1>1, ViewsOf DEF SlotsOf
<1>3. TagView(v, a).answered
  BY <1>2 DEF TagSays, AnswersTable
<1>4. ASSUME NEW x, SlotsOf(t, x) = {}
      PROVE  TagView(v, x) = TagView(t, x)
  BY <1>1, <1>4, ViewsOf
<1>5. ASSUME NEW x, NEW j \in SlotsOf(t, x)
      PROVE  /\ TagView(v, x).asked = TagView(t, x).asked
             /\ TagView(v, x).answered # TagView(t, x).answered => x = a
             /\ TagView(v, x).reported # TagView(t, x).reported =>
                  TagView(v, x).reported /\ TagView(v, x).answered
  <2> DEFINE d == t.dev[j]
             e == v.dev[j]
  <2>1. TagView(v, x) = TagSays(e) /\ TagView(t, x) = TagSays(d) /\ j \in Used(t) /\ d.addr = x
    BY <1>2, <1>5
  <2>2. /\ e.pollSent = d.pollSent /\ (j # i => e.acked = d.acked)
        /\ e.served = d.served \/ j \in S
        /\ j \in S => e.acked /\ e.served
    BY <2>1 DEF AnswersTable
  <2>3. j = i => x = a
    BY <1>2, <2>1
  <2> HIDE DEF d, e
  <2>4. /\ TagSays(e).asked = TagSays(d).asked
        /\ TagSays(e).answered = e.acked /\ TagSays(d).answered = d.acked
        /\ TagSays(e).reported = e.served /\ TagSays(d).reported = d.served
    BY <2>2 DEF TagSays
  <2> QED
    BY <2>1, <2>2, <2>3, <2>4
<1> QED
  BY <1>2, <1>3, <1>4, <1>5

---------------------------------------------------------------------------
(* Every step of Ranging is a step of the abstract exchange, or changes    *)
(* nothing of it                                                           *)

LEMMA PairValues ==
  ASSUME NEW p \in Pair
  PROVE  /\ p[1] \in Tags /\ p[2] \in Anchors /\ p[1] \in Node /\ p[2] \in Node
         /\ OfTag[p] = TagView(table[p[1]], p[2]) /\ OfTag'[p] = TagView(table'[p[1]], p[2])
         /\ OfAnchor[p] = AnchorView(table[p[2]], p[1])
         /\ OfAnchor'[p] = AnchorView(table'[p[2]], p[1])
<1>1. p[1] \in Tags /\ p[2] \in Anchors /\ p[1] \in Node /\ p[2] \in Node
  BY DEF Pair, Node
<1>2. OfTag[p] = TagView(table[p[1]], p[2]) /\ OfTag'[p] = TagView(table'[p[1]], p[2])
  BY DEF OfTag
<1>3. /\ OfAnchor[p] = AnchorView(table[p[2]], p[1])
      /\ OfAnchor'[p] = AnchorView(table'[p[2]], p[1])
  BY DEF OfAnchor
<1> QED
  BY <1>1, <1>2, <1>3

LEMMA SideTypes ==
  ASSUME Inv'
  PROVE  OfTag' \in [Pair -> Pairs!TagSide] /\ OfAnchor' \in [Pair -> Pairs!AnchorSide]
<1>1. \A p \in Pair : OfTag'[p] \in Pairs!TagSide /\ OfAnchor'[p] \in Pairs!AnchorSide
  <2> SUFFICES ASSUME NEW p \in Pair
               PROVE  OfTag'[p] \in Pairs!TagSide /\ OfAnchor'[p] \in Pairs!AnchorSide
    OBVIOUS
  <2>1. Good(p[1], table'[p[1]]) /\ Good(p[2], table'[p[2]])
    BY PairValues DEF Inv, Tables
  <2> QED
    BY <2>1, PairValues, ViewTypes
<1>2. OfTag' = [p \in Pair |-> OfTag'[p]] /\ OfAnchor' = [p \in Pair |-> OfAnchor'[p]]
  BY DEF OfTag, OfAnchor
<1> HIDE DEF OfTag, OfAnchor
<1> QED
  BY <1>1, <1>2

(* Only the table of n changes.                                            *)
OnlyTable(n) == \A m \in Node \ {n} : table'[m] = table[m]

LEMMA TagStep ==
  ASSUME Inv', NEW n \in Tags, OnlyTable(n), NEW P \in SUBSET Pair,
         \A p \in Pair \ P : p[1] = n => TagView(table'[n], p[2]) = TagView(table[n], p[2])
  PROVE  Pairs!OnlyTagSide(P)
<1>1. \A a \in Anchors : a # n
  BY NodeAssumption
<1>2. \A p \in Pair : OfAnchor'[p] = OfAnchor[p]
  BY <1>1, PairValues DEF OnlyTable
<1>3. OfAnchor' = OfAnchor
  BY <1>2 DEF OfAnchor
<1>4. \A p \in Pair \ P : OfTag'[p] = OfTag[p]
  <2> SUFFICES ASSUME NEW p \in Pair \ P
               PROVE  OfTag'[p] = OfTag[p]
    OBVIOUS
  <2> QED
    BY PairValues DEF OnlyTable
<1> QED
  BY <1>3, <1>4, SideTypes, PairsStep

LEMMA AnchorStep ==
  ASSUME Inv', NEW n \in Anchors, OnlyTable(n), NEW P \in SUBSET Pair,
         \A p \in Pair \ P : p[2] = n => AnchorView(table'[n], p[1]) = AnchorView(table[n], p[1])
  PROVE  Pairs!OnlyAnchorSide(P) /\ UNCHANGED OfTag
<1>1. \A g \in Tags : g # n
  BY NodeAssumption
<1>2. \A p \in Pair : OfTag'[p] = OfTag[p]
  BY <1>1, PairValues DEF OnlyTable
<1>3. OfTag' = OfTag
  BY <1>2 DEF OfTag
<1>4. \A p \in Pair \ P : OfAnchor'[p] = OfAnchor[p]
  <2> SUFFICES ASSUME NEW p \in Pair \ P
               PROVE  OfAnchor'[p] = OfAnchor[p]
    OBVIOUS
  <2> QED
    BY PairValues DEF OnlyTable
<1> QED
  BY <1>3, <1>4, SideTypes, PairsStep

SameTables == UNCHANGED <<OfTag, OfAnchor>>

LEMMA TablesSame ==
  ASSUME \A n \in Node : \A x : /\ n \in Tags => TagView(table'[n], x) = TagView(table[n], x)
                                /\ n \in Anchors =>
                                     AnchorView(table'[n], x) = AnchorView(table[n], x)
  PROVE  SameTables
<1>1. \A p \in Pair : OfTag'[p] = OfTag[p] /\ OfAnchor'[p] = OfAnchor[p]
  BY PairValues
<1>2. OfTag' = OfTag
  BY <1>1 DEF OfTag
<1>3. OfAnchor' = OfAnchor
  BY <1>1 DEF OfAnchor
<1> QED
  BY <1>2, <1>3 DEF SameTables

(* A node forgets some of the devices it knew, and has perhaps met one.    *)
LEMMA ForgettingStep ==
  ASSUME Inv, Inv', NEW n \in Node, OnlyTable(n),
         n \in Tags => \A x : \/ TagView(table'[n], x) = TagView(table[n], x)
                              \/ TagView(table'[n], x).asked = -1,
         n \in Anchors => \A x : AnchorView(table'[n], x) \in {AnchorView(table[n], x), Pairs!Fresh}
  PROVE  Pairs!Next
<1>1. CASE n \in Tags
  <2> DEFINE P == {p \in Pair : p[1] = n}
  <2>1. Pairs!OnlyTagSide(P)
    BY <1>1, TagStep
  <2>2. ASSUME NEW p \in Pair, OfTag'[p] # OfTag[p]
        PROVE  OfTag'[p].asked = -1
    BY <1>1, <2>2, PairValues DEF OnlyTable
  <2>3. Pairs!TagForgets(n)
    BY <2>1, <2>2, PairsTagForgets
  <2> QED
    BY <1>1, <2>3 DEF Pairs!Next
<1>2. CASE n \in Anchors
  <2> DEFINE P == {p \in Pair : p[2] = n}
  <2>1. Pairs!OnlyAnchorSide(P)
    BY <1>2, AnchorStep
  <2>2. ASSUME NEW p \in Pair
        PROVE  OfAnchor'[p] \in {OfAnchor[p], Pairs!Fresh}
    BY <1>2, PairValues DEF OnlyTable
  <2>3. Pairs!AnchorForgets(n)
    BY <2>1, <2>2, PairsAnchorForgets
  <2> QED
    BY <1>2, <2>3 DEF Pairs!Next
<1> QED
  BY <1>1, <1>2 DEF Node

LEMMA SameTablesStep ==
  ASSUME UNCHANGED table
  PROVE  SameTables
  BY TablesSame

(* The POLL that has been sent is newer than what the tag had asked.       *)
LEMMA AskStep ==
  ASSUME Inv, Inv', Current, NEW n \in Tags, HandleSent(n), sentData[n].type = "POLL"
  PROVE  Pairs!Next
<1> DEFINE t == table[n]
           u == table'[n]
           s == txStamp[n]
           q == sentData[n].seq
           P == {p \in Pair : p[1] = n /\ p[2] \in Listed(t)}
           asking == [asked |-> q, answered |-> FALSE, reported |-> FALSE]
<1>1. /\ sentAck[n]
      /\ table' = [table EXCEPT ![n] = MarkUsed(@, [i \in Slot |-> PollMarked(table[n].dev[i], s)])]
  BY NodeAssumption DEF HandleSent, PollSent, PollAckSent, OtherSent
<1>2. n \in Node /\ q \in Sequence
  BY FrameFields DEF Node, Inv, Sending
<1>3. OnlyTable(n) /\ u = MarkUsed(t, [i \in Slot |-> PollMarked(t.dev[i], s)])
  BY <1>1, <1>2 DEF OnlyTable, Inv, Tables
<1>4. Good(n, t) /\ Good(n, u)
  BY <1>2 DEF Inv, Tables
<1>5. s = <<n, q>> /\ Opening(n)
  BY <1>1, <1>2 DEF Current, JustSent, Stamp, Opening
<1>6. PollOf(s) = q
  BY <1>2, <1>5, PollNumbers
<1>7. \A a \in Anchors : \A x \in PollsSent(t, a) : x \in Stamps /\ Before(n, x, q)
  BY <1>5, SentStamps DEF Current, Dated
<1> HIDE DEF t, u, s, q
<1>8. \A x : TagView(u, x) = IF x \in Listed(t) THEN asking ELSE TagView(t, x)
  BY <1>2, <1>3, <1>4, <1>6, MarkedViews
<1> HIDE DEF asking
<1>9. Pairs!OnlyTagSide(P)
  BY <1>3, <1>8, TagStep DEF t, u
<1>10. ASSUME NEW p \in P
       PROVE  OfTag'[p] = asking /\ OfTag[p].asked < q
  <2>1. p \in Pair /\ p[1] = n /\ p[2] \in Anchors /\ p[2] \in Listed(t)
    BY PairValues
  <2>2. OfTag'[p] = TagView(u, p[2]) /\ OfTag[p] = TagView(t, p[2])
    BY <2>1, PairValues DEF t, u
  <2>3. PICK i \in SlotsOf(t, p[2]) : TRUE
    BY <2>1 DEF Listed, SlotsOf
  <2>4. TagView(t, p[2]) = TagSays(t.dev[i])
    BY <1>2, <1>4, ViewsOf
  <2>5. t.dev[i].pollSent \in Stamps /\ Before(n, t.dev[i].pollSent, q)
    BY <1>7, <2>1 DEF PollsSent
  <2>6. TagSays(t.dev[i]).asked < q
    BY <1>2, <2>5, EarlierPolls DEF TagSays, q
  <2> QED
    BY <1>8, <2>1, <2>2, <2>4, <2>6
<1>11. asking.asked = q /\ ~asking.answered /\ ~asking.reported
  BY DEF asking
<1>12. ASSUME NEW p \in P
       PROVE  /\ OfTag'[p].asked > OfTag[p].asked
              /\ ~OfTag'[p].answered /\ ~OfTag'[p].reported
              /\ \A o \in P : OfTag'[p] = OfTag'[o]
  <2> DEFINE x == OfTag[p].asked
  <2>1. x < q /\ OfTag'[p] = asking
    BY <1>10
  <2>2. OfTag'[p].asked = q
    BY <1>11, <2>1
  <2> HIDE DEF x
  <2>3. q > x
    BY <2>1
  <2>4. \A o \in P : OfTag'[p] = OfTag'[o]
    BY <1>10
  <2> QED
    BY <1>11, <2>1, <2>2, <2>3, <2>4 DEF x
<1>13. Pairs!Ask(n)
  <2>1. P \in SUBSET {p \in Pair : p[1] = n}
    OBVIOUS
  <2> HIDE DEF P
  <2> QED
    BY <1>9, <1>12, <2>1, PairsAsk
<1> QED
  BY <1>13 DEF Pairs!Next

(* What else is noted of a frame that has been sent is none of it.         *)
LEMMA SentStep ==
  ASSUME Inv, Inv', Current, NEW n \in Node, HandleSent(n)
  PROVE  Pairs!Next \/ SameTables
<1>1. CASE n \in Tags /\ sentData[n].type = "POLL"
  BY <1>1, AskStep
<1>2. CASE n \in Anchors /\ sentData[n].type = "POLL_ACK"
  <2> DEFINE t == table[n]
             u == table'[n]
             s == txStamp[n]
             dst == sentData[n].dst
  <2>1. table' = [table EXCEPT ![n] =
                    MarkUsed(@, [i \in Slot |-> AckMarked(table[n].dev[i], s, dst)])]
    BY <1>2, NodeAssumption DEF HandleSent, PollSent, PollAckSent, OtherSent, AckMarked
  <2>2. OnlyTable(n) /\ u = MarkUsed(t, [i \in Slot |-> AckMarked(t.dev[i], s, dst)])
    BY <2>1 DEF OnlyTable, Inv, Tables
  <2>3. Good(n, t) /\ Good(n, u)
    BY DEF Inv, Tables
  <2> HIDE DEF t, u, s, dst
  <2>4. \A x : AnchorView(u, x) = AnchorView(t, x)
    BY <2>2, <2>3, AckMarkedViews
  <2>5. n \notin Tags
    BY <1>2, NodeAssumption
  <2> QED
    BY <2>2, <2>4, <2>5, TablesSame DEF OnlyTable, t, u
<1>3. CASE OtherSent(n)
  BY <1>3, SameTablesStep DEF OtherSent
<1> QED
  BY <1>1, <1>2, <1>3 DEF HandleSent, PollSent, PollAckSent

LEMMA RemoveStep ==
  ASSUME Inv, Inv', Together, NEW n \in Node, RemoveNextInactive(n)
  PROVE  Pairs!Next
<1>1. Inherits(table'[n], table[n]) /\ OnlyTable(n)
  BY RemoveNextInactiveLess DEF OnlyTable
<1>2. Good(n, table[n]) /\ Good(n, table'[n])
  BY DEF Inv, Tables
<1> QED
  BY <1>1, <1>2, InheritedViews, ForgettingStep

LEMMA RestartStep ==
  ASSUME Inv, Inv', NEW n \in Node, Restart(n)
  PROVE  Pairs!Next
<1>1. table' = [table EXCEPT ![n] = EmptyTable(n)]
  BY DEF Restart
<1>2. OnlyTable(n) /\ table'[n] = EmptyTable(n)
  BY <1>1 DEF OnlyTable, Inv, Tables
<1>3. Used(EmptyTable(n)) = {}
  BY EmptyTableGood, MaxDevicesAssumption DEF Used, Slot
<1>4. Inherits(table'[n], table[n])
  BY <1>2, <1>3 DEF Inherits
<1>5. Good(n, table[n]) /\ Good(n, table'[n])
  BY DEF Inv, Tables
<1> QED
  BY <1>2, <1>4, <1>5, InheritedViews, ForgettingStep

LEMMA ElapseStep ==
  ASSUME Inv, Inv', Elapse
  PROVE  SameTables
<1>1. ASSUME NEW m \in Node, NEW x
      PROVE  /\ TagView(table'[m], x) = TagView(table[m], x)
             /\ AnchorView(table'[m], x) = AnchorView(table[m], x)
  <2> DEFINE t == table[m]
             v == table'[m]
  <2>1. Good(m, t) /\ Good(m, v)
    BY DEF Inv, Tables
  <2>2. v = t \/ (Used(v) = Used(t) /\ \A i \in Used(t) : Same(v.dev[i], t.dev[i]))
    BY ElapseTables
  <2> HIDE DEF t, v
  <2>3. TagView(v, x) = TagView(t, x) /\ AnchorView(v, x) = AnchorView(t, x)
    BY <2>1, <2>2, SameViews
  <2> QED
    BY <2>3 DEF t, v
<1> QED
  BY <1>1, TablesSame

LEMMA MeetStep ==
  ASSUME Inv, Inv', NEW n \in Node, NEW f \in Frame, RangingInitAtTag(n, f)
  PROVE  Pairs!Next
<1>1. /\ n \in Tags /\ OnlyTable(n)
      /\ \A j \in Used(table'[n]) :
           \/ table'[n].dev[j].pollSent = NoStamp
           \/ \E i \in Used(table[n]) : Same(table'[n].dev[j], table[n].dev[i])
  BY MeetsTable DEF OnlyTable
<1>2. Good(n, table[n]) /\ Good(n, table'[n]) /\ n \notin Anchors
  BY <1>1, NodeAssumption DEF Inv, Tables
<1> QED
  BY <1>1, <1>2, MetViews, ForgettingStep

LEMMA PollAtAnchorViews ==
  ASSUME Inv, Inv', NEW n \in Node, NEW f \in Frame, PollAtAnchor(n, f)
  PROVE  /\ n \in Anchors /\ f.src \in Tags /\ OnlyTable(n)
         /\ AnchorView(table'[n], f.src) = [taken |-> PollOf(Stamp(rxFrame[n])),
                                            ranged |-> AnchorView(table[n], f.src).ranged]
         /\ \A x : x # f.src =>
              AnchorView(table'[n], x) \in {AnchorView(table[n], x), Pairs!Fresh}
<1> DEFINE t == table[n]
           s == Stamp(rxFrame[n])
           v == table'[n]
           g == f.src
<1>1. Good(n, t) /\ Good(n, v) /\ n \in Anchors /\ g \in Tags
  BY FrameFields DEF PollAtAnchor, Inv, Tables
<1> HIDE DEF s
<1>2. PICK d \in NewDevice(n, g) :
        \E u \in AddNetworkDevice(t, d) : \E i \in SlotsOf(u, g) :
          table' = [table EXCEPT ![n] = [u EXCEPT !.dev[i] = PollNoted(@, s)]]
  BY DEF PollAtAnchor, s
<1>3. PICK u \in AddNetworkDevice(t, d) : \E i \in SlotsOf(u, g) :
        table' = [table EXCEPT ![n] = [u EXCEPT !.dev[i] = PollNoted(@, s)]]
  BY <1>2
<1>4. PICK i \in SlotsOf(u, g) :
        table' = [table EXCEPT ![n] = [u EXCEPT !.dev[i] = PollNoted(@, s)]]
  BY <1>3
<1> DEFINE old == u.dev[i]
<1>5. v = WithDevice(u, i, PollNoted(old, s)) /\ old = u.dev[i]
  BY <1>4 DEF WithDevice, Inv, Tables
<1>6. OnlyTable(n)
  BY <1>4 DEF OnlyTable, Inv, Tables
<1> HIDE DEF t, v, g, old
<1>7. /\ AnchorView(v, g) = [taken |-> PollOf(s), ranged |-> AnchorView(t, g).ranged]
      /\ \A x : x # g => AnchorView(v, x) \in {AnchorView(t, x), Pairs!Fresh}
  BY <1>1, <1>5, PollNotedViews
<1> QED
  BY <1>1, <1>6, <1>7 DEF t, v, g, s

(* A POLL that an anchor hears is newer than the one it has taken.         *)
LEMMA TakeStep ==
  ASSUME Inv, Inv', Together, Aging, NEW n \in Node, HandleReceived(n),
         NEW f, f = data[n], PollAtAnchor(n, f)
  PROVE  Pairs!Next
<1> DEFINE t == table[n]
           v == table'[n]
           g == f.src
           q == f.seq
           p == <<g, n>>
<1>1. /\ f \in Frame /\ f \in InAir /\ f = rxFrame[n] /\ pc[n] = "handle" /\ f.type = "POLL"
  BY HandlingFacts DEF PollAtAnchor
<1>2. q \in Sequence
  BY <1>1, FrameFields
<1>3. /\ n \in Anchors /\ g \in Tags /\ OnlyTable(n)
      /\ AnchorView(v, g) = [taken |-> PollOf(Stamp(f)), ranged |-> AnchorView(t, g).ranged]
      /\ \A x : x # g => AnchorView(v, x) \in {AnchorView(t, x), Pairs!Fresh}
  BY <1>1, PollAtAnchorViews
<1>4. PollOf(Stamp(f)) = q
  BY <1>2, <1>3, PollNumbers DEF Stamp, Node
<1>5. \A s \in Taken(n, g) : s \in Stamps /\ Before(g, s, q)
  BY <1>1, <1>3, NoticedStamps DEF Aging, Unranged, Hears, Noticed
<1>6. Good(n, t)
  BY DEF Inv, Tables
<1> HIDE DEF t, v, g, q
<1>7. AnchorView(t, g).taken < q
  <2>1. CASE SlotsOf(t, g) = {}
    <3>1. AnchorView(t, g).taken = -1
      BY <1>6, <2>1, ViewsOf DEF Pairs!Fresh, Pairs!Never
    <3> QED
      BY <1>2, <3>1, Constants DEF Sequence
  <2>2. ASSUME NEW i \in SlotsOf(t, g)
        PROVE  AnchorView(t, g).taken < q
    <3>1. t.dev[i].pollReceived \in Taken(n, g)
      BY <2>2 DEF Taken, PollsReceived, t
    <3>2. PollOf(t.dev[i].pollReceived) < q
      BY <1>2, <1>5, <3>1, EarlierPolls
    <3>3. AnchorView(t, g) = AnchorSays(t.dev[i])
      BY <1>6, <2>2, ViewsOf
    <3> QED
      BY <3>2, <3>3 DEF AnchorSays
  <2> QED
    BY <2>1, <2>2
<1>8. p \in Pair /\ p[1] = g /\ p[2] = n
  BY <1>3 DEF Pair
<1> HIDE DEF p
<1>9. OfAnchor[p] = AnchorView(t, g) /\ OfAnchor'[p] = AnchorView(v, g)
  BY <1>8, PairValues DEF t, v
<1>10. OfAnchor'[p].taken > OfAnchor[p].taken
  <2> DEFINE x == AnchorView(t, g).taken
             y == OfAnchor'[p].taken
  <2>1. y = q /\ x < q
    BY <1>3, <1>4, <1>7, <1>9
  <2>2. OfAnchor[p].taken = x
    BY <1>9
  <2> HIDE DEF x, y
  <2>3. y > x
    BY <2>1
  <2> QED
    BY <2>2, <2>3 DEF y
<1>11. OfAnchor'[p].ranged = OfAnchor[p].ranged
  BY <1>3, <1>9
<1>12. ASSUME NEW o \in Pair \ {p}
       PROVE  OfAnchor'[o] \in {OfAnchor[o], Pairs!Fresh}
  <2>1. CASE o[2] # n
    BY <1>3, <2>1, PairValues DEF OnlyTable
  <2>2. CASE o[2] = n
    <3>1. o = <<o[1], o[2]>> /\ p = <<g, n>>
      BY DEF Pair, p
    <3>2. o[1] # g
      BY <2>2, <3>1
    <3> QED
      BY <1>3, <2>2, <3>2, PairValues DEF t, v
  <2> QED
    BY <2>1, <2>2
<1>13. Pairs!OnlyAnchorSide({o \in Pair : o[2] = p[2]})
  <2> DEFINE P == {o \in Pair : o[2] = p[2]}
  <2>1. P \in SUBSET Pair /\ \A o \in Pair \ P : o[2] # n
    BY <1>8
  <2> HIDE DEF P
  <2>2. Pairs!OnlyAnchorSide(P)
    BY <1>3, <2>1, AnchorStep
  <2> QED
    BY <2>2 DEF P
<1>14. Pairs!Take(p)
  BY <1>8, <1>10, <1>11, <1>12, <1>13, PairsTake
<1> QED
  BY <1>8, <1>14 DEF Pairs!Next, Pairs!Pair, Pair

(* An answer is of the POLL that the tag asked last.                       *)
LEMMA AnswerStep ==
  ASSUME Inv, Inv', Together, NEW n \in Node, HandleReceived(n),
         NEW f, f = data[n], PollAckAtTag(n, f)
  PROVE  Pairs!Next
<1> DEFINE t == table[n]
           v == table'[n]
           a == f.src
           p == <<n, a>>
<1>1. /\ f \in Frame /\ f \in InAir /\ ~sentAck[n] /\ ~deaf[n]
      /\ n \in Tags /\ f.type = "POLL_ACK" /\ f.dst = n
  BY HandlingFacts DEF PollAckAtTag
<1>2. a \in Anchors
  BY <1>1, FrameNodes
<1>3. OnlyTable(n) /\ \E i \in SlotsOf(t, a) : \E u, S : AnswersTable(t, u, v, i, S)
  BY <1>1, AckAnswers DEF OnlyTable
<1>4. Good(n, t) /\ Good(n, v) /\ Good(a, table[a])
  BY <1>2 DEF Inv, Tables, Node
<1>5. \A x \in PollsSent(t, a), y \in Taken(a, n) : x = y
  BY <1>1 DEF Together, OnePoll, Asked, Unnoted
<1> HIDE DEF t, v, a
<1>6. PICK i \in SlotsOf(t, a) : \E u, S : AnswersTable(t, u, v, i, S)
  BY <1>3
<1>7. /\ TagView(v, a).answered /\ TagView(t, a) = TagSays(t.dev[i])
      /\ \A x : /\ TagView(v, x).asked = TagView(t, x).asked
                /\ TagView(v, x).answered # TagView(t, x).answered => x = a
                /\ TagView(v, x).reported # TagView(t, x).reported =>
                     TagView(v, x).reported /\ TagView(v, x).answered
  BY <1>4, <1>6, AnswerViews
<1>8. p \in Pair /\ p[1] = n /\ p[2] = a
  BY <1>1, <1>2 DEF Pair
<1>9. OfTag[p] = TagView(t, a) /\ OfTag'[p] = TagView(v, a) /\ OfAnchor[p] = AnchorView(table[a], n)
  BY <1>8, PairValues DEF t, v
<1>10. OfAnchor[p].taken = -1 \/ OfTag[p].asked = OfAnchor[p].taken
  <2>1. CASE SlotsOf(table[a], n) = {}
    BY <1>2, <1>4, <1>9, <2>1, ViewsOf DEF Pairs!Fresh, Pairs!Never, Node
  <2>2. ASSUME NEW k \in SlotsOf(table[a], n)
        PROVE  OfTag[p].asked = OfAnchor[p].taken
    <3>1. t.dev[i].pollSent \in PollsSent(t, a) /\ table[a].dev[k].pollReceived \in Taken(a, n)
      BY <1>6, <2>2 DEF PollsSent, Taken, PollsReceived
    <3>2. t.dev[i].pollSent = table[a].dev[k].pollReceived
      BY <1>5, <3>1
    <3>3. AnchorView(table[a], n) = AnchorSays(table[a].dev[k])
      BY <1>2, <1>4, <2>2, ViewsOf DEF Node
    <3> QED
      BY <1>7, <1>9, <3>2, <3>3 DEF TagSays, AnchorSays
  <2> QED
    BY <2>1, <2>2
<1>11. ASSUME NEW q \in Pair, q[1] = p[1]
       PROVE  /\ OfTag'[q].asked = OfTag[q].asked
              /\ OfTag'[q].answered # OfTag[q].answered => q = p
              /\ OfTag'[q].reported # OfTag[q].reported => OfTag'[q].reported /\ OfTag'[q].answered
  <2>1. OfTag[q] = TagView(t, q[2]) /\ OfTag'[q] = TagView(v, q[2])
    BY <1>8, <1>11, PairValues DEF t, v
  <2>2. q[2] = a => q = p
    <3>1. q = <<q[1], q[2]>>
      BY DEF Pair
    <3> QED
      BY <1>8, <1>11, <3>1
  <2> QED
    BY <1>7, <2>1, <2>2
<1>12. OfTag'[p].answered
  BY <1>7, <1>9
<1>13. Pairs!OnlyTagSide({q \in Pair : q[1] = p[1]})
  <2> DEFINE P == {q \in Pair : q[1] = p[1]}
  <2>1. P \in SUBSET Pair /\ \A q \in Pair \ P : q[1] # n
    BY <1>8
  <2> HIDE DEF P
  <2>2. Pairs!OnlyTagSide(P)
    BY <1>1, <1>3, <2>1, TagStep
  <2> QED
    BY <2>2 DEF P
<1> HIDE DEF p
<1>14. Pairs!Answer(p)
  BY <1>8, <1>10, <1>11, <1>12, <1>13, PairsAnswer
<1> QED
  BY <1>8, <1>14 DEF Pairs!Next, Pairs!Pair, Pair

(* What an anchor ranges is of the POLL that it has taken and the tag has  *)
(* reported, or forgotten.                                                 *)
LEMMA ReportStep ==
  ASSUME Inv, Inv', Together, Aging, Current, NEW n \in Node, HandleReceived(n),
         NEW f, f = data[n], RangeAtAnchor(n, f)
  PROVE  Pairs!Next
<1> DEFINE t == table[n]
           v == table'[n]
           g == f.src
           r == f.devices[n]
           p == <<g, n>>
<1>1. /\ f \in Frame /\ f \in InAir /\ f = rxFrame[n] /\ pc[n] = "handle"
      /\ n \in Anchors /\ f.type = "RANGE" /\ n \in DOMAIN f.devices
  BY HandlingFacts DEF RangeAtAnchor
<1>2. g \in Tags /\ g \in Node
  BY <1>1, FrameNodes DEF Node
<1>3. Good(n, t) /\ Good(n, v) /\ Good(g, table[g])
  BY <1>2 DEF Inv, Tables
<1>4. PICK i \in SlotsOf(t, g), q \in Quality :
        table' = [table EXCEPT ![n].dev[i] = [@ EXCEPT !.age = 0, !.quality = q, !.round1 = r]]
  BY DEF RangeAtAnchor
<1> DEFINE old == t.dev[i]
           k == r.poll
<1>5. v = WithDevice(t, i, RangeNoted(old, q, r)) /\ old = t.dev[i] /\ k = r.poll /\ OnlyTable(n)
  BY <1>4 DEF WithDevice, RangeNoted, OnlyTable, Inv, Tables
<1>6. /\ Taken(n, g) \subseteq {k} /\ k \notin Ranged(n, g)
      /\ Holds(table[g], n, k)
  BY <1>1 DEF Together, OneRange, Aging, Unranged, Hears, Current, Reported
<1>7. \A s \in Noticed(n, g) : s \in Stamps /\ Before(g, s, seq[g])
  BY <1>1, <1>2, NoticedStamps DEF Aging
<1>8. NoStamp \notin Taken(n, g)
  BY <1>1, <1>2 DEF Aging
<1> HIDE DEF t, v, g, r, old, k
<1>9. /\ AnchorView(t, g) = AnchorSays(old)
      /\ AnchorView(v, g) = [taken |-> AnchorView(t, g).taken, ranged |-> PollOf(k)]
      /\ \A x : x # g => AnchorView(v, x) = AnchorView(t, x)
  <2>1. RangeViews(t, v, g, old, k)
    BY <1>3, <1>5, RangeNotedViews
  <2> QED
    BY <2>1 DEF RangeViews
<1> DEFINE s == old.pollReceived
           l == old.round1.poll
<1>10. s \in Taken(n, g) /\ l \in Ranged(n, g)
  BY <1>4 DEF Taken, PollsReceived, Ranged, PollsRanged, t, old
<1>11. s = k /\ s # NoStamp /\ l # s
  BY <1>6, <1>8, <1>10
<1>12. s \in Stamps /\ l \in Stamps /\ Before(g, s, seq[g]) /\ Before(g, l, seq[g])
  BY <1>7, <1>10 DEF Noticed
<1>13. /\ AnchorView(t, g).taken = PollOf(s) /\ AnchorView(t, g).ranged = PollOf(l)
  BY <1>9 DEF AnchorSays
<1> HIDE DEF s, l
<1>14. PollOf(s) # -1 /\ PollOf(l) # PollOf(s)
  <2>1. s[1] = g /\ PollOf(s) = s[2] /\ PollOf(s) # -1
    BY <1>11, <1>12, PollNumbers DEF Before
  <2>2. CASE l = NoStamp
    BY <2>1, <2>2, PollNumbers
  <2>3. CASE l # NoStamp
    <3>1. l[1] = g /\ PollOf(l) = l[2]
      BY <1>12, <2>3, PollNumbers DEF Before
    <3>2. l = <<l[1], l[2]>> /\ s = <<s[1], s[2]>>
      BY <1>12 DEF Stamps
    <3> QED
      BY <1>11, <2>1, <3>1, <3>2
  <2> QED
    BY <2>1, <2>2, <2>3
<1>15. p \in Pair /\ p[1] = g /\ p[2] = n
  BY <1>1, <1>2 DEF Pair
<1>16. /\ OfAnchor[p] = AnchorView(t, g) /\ OfAnchor'[p] = AnchorView(v, g)
       /\ OfTag[p] = TagView(table[g], n)
  BY <1>15, PairValues DEF t, v
<1>17. \/ OfTag[p].asked = -1
       \/ OfTag[p].asked = OfAnchor[p].taken /\ OfTag[p].answered /\ OfTag[p].reported
  <2>1. CASE SlotsOf(table[g], n) = {}
    BY <1>2, <1>3, <1>16, <2>1, ViewsOf DEF Pairs!Stranger, Pairs!Never
  <2>2. ASSUME NEW j \in SlotsOf(table[g], n)
        PROVE  \/ OfTag[p].asked = -1
               \/ OfTag[p].asked = PollOf(s) /\ OfTag[p].answered /\ OfTag[p].reported
    <3>1. TagView(table[g], n) = TagSays(table[g].dev[j])
      BY <1>2, <1>3, <2>2, ViewsOf
    <3> DEFINE d == table[g].dev[j]
    <3>2. d.pollSent = NoStamp \/ (d.pollSent = s /\ d.acked /\ d.served)
      BY <1>6, <1>11, <2>2 DEF Holds
    <3> HIDE DEF d
    <3>3. OfTag[p] = TagSays(d)
      BY <1>16, <3>1 DEF d
    <3> QED
      BY <3>2, <3>3, PollNumbers DEF TagSays
  <2> QED
    BY <1>13, <1>16, <2>1, <2>2
<1>18. Pairs!OnlyAnchorSide({p}) /\ UNCHANGED OfTag
  <2> DEFINE P == {p}
  <2>1. \A o \in Pair : o = <<o[1], o[2]>>
    BY DEF Pair
  <2>2. \A o \in Pair \ P : o[2] = n => o[1] # g
    BY <2>1
  <2>3. P \in SUBSET Pair
    BY <1>15
  <2> HIDE DEF P
  <2>4. \A o \in Pair \ P : o[2] = n => AnchorView(table'[n], o[1]) = AnchorView(table[n], o[1])
    BY <1>9, <2>2 DEF t, v
  <2>5. Pairs!OnlyAnchorSide(P) /\ UNCHANGED OfTag
    BY <1>1, <1>5, <2>3, <2>4, AnchorStep
  <2> QED
    BY <2>5 DEF P
<1> HIDE DEF p
<1>19. OfAnchor' = [OfAnchor EXCEPT ![p].ranged = OfAnchor[p].taken]
  <2> DEFINE w == OfAnchor'
             o == OfAnchor
  <2>1. /\ w \in [Pair -> Pairs!AnchorSide] /\ \A x \in Pair \ {p} : w[x] = o[x]
    BY <1>18, PairsStep
  <2>2. o = [x \in Pair |-> o[x]]
    BY DEF OfAnchor
  <2>3. w[p] = [taken |-> o[p].taken, ranged |-> o[p].taken]
    BY <1>9, <1>11, <1>13, <1>16
  <2>4. o[p] = [taken |-> PollOf(s), ranged |-> PollOf(l)]
    BY <1>9, <1>16 DEF AnchorSays, s, l
  <2> HIDE DEF w, o
  <2>5. w = [o EXCEPT ![p].ranged = o[p].taken]
    BY <1>15, <2>1, <2>2, <2>3, <2>4
  <2> QED
    BY <2>5 DEF w, o
<1>20. OfAnchor[p].taken # -1 /\ OfAnchor[p].ranged # OfAnchor[p].taken
  BY <1>13, <1>14, <1>16
<1>21. Pairs!ComputeRange(p)
  BY <1>15, <1>17, <1>18, <1>19, <1>20, PairsComputeRange
<1> QED
  BY <1>15, <1>21 DEF Pairs!Next, Pairs!Pair, Pair

(* What else a node does on a frame it has heard is none of it.            *)
LEMMA HandleReceivedStep ==
  ASSUME Inv, Inv', Together, Aging, Current, NEW n \in Node, HandleReceived(n)
  PROVE  Pairs!Next \/ SameTables
<1> DEFINE f == data[n]
<1>1. f = data[n] /\ f \in Frame
  BY HandlingFacts
<1>2. \/ BlinkAtAnchor(n, f) \/ RangingInitAtTag(n, f) \/ PollAtAnchor(n, f)
      \/ RangeAtAnchor(n, f) \/ PollAckAtTag(n, f) \/ IgnoreFrame(n, f)
  BY DEF HandleReceived
<1> HIDE DEF f
<1>3. CASE BlinkAtAnchor(n, f) \/ IgnoreFrame(n, f)
  BY <1>3, SameTablesStep DEF BlinkAtAnchor, IgnoreFrame
<1>4. CASE RangingInitAtTag(n, f)
  BY <1>1, <1>4, MeetStep
<1>5. CASE PollAtAnchor(n, f)
  BY <1>1, <1>5, TakeStep
<1>6. CASE RangeAtAnchor(n, f)
  BY <1>1, <1>6, ReportStep
<1>7. CASE PollAckAtTag(n, f)
  BY <1>1, <1>7, AnswerStep
<1> QED
  BY <1>2, <1>3, <1>4, <1>5, <1>6, <1>7

LEMMA NextImplements ==
  ASSUME Inv, Inv', Together, Aging, Current, [Next]_vars
  PROVE  Pairs!Next \/ SameTables
<1>1. ASSUME NEW n \in Node, Loop(n) \/ TxDone(n) \/ Restart(n)
      PROVE  Pairs!Next \/ SameTables
  <2>1. CASE CheckForReset(n) \/ TimerTick(n) \/ RecoverySelect(n)
    BY <2>1, SameTablesStep DEF CheckForReset, TimerTick, RecoverySelect
  <2>2. CASE NothingSent(n) \/ CheckReceived(n) \/ GetData(n) \/ TxDone(n)
    BY <2>2, SameTablesStep DEF NothingSent, CheckReceived, GetData, TxDone, loopVars
  <2>3. CASE RemoveNextInactive(n)
    BY <2>3, RemoveStep
  <2>4. CASE HandleSent(n)
    BY <2>4, SentStep
  <2>5. CASE HandleReceived(n)
    BY <2>5, HandleReceivedStep
  <2>6. CASE Restart(n)
    BY <2>6, RestartStep
  <2> QED
    BY <1>1, <2>1, <2>2, <2>3, <2>4, <2>5, <2>6 DEF Loop
<1>2. CASE NextSlot \/ UNCHANGED vars
  BY <1>2, SameTablesStep DEF NextSlot, vars, loopVars
<1>3. CASE Elapse
  BY <1>3, ElapseStep
<1> QED
  BY <1>1, <1>2, <1>3 DEF Next

LEMMA InitPairs ==
  ASSUME Init
  PROVE  Pairs!Init
<1>1. Inv
  BY InitInv
<1>2. \A n \in Node : Used(table[n]) = {}
  BY EmptyTableGood, MaxDevicesAssumption DEF Init, Used, Slot, Node
<1>3. \A n \in Node : \A x : SlotsOf(table[n], x) = {}
  BY <1>2 DEF SlotsOf
<1>4. \A n \in Node : \A x : /\ TagView(table[n], x) = Pairs!Stranger
                             /\ AnchorView(table[n], x) = Pairs!Fresh
  BY <1>1, <1>3, ViewsOf DEF Inv, Tables
<1>5. \A p \in Pair : p[1] \in Node /\ p[2] \in Node
  BY DEF Pair, Node
<1>6. OfTag = [p \in Pair |-> Pairs!Stranger]
  BY <1>4, <1>5 DEF OfTag
<1>7. OfAnchor = [p \in Pair |-> Pairs!Fresh]
  BY <1>4, <1>5 DEF OfAnchor
<1> QED
  BY <1>6, <1>7, PairsInit

(* Ranging implements the abstract exchange (RangesTwoWay): read through   *)
(* what the tables of a pair say, every step of loop(), of the radio and   *)
(* of the clock is one of TwoWayRanging or none of it.  So an anchor only  *)
(* ever ranges a POLL that the tag asked last, had answered and reported,  *)
(* and ranges it once.                                                     *)
THEOREM Refinement ==
  ASSUME Prompt
  PROVE  Spec /\ []NoWrap => RangesTwoWay
<1> DEFINE I == Inv /\ Together /\ Aging /\ Current
<1>1. Init => I
  BY InitInv, InitTogether, InitAging, InitCurrent
<1>2. NoWrap /\ I /\ [Next]_vars => I'
  <2> SUFFICES ASSUME NoWrap, Inv, Together, Aging, Current, [Next]_vars
               PROVE  Inv' /\ Together' /\ Aging' /\ Current'
    OBVIOUS
  <2>1. Inv'
    BY NextInv
  <2> QED
    BY <2>1, NextTogether, NextAging, NextCurrent
<1>3. Init => Pairs!Init
  BY InitPairs
<1>4. I /\ I' /\ [Next]_vars => [Pairs!Next]_(Pairs!pairVars)
  <2> SUFFICES ASSUME Inv, Inv', Together, Aging, Current, [Next]_vars
               PROVE  [Pairs!Next]_(Pairs!pairVars)
    OBVIOUS
  <2>1. Pairs!Next \/ SameTables
    BY NextImplements
  <2>2. SameTables => UNCHANGED Pairs!pairVars
    BY PairsStep DEF SameTables
  <2> QED
    BY <2>1, <2>2
<1> HIDE DEF I
<1> QED
  BY <1>1, <1>2, <1>3, <1>4, PTL DEF Spec, RangesTwoWay, Pairs!Spec

---------------------------------------------------------------------------
(* What follows from the abstract exchange alone.  PairProofs is Pairs,    *)
(* with the theorems about it.                                             *)
PairProofs == INSTANCE TwoWayRanging_proofs WITH
  ofTag <- [p \in Tags \X Anchors |->
    LET d == DeviceOf(p[1], p[2])
    IN IF Knows(p[1], p[2])
       THEN [asked |-> PollOf(d.pollSent), answered |-> d.acked, reported |-> d.served]
       ELSE [asked |-> -1, answered |-> FALSE, reported |-> FALSE]],
  ofAnchor <- [p \in Tags \X Anchors |->
    LET d == DeviceOf(p[2], p[1])
    IN IF Knows(p[2], p[1])
       THEN [taken |-> PollOf(d.pollReceived), ranged |-> PollOf(d.round1.poll)]
       ELSE [taken |-> -1, ranged |-> -1]]

(* Every definition of the one is that of the other.                       *)
LEMMA SamePairs ==
  /\ Pairs!Init => PairProofs!Init
  /\ [Pairs!Next]_(Pairs!pairVars) => [PairProofs!Next]_(PairProofs!pairVars)
<1>1. Pairs!Init => PairProofs!Init
  BY DEF Pairs!Init, Pairs!Pair, Pairs!Stranger, Pairs!Fresh, Pairs!Never,
      PairProofs!Init, PairProofs!Pair, PairProofs!Stranger,
      PairProofs!Fresh, PairProofs!Never
<1>2. [Pairs!Next]_(Pairs!pairVars) => [PairProofs!Next]_(PairProofs!pairVars)
  BY DEF Pairs!Next, Pairs!pairVars, Pairs!Pair, Pairs!Never, Pairs!TagSide,
      Pairs!AnchorSide, Pairs!Stranger, Pairs!Fresh, Pairs!PairsOfTag,
      Pairs!PairsOfAnchor, Pairs!OnlyTagSide, Pairs!OnlyAnchorSide,
      Pairs!Ask, Pairs!Take, Pairs!Answer, Pairs!ComputeRange,
      Pairs!TagForgets, Pairs!AnchorForgets, PairProofs!Next,
      PairProofs!pairVars, PairProofs!Pair, PairProofs!Never,
      PairProofs!TagSide, PairProofs!AnchorSide, PairProofs!Stranger,
      PairProofs!Fresh, PairProofs!PairsOfTag, PairProofs!PairsOfAnchor,
      PairProofs!OnlyTagSide, PairProofs!OnlyAnchorSide, PairProofs!Ask,
      PairProofs!Take, PairProofs!Answer, PairProofs!ComputeRange,
      PairProofs!TagForgets, PairProofs!AnchorForgets
<1> QED
  BY <1>1, <1>2

(* As long as an anchor knows a tag, the ranges it computes are of ever    *)
(* newer POLLs (RangesInOrder): loop() never ranges a POLL again, nor one  *)
(* that a newer one has overtaken.                                         *)
THEOREM InOrder ==
  ASSUME Prompt
  PROVE  Spec /\ []NoWrap => Pairs!RangesInOrder
<1>1. Pairs!Spec => PairProofs!Spec
  BY SamePairs, PTL DEF Pairs!Spec, PairProofs!Spec
<1>2. PairProofs!RangesInOrder => Pairs!RangesInOrder
  BY PTL DEF Pairs!RangesInOrder, Pairs!Pair, Pairs!Fresh, Pairs!Never, Pairs!pairVars,
      PairProofs!RangesInOrder, PairProofs!Pair, PairProofs!Fresh, PairProofs!Never,
      PairProofs!pairVars
<1> QED
  BY <1>1, <1>2, Refinement, PairProofs!InOrderTheorem, PTL DEF RangesTwoWay

---------------------------------------------------------------------------
(* The sender of a RANGE is listed.                                        *)

(* Table t lists x, and will not sweep it in this period of the timer.     *)
Fresh(t, x) == \E i \in SlotsOf(t, x) : ~IsInactive(t.dev[i])

Freshens(u, t) == \A x : Fresh(t, x) => Fresh(u, x)

(* An anchor that answers a tag, or that a tag reports to, lists the tag   *)
(* and has noted it not long ago: entries age while nothing is in the air. *)
Cached == \A f \in InAir :
  /\ f.type = "POLL_ACK" => Fresh(table[f.src], f.dst)
  /\ f.type = "RANGE" => \A a \in DOMAIN f.devices : Fresh(table[a], f.src)

(* No sweep has stale indices that matter: it is of one device, or of a    *)
(* table of two.                                                           *)
ShortSweeps == \A a \in Anchors : Cardinality(sweep[a]) <= 1 \/ table[a].num <= 2

(* What is left of such a sweep S drops inactive devices only.  When both  *)
(* of two were to go, the second has moved to the first slot and its index *)
(* is stale; the removal drops it all the same, being the last.            *)
DropsInactive(t, S) ==
  \/ S \subseteq InactiveSlots(t)
  \/ S = {1} /\ t.num = 1 /\ IsInactive(t.dev[0])

Sweeps == \A a \in Anchors : DropsInactive(table[a], sweep[a])

AnchorsFreshen == \A a \in Anchors : Freshens(table'[a], table[a])

LEMMA FreshensItself == \A t : Freshens(t, t)
  BY DEF Freshens

(* A table lists no more devices than there are addresses.                 *)
LEMMA ListedCounted ==
  ASSUME NEW n \in Node, NEW t, Good(n, t), NEW T, IsFiniteSet(T), Listed(t) \subseteq T
  PROVE  t.num <= Cardinality(T)
<1>1. t.num \in Count /\ UniqueAddresses(t)
  BY DEF Good, TableOf, TableOK
<1>2. Used(t) = 0 .. (t.num - 1)
  BY <1>1, MaxDevicesAssumption DEF Used, Slot, Count
<1>3. Cardinality(Used(t)) = t.num
  <2>1. t.num \in Int /\ t.num - 1 \in Int /\ 0 \in Int /\ t.num >= 0
    BY <1>1 DEF Count
  <2>2. Cardinality(0 .. (t.num - 1)) = IF 0 > t.num - 1 THEN 0 ELSE (t.num - 1) - 0 + 1
    BY <2>1, FS_Interval
  <2>3. (IF 0 > t.num - 1 THEN 0 ELSE (t.num - 1) - 0 + 1) = t.num
    BY <2>1
  <2> QED
    BY <1>2, <2>2, <2>3
<1> DEFINE addr == [i \in Used(t) |-> t.dev[i].addr]
<1>4. addr \in [Used(t) -> T]
  BY DEF Listed
<1>5. \A i, j \in Used(t) : addr[i] = addr[j] => i = j
  BY <1>1 DEF UniqueAddresses
<1>6. addr \in Injection(Used(t), T)
  BY <1>4, <1>5 DEF Injection, IsInjective
<1> HIDE DEF addr
<1>7. Cardinality(Used(t)) <= Cardinality(T)
  BY <1>6, FS_Injection
<1> QED
  BY <1>3, <1>7

(* There is room for a tag that is not listed.                             *)
LEMMA RoomForTag ==
  ASSUME NEW a \in Anchors, NEW t, Good(a, t), NEW g \in Tags, g \notin Listed(t),
         Cardinality(Tags) <= MAX_DEVICES
  PROVE  t.num < MAX_DEVICES
<1>1. a \in Node /\ Listed(t) \subseteq Tags /\ IsFiniteSet(Tags) /\ t.num \in Count
  BY NodeAssumption, FS_Subset DEF Good, Partner, Node, TableOf
<1>2. /\ IsFiniteSet(Tags \ {g}) /\ Cardinality(Tags \ {g}) = Cardinality(Tags) - 1
      /\ Cardinality(Tags) \in Nat
  BY <1>1, FS_RemoveElement, FS_CardinalityType
<1>3. t.num <= Cardinality(Tags \ {g})
  BY <1>1, <1>2, ListedCounted
<1> DEFINE c == Cardinality(Tags)
           k == t.num
<1>4. k <= c - 1 /\ c <= MAX_DEVICES /\ c \in Nat /\ k \in Nat /\ MAX_DEVICES \in Nat
  BY <1>1, <1>2, <1>3, MaxDevicesAssumption DEF Count
<1> HIDE DEF c, k
<1>5. k < MAX_DEVICES
  BY <1>4
<1> QED
  BY <1>5 DEF k

LEMMA AtMostTwo ==
  ASSUME NEW a \in Anchors, NEW t, Good(a, t), Cardinality(Tags) <= 2
  PROVE  t.num \in 0 .. 2
<1>1. a \in Node /\ Listed(t) \subseteq Tags /\ IsFiniteSet(Tags) /\ t.num \in Count
  BY NodeAssumption, FS_Subset DEF Good, Partner, Node, TableOf
<1>2. t.num <= Cardinality(Tags) /\ Cardinality(Tags) \in Nat
  BY <1>1, ListedCounted, FS_CardinalityType
<1> DEFINE c == Cardinality(Tags)
           k == t.num
<1>3. k <= c /\ c <= 2 /\ c \in Nat /\ k \in Nat
  BY <1>1, <1>2, MaxDevicesAssumption DEF Count
<1> HIDE DEF c, k
<1>4. k \in 0 .. 2
  BY <1>3
<1> QED
  BY <1>4 DEF k

(* The last device moves into the hole, as fresh as it was.                *)
LEMMA RemoveKeepsOthers ==
  ASSUME NEW n \in Node, NEW t, Good(n, t), NEW i \in Slot, t.num > 0
  PROVE  LET u == RemoveNetworkDevice(t, i)
         IN /\ u.num = t.num - 1
            /\ \A j \in Slot \ {i} : u.dev[j] = t.dev[j]
            /\ i # t.num - 1 => /\ u.dev[i].addr = t.dev[t.num - 1].addr
                                /\ u.dev[i].age = t.dev[t.num - 1].age
<1> DEFINE k == t.num - 1
           u == RemoveNetworkDevice(t, i)
           d == t.dev[k]
           e == [d EXCEPT !.index = i]
<1>1. t.dev \in [Slot -> Device(n)] /\ t.num \in Count
  BY DEF Good, TableOf
<1>2. k \in Slot /\ d \in Device(n)
  BY <1>1, MaxDevicesAssumption DEF Slot, Count
<1>3. u.num = k
  BY DEF RemoveNetworkDevice
<1>4. CASE i = k
  BY <1>3, <1>4 DEF RemoveNetworkDevice
<1>5. CASE i # k
  <2>1. u.dev = [t.dev EXCEPT ![i] = e]
    BY <1>5 DEF RemoveNetworkDevice, Put
  <2>2. e.addr = d.addr /\ e.age = d.age
    BY <1>2 DEF Device
  <2> HIDE DEF e, d, u
  <2>3. u.dev[i] = e /\ \A j \in Slot \ {i} : u.dev[j] = t.dev[j]
    BY <1>1, <2>1
  <2> QED
    BY <1>3, <2>2, <2>3 DEF d, u
<1> QED
  BY <1>4, <1>5

LEMMA RemoveFreshens ==
  ASSUME NEW n \in Node, NEW t, Good(n, t), NEW S, DropsInactive(t, S), NEW i \in S, i \in Slot,
         t.num > 0
  PROVE  Freshens(RemoveNetworkDevice(t, i), t)
<1> DEFINE u == RemoveNetworkDevice(t, i)
           k == t.num - 1
<1>1. t.num \in Count /\ Slot \subseteq Int /\ t.num \in Int
  BY DEF Good, TableOf, Slot, Count
<1>2. /\ u.num = k
      /\ \A j \in Slot \ {i} : u.dev[j] = t.dev[j]
      /\ i # k => u.dev[i].addr = t.dev[k].addr /\ u.dev[i].age = t.dev[k].age
  BY RemoveKeepsOthers
<1> HIDE DEF u
<1> SUFFICES ASSUME NEW x, NEW j \in SlotsOf(t, x), ~IsInactive(t.dev[j])
             PROVE  Fresh(u, x)
  BY DEF Freshens, Fresh, u
<1>3. j \in Slot /\ j < t.num /\ t.dev[j].addr = x
  BY DEF SlotsOf, Used
<1>4. CASE S \subseteq InactiveSlots(t)
  <2>1. i < t.num /\ i # j
    BY <1>4 DEF InactiveSlots, Used
  <2>2. CASE j = k
    <3>1. i < k /\ i \in Used(u)
      BY <1>1, <1>2, <2>1, <2>2 DEF Used
    <3>2. u.dev[i].addr = x /\ u.dev[i].age = t.dev[j].age
      BY <1>2, <1>3, <2>1, <2>2
    <3> QED
      BY <3>1, <3>2 DEF Fresh, SlotsOf, IsInactive
  <2>3. CASE j # k
    <3>1. j \in Used(u) /\ u.dev[j] = t.dev[j]
      BY <1>1, <1>2, <1>3, <2>1, <2>3 DEF Used
    <3> QED
      BY <1>3, <3>1 DEF Fresh, SlotsOf
  <2> QED
    BY <2>2, <2>3
<1>5. CASE t.num = 1 /\ IsInactive(t.dev[0])
  <2>1. j = 0
    BY <1>3, <1>5 DEF Slot
  <2> QED
    BY <1>5, <2>1
<1> QED
  BY <1>4, <1>5 DEF DropsInactive

LEMMA PairCounted ==
  ASSUME NEW i, NEW j, i # j
  PROVE  Cardinality({i, j}) = 2
<1>1. /\ IsFiniteSet({i}) /\ Cardinality({i}) = 1
      /\ j \notin {i} /\ {i} \cup {j} = {i, j}
  BY FS_Singleton
<1>2. Cardinality({i} \cup {j}) = Cardinality({i}) + 1
  BY <1>1, FS_AddElement
<1> QED
  BY <1>1, <1>2

LEMMA RemoveDropsInactive ==
  ASSUME NEW n \in Node, NEW t, Good(n, t), t.num > 0,
         NEW S \in SUBSET Slot, DropsInactive(t, S), NEW i \in S, \A j \in S : i <= j,
         Cardinality(S) <= 1 \/ t.num <= 2
  PROVE  DropsInactive(RemoveNetworkDevice(t, i), S \ {i})
<1> DEFINE u == RemoveNetworkDevice(t, i)
           k == t.num - 1
<1>1. /\ u.num = k
      /\ i # k => u.dev[i].age = t.dev[k].age
  BY RemoveKeepsOthers
<1> HIDE DEF u
<1>2. CASE S \ {i} = {}
  BY <1>2 DEF DropsInactive, u
<1>3. CASE S \ {i} # {}
  <2>1. PICK j \in S : j # i
    BY <1>3
  <2>2. t.num \in 0 .. 2
    <3>1. ~(Cardinality(S) <= 1)
      <4>1. {i, j} \subseteq S /\ IsFiniteSet(S) /\ Cardinality(S) \in Nat
        BY SlotsFinite
      <4>2. Cardinality({i, j}) = 2
        BY <2>1, PairCounted
      <4>3. Cardinality({i, j}) <= Cardinality(S)
        BY <4>1, FS_Subset
      <4> QED
        BY <4>1, <4>2, <4>3
    <3>2. t.num \in Nat
      BY GoodNum
    <3> QED
      BY <3>1, <3>2
  <2>3. S \subseteq InactiveSlots(t)
    BY <2>1 DEF DropsInactive
  <2>4. \A m \in S : m \in Int /\ 0 <= m /\ m < t.num /\ i <= m /\ IsInactive(t.dev[m])
    BY <2>3 DEF InactiveSlots, Used, Slot
  <2>5. i = 0 /\ j = 1 /\ t.num = 2 /\ \A m \in S : m = 0 \/ m = 1
    <3> DEFINE c == t.num
    <3>1. /\ c \in 0 .. 2
          /\ i \in Int /\ 0 <= i /\ i < c /\ j \in Int /\ j < c /\ i <= j /\ j # i
      BY <2>1, <2>4, <2>2
    <3>2. \A m \in S : m \in Int /\ 0 <= m /\ m < c
      BY <2>4
    <3> HIDE DEF c
    <3>3. i = 0 /\ j = 1 /\ c = 2
      BY <3>1
    <3>4. \A m \in S : m = 0 \/ m = 1
      BY <3>2, <3>3
    <3> QED
      BY <3>3, <3>4 DEF c
  <2>6. S \ {i} = {1} /\ IsInactive(t.dev[1])
    BY <2>1, <2>4, <2>5
  <2>7. k = 1
    BY <2>5
  <2> QED
    BY <1>1, <2>5, <2>6, <2>7 DEF DropsInactive, IsInactive, u
<1> QED
  BY <1>2, <1>3


(* addNetworkDevices lists a device without dropping another.              *)
LEMMA AddFreshens ==
  ASSUME NEW n \in Node, NEW t, Good(n, t), NEW d \in Device(n),
         d.addr \in Listed(t) \/ t.num < MAX_DEVICES, NEW u \in AddNetworkDevice(t, d)
  PROVE  Freshens(u, t)
<1>1. CASE d.addr \in Listed(t)
  BY <1>1 DEF AddNetworkDevice, Freshens
<1>2. CASE d.addr \notin Listed(t)
  <2>1. u = [dev |-> Put(t, t.num, d), num |-> t.num + 1] /\ t.num < MAX_DEVICES
    BY <1>2 DEF AddNetworkDevice
  <2>2. t.num \in Slot /\ t.num \in Int
    BY <2>1, MaxDevicesAssumption DEF Good, TableOf, Slot, Count
  <2>3. \A j \in Slot \ {t.num} : u.dev[j] = t.dev[j]
    BY <2>1, <2>2, PutSame
  <2>4. \A j \in Used(t) : j \in Used(u) /\ u.dev[j] = t.dev[j]
    BY <2>1, <2>2, <2>3 DEF Used, Slot
  <2> QED
    BY <2>4 DEF Freshens, Fresh, SlotsOf
<1> QED
  BY <1>1, <1>2

(* Noting activity of a device makes it fresh and leaves the others alone. *)
LEMMA NotedFreshens ==
  ASSUME NEW n \in Node, NEW t, Good(n, t), NEW g, NEW i \in SlotsOf(t, g), NEW e,
         e.addr = g, e.age = 0, NEW v, v = WithDevice(t, i, e)
  PROVE  Freshens(v, t) /\ Fresh(v, g)
<1>1. v = [t EXCEPT !.dev[i] = e]
  BY DEF WithDevice
<1>2. Replaced(t, g, i, e, [t EXCEPT !.dev[i] = e])
  BY OneReplaced
<1>3. /\ v.dev[i] = e /\ SlotsOf(v, g) = {i}
      /\ \A j \in Used(t) \ {i} : v.dev[j] = t.dev[j]
      /\ \A x : x # g => SlotsOf(v, x) = SlotsOf(t, x) /\ i \notin SlotsOf(v, x)
  BY <1>1, <1>2 DEF Replaced
<1>4. ~IsInactive(e)
  BY InactivityAssumption DEF IsInactive
<1>5. Fresh(v, g)
  BY <1>3, <1>4 DEF Fresh
<1>6. ASSUME NEW x, x # g, Fresh(t, x)
      PROVE  Fresh(v, x)
  BY <1>3, <1>6 DEF Fresh, SlotsOf
<1> QED
  BY <1>5, <1>6 DEF Freshens

LEMMA AckMarkedFreshens ==
  ASSUME NEW n \in Node, NEW t, Good(n, t), NEW s, NEW dst, NEW u,
         u = MarkUsed(t, [i \in Slot |-> AckMarked(t.dev[i], s, dst)])
  PROVE  Freshens(u, t)
<1>1. /\ Used(u) = Used(t)
      /\ \A i \in Used(t) : u.dev[i] = AckMarked(t.dev[i], s, dst)
  BY MarkUsedDevices DEF Used
<1>2. \A i \in Used(t) : t.dev[i] \in Device(n)
  BY DEF Good, TableOf, Used
<1>3. \A i \in Used(t) : u.dev[i].addr = t.dev[i].addr /\ u.dev[i].age = t.dev[i].age
  BY <1>1, <1>2 DEF AckMarked, Device
<1> QED
  BY <1>1, <1>3 DEF Freshens, Fresh, SlotsOf, IsInactive

(* A POLL is noted in a table with room for its tag.                       *)
LEMMA PollNotedFreshens ==
  ASSUME NEW n \in Anchors, NEW t, Good(n, t), NEW g \in Tags, NEW d \in NewDevice(n, g),
         NEW u \in AddNetworkDevice(t, d), NEW i \in SlotsOf(u, g), NEW s,
         NEW old, old = u.dev[i], NEW v, v = WithDevice(u, i, PollNoted(old, s)),
         Cardinality(Tags) <= MAX_DEVICES
  PROVE  Freshens(v, t) /\ Fresh(v, g)
<1>1. n \in Node /\ g \in Partner(n)
  BY NodeAssumption DEF Partner, Node
<1>2. d \in Device(n) /\ d.addr = g
  BY <1>1, NewDeviceType
<1>3. Good(n, u)
  BY <1>1, <1>2, AddGood
<1>4. Freshens(u, t)
  BY <1>1, <1>2, RoomForTag, AddFreshens
<1> DEFINE e == PollNoted(old, s)
<1>5. old \in Device(n) /\ old.addr = g
  BY <1>3 DEF SlotsOf, Used, Good, TableOf
<1>6. e.addr = g /\ e.age = 0
  BY <1>5 DEF PollNoted, Device
<1> HIDE DEF e
<1>7. v = WithDevice(u, i, e)
  BY DEF e
<1>8. Freshens(v, u) /\ Fresh(v, g)
  BY <1>1, <1>3, <1>6, <1>7, NotedFreshens
<1> QED
  BY <1>4, <1>8 DEF Freshens

---------------------------------------------------------------------------
(* A reply that is a RANGE or POLL_ACK is to a fresh device.               *)
LEMMA CachedReply ==
  ASSUME Inv, Cached, NEW e, InAir' \subseteq InAir \cup {e}, AnchorsFreshen,
         e.type = "POLL_ACK" => Fresh(table'[e.src], e.dst),
         e.type = "RANGE" => \A a \in DOMAIN e.devices : Fresh(table'[a], e.src)
  PROVE  Cached'
<1>1. \A f \in InAir :
        /\ f.type \in {"POLL", "RANGE"} => f.src \in Tags /\ DOMAIN f.devices \subseteq Anchors
        /\ f.type = "POLL_ACK" => f.src \in Anchors /\ f.dst \in Tags
  BY InAirFrames, FrameNodes
<1>2. \A f \in InAir' : f \in InAir \/ f = e
  OBVIOUS
<1>3. \A a \in Anchors : \A x : Fresh(table[a], x) => Fresh(table'[a], x)
  BY DEF AnchorsFreshen, Freshens
<1>4. ASSUME NEW f \in InAir', f.type = "POLL_ACK"
      PROVE  Fresh(table'[f.src], f.dst)
  BY <1>1, <1>2, <1>3, <1>4 DEF Cached
<1>5. ASSUME NEW f \in InAir', f.type = "RANGE", NEW a \in DOMAIN f.devices
      PROVE  Fresh(table'[a], f.src)
  BY <1>1, <1>2, <1>3, <1>5 DEF Cached
<1> QED
  BY <1>4, <1>5 DEF Cached, Fresh, SlotsOf, Used, IsInactive

LEMMA CachedKept ==
  ASSUME Inv, Cached, InAir' \subseteq InAir, AnchorsFreshen
  PROVE  Cached'
<1>1. NoFrame.type = "NONE" /\ InAir' \subseteq InAir \cup {NoFrame}
  BY DEF NoFrame
<1> QED
  BY <1>1, CachedReply

(* A sweep that does not go on is as it was, or has not begun.             *)
LEMMA SweepsKept ==
  ASSUME Inv, Sweeps, UNCHANGED sweep,
         \A a \in Anchors : pc[a] # "sweep" \/ table'[a] = table[a]
  PROVE  Sweeps'
<1> SUFFICES ASSUME NEW a \in Anchors
             PROVE  DropsInactive(table'[a], sweep[a])
  BY DEF Sweeps, DropsInactive, InactiveSlots, IsInactive, Used
<1>1. CASE pc[a] # "sweep"
  <2>1. sweep[a] = {}
    BY <1>1 DEF Inv, Sweeping, Node
  <2> QED
    BY <2>1 DEF DropsInactive
<1>2. CASE table'[a] = table[a]
  BY <1>2 DEF Sweeps
<1> QED
  BY <1>1, <1>2


LEMMA RemoveCached ==
  ASSUME Inv, Together, Cached, Sweeps, ShortSweeps,
         NEW n \in Node, RemoveNextInactive(n)
  PROVE  Cached' /\ Sweeps'
<1>1. PICK i \in sweep[n] : /\ \A j \in sweep[n] : i <= j
                            /\ table' = [table EXCEPT ![n] = RemoveNetworkDevice(@, i)]
                            /\ sweep' = [sweep EXCEPT ![n] = @ \ {i}]
  BY DEF RemoveNextInactive
<1> DEFINE t == table[n]
           S == sweep[n]
<1>2. /\ i \in Slot /\ Good(n, t) /\ S \in SUBSET Slot /\ Cardinality(S) <= t.num
      /\ t.num \in Nat /\ IsFiniteSet(S) /\ Cardinality(S) \in Nat
  BY <1>1, GoodNum, SlotsFinite DEF Inv, Sweeping, Tables
<1>3. Cardinality(S) # 0
  BY <1>1, <1>2, FS_EmptySet
<1>4. t.num > 0
  <2> DEFINE c == Cardinality(S)
             k == t.num
  <2>1. c # 0 /\ c \in Nat /\ k \in Nat /\ c <= k
    BY <1>2, <1>3
  <2> HIDE DEF c, k
  <2>2. k > 0
    BY <2>1
  <2> QED
    BY <2>2 DEF k
<1>5. /\ table'[n] = RemoveNetworkDevice(t, i) /\ sweep'[n] = S \ {i}
      /\ \A m \in Node \ {n} : table'[m] = table[m] /\ sweep'[m] = sweep[m]
  BY <1>1 DEF Inv, Tables, Sweeping
<1> HIDE DEF t, S
<1>6. ASSUME n \in Anchors
      PROVE  Freshens(table'[n], t) /\ DropsInactive(table'[n], sweep'[n])
  <2>1. DropsInactive(t, S) /\ i \in S /\ \A j \in S : i <= j
    BY <1>1, <1>6 DEF Sweeps, t, S
  <2>2. Cardinality(S) <= 1 \/ t.num <= 2
    BY <1>6 DEF ShortSweeps, t, S
  <2>3. Freshens(RemoveNetworkDevice(t, i), t)
    BY <1>2, <1>4, <2>1, RemoveFreshens
  <2>4. DropsInactive(RemoveNetworkDevice(t, i), S \ {i})
    BY <1>2, <1>4, <2>1, <2>2, RemoveDropsInactive
  <2> QED
    BY <1>5, <2>3, <2>4
<1>7. AnchorsFreshen
  BY <1>5, <1>6, FreshensItself DEF AnchorsFreshen, Node, t
<1>8. InAir' \subseteq InAir
  BY RemoveNextInactiveLess, LessInAirFacts
<1>9. Sweeps'
  <2>1. ASSUME NEW a \in Anchors
        PROVE  DropsInactive(table'[a], sweep'[a])
    BY <1>5, <1>6 DEF Sweeps, Node
  <2> QED
    BY <2>1 DEF Sweeps, DropsInactive, InactiveSlots, IsInactive, Used
<1> QED
  BY <1>7, <1>8, <1>9, CachedKept

LEMMA HandleSentCached ==
  ASSUME Inv, Together, Cached, Sweeps, NEW n \in Node, HandleSent(n)
  PROVE  Cached' /\ Sweeps'
<1> DEFINE t == table[n]
           s == txStamp[n]
           dst == sentData[n].dst
<1>1. pc[n] = "top" /\ UNCHANGED sweep
  BY DEF HandleSent
<1>2. /\ \A m \in Node \ {n} : table'[m] = table[m]
      /\ n \in Anchors =>
           \/ table'[n] = MarkUsed(t, [i \in Slot |-> AckMarked(t.dev[i], s, dst)])
           \/ table'[n] = t
  BY NodeAssumption DEF HandleSent, PollSent, PollAckSent, OtherSent, AckMarked, Inv, Tables
<1>3. Good(n, t)
  BY DEF Inv, Tables
<1> HIDE DEF t, s, dst
<1>4. n \in Anchors => Freshens(table'[n], t)
  BY <1>2, <1>3, AckMarkedFreshens, FreshensItself
<1>5. AnchorsFreshen
  BY <1>2, <1>4, FreshensItself DEF AnchorsFreshen, Node, t
<1>6. Sweeps'
  BY <1>1, <1>2, SweepsKept DEF Node
<1>7. InAir' \subseteq InAir
  BY HandleSentLess, LessInAirFacts
<1> QED
  BY <1>5, <1>6, <1>7, CachedKept

(* The other steps of loop(), but those that handle a frame, and those of  *)
(* the radio leave the tables alone and add nothing that is answered.      *)
LEMMA MildCached ==
  ASSUME Inv, Together, Cached, Sweeps, NEW n \in Node,
         \/ CheckForReset(n) \/ RecoverySelect(n)
         \/ NothingSent(n) \/ CheckReceived(n) \/ GetData(n)
  PROVE  Cached' /\ Sweeps'
<1>1. UNCHANGED <<table, sweep>>
  BY DEF CheckForReset, RecoverySelect, NothingSent, CheckReceived, GetData
<1>2. InAir' \subseteq InAir
  BY CheckForResetLess, RecoverySelectLess, NothingSentLess, CheckReceivedLess, GetDataLess,
     LessInAirFacts
<1>3. AnchorsFreshen /\ Sweeps'
  BY <1>1, FreshensItself, SweepsKept DEF AnchorsFreshen
<1> QED
  BY <1>2, <1>3, CachedKept

LEMMA RadioCached ==
  ASSUME Prompt, Inv, Together, Cached, Sweeps, NextSlot \/ \E n \in Node : TxDone(n)
  PROVE  Cached' /\ Sweeps'
<1>1. UNCHANGED <<table, sweep>>
  BY DEF NextSlot, TxDone, loopVars
<1>2. InAir' \subseteq InAir
  BY NextSlotFacts, TxDoneFacts
<1>3. AnchorsFreshen /\ Sweeps'
  BY <1>1, FreshensItself, SweepsKept DEF AnchorsFreshen
<1> QED
  BY <1>2, <1>3, CachedKept

(* The timer starts no more than a POLL or a BLINK.                        *)
LEMMA TimerTickCached ==
  ASSUME Prompt, Inv, Together, Cached, Sweeps, NEW n \in Node, TimerTick(n)
  PROVE  Cached' /\ Sweeps'
<1>1. /\ UNCHANGED <<table, rxFrame>> /\ \A m \in Node : Hears(m)' <=> Hears(m)
  BY TimerTickFacts
<1>2. Heard' \subseteq Heard
  BY <1>1 DEF Heard
<1>3. AnchorsFreshen
  BY <1>1, FreshensItself DEF AnchorsFreshen
<1>4. Cached'
  <2>1. CASE TransmitNothing
    <3>1. InAir' \subseteq InAir
      BY <1>2, <2>1 DEF TransmitNothing, InAir, Underway, Transmitting
    <3> QED
      BY <1>3, <3>1, CachedKept
  <2>2. ASSUME NEW e, Starts(n, e, 0), e.type = "BLINK" \/ e.type = "POLL"
        PROVE  Cached'
    <3>1. InAir' \subseteq InAir \cup {e}
      BY <1>2, <2>2, StartsFacts DEF InAir
    <3> QED
      BY <1>3, <2>2, <3>1, CachedReply
  <2> QED
    BY <2>1, <2>2, TimerTickSends
<1>5. sweep' = sweep \/ sweep' = [sweep EXCEPT ![n] = InactiveSlots(table[n])]
  BY DEF TimerTick
<1>6. Sweeps'
  <2>1. ASSUME NEW a \in Anchors
        PROVE  DropsInactive(table[a], sweep'[a])
    <3>1. sweep'[a] = sweep[a] \/ sweep'[a] = InactiveSlots(table[a])
      BY <1>5 DEF Inv, Sweeping, Node
    <3> QED
      BY <3>1 DEF Sweeps, DropsInactive
  <2> QED
    BY <1>1, <2>1 DEF Sweeps, DropsInactive, InactiveSlots, IsInactive, Used
<1> QED
  BY <1>4, <1>6

LEMMA ElapseCached ==
  ASSUME Inv, Together, Sweeps, Elapse
  PROVE  Cached' /\ Sweeps'
<1>1. InAir' = {}
  BY ElapseFacts
<1>2. UNCHANGED sweep /\ \A a \in Node : pc[a] # "sweep"
  BY DEF Elapse, Calm, On
<1> QED
  BY <1>1, <1>2, SweepsKept DEF Cached, Node


LEMMA PollFresh ==
  ASSUME Inv, NEW n \in Node, NEW f \in Frame, PollAtAnchor(n, f),
         Cardinality(Tags) <= MAX_DEVICES
  PROVE  /\ Freshens(table'[n], table[n]) /\ Fresh(table'[n], f.src)
         /\ \A m \in Node \ {n} : table'[m] = table[m]
<1> DEFINE t == table[n]
           s == Stamp(rxFrame[n])
           v == table'[n]
           g == f.src
<1>1. Good(n, t) /\ n \in Anchors /\ g \in Tags
  BY FrameFields DEF PollAtAnchor, Inv, Tables
<1> HIDE DEF s
<1>2. PICK d \in NewDevice(n, g) :
        \E u \in AddNetworkDevice(t, d) : \E i \in SlotsOf(u, g) :
          table' = [table EXCEPT ![n] = [u EXCEPT !.dev[i] = PollNoted(@, s)]]
  BY DEF PollAtAnchor, s
<1>3. PICK u \in AddNetworkDevice(t, d) : \E i \in SlotsOf(u, g) :
        table' = [table EXCEPT ![n] = [u EXCEPT !.dev[i] = PollNoted(@, s)]]
  BY <1>2
<1>4. PICK i \in SlotsOf(u, g) :
        table' = [table EXCEPT ![n] = [u EXCEPT !.dev[i] = PollNoted(@, s)]]
  BY <1>3
<1> DEFINE old == u.dev[i]
<1>5. v = WithDevice(u, i, PollNoted(old, s)) /\ old = u.dev[i]
  BY <1>4 DEF WithDevice, Inv, Tables
<1>6. \A m \in Node \ {n} : table'[m] = table[m]
  BY <1>4 DEF Inv, Tables
<1> HIDE DEF t, v, g, old
<1>7. Freshens(v, t) /\ Fresh(v, g)
  BY <1>1, <1>5, PollNotedFreshens
<1> QED
  BY <1>6, <1>7 DEF t, v, g

LEMMA PollCached ==
  ASSUME Inv, Together, Cached, Cardinality(Tags) <= MAX_DEVICES,
         NEW n \in Node, HandleReceived(n), NEW f, f = data[n], PollAtAnchor(n, f)
  PROVE  Cached'
<1> DEFINE e == PollAck(n, f.src)
<1>1. /\ f.type = "POLL" /\ n \in Anchors /\ n \in DOMAIN f.devices
      /\ Transmit(n, e, f.devices[n])
  BY DEF PollAtAnchor
<1>2. f \in Frame /\ Heard' \subseteq Heard
  BY HandlingFacts
<1>3. f.devices[n] \in Nat
  BY <1>1, <1>2, FrameFields
<1>4. e.type = "POLL_ACK" /\ e.dst = f.src /\ e.src = n
  BY DEF PollAck
<1>5. Starts(n, e, f.devices[n])
  BY <1>1, <1>4 DEF Transmit, Starts
<1>6. /\ Freshens(table'[n], table[n]) /\ Fresh(table'[n], f.src)
      /\ \A m \in Node \ {n} : table'[m] = table[m]
  BY <1>2, PollFresh
<1> HIDE DEF e
<1>7. InAir' \subseteq InAir \cup {e}
  BY <1>2, <1>3, <1>5, StartsFacts DEF InAir
<1>8. AnchorsFreshen
  BY <1>6, FreshensItself DEF AnchorsFreshen, Node
<1> QED
  BY <1>4, <1>6, <1>7, <1>8, CachedReply

LEMMA RangeCached ==
  ASSUME Inv, Together, Cached, NEW n \in Node, HandleReceived(n),
         NEW f, f = data[n], RangeAtAnchor(n, f)
  PROVE  Cached'
<1> DEFINE t == table[n]
           r == f.devices[n]
<1>1. TransmitNothing /\ \A m \in Node \ {n} : table'[m] = table[m]
  BY DEF RangeAtAnchor, Inv, Tables
<1>2. PICK i \in SlotsOf(t, f.src), q \in Quality :
        table' = [table EXCEPT ![n].dev[i] = [@ EXCEPT !.age = 0, !.quality = q, !.round1 = r]]
  BY DEF RangeAtAnchor
<1> DEFINE old == t.dev[i]
           e == RangeNoted(old, q, r)
<1>3. Good(n, t)
  BY DEF Inv, Tables
<1>4. table'[n] = WithDevice(t, i, e)
  BY <1>2 DEF WithDevice, RangeNoted, Inv, Tables
<1>5. old \in Device(n) /\ old.addr = f.src
  BY <1>3 DEF SlotsOf, Used, Good, TableOf
<1> HIDE DEF r, old
<1>6. e.addr = f.src /\ e.age = 0
  BY <1>5 DEF RangeNoted, Device
<1> HIDE DEF t, e
<1>7. Freshens(table'[n], t)
  BY <1>3, <1>4, <1>6, NotedFreshens
<1>8. AnchorsFreshen
  BY <1>1, <1>7, FreshensItself DEF AnchorsFreshen, Node, t
<1>9. InAir' \subseteq InAir
  BY <1>1, NoReplyLess, LessInAirFacts
<1> QED
  BY <1>8, <1>9, CachedKept

(* The RANGE names no other anchor than the one whose answer was heard.    *)
LEMMA PollAckCached ==
  ASSUME Inv, Together, Cached, NEW n \in Node, HandleReceived(n),
         NEW f, f = data[n], PollAckAtTag(n, f)
  PROVE  Cached'
<1>1. n \in Tags /\ f.type = "POLL_ACK" /\ f.dst = n
  BY DEF PollAckAtTag
<1>2. /\ f \in Frame /\ f \in InAir /\ Heard' \subseteq Heard
      /\ ~sentAck[n] /\ ~deaf[n]
  BY HandlingFacts
<1>3. AllServed(table[n])
  BY <1>1, <1>2 DEF Together, OnePoll, Settled, Unnoted
<1>4. /\ \A m \in Node \ {n} : table'[m] = table[m]
      /\ \/ TransmitNothing
         \/ \E e : /\ Starts(n, e, DEFAULT_REPLY_DELAY_TIME) /\ e.type = "RANGE"
                   /\ \A a \in DOMAIN e.devices : a = f.src
  BY <1>2, <1>3, AckNotes
<1>5. \A a \in Anchors : a \in Node \ {n}
  BY <1>1, NodeAssumption DEF Node
<1>6. AnchorsFreshen
  BY <1>4, <1>5, FreshensItself DEF AnchorsFreshen
<1>7. CASE TransmitNothing
  BY <1>6, <1>7, NoReplyLess, LessInAirFacts, CachedKept
<1>8. ASSUME NEW e, Starts(n, e, DEFAULT_REPLY_DELAY_TIME), e.type = "RANGE",
             \A a \in DOMAIN e.devices : a = f.src
      PROVE  Cached'
  <2>1. InAir' \subseteq InAir \cup {e}
    BY <1>2, <1>8, StartsFacts DEF InAir, DEFAULT_REPLY_DELAY_TIME
  <2>2. f.src \in Anchors /\ e.src = n
    BY <1>1, <1>2, <1>8, FrameNodes DEF Starts
  <2>3. Fresh(table[f.src], n) /\ table'[f.src] = table[f.src]
    BY <1>1, <1>2, <1>4, <1>5, <2>2 DEF Cached
  <2>4. \A a \in DOMAIN e.devices : Fresh(table'[a], e.src)
    BY <1>8, <2>2, <2>3
  <2> QED
    BY <1>6, <1>8, <2>1, <2>4, CachedReply
<1> QED
  BY <1>4, <1>7, <1>8

LEMMA OtherCached ==
  ASSUME Inv, Together, Cached, NEW n \in Node, HandleReceived(n),
         \/ BlinkAtAnchor(n, data[n]) \/ RangingInitAtTag(n, data[n]) \/ IgnoreFrame(n, data[n])
  PROVE  Cached'
<1>1. \A a \in Anchors : table'[a] = table[a]
  BY NodeAssumption DEF BlinkAtAnchor, RangingInitAtTag, IgnoreFrame, Inv, Tables, Node
<1>2. AnchorsFreshen
  BY <1>1, FreshensItself DEF AnchorsFreshen
<1>3. CASE TransmitNothing
  BY <1>2, <1>3, NoReplyLess, LessInAirFacts, CachedKept
<1>4. ASSUME NEW slot \in RandomSlots,
             Transmit(n, RangingInit(n, data[n].src), slotDuration * slot)
      PROVE  Cached'
  <2> DEFINE e == RangingInit(n, data[n].src)
             wait == slotDuration * slot
  <2>1. e.type = "RANGING_INIT" /\ e.src = n
    BY DEF RangingInit
  <2>2. Starts(n, e, wait)
    BY <1>4, <2>1 DEF Transmit, Starts
  <2>3. wait \in Nat
    BY RangingAssumption DEF slotDuration
  <2> HIDE DEF e, wait
  <2>4. InAir' \subseteq InAir \cup {e}
    BY <2>2, <2>3, StartsFacts, HandlingFacts DEF InAir
  <2> QED
    BY <1>2, <2>1, <2>4, CachedReply
<1> QED
  BY <1>3, <1>4 DEF BlinkAtAnchor, RangingInitAtTag, IgnoreFrame

LEMMA HandleReceivedCached ==
  ASSUME Inv, Together, Cached, Sweeps, Cardinality(Tags) <= MAX_DEVICES,
         NEW n \in Node, HandleReceived(n)
  PROVE  Cached' /\ Sweeps'
<1>1. \/ BlinkAtAnchor(n, data[n]) \/ RangingInitAtTag(n, data[n]) \/ PollAtAnchor(n, data[n])
      \/ RangeAtAnchor(n, data[n]) \/ PollAckAtTag(n, data[n]) \/ IgnoreFrame(n, data[n])
  BY DEF HandleReceived
<1>2. ASSUME PollAtAnchor(n, data[n])
      PROVE  Cached'
  BY <1>2, PollCached
<1>3. ASSUME RangeAtAnchor(n, data[n])
      PROVE  Cached'
  BY <1>3, RangeCached
<1>4. ASSUME PollAckAtTag(n, data[n])
      PROVE  Cached'
  BY <1>4, PollAckCached
<1>5. Cached'
  BY <1>1, <1>2, <1>3, <1>4, OtherCached
<1>6. pc[n] = "handle" /\ UNCHANGED sweep
  BY DEF HandleReceived
<1>7. \A m \in Node \ {n} : table'[m] = table[m]
  BY <1>1 DEF BlinkAtAnchor, RangingInitAtTag, PollAtAnchor, RangeAtAnchor, PollAckAtTag,
     TransmitRange, IgnoreFrame, Inv, Tables
<1>8. Sweeps'
  BY <1>6, <1>7, SweepsKept DEF Node
<1> QED
  BY <1>5, <1>8

LEMMA StutterCached ==
  ASSUME Inv, Cached, Sweeps, UNCHANGED vars
  PROVE  Cached' /\ Sweeps'
<1>1. UNCHANGED <<table, sweep, pc, receivedAck, pending, rxFrame>>
  BY DEF vars, loopVars, chipVars
<1>2. InAir' = InAir
  BY <1>1 DEF InAir, Underway, Heard, Hears, Transmitting
<1>3. AnchorsFreshen /\ Sweeps'
  BY <1>1, FreshensItself, SweepsKept DEF AnchorsFreshen
<1> QED
  BY <1>2, <1>3, CachedKept

LEMMA NextCached ==
  ASSUME Prompt, MaxRestarts = 0, Cardinality(Tags) <= MAX_DEVICES,
         Inv, Together, Cached, Sweeps, ShortSweeps, [Next]_vars
  PROVE  Cached' /\ Sweeps'
<1>1. ASSUME NEW n \in Node
      PROVE  ~Restart(n)
  BY DEF Restart, Inv, Timing
<1>2. ASSUME NEW n \in Node, Loop(n)
      PROVE  Cached' /\ Sweeps'
  BY <1>2, MildCached, TimerTickCached, RemoveCached, HandleSentCached, HandleReceivedCached
     DEF Loop
<1>3. CASE NextSlot \/ \E n \in Node : TxDone(n)
  BY <1>3, RadioCached
<1> QED
  BY <1>1, <1>2, <1>3, ElapseCached, StutterCached DEF Next

LEMMA InitCached ==
  ASSUME Init
  PROVE  Cached /\ Sweeps
<1>1. \A n \in Node : ~Transmitting(n) /\ ~Hears(n) /\ sweep[n] = {}
  BY OffSilent DEF Init, Transmitting, Hears
<1>2. InAir = {}
  BY <1>1 DEF InAir, Underway, Heard
<1> QED
  BY <1>1, <1>2 DEF Cached, Sweeps, DropsInactive, Node

LEMMA CachedNoOrphan ==
  ASSUME Inv, Together, Cached
  PROVE  NoOrphanRange
<1> SUFFICES ASSUME NEW n \in Anchors, pc[n] = "handle", data[n].type = "RANGE",
                    n \in DOMAIN data[n].devices
             PROVE  data[n].src \in Listed(table[n])
  BY DEF NoOrphanRange
<1>1. data[n] = rxFrame[n] /\ data[n] \in InAir
  BY DEF Together, Chip, InAir, Heard, Hears, Node
<1>2. Fresh(table[n], data[n].src)
  BY <1>1 DEF Cached
<1> QED
  BY <1>2 DEF Fresh, SlotsOf, Listed

(* Where every anchor has room for all tags, no node restarts, and no      *)
(* anchor that lists three tags or more sweeps two of them at once, the    *)
(* sender of a RANGE is one that the anchor has cached since its POLL, as  *)
(* loop() takes for granted.                                               *)
THEOREM NoOrphans ==
  ASSUME Prompt, MaxRestarts = 0, Cardinality(Tags) <= MAX_DEVICES
  PROVE  Spec /\ []ShortSweeps => []NoOrphanRange
<1>1. Init => Inv /\ Together /\ Cached /\ Sweeps
  BY InitInv, InitTogether, InitCached
<1>2. /\ Inv /\ Together /\ Cached /\ Sweeps /\ ShortSweeps /\ [Next]_vars
      => (Inv /\ Together /\ Cached /\ Sweeps)'
  BY NextInv, NextTogether, NextCached
<1>3. Inv /\ Together /\ Cached /\ Sweeps => NoOrphanRange
  BY CachedNoOrphan
<1> QED
  BY <1>1, <1>2, <1>3, PTL DEF Spec

(* With no more than two tags checkForInactiveDevices drops no device that *)
(* is not inactive, so loop() finds the sender of a RANGE in any such run. *)
THEOREM NoOrphansOfTwo ==
  ASSUME Prompt, MaxRestarts = 0, Cardinality(Tags) <= MAX_DEVICES, Cardinality(Tags) <= 2
  PROVE  Spec => []NoOrphanRange
<1>1. Inv => ShortSweeps
  <2> SUFFICES ASSUME Inv, NEW a \in Anchors
               PROVE  table[a].num <= 2
    BY DEF ShortSweeps
  <2>1. Good(a, table[a])
    BY DEF Inv, Tables, Node
  <2> DEFINE t == table[a]
             k == t.num
  <2> HIDE DEF t
  <2>2. k \in 0 .. 2
    BY <2>1, AtMostTwo DEF t
  <2> HIDE DEF k
  <2>3. k <= 2
    BY <2>2
  <2> QED
    BY <2>3 DEF k, t
<1>2. Spec => []Inv
  BY Invariance
<1> QED
  BY <1>1, <1>2, NoOrphans, PTL
================================================================================
