---------------------------- MODULE Ranging_proofs -----------------------------
(***************************************************************************)
(* The state of every node keeps its type and its table stays consistent,  *)
(* for any number of tags and anchors, any radio and any loop, slow ones   *)
(* included.                                                               *)
(*                                                                         *)
(* The two go together.  The table of a node is changed by the frames it   *)
(* hears, so the invariant says what a frame may hold; a tag polls the     *)
(* addresses of its table, so it says that only nodes of the other kind    *)
(* are listed (Good), never the unset address of the unused slots; and a   *)
(* sweep decrements the count without a test, so it says that there are    *)
(* no more indices left to remove than devices (Sweeping).                 *)
(***************************************************************************)
EXTENDS Ranging, DeviceTable_proofs

Partner(n) == IF n \in Tags THEN Anchors ELSE Tags

Good(n, t) == t \in TableOf(Device(n)) /\ TableOK(t) /\ Listed(t) \subseteq Partner(n)

Blinks == [type : {"BLINK"}, src : Tags, seq : Sequence, known : SUBSET Anchors]
Answers == [type : {"RANGING_INIT", "POLL_ACK"}, src : Anchors, seq : Sequence, dst : Tags]
Polls(D) == [type : {"POLL"}, src : Tags, seq : Sequence, devices : [D -> Nat]]
Ranges(D) == [type : {"RANGE"}, src : Tags, seq : Sequence, devices : [D -> Round]]

AllPolls == UNION {Polls(D) : D \in SUBSET Anchors}
AllRanges == UNION {Ranges(D) : D \in SUBSET Anchors}

Frame == {NoFrame} \cup Blinks \cup Answers \cup AllPolls \cup AllRanges

Transmission == [wait : Nat \cup {-1}, frame : Frame]

Tables == table = [n \in Node |-> table[n]] /\ \A n \in Node : Good(n, table[n])

Sweeping ==
  /\ sweep \in [Node -> SUBSET Slot]
  /\ pc \in [Node -> {"off", "top", "sweep", "recv", "get", "handle"}]
  /\ \A n \in Node : /\ pc[n] # "sweep" => sweep[n] = {}
                     /\ Cardinality(sweep[n]) <= table[n].num

Sending ==
  /\ seq \in [Node -> Sequence]
  /\ sentData \in [Node -> Frame]
  /\ pending \in [Node -> Transmission]

Receiving == data \in [Node -> Frame] /\ rxFrame \in [Node -> Frame]

Timing ==
  /\ counterForBlink \in [Node -> 0 .. BLINK_INTERVAL - 1]
  /\ sincePoll \in [Node -> 0 .. RECOVERY_TIME + 1]
  /\ quiet \in [Node -> 0 .. RESET_PERIOD + 1]
  /\ time \in Nat /\ restarts \in 0 .. MaxRestarts

Flags ==
  /\ sentAck \in [Node -> BOOLEAN] /\ receivedAck \in [Node -> BOOLEAN]
  /\ awaiting \in [Node -> BOOLEAN] /\ due \in [Node -> BOOLEAN] /\ deaf \in [Node -> BOOLEAN]
  /\ txStamp \in [Node -> Stamps]

Inv == Tables /\ Sweeping /\ Sending /\ Receiving /\ Timing /\ Flags

---------------------------------------------------------------------------
(* Constants and stamps *)

LEMMA Constants ==
  /\ SEQ_MOD \in Nat \ {0} /\ BLINK_INTERVAL \in Nat \ {0}
  /\ RESET_PERIOD \in Nat /\ RECOVERY_TIME \in Nat /\ MaxTime \in Nat /\ MaxRestarts \in Nat
  BY RangingAssumption

LEMMA SequenceNext == \A s \in Sequence : (s + 1) % SEQ_MOD \in Sequence
  BY Constants DEF Sequence

LEMMA FrameCases ==
  \A f : f \in Frame <=> \/ f = NoFrame \/ f \in Blinks \/ f \in Answers
                         \/ \E D \in SUBSET Anchors : f \in Polls(D) \/ f \in Ranges(D)
<1> SUFFICES ASSUME NEW f
             PROVE  f \in Frame <=> \/ f = NoFrame \/ f \in Blinks \/ f \in Answers
                                    \/ \E D \in SUBSET Anchors : f \in Polls(D) \/ f \in Ranges(D)
  OBVIOUS
<1>1. f \in AllPolls <=> \E D \in SUBSET Anchors : f \in Polls(D)
  BY DEF AllPolls
<1>2. f \in AllRanges <=> \E D \in SUBSET Anchors : f \in Ranges(D)
  BY DEF AllRanges
<1>3. f \in Frame <=> f = NoFrame \/ f \in Blinks \/ f \in Answers \/ f \in AllPolls \/ f \in AllRanges
  BY DEF Frame
<1> QED
  BY <1>1, <1>2, <1>3

(* What the handlers read of a frame.                                      *)
LEMMA FrameFields ==
  ASSUME NEW f \in Frame
  PROVE  /\ f.src \in Node \cup {NoAddress} /\ f.seq \in Sequence
         /\ f.type = "RANGING_INIT" => f.src \in Anchors
         /\ f.type = "BLINK" => f.src \in Tags
         /\ f.type = "POLL" => f.src \in Tags /\ \A m \in DOMAIN f.devices : f.devices[m] \in Nat
         /\ f.type = "RANGE" => f.src \in Tags /\ \A m \in DOMAIN f.devices : f.devices[m] \in Round
<1>1. CASE f = NoFrame
  BY <1>1, Constants DEF NoFrame, Sequence
<1>2. CASE f \in Blinks
  BY <1>2 DEF Blinks, Node
<1>3. CASE f \in Answers
  BY <1>3 DEF Answers, Node
<1>4. ASSUME NEW D \in SUBSET Anchors, f \in Polls(D)
      PROVE  /\ f.type = "POLL" /\ f.src \in Tags /\ f.seq \in Sequence
             /\ \A m \in DOMAIN f.devices : f.devices[m] \in Nat
  BY <1>4 DEF Polls
<1>5. ASSUME NEW D \in SUBSET Anchors, f \in Ranges(D)
      PROVE  /\ f.type = "RANGE" /\ f.src \in Tags /\ f.seq \in Sequence
             /\ \A m \in DOMAIN f.devices : f.devices[m] \in Round
  BY <1>5 DEF Ranges
<1>6. CASE \E D \in SUBSET Anchors : f \in Polls(D)
  BY <1>4, <1>6 DEF Node
<1>7. CASE \E D \in SUBSET Anchors : f \in Ranges(D)
  BY <1>5, <1>7 DEF Node
<1> QED
  BY <1>1, <1>2, <1>3, <1>6, <1>7, FrameCases

LEMMA FrameIsFrame == \A f \in Frame : IsFrame(f)
  BY FrameCases DEF IsFrame, Blinks, Answers, Polls, Ranges

LEMMA FrameStamp == \A f \in Frame : Stamp(f) \in Stamps
  BY FrameFields DEF Stamp, Stamps

LEMMA NoStampType == NoStamp \in Stamps /\ NoRound \in Round
  BY Constants DEF NoStamp, Stamps, NoRound, Round, Sequence

LEMMA RoundOfStamps == \A p, a \in Stamps : [poll |-> p, ack |-> a] \in Round
  BY DEF Stamps, Round, Sequence

---------------------------------------------------------------------------
(* Tables *)

LEMMA DevicesAreDevices == \A n : DeviceSet(Device(n))
  BY DEF DeviceSet, Device

LEMMA NewDeviceType ==
  ASSUME NEW n \in Node, NEW a \in Partner(n) \cup {NoAddress}, NEW d \in NewDevice(n, a)
  PROVE  d \in Device(n) /\ d.addr = a
<1>1. 0 \in Slot /\ 0 \in Age
  BY MaxDevicesAssumption, InactivityAssumption DEF Slot, Age
<1>2. d \in [addr : {a}, index : {0}, quality : Quality, age : {0}, acked : BOOLEAN,
             served : BOOLEAN, pollSent : {NoStamp}, ackReceived : {NoStamp},
             pollReceived : {NoStamp}, ackSent : {NoStamp}, round1 : {NoRound}]
  BY DEF NewDevice
<1> QED
  BY <1>1, <1>2, NoStampType DEF Device, Partner

LEMMA EmptyTableGood ==
  ASSUME NEW n \in Node
  PROVE  Good(n, EmptyTable(n)) /\ EmptyTable(n).num = 0
<1> DEFINE d == CHOOSE d \in NewDevice(n, NoAddress) : ~d.acked /\ ~d.served
           t == EmptyTable(n)
<1>1. \E e \in NewDevice(n, NoAddress) : ~e.acked /\ ~e.served
  <2>1. PICK q \in Quality : TRUE
    BY RangingAssumption
  <2> DEFINE e == [addr |-> NoAddress, index |-> 0, quality |-> q, age |-> 0,
                   acked |-> FALSE, served |-> FALSE, pollSent |-> NoStamp,
                   ackReceived |-> NoStamp, pollReceived |-> NoStamp, ackSent |-> NoStamp,
                   round1 |-> NoRound]
  <2>2. e \in NewDevice(n, NoAddress) /\ ~e.acked /\ ~e.served
    BY DEF NewDevice
  <2> QED
    BY <2>2
<1>2. d \in NewDevice(n, NoAddress)
  BY <1>1
<1>3. d \in Device(n)
  BY <1>2, NewDeviceType
<1>4. t = [dev |-> [i \in Slot |-> d], num |-> 0]
  BY DEF EmptyTable
<1> HIDE DEF d, t
<1>5. 0 \in Count /\ t \in TableOf(Device(n)) /\ t.num = 0
  BY <1>3, <1>4, MaxDevicesAssumption DEF Count, TableOf
<1>6. Used(t) = {}
  BY <1>5, MaxDevicesAssumption DEF Used, Slot
<1> QED
  BY <1>5, <1>6 DEF Good, TableOK, UniqueAddresses, IndexIsPosition, Listed, t

LEMMA AddGood ==
  ASSUME NEW n \in Node, NEW t, Good(n, t), NEW d \in Device(n), d.addr \in Partner(n),
         NEW u \in AddNetworkDevice(t, d)
  PROVE  Good(n, u)
<1>1. DeviceSet(Device(n)) /\ t \in TableOf(Device(n)) /\ TableOK(t)
  BY DevicesAreDevices DEF Good
<1>2. u \in TableOf(Device(n))
  BY <1>1, AddType
<1>3. TableOK(u)
  BY <1>1, AddTableOK
<1>4. Listed(u) \subseteq Listed(t) \cup {d.addr}
  BY <1>1, AddListed
<1> QED
  BY <1>2, <1>3, <1>4 DEF Good

LEMMA RemoveGood ==
  ASSUME NEW n \in Node, NEW t, Good(n, t), NEW i \in Slot, t.num > 0
  PROVE  Good(n, RemoveNetworkDevice(t, i))
<1>1. DeviceSet(Device(n)) /\ t \in TableOf(Device(n)) /\ TableOK(t)
  BY DevicesAreDevices DEF Good
<1>2. RemoveNetworkDevice(t, i) \in TableOf(Device(n))
  BY <1>1, RemoveType
<1>3. TableOK(RemoveNetworkDevice(t, i))
  BY <1>1, RemoveTableOK
<1>4. Listed(RemoveNetworkDevice(t, i)) \subseteq Listed(t)
  BY <1>1, RemoveListed
<1> QED
  BY <1>2, <1>3, <1>4 DEF Good

(* Marking devices changes neither addresses nor positions.                *)
LEMMA MarkedGood ==
  ASSUME NEW n \in Node, NEW t, Good(n, t), NEW u, u \in TableOf(Device(n)), u.num = t.num,
         \A i \in Slot : u.dev[i].addr = t.dev[i].addr /\ u.dev[i].index = t.dev[i].index
  PROVE  Good(n, u) /\ Listed(u) = Listed(t)
<1>1. Used(u) = Used(t) /\ Used(t) \subseteq Slot
  BY DEF Used
<1> QED
  BY <1>1 DEF Good, TableOK, UniqueAddresses, IndexIsPosition, Listed

(* e is the device d with something noted.                                 *)
Noted(n, d, e) == e \in Device(n) /\ e.addr = d.addr /\ e.index = d.index

LEMMA Notes ==
  ASSUME NEW n \in Node, NEW d \in Device(n), NEW s \in Stamps
  PROVE  /\ Noted(n, d, d)
         /\ Noted(n, d, PollMarked(d, s))
         /\ Noted(n, d, [d EXCEPT !.ackSent = s])
         /\ Noted(n, d, [d EXCEPT !.served = TRUE])
         /\ Noted(n, d, [d EXCEPT !.age = Older(d.age)])
         /\ Noted(n, d, PollNoted(d, s))
         /\ Noted(n, d, AckNoted(d, s))
         /\ \A q \in Quality, r \in Round :
              Noted(n, d, [d EXCEPT !.age = 0, !.quality = q, !.round1 = r])
<1>1. 0 \in Age /\ Older(d.age) \in Age
  BY InactivityAssumption DEF Age, Older, Device
<1>2. Noted(n, d, d)
  BY DEF Noted
<1>3. Noted(n, d, PollMarked(d, s))
  BY DEF Noted, Device, PollMarked
<1>4. Noted(n, d, [d EXCEPT !.ackSent = s])
  BY DEF Noted, Device
<1>5. Noted(n, d, [d EXCEPT !.served = TRUE])
  BY DEF Noted, Device
<1>6. Noted(n, d, [d EXCEPT !.age = Older(d.age)])
  BY <1>1 DEF Noted, Device
<1>7. Noted(n, d, PollNoted(d, s))
  BY <1>1 DEF Noted, Device, PollNoted
<1>8. Noted(n, d, AckNoted(d, s))
  BY <1>1 DEF Noted, Device, AckNoted
<1>9. ASSUME NEW q \in Quality, NEW r \in Round
      PROVE  Noted(n, d, [d EXCEPT !.age = 0, !.quality = q, !.round1 = r])
  BY <1>1 DEF Noted, Device
<1> QED
  BY <1>2, <1>3, <1>4, <1>5, <1>6, <1>7, <1>8, <1>9

LEMMA AllNoted ==
  ASSUME NEW n \in Node, NEW t, Good(n, t), NEW f, f = [i \in Slot |-> f[i]],
         \A i \in Slot : Noted(n, t.dev[i], f[i])
  PROVE  LET u == [t EXCEPT !.dev = f]
         IN Good(n, u) /\ Listed(u) = Listed(t) /\ u.num = t.num
<1> DEFINE u == [t EXCEPT !.dev = f]
<1>1. f \in [Slot -> Device(n)]
  BY DEF Noted
<1>2. u \in TableOf(Device(n)) /\ u.num = t.num /\ u.dev = f
  BY <1>1 DEF Good, TableOf
<1> HIDE DEF u
<1>3. Good(n, u) /\ Listed(u) = Listed(t)
  BY <1>2, MarkedGood DEF Noted
<1> QED
  BY <1>2, <1>3 DEF u

LEMMA OneNoted ==
  ASSUME NEW n \in Node, NEW t, Good(n, t), NEW i \in Slot, NEW e, Noted(n, t.dev[i], e)
  PROVE  LET u == [t EXCEPT !.dev[i] = e]
         IN Good(n, u) /\ Listed(u) = Listed(t) /\ u.num = t.num
<1> DEFINE f == [t.dev EXCEPT ![i] = e]
<1>1. t.dev \in [Slot -> Device(n)]
  BY DEF Good, TableOf
<1>2. f = [j \in Slot |-> f[j]] /\ \A j \in Slot : Noted(n, t.dev[j], f[j])
  BY <1>1 DEF Noted
<1>3. [t EXCEPT !.dev[i] = e] = [t EXCEPT !.dev = f]
  OBVIOUS
<1> HIDE DEF f
<1> QED
  BY <1>2, <1>3, AllNoted

LEMMA MarkUsedGood ==
  ASSUME NEW n \in Node, NEW t, Good(n, t), NEW marked,
         \A i \in Slot : Noted(n, t.dev[i], marked[i])
  PROVE  Good(n, MarkUsed(t, marked)) /\ MarkUsed(t, marked).num = t.num
<1> DEFINE f == [i \in Slot |-> IF i \in Used(t) THEN marked[i] ELSE t.dev[i]]
<1>1. t.dev \in [Slot -> Device(n)]
  BY DEF Good, TableOf
<1>2. f = [i \in Slot |-> f[i]] /\ \A i \in Slot : Noted(n, t.dev[i], f[i])
  BY <1>1 DEF Noted
<1>3. MarkUsed(t, marked) = [t EXCEPT !.dev = f]
  BY DEF MarkUsed
<1> HIDE DEF f
<1> QED
  BY <1>2, <1>3, AllNoted

LEMMA ServeGood ==
  ASSUME NEW n \in Node, NEW t, Good(n, t), NEW S
  PROVE  Good(n, Serve(t, S)) /\ Serve(t, S).num = t.num
<1> DEFINE f == [i \in Slot |-> IF i \in S THEN [t.dev[i] EXCEPT !.served = TRUE] ELSE t.dev[i]]
<1>1. t.dev \in [Slot -> Device(n)]
  BY DEF Good, TableOf
<1>2. \A i \in Slot : Noted(n, t.dev[i], f[i])
  <2> SUFFICES ASSUME NEW i \in Slot PROVE Noted(n, t.dev[i], f[i])
    OBVIOUS
  <2>1. Noted(n, t.dev[i], [t.dev[i] EXCEPT !.served = TRUE]) /\ Noted(n, t.dev[i], t.dev[i])
    BY <1>1, Notes, NoStampType
  <2> QED
    BY <2>1
<1>3. Serve(t, S) = [t EXCEPT !.dev = f] /\ f = [i \in Slot |-> f[i]]
  BY DEF Serve
<1> HIDE DEF f
<1> QED
  BY <1>2, <1>3, AllNoted

(* What a frame carries of the devices of some slots, by address.          *)
LEMMA ByAddressType ==
  ASSUME NEW t, NEW S \in SUBSET Used(t), NEW V, NEW val \in [S -> V]
  PROVE  \E D \in SUBSET Listed(t) : ByAddress(t, S, val) \in [D -> V]
<1> DEFINE D == {t.dev[i].addr : i \in S}
<1>1. D \in SUBSET Listed(t)
  BY DEF Listed
<1>2. ASSUME NEW a \in D
      PROVE  val[CHOOSE i \in S : t.dev[i].addr = a] \in V
  <2>1. \E i \in S : t.dev[i].addr = a
    OBVIOUS
  <2>2. (CHOOSE i \in S : t.dev[i].addr = a) \in S
    BY <2>1
  <2> QED
    BY <2>2
<1>3. ByAddress(t, S, val) \in [D -> V]
  BY <1>2 DEF ByAddress
<1> QED
  BY <1>1, <1>3

LEMMA FirstOfSubset == \A S, k : FirstOf(S, k) \subseteq S
  BY DEF FirstOf

---------------------------------------------------------------------------
(* Frames *)

LEMMA FramesBuilt ==
  ASSUME Sending, NEW n \in Node
  PROVE  /\ n \in Tags => \A known \in SUBSET Anchors : Blink(n, known) \in Frame
         /\ n \in Anchors => \A d \in Tags : RangingInit(n, d) \in Frame /\ PollAck(n, d) \in Frame
         /\ n \in Tags => \A D \in SUBSET Anchors : \A devs \in [D -> Nat] : Poll(n, devs) \in Frame
         /\ n \in Tags => \A D \in SUBSET Anchors : \A devs \in [D -> Round] : RangeFrame(n, devs) \in Frame
<1>1. seq[n] \in Sequence
  BY DEF Sending
<1>2. n \in Tags => \A known \in SUBSET Anchors : Blink(n, known) \in Blinks
  BY <1>1 DEF Blink, Blinks
<1>3. n \in Anchors => \A d \in Tags : RangingInit(n, d) \in Answers /\ PollAck(n, d) \in Answers
  BY <1>1 DEF RangingInit, PollAck, Answers
<1>4. n \in Tags => \A D \in SUBSET Anchors : \A devs \in [D -> Nat] : Poll(n, devs) \in Polls(D)
  BY <1>1 DEF Poll, Polls
<1>5. n \in Tags => \A D \in SUBSET Anchors : \A devs \in [D -> Round] : RangeFrame(n, devs) \in Ranges(D)
  BY <1>1 DEF RangeFrame, Ranges
<1> QED
  BY <1>2, <1>3, <1>4, <1>5, FrameCases

LEMMA OffType == Off \in Transmission
  BY FrameCases DEF Off, Transmission

LEMMA TransmitSends ==
  ASSUME Sending, NEW n \in Node, NEW f \in Frame, NEW wait \in Nat, Transmit(n, f, wait)
  PROVE  Sending'
<1>1. [wait |-> wait, frame |-> f] \in Transmission
  BY DEF Transmission
<1>2. (seq[n] + 1) % SEQ_MOD \in Sequence
  BY SequenceNext DEF Sending
<1> QED
  BY <1>1, <1>2 DEF Sending, Transmit

LEMMA ReceiverSends ==
  ASSUME Sending, NEW n \in Node, Receiver(n), UNCHANGED <<seq, sentData>>
  PROVE  Sending'
  BY OffType DEF Sending, Receiver

---------------------------------------------------------------------------
(* The parts of the invariant that a step leaves alone, and the table of   *)
(* one node.                                                               *)

LEMMA PartsKept ==
  ASSUME Inv
  PROVE  /\ UNCHANGED table => Tables'
         /\ UNCHANGED <<table, sweep, pc>> => Sweeping'
         /\ UNCHANGED <<seq, sentData, pending>> => Sending'
         /\ UNCHANGED <<data, rxFrame>> => Receiving'
         /\ UNCHANGED <<counterForBlink, sincePoll, quiet, time, restarts>> => Timing'
         /\ UNCHANGED <<sentAck, receivedAck, awaiting, due, deaf, txStamp>> => Flags'
<1>1. UNCHANGED table => Tables'
  BY DEF Inv, Tables
<1>2. UNCHANGED <<table, sweep, pc>> => Sweeping'
  BY DEF Inv, Sweeping
<1>3. UNCHANGED <<seq, sentData, pending>> => Sending'
  BY DEF Inv, Sending
<1>4. UNCHANGED <<data, rxFrame>> => Receiving'
  BY DEF Inv, Receiving
<1>5. UNCHANGED <<counterForBlink, sincePoll, quiet, time, restarts>> => Timing'
  BY DEF Inv, Timing
<1>6. UNCHANGED <<sentAck, receivedAck, awaiting, due, deaf, txStamp>> => Flags'
  BY DEF Inv, Flags
<1> QED
  BY <1>1, <1>2, <1>3, <1>4, <1>5, <1>6

LEMMA TableReplaced ==
  ASSUME Tables, NEW n \in Node, NEW t, Good(n, t), table' = [table EXCEPT ![n] = t]
  PROVE  Tables' /\ table'[n] = t /\ \A m \in Node \ {n} : table'[m] = table[m]
  BY DEF Tables

LEMMA GoodNum == \A n, t : Good(n, t) => t.num \in Nat /\ t.num \in Count
  BY MaxDevicesAssumption DEF Good, TableOf, Count

(* A node that is not sweeping may do anything to its table.               *)
LEMMA NoSweep ==
  ASSUME Sweeping, Tables', NEW n \in Node, pc[n] # "sweep", sweep' = sweep,
         NEW p \in {"off", "top", "recv", "get", "handle"}, pc' = [pc EXCEPT ![n] = p],
         \A m \in Node \ {n} : table'[m] = table[m]
  PROVE  Sweeping'
<1>1. sweep[n] = {} /\ Cardinality(sweep[n]) = 0
  BY FS_EmptySet DEF Sweeping
<1>2. \A m \in Node : table'[m].num \in Nat
  BY GoodNum DEF Tables
<1>3. \A m \in Node : Cardinality(sweep'[m]) <= table'[m].num
  <2> TAKE m \in Node
  <2>1. CASE m = n
    <3> DEFINE k == table'[m].num
               c == Cardinality(sweep'[m])
    <3>1. c = 0 /\ k \in Nat
      BY <1>1, <1>2, <2>1
    <3> HIDE DEF k, c
    <3>2. c <= k
      BY <3>1
    <3> QED
      BY <3>2 DEF k, c
  <2>2. CASE m # n
    BY <2>2 DEF Sweeping
  <2> QED
    BY <2>1, <2>2
<1> QED
  BY <1>1, <1>3 DEF Sweeping

---------------------------------------------------------------------------
(* The watchdog, the timer and the recovery *)

LEMMA CheckForResetInv ==
  ASSUME Inv, NEW n \in Node, CheckForReset(n)
  PROVE  Inv'
<1>1. Sending'
  BY ReceiverSends DEF Inv, CheckForReset
<1>2. Timing'
  BY Constants DEF Inv, Timing, CheckForReset
<1>3. Tables' /\ Sweeping' /\ Receiving' /\ Flags'
  BY PartsKept DEF CheckForReset
<1> QED
  BY <1>1, <1>2, <1>3 DEF Inv

LEMMA TransmitPollSends ==
  ASSUME Inv, NEW n \in Tags, TransmitPoll(n)
  PROVE  /\ Sending'
         /\ awaiting' = [awaiting EXCEPT ![n] = TRUE]
         /\ sincePoll' = [sincePoll EXCEPT ![n] = 0]
<1> DEFINE t == table[n]
           S == FirstOf(Used(t), devicePerPollTransmit)
           replyTime == [i \in S |-> getReplyTimeOfIndex(i)]
           devs == ByAddress(t, S, replyTime)
<1>1. n \in Node /\ Good(n, t) /\ Partner(n) = Anchors
  BY DEF Inv, Tables, Node, Partner
<1>2. S \in SUBSET Used(t)
  BY FirstOfSubset
<1>3. replyTime \in [S -> Nat]
  <2>1. \A i \in Nat : getReplyTimeOfIndex(i) \in Nat
    BY DEF getReplyTimeOfIndex, DEFAULT_REPLY_DELAY_TIME
  <2> HIDE DEF S
  <2>2. Used(t) \subseteq Slot /\ Slot \subseteq Nat
    BY MaxDevicesAssumption DEF Used, Slot
  <2>3. S \subseteq Nat
    BY <1>2, <2>2
  <2> QED
    BY <2>1, <2>3
<1>4. Transmit(n, Poll(n, devs), 0)
  BY DEF TransmitPoll
<1> HIDE DEF S, replyTime
<1>5. PICK D \in SUBSET Listed(t) : devs \in [D -> Nat]
  BY <1>2, <1>3, ByAddressType
<1>6. D \in SUBSET Anchors
  BY <1>1 DEF Good
<1> HIDE DEF devs
<1>7. Poll(n, devs) \in Frame
  BY <1>1, <1>5, <1>6, FramesBuilt DEF Inv
<1> QED
  BY <1>1, <1>4, <1>7, TransmitSends DEF Inv, TransmitPoll

LEMMA TimerTickInv ==
  ASSUME Inv, NEW n \in Node, TimerTick(n)
  PROVE  Inv'
<1>1. pc[n] = "top" /\ Good(n, table[n]) /\ table' = table
  BY DEF Inv, Tables, TimerTick
<1>2. Tables' /\ Receiving'
  BY PartsKept DEF TimerTick
<1>3. NextCounter(counterForBlink[n]) \in 0 .. BLINK_INTERVAL - 1
  <2>1. counterForBlink[n] \in Int
    BY DEF Inv, Timing
  <2> QED
    BY <2>1, Constants DEF NextCounter
<1>4. CASE counterForBlink[n] = 0
  <2>1. /\ IF n \in Tags THEN Transmit(n, Blink(n, Listed(table[n])), 0) ELSE TransmitNothing
        /\ sweep' = [sweep EXCEPT ![n] = InactiveSlots(table[n])]
        /\ pc' = [pc EXCEPT ![n] = IF InactiveSlots(table[n]) = {} THEN "top" ELSE "sweep"]
        /\ UNCHANGED <<awaiting, sincePoll>>
    BY <1>4 DEF TimerTick
  <2>2. Sending'
    <3>1. CASE n \in Tags
      <4>1. Blink(n, Listed(table[n])) \in Frame
        BY <1>1, <3>1, FramesBuilt DEF Inv, Good, Partner
      <4> QED
        BY <2>1, <3>1, <4>1, TransmitSends DEF Inv
    <3>2. CASE n \notin Tags
      BY <2>1, <3>2, PartsKept DEF TransmitNothing
    <3> QED
      BY <3>1, <3>2
  <2>3. Sweeping'
    <3> DEFINE S == InactiveSlots(table[n])
    <3>1. S \in SUBSET Used(table[n]) /\ S \in SUBSET Slot
      BY DEF InactiveSlots, Used
    <3>2. Cardinality(S) <= table[n].num
      BY <1>1, <3>1, UsedWithinCount, GoodNum
    <3> HIDE DEF S
    <3>3. /\ sweep' = [sweep EXCEPT ![n] = S]
          /\ pc' = [pc EXCEPT ![n] = IF S = {} THEN "top" ELSE "sweep"]
      BY <2>1 DEF S
    <3> QED
      BY <1>1, <3>1, <3>2, <3>3 DEF Inv, Sweeping
  <2>4. Timing'
    BY <1>3, <2>1 DEF Inv, Timing, TimerTick
  <2>5. Flags'
    BY <2>1 DEF Inv, Flags, TimerTick
  <2> QED
    BY <1>2, <2>2, <2>3, <2>4, <2>5 DEF Inv
<1>5. CASE counterForBlink[n] # 0
  <2>1. /\ IF n \in Tags /\ table[n].num > 0
           THEN TransmitPoll(n)
           ELSE TransmitNothing /\ UNCHANGED <<awaiting, sincePoll>>
        /\ UNCHANGED <<sweep, pc>>
    BY <1>5 DEF TimerTick
  <2>2. /\ Sending'
        /\ awaiting' \in [Node -> BOOLEAN] /\ sincePoll' \in [Node -> 0 .. RECOVERY_TIME + 1]
    <3>1. CASE n \in Tags /\ table[n].num > 0
      <4>1. /\ Sending'
            /\ awaiting' = [awaiting EXCEPT ![n] = TRUE]
            /\ sincePoll' = [sincePoll EXCEPT ![n] = 0]
        BY <2>1, <3>1, TransmitPollSends
      <4>2. awaiting' \in [Node -> BOOLEAN]
        BY <4>1 DEF Inv, Flags
      <4>3. 0 \in 0 .. RECOVERY_TIME + 1
        BY Constants
      <4>4. sincePoll' \in [Node -> 0 .. RECOVERY_TIME + 1]
        BY <4>1, <4>3 DEF Inv, Timing
      <4> QED
        BY <4>1, <4>2, <4>4
    <3>2. CASE ~(n \in Tags /\ table[n].num > 0)
      BY <2>1, <3>2, PartsKept DEF TransmitNothing, Inv, Flags, Timing
    <3> QED
      BY <3>1, <3>2
  <2>3. Sweeping'
    BY <1>1, <2>1, PartsKept
  <2>4. Timing'
    BY <1>3, <2>2 DEF Inv, Timing, TimerTick
  <2>5. Flags'
    BY <2>2 DEF Inv, Flags, TimerTick
  <2> QED
    BY <1>2, <2>2, <2>3, <2>4, <2>5 DEF Inv
<1> QED
  BY <1>4, <1>5

LEMMA RemoveNextInactiveInv ==
  ASSUME Inv, NEW n \in Node, RemoveNextInactive(n)
  PROVE  Inv'
<1>1. PICK i \in sweep[n] :
        /\ table' = [table EXCEPT ![n] = RemoveNetworkDevice(@, i)]
        /\ sweep' = [sweep EXCEPT ![n] = @ \ {i}]
        /\ pc' = [pc EXCEPT ![n] = IF sweep[n] = {i} THEN "top" ELSE "sweep"]
  BY DEF RemoveNextInactive
<1>2. /\ sweep \in [Node -> SUBSET Slot] /\ sweep[n] \in SUBSET Slot /\ i \in Slot
      /\ Good(n, table[n]) /\ Cardinality(sweep[n]) <= table[n].num
      /\ table[n].num \in Nat
  BY <1>1, GoodNum DEF Inv, Sweeping, Tables
<1> DEFINE S == sweep[n]
           R == sweep[n] \ {i}
           t == table[n]
           u == RemoveNetworkDevice(t, i)
<1>3. /\ Cardinality(R) = Cardinality(S) - 1 /\ Cardinality(S) \in Nat
      /\ Cardinality(R) \in Nat
  <2>1. IsFiniteSet(S) /\ Cardinality(S) \in Nat /\ Cardinality(R) \in Nat
    BY <1>2, SlotsFinite
  <2> QED
    BY <1>1, <2>1, FS_RemoveElement
<1>4. t.num > 0 /\ Cardinality(R) <= t.num - 1 /\ u.num = t.num - 1
  BY <1>2, <1>3 DEF RemoveNetworkDevice
<1>5. Good(n, u)
  BY <1>2, <1>4, RemoveGood
<1> HIDE DEF S, R, t, u
<1>6. table' = [table EXCEPT ![n] = u] /\ sweep' = [sweep EXCEPT ![n] = R]
  BY <1>1 DEF u, t, R
<1>7. Tables' /\ table'[n] = u /\ \A m \in Node \ {n} : table'[m] = table[m]
  BY <1>5, <1>6, TableReplaced DEF Inv
<1>8. Sweeping'
  <2>1. R \in SUBSET Slot /\ Cardinality(R) <= u.num
    BY <1>2, <1>4 DEF R
  <2>2. sweep' \in [Node -> SUBSET Slot]
    BY <1>2, <1>6, <2>1
  <2>3. pc' \in [Node -> {"off", "top", "sweep", "recv", "get", "handle"}]
    BY <1>1 DEF Inv, Sweeping
  <2>4. sweep[n] = {i} => R = {}
    BY DEF R
  <2>5. sweep'[n] = R /\ \A m \in Node \ {n} : sweep'[m] = sweep[m] /\ pc'[m] = pc[m]
    BY <1>1, <1>2, <1>6 DEF Inv, Sweeping
  <2>6. pc'[n] = IF sweep[n] = {i} THEN "top" ELSE "sweep"
    BY <1>1 DEF Inv, Sweeping
  <2>7. \A m \in Node : pc'[m] # "sweep" => sweep'[m] = {}
    BY <2>4, <2>5, <2>6 DEF Inv, Sweeping
  <2>8. \A m \in Node : Cardinality(sweep'[m]) <= table'[m].num
    BY <1>7, <2>1, <2>5 DEF Inv, Sweeping
  <2> QED
    BY <2>2, <2>3, <2>7, <2>8 DEF Sweeping
<1>9. Sending' /\ Receiving' /\ Timing' /\ Flags'
  BY PartsKept DEF RemoveNextInactive, chipVars
<1> QED
  BY <1>7, <1>8, <1>9 DEF Inv

LEMMA RecoverySelectInv ==
  ASSUME Inv, NEW n \in Node, RecoverySelect(n)
  PROVE  Inv'
<1>1. Tables' /\ Sweeping' /\ Receiving' /\ Timing'
  BY PartsKept DEF RecoverySelect
<1>2. Sending'
  BY OffType DEF Inv, Sending, RecoverySelect
<1>3. Flags'
  BY DEF Inv, Flags, RecoverySelect
<1> QED
  BY <1>1, <1>2, <1>3 DEF Inv

---------------------------------------------------------------------------
(* The sent event and the received event *)

LEMMA HandleSentInv ==
  ASSUME Inv, NEW n \in Node, HandleSent(n)
  PROVE  Inv'
<1> DEFINE t == table[n]
<1>1. Good(n, t) /\ t.dev \in [Slot -> Device(n)] /\ txStamp[n] \in Stamps
  BY DEF Inv, Tables, Flags, Good, TableOf
<1>2. \E u : Good(n, u) /\ table' = [table EXCEPT ![n] = u]
  <2>1. CASE PollSent(n)
    <3> DEFINE marked == [i \in Slot |-> PollMarked(t.dev[i], txStamp[n])]
               u == MarkUsed(t, marked)
    <3>1. \A i \in Slot : Noted(n, t.dev[i], marked[i])
      BY <1>1, Notes
    <3>2. Good(n, u)
      BY <1>1, <3>1, MarkUsedGood
    <3>3. table' = [table EXCEPT ![n] = u]
      BY <2>1 DEF PollSent
    <3> QED
      BY <3>2, <3>3
  <2>2. CASE PollAckSent(n)
    <3> DEFINE marked == [i \in Slot |-> [t.dev[i] EXCEPT !.ackSent =
                            IF t.dev[i].addr = sentData[n].dst THEN txStamp[n] ELSE @]]
               u == MarkUsed(t, marked)
    <3>1. \A i \in Slot : Noted(n, t.dev[i], marked[i])
      <4> TAKE i \in Slot
      <4>1. t.dev[i] \in Device(n) /\ t.dev[i].ackSent \in Stamps
        BY <1>1 DEF Device
      <4> DEFINE s == IF t.dev[i].addr = sentData[n].dst THEN txStamp[n] ELSE t.dev[i].ackSent
      <4>2. s \in Stamps /\ marked[i] = [t.dev[i] EXCEPT !.ackSent = s]
        BY <1>1, <4>1
      <4> HIDE DEF s, marked
      <4>3. Noted(n, t.dev[i], [t.dev[i] EXCEPT !.ackSent = s])
        BY <4>1, <4>2, Notes
      <4> QED
        BY <4>2, <4>3
    <3>2. Good(n, u)
      BY <1>1, <3>1, MarkUsedGood
    <3>3. table' = [table EXCEPT ![n] = u]
      BY <2>2 DEF PollAckSent
    <3> QED
      BY <3>2, <3>3
  <2>3. CASE OtherSent(n)
    <3>1. table' = [table EXCEPT ![n] = t]
      BY <2>3 DEF OtherSent, Inv, Tables
    <3> QED
      BY <1>1, <3>1
  <2> QED
    BY <2>1, <2>2, <2>3 DEF HandleSent
<1>3. Tables' /\ \A m \in Node \ {n} : table'[m] = table[m]
  BY <1>2, TableReplaced DEF Inv
<1>4. Sweeping'
  <2>1. pc[n] # "sweep" /\ sweep' = sweep
    BY DEF HandleSent
  <2>2. PICK p \in {"recv", "top"} : pc' = [pc EXCEPT ![n] = p]
    BY DEF HandleSent
  <2> QED
    BY <1>3, <2>1, <2>2, NoSweep DEF Inv
<1>5. Sending'
  <2>1. UNCHANGED <<seq, sentData>> /\ (Receiver(n) \/ UNCHANGED pending)
    BY DEF HandleSent, PollSent, PollAckSent, OtherSent
  <2> QED
    BY <2>1, ReceiverSends, PartsKept DEF Inv
<1>6. Receiving' /\ Timing'
  BY PartsKept DEF HandleSent
<1>7. Flags'
  BY DEF Inv, Flags, HandleSent
<1> QED
  BY <1>3, <1>4, <1>5, <1>6, <1>7 DEF Inv

LEMMA NothingSentInv ==
  ASSUME Inv, NEW n \in Node, NothingSent(n)
  PROVE  Inv'
<1>1. Tables' /\ Sending' /\ Receiving' /\ Timing' /\ Flags'
  BY PartsKept DEF NothingSent, chipVars
<1>2. Sweeping'
  <2>1. pc[n] # "sweep" /\ sweep' = sweep /\ table' = table
    BY DEF NothingSent
  <2>2. PICK p \in {"recv"} : pc' = [pc EXCEPT ![n] = p]
    BY DEF NothingSent
  <2> QED
    BY <1>1, <2>1, <2>2, NoSweep DEF Inv
<1> QED
  BY <1>1, <1>2 DEF Inv

LEMMA CheckReceivedInv ==
  ASSUME Inv, NEW n \in Node, CheckReceived(n)
  PROVE  Inv'
<1>1. Tables' /\ Sending' /\ Receiving' /\ Timing'
  BY PartsKept DEF CheckReceived
<1>2. Sweeping'
  <2>1. pc[n] # "sweep" /\ sweep' = sweep /\ table' = table
    BY DEF CheckReceived
  <2>2. PICK p \in {"get", "top"} : pc' = [pc EXCEPT ![n] = p]
    BY DEF CheckReceived
  <2> QED
    BY <1>1, <2>1, <2>2, NoSweep DEF Inv
<1>3. Flags'
  BY DEF Inv, Flags, CheckReceived
<1> QED
  BY <1>1, <1>2, <1>3 DEF Inv

LEMMA GetDataInv ==
  ASSUME Inv, NEW n \in Node, GetData(n)
  PROVE  Inv'
<1>1. Tables' /\ Sending' /\ Timing' /\ Flags'
  BY PartsKept DEF GetData, chipVars
<1>2. Sweeping'
  <2>1. pc[n] # "sweep" /\ sweep' = sweep /\ table' = table /\ pc' = [pc EXCEPT ![n] = "handle"]
    BY DEF GetData
  <2> QED
    BY <1>1, <2>1, NoSweep DEF Inv
<1>3. Receiving'
  BY DEF Inv, Receiving, GetData, chipVars
<1> QED
  BY <1>1, <1>2, <1>3 DEF Inv

(* The table a frame may leave and what may be sent in answer.             *)
LEMMA BlinkStep ==
  ASSUME Inv, NEW n \in Node, NEW f \in Frame, BlinkAtAnchor(n, f)
  PROVE  Sending' /\ table' = table /\ awaiting' = awaiting /\ quiet' = [quiet EXCEPT ![n] = 0]
<1>1. table' = table /\ awaiting' = awaiting /\ quiet' = [quiet EXCEPT ![n] = 0]
  BY DEF BlinkAtAnchor, NoteActivity
<1>2. f.src \in Tags /\ n \in Anchors
  BY FrameFields DEF BlinkAtAnchor
<1>3. RangingInit(n, f.src) \in Frame
  BY <1>2, FramesBuilt DEF Inv
<1>4. TransmitNothing => Sending'
  BY PartsKept DEF TransmitNothing
<1>5. ASSUME NEW slot \in RandomSlots, Transmit(n, RangingInit(n, f.src), slotDuration * slot)
      PROVE  Sending'
  <2>1. slotDuration * slot \in Nat
    BY RangingAssumption DEF slotDuration
  <2> QED
    BY <1>3, <1>5, <2>1, TransmitSends DEF Inv
<1>6. Sending'
  BY <1>4, <1>5 DEF BlinkAtAnchor
<1> QED
  BY <1>1, <1>6

LEMMA RangingInitStep ==
  ASSUME Inv, NEW n \in Node, NEW f \in Frame, RangingInitAtTag(n, f)
  PROVE  /\ Sending' /\ awaiting' = awaiting /\ quiet' = [quiet EXCEPT ![n] = 0]
         /\ \E u : Good(n, u) /\ table' = [table EXCEPT ![n] = u]
<1>1. awaiting' = awaiting /\ quiet' = [quiet EXCEPT ![n] = 0] /\ TransmitNothing
  BY DEF RangingInitAtTag, NoteActivity
<1>2. Sending'
  BY <1>1, PartsKept DEF TransmitNothing
<1>3. n \in Tags /\ f.src \in Anchors /\ f.src \in Partner(n)
  BY FrameFields DEF RangingInitAtTag, Partner
<1>4. PICK d \in NewDevice(n, f.src) :
        \E t \in AddNetworkDevice(table[n], d) : table' = [table EXCEPT ![n] = t]
  BY DEF RangingInitAtTag
<1>7. PICK t \in AddNetworkDevice(table[n], d) : table' = [table EXCEPT ![n] = t]
  BY <1>4
<1>5. d \in Device(n) /\ d.addr \in Partner(n)
  BY <1>3, NewDeviceType
<1>6. Good(n, t)
  BY <1>5, AddGood DEF Inv, Tables
<1> QED
  BY <1>1, <1>2, <1>6, <1>7

LEMMA PollStep ==
  ASSUME Inv, NEW n \in Node, NEW f \in Frame, PollAtAnchor(n, f)
  PROVE  /\ Sending' /\ awaiting' = awaiting /\ quiet' = [quiet EXCEPT ![n] = 0]
         /\ \E u : Good(n, u) /\ table' = [table EXCEPT ![n] = u]
<1>1. awaiting' = awaiting /\ quiet' = [quiet EXCEPT ![n] = 0]
  BY DEF PollAtAnchor, NoteActivity
<1>2. /\ n \in Anchors /\ n \notin Tags /\ f.src \in Tags /\ f.src \in Partner(n)
      /\ f.devices[n] \in Nat
  BY FrameFields, NodeAssumption DEF PollAtAnchor, Partner
<1>3. PollAck(n, f.src) \in Frame
  BY <1>2, FramesBuilt DEF Inv
<1>4. Sending'
  BY <1>2, <1>3, TransmitSends DEF PollAtAnchor, Inv
<1> DEFINE s == Stamp(rxFrame[n])
<1>5. s \in Stamps
  BY FrameStamp DEF Inv, Receiving
<1> HIDE DEF s
<1>6. PICK d \in NewDevice(n, f.src) :
        \E t \in AddNetworkDevice(table[n], d) : \E i \in SlotsOf(t, f.src) :
          table' = [table EXCEPT ![n] = [t EXCEPT !.dev[i] = PollNoted(@, s)]]
  BY DEF PollAtAnchor, s
<1>13. PICK t \in AddNetworkDevice(table[n], d) : \E i \in SlotsOf(t, f.src) :
         table' = [table EXCEPT ![n] = [t EXCEPT !.dev[i] = PollNoted(@, s)]]
  BY <1>6
<1>14. PICK i \in SlotsOf(t, f.src) :
         table' = [table EXCEPT ![n] = [t EXCEPT !.dev[i] = PollNoted(@, s)]]
  BY <1>13
<1>7. d \in Device(n) /\ d.addr \in Partner(n)
  BY <1>2, NewDeviceType
<1>8. Good(n, t)
  BY <1>7, AddGood DEF Inv, Tables
<1>9. i \in Slot /\ t.dev[i] \in Device(n)
  BY <1>8 DEF SlotsOf, Used, Good, TableOf
<1> DEFINE e == PollNoted(t.dev[i], s)
<1>10. Noted(n, t.dev[i], e)
  BY <1>5, <1>9, Notes
<1>11. table' = [table EXCEPT ![n] = [t EXCEPT !.dev[i] = e]]
  BY <1>14
<1> HIDE DEF e
<1>12. Good(n, [t EXCEPT !.dev[i] = e])
  BY <1>8, <1>9, <1>10, OneNoted
<1> QED
  BY <1>1, <1>4, <1>11, <1>12

LEMMA RangeStep ==
  ASSUME Inv, NEW n \in Node, NEW f \in Frame, RangeAtAnchor(n, f)
  PROVE  /\ Sending' /\ awaiting' = awaiting /\ quiet' = [quiet EXCEPT ![n] = 0]
         /\ \E u : Good(n, u) /\ table' = [table EXCEPT ![n] = u]
<1>1. awaiting' = awaiting /\ quiet' = [quiet EXCEPT ![n] = 0] /\ TransmitNothing
  BY DEF RangeAtAnchor, NoteActivity
<1>2. Sending'
  BY <1>1, PartsKept DEF TransmitNothing
<1> DEFINE t == table[n]
           r == f.devices[n]
<1>3. r \in Round
  BY FrameFields DEF RangeAtAnchor
<1> HIDE DEF r
<1>4. PICK i \in SlotsOf(t, f.src), q \in Quality :
        table' = [table EXCEPT ![n].dev[i] = [@ EXCEPT !.age = 0, !.quality = q, !.round1 = r]]
  BY DEF RangeAtAnchor, r
<1>5. Good(n, t) /\ i \in Slot /\ t.dev[i] \in Device(n)
  BY DEF Inv, Tables, SlotsOf, Used, Good, TableOf
<1> DEFINE e == [t.dev[i] EXCEPT !.age = 0, !.quality = q, !.round1 = r]
<1>6. Noted(n, t.dev[i], e)
  <2>1. NoStamp \in Stamps
    BY NoStampType
  <2> HIDE DEF t
  <2> QED
    BY <1>3, <1>5, <2>1, Notes
<1>7. table' = [table EXCEPT ![n] = [t EXCEPT !.dev[i] = e]]
  BY <1>4
<1> HIDE DEF e
<1>8. Good(n, [t EXCEPT !.dev[i] = e])
  BY <1>5, <1>6, OneNoted
<1> QED
  BY <1>1, <1>2, <1>7, <1>8

LEMMA TransmitRangeStep ==
  ASSUME Inv, NEW n \in Tags, NEW t, Good(n, t), TransmitRange(n, t)
  PROVE  /\ Sending' /\ awaiting' = [awaiting EXCEPT ![n] = FALSE]
         /\ \E u : Good(n, u) /\ table' = [table EXCEPT ![n] = u]
<1> DEFINE S == Answered(t)
           measured == [i \in S |-> [poll |-> t.dev[i].pollSent, ack |-> t.dev[i].ackReceived]]
           devs == ByAddress(t, S, measured)
<1>1. n \in Node /\ Partner(n) = Anchors
  BY DEF Node, Partner
<1>2. S \in SUBSET Used(t) /\ Used(t) \subseteq Slot
  BY FirstOfSubset DEF Answered, Used
<1>3. \A i \in Slot : t.dev[i] \in Device(n)
  BY DEF Good, TableOf
<1>4. measured \in [S -> Round]
  <2>1. \A i \in S : t.dev[i].pollSent \in Stamps /\ t.dev[i].ackReceived \in Stamps
    BY <1>2, <1>3 DEF Device
  <2> HIDE DEF S
  <2> QED
    BY <2>1, RoundOfStamps
<1>5. /\ awaiting' = [awaiting EXCEPT ![n] = FALSE]
      /\ table' = [table EXCEPT ![n] = Serve(t, S)]
      /\ \/ TransmitNothing
         \/ Transmit(n, RangeFrame(n, devs), DEFAULT_REPLY_DELAY_TIME)
  BY DEF TransmitRange
<1> HIDE DEF S, measured
<1>6. Good(n, Serve(t, S))
  BY <1>1, ServeGood
<1>7. PICK D \in SUBSET Listed(t) : devs \in [D -> Round]
  BY <1>2, <1>4, ByAddressType
<1>8. D \in SUBSET Anchors
  BY <1>1 DEF Good
<1> HIDE DEF devs
<1>9. RangeFrame(n, devs) \in Frame
  BY <1>1, <1>7, <1>8, FramesBuilt DEF Inv
<1>10. Sending'
  <2>1. DEFAULT_REPLY_DELAY_TIME \in Nat
    BY DEF DEFAULT_REPLY_DELAY_TIME
  <2>2. CASE TransmitNothing
    BY <2>2, PartsKept DEF TransmitNothing
  <2>3. CASE Transmit(n, RangeFrame(n, devs), DEFAULT_REPLY_DELAY_TIME)
    BY <1>1, <1>9, <2>1, <2>3, TransmitSends DEF Inv
  <2> QED
    BY <1>5, <2>2, <2>3
<1> QED
  BY <1>5, <1>6, <1>10

LEMMA PollAckStep ==
  ASSUME Inv, NEW n \in Node, NEW f \in Frame, PollAckAtTag(n, f)
  PROVE  /\ Sending' /\ awaiting' = [awaiting EXCEPT ![n] = FALSE]
         /\ quiet' = [quiet EXCEPT ![n] = 0]
         /\ \E u : Good(n, u) /\ table' = [table EXCEPT ![n] = u]
<1>1. n \in Tags /\ quiet' = [quiet EXCEPT ![n] = 0]
  BY DEF PollAckAtTag, NoteActivity
<1> DEFINE t == table[n]
           s == Stamp(rxFrame[n])
<1>2. s \in Stamps
  BY FrameStamp DEF Inv, Receiving
<1> HIDE DEF s
<1>3. PICK i \in SlotsOf(t, f.src) : TransmitRange(n, [t EXCEPT !.dev[i] = AckNoted(@, s)])
  BY DEF PollAckAtTag, s
<1>4. Good(n, t) /\ i \in Slot /\ t.dev[i] \in Device(n)
  BY DEF Inv, Tables, SlotsOf, Used, Good, TableOf
<1> DEFINE e == AckNoted(t.dev[i], s)
<1>5. Noted(n, t.dev[i], e)
  BY <1>2, <1>4, Notes
<1>6. TransmitRange(n, [t EXCEPT !.dev[i] = e])
  BY <1>3
<1> HIDE DEF e
<1>7. Good(n, [t EXCEPT !.dev[i] = e])
  BY <1>4, <1>5, OneNoted
<1> QED
  BY <1>1, <1>6, <1>7, TransmitRangeStep

LEMMA HandleReceivedInv ==
  ASSUME Inv, NEW n \in Node, HandleReceived(n)
  PROVE  Inv'
<1> DEFINE f == data[n]
<1>1. f \in Frame
  BY DEF Inv, Receiving
<1>2. /\ BlinkAtAnchor(n, f) \/ RangingInitAtTag(n, f) \/ PollAtAnchor(n, f)
         \/ RangeAtAnchor(n, f) \/ PollAckAtTag(n, f) \/ IgnoreFrame(n, f)
      /\ data' = [data EXCEPT ![n] = NoFrame]
      /\ pc[n] = "handle" /\ pc' = [pc EXCEPT ![n] = "top"]
      /\ UNCHANGED <<sweep, counterForBlink, sincePoll, due, deaf, sentAck, receivedAck,
                     txStamp, rxFrame, time, restarts>>
  BY DEF HandleReceived
<1> HIDE DEF f
<1>3. Good(n, table[n]) /\ table = [table EXCEPT ![n] = table[n]]
  BY DEF Inv, Tables
<1>4. IgnoreFrame(n, f) => Sending' /\ UNCHANGED <<table, awaiting, quiet>>
  BY PartsKept DEF IgnoreFrame, TransmitNothing
<1>5. /\ Sending'
      /\ awaiting' = awaiting \/ awaiting' = [awaiting EXCEPT ![n] = FALSE]
      /\ quiet' = quiet \/ quiet' = [quiet EXCEPT ![n] = 0]
      /\ table' = table \/ \E u : Good(n, u) /\ table' = [table EXCEPT ![n] = u]
  BY <1>1, <1>2, <1>4, BlinkStep, RangingInitStep, PollStep, RangeStep, PollAckStep
<1>6. PICK u : Good(n, u) /\ table' = [table EXCEPT ![n] = u]
  BY <1>3, <1>5
<1>7. Tables' /\ \A m \in Node \ {n} : table'[m] = table[m]
  BY <1>6, TableReplaced DEF Inv
<1>8. Sweeping'
  BY <1>2, <1>7, NoSweep DEF Inv
<1>9. Receiving'
  <2>1. NoFrame \in Frame
    BY FrameCases
  <2> QED
    BY <1>2, <2>1 DEF Inv, Receiving
<1>10. Timing'
  <2>1. 0 \in 0 .. RESET_PERIOD + 1
    BY Constants
  <2> QED
    BY <1>2, <1>5, <2>1 DEF Inv, Timing
<1>11. Flags'
  BY <1>2, <1>5 DEF Inv, Flags
<1> QED
  BY <1>5, <1>7, <1>8, <1>9, <1>10, <1>11 DEF Inv

---------------------------------------------------------------------------
(* The radio, the clock and the power switch *)

LEMMA TxDoneInv ==
  ASSUME Inv, NEW n \in Node, TxDone(n)
  PROVE  Inv'
<1>1. PICK heard \in SUBSET Node :
        /\ pending' = [m \in Node |-> IF m \in heard \cup {n} THEN Off ELSE pending[m]]
        /\ receivedAck' = [m \in Node |-> m \in heard \/ receivedAck[m]]
        /\ rxFrame' = [m \in Node |-> IF m \in heard THEN pending[n].frame ELSE rxFrame[m]]
  BY DEF TxDone, On
<1>2. /\ \/ UNCHANGED <<sentAck, txStamp>>
         \/ /\ sentAck' = [sentAck EXCEPT ![n] = TRUE]
            /\ txStamp' = [txStamp EXCEPT ![n] = Stamp(pending[n].frame)]
      /\ UNCHANGED <<loopVars, time, restarts>>
  BY DEF TxDone
<1>3. pending[n].frame \in Frame
  BY DEF Inv, Sending, Transmission
<1>4. Stamp(pending[n].frame) \in Stamps
  BY <1>3, FrameStamp
<1>5. Tables' /\ Sweeping' /\ Timing'
  BY <1>2, PartsKept DEF loopVars
<1>6. Sending'
  BY <1>1, <1>2, OffType DEF Inv, Sending, loopVars
<1>7. Receiving'
  BY <1>1, <1>2, <1>3 DEF Inv, Receiving, loopVars
<1>8. Flags'
  <2>1. receivedAck' \in [Node -> BOOLEAN]
    <3>1. \A m \in Node : (m \in heard \/ receivedAck[m]) \in BOOLEAN
      OBVIOUS
    <3> QED
      BY <1>1, <3>1
  <2>2. sentAck' \in [Node -> BOOLEAN] /\ txStamp' \in [Node -> Stamps]
    BY <1>2, <1>4 DEF Inv, Flags
  <2> QED
    BY <1>2, <2>1, <2>2 DEF Inv, Flags, loopVars
<1> QED
  BY <1>5, <1>6, <1>7, <1>8 DEF Inv

LEMMA NextSlotInv ==
  ASSUME Inv, NextSlot
  PROVE  Inv'
<1>1. PICK n \in Node :
        /\ pending[n].wait > 0
        /\ \A m \in Node : Transmitting(m) => pending[m].wait >= pending[n].wait
        /\ pending' = [m \in Node |-> IF Transmitting(m)
                                      THEN [pending[m] EXCEPT !.wait = @ - pending[n].wait]
                                      ELSE pending[m]]
  BY DEF NextSlot
<1>2. UNCHANGED <<loopVars, sentAck, receivedAck, txStamp, rxFrame, time, restarts>>
  BY DEF NextSlot
<1>3. \A m \in Node : pending[m] \in Transmission
  BY DEF Inv, Sending
<1>4. ASSUME NEW m \in Node, Transmitting(m)
      PROVE  [pending[m] EXCEPT !.wait = pending[m].wait - pending[n].wait] \in Transmission
  <2> DEFINE w == pending[m].wait
             v == pending[n].wait
  <2>1. w \in Nat /\ v \in Nat /\ w >= v
    BY <1>1, <1>3, <1>4 DEF Transmitting, Transmission
  <2> HIDE DEF w, v
  <2>2. w - v \in Nat \cup {-1}
    BY <2>1
  <2> QED
    BY <1>3, <2>2 DEF Transmission, w, v
<1>5. pending' \in [Node -> Transmission]
  BY <1>1, <1>3, <1>4
<1>6. Sending'
  BY <1>2, <1>5 DEF Inv, Sending, loopVars
<1>7. Tables' /\ Sweeping' /\ Receiving' /\ Timing' /\ Flags'
  BY <1>2, PartsKept DEF loopVars
<1> QED
  BY <1>6, <1>7 DEF Inv

(* All the devices of a node grow older.                                   *)
LEMMA AgedGood ==
  ASSUME NEW n \in Node, NEW t, Good(n, t)
  PROVE  Good(n, Aged(t)) /\ Aged(t).num = t.num
<1> DEFINE f == [i \in Slot |-> [t.dev[i] EXCEPT !.age = Older(t.dev[i].age)]]
<1>1. t.dev \in [Slot -> Device(n)]
  BY DEF Good, TableOf
<1>2. \A i \in Slot : Noted(n, t.dev[i], f[i])
  <2> TAKE i \in Slot
  <2>1. Noted(n, t.dev[i], [t.dev[i] EXCEPT !.age = Older(t.dev[i].age)])
    BY <1>1, Notes, NoStampType
  <2> QED
    BY <2>1
<1>3. f = [i \in Slot |-> f[i]]
  OBVIOUS
<1>4. Aged(t) = [t EXCEPT !.dev = f]
  BY DEF Aged
<1> HIDE DEF f
<1> QED
  BY <1>2, <1>3, <1>4, AllNoted

LEMMA LongerBound == \A b \in Nat : \A t \in 0 .. b + 1 : Longer(t, b) \in 0 .. b + 1
  BY DEF Longer

LEMMA ElapseInv ==
  ASSUME Inv, Elapse
  PROVE  Inv'
<1>1. table' = [n \in Node |-> IF n \in On THEN Aged(table[n]) ELSE table[n]]
  BY DEF Elapse
<1>2. \A n \in Node : Good(n, Aged(table[n])) /\ Aged(table[n]).num = table[n].num
  BY AgedGood DEF Inv, Tables
<1>3. Tables' /\ \A n \in Node : table'[n].num = table[n].num
  BY <1>1, <1>2 DEF Inv, Tables
<1>4. Sweeping'
  <2>1. sweep' = sweep /\ pc' = pc
    BY DEF Elapse
  <2> QED
    BY <1>3, <2>1 DEF Inv, Sweeping
<1>5. Sending' /\ Receiving'
  BY PartsKept DEF Elapse, chipVars
<1>6. Timing'
  <2>1. quiet' \in [Node -> 0 .. RESET_PERIOD + 1]
    <3>1. 0 \in 0 .. RESET_PERIOD + 1
      BY Constants
    <3>2. \A n \in Node : Longer(quiet[n], RESET_PERIOD) \in 0 .. RESET_PERIOD + 1
      BY Constants, LongerBound DEF Inv, Timing
    <3> QED
      BY <3>1, <3>2 DEF Elapse
  <2>2. sincePoll' \in [Node -> 0 .. RECOVERY_TIME + 1]
    <3>1. 0 \in 0 .. RECOVERY_TIME + 1
      BY Constants
    <3>2. \A n \in Node : Longer(sincePoll[n], RECOVERY_TIME) \in 0 .. RECOVERY_TIME + 1
      BY Constants, LongerBound DEF Inv, Timing
    <3> QED
      BY <3>1, <3>2 DEF Elapse
  <2>3. time' \in Nat
    <3>1. time' = time + 1 \/ time' = 0
      BY DEF Elapse
    <3> DEFINE now == time
    <3>2. now \in Nat
      BY DEF Inv, Timing
    <3> HIDE DEF now
    <3>3. now + 1 \in Nat
      BY <3>2
    <3> QED
      BY <3>1, <3>3 DEF now
  <2> QED
    BY <2>1, <2>2, <2>3 DEF Inv, Timing, Elapse
<1>7. Flags'
  <2>1. due' \in [Node -> BOOLEAN]
    <3>1. \A n \in Node : (n \in On) \in BOOLEAN
      OBVIOUS
    <3>2. due' = [n \in Node |-> n \in On]
      BY DEF Elapse
    <3> QED
      BY <3>1, <3>2
  <2> QED
    BY <2>1 DEF Inv, Flags, Elapse, chipVars
<1> QED
  BY <1>3, <1>4, <1>5, <1>6, <1>7 DEF Inv

LEMMA RestartInv ==
  ASSUME Inv, NEW n \in Node, Restart(n)
  PROVE  Inv'
<1>1. table' = [table EXCEPT ![n] = EmptyTable(n)]
  BY DEF Restart
<1>2. Good(n, EmptyTable(n)) /\ EmptyTable(n).num = 0
  BY EmptyTableGood
<1>3. Tables' /\ table'[n].num = 0 /\ \A m \in Node \ {n} : table'[m] = table[m]
  BY <1>1, <1>2, TableReplaced DEF Inv
<1>4. Sweeping'
  <2>1. sweep' = [sweep EXCEPT ![n] = {}] /\ pc' = [pc EXCEPT ![n] = "top"]
    BY DEF Restart
  <2>2. Cardinality({}) = 0
    BY FS_EmptySet
  <2>3. \A m \in Node : Cardinality(sweep'[m]) <= table'[m].num
    <3> TAKE m \in Node
    <3>1. CASE m = n
      <4> DEFINE k == table'[m].num
                 c == Cardinality(sweep'[m])
      <4>1. c = 0 /\ k = 0
        BY <1>3, <2>1, <2>2, <3>1 DEF Inv, Sweeping
      <4> HIDE DEF k, c
      <4>2. c <= k
        BY <4>1
      <4> QED
        BY <4>2 DEF k, c
    <3>2. CASE m # n
      BY <1>3, <2>1, <3>2 DEF Inv, Sweeping
    <3> QED
      BY <3>1, <3>2
  <2> QED
    BY <2>1, <2>3 DEF Inv, Sweeping
<1>5. NoFrame \in Frame
  BY FrameCases
<1>6. Sending'
  BY <1>5, OffType DEF Inv, Sending, Restart
<1>7. Receiving'
  BY <1>5 DEF Inv, Receiving, Restart
<1>8. Timing'
  <2>1. /\ 0 \in 0 .. BLINK_INTERVAL - 1 /\ 0 \in 0 .. RECOVERY_TIME + 1
        /\ 0 \in 0 .. RESET_PERIOD + 1
    BY Constants
  <2>2. restarts' \in 0 .. MaxRestarts
    <3> DEFINE r == restarts
    <3>1. r \in 0 .. MaxRestarts /\ r < MaxRestarts
      BY DEF Inv, Timing, Restart
    <3> HIDE DEF r
    <3>2. r + 1 \in 0 .. MaxRestarts
      BY <3>1, Constants
    <3> QED
      BY <3>2 DEF r, Restart
  <2> QED
    BY <2>1, <2>2 DEF Inv, Timing, Restart
<1>9. Flags'
  BY NoStampType DEF Inv, Flags, Restart
<1> QED
  BY <1>3, <1>4, <1>6, <1>7, <1>8, <1>9 DEF Inv

---------------------------------------------------------------------------
(* The theorems *)

LEMMA InitInv ==
  ASSUME Init
  PROVE  Inv
<1>1. Tables
  BY EmptyTableGood DEF Init, Tables
<1>2. Sweeping
  <2>1. \A n \in Node : table[n].num = 0
    BY EmptyTableGood DEF Init
  <2>2. Cardinality({}) = 0
    BY FS_EmptySet
  <2>3. pc \in [Node -> {"top", "off"}]
    BY DEF Init
  <2> QED
    BY <2>1, <2>2, <2>3 DEF Init, Sweeping
<1>3. NoFrame \in Frame /\ 0 \in Sequence
  BY FrameCases, Constants DEF Sequence
<1>4. Sending /\ Receiving
  BY <1>3, OffType DEF Init, Sending, Receiving
<1>5. Timing
  BY Constants DEF Init, Timing
<1>6. Flags
  BY NoStampType DEF Init, Flags
<1> QED
  BY <1>1, <1>2, <1>4, <1>5, <1>6 DEF Inv

LEMMA NextInv ==
  ASSUME Inv, [Next]_vars
  PROVE  Inv'
<1>1. CASE UNCHANGED vars
  BY <1>1, PartsKept DEF vars, loopVars, chipVars, Inv
<1>2. ASSUME NEW n \in Node, Loop(n) \/ TxDone(n) \/ Restart(n)
      PROVE  Inv'
  BY <1>2, CheckForResetInv, TimerTickInv, RemoveNextInactiveInv, RecoverySelectInv,
     HandleSentInv, NothingSentInv, CheckReceivedInv, GetDataInv, HandleReceivedInv, TxDoneInv, RestartInv
     DEF Loop
<1>3. CASE NextSlot \/ Elapse
  BY <1>3, NextSlotInv, ElapseInv
<1> QED
  BY <1>1, <1>2, <1>3 DEF Next

LEMMA InvType ==
  ASSUME Inv
  PROVE  TypeOK
<1>1. /\ \A n \in Node : table[n] \in [dev : [Slot -> Device(n)], num : Count]
      /\ DOMAIN table = Node
  BY DEF Inv, Tables, Good, TableOf
<1>2. \A f \in {sentData, data, rxFrame} : DOMAIN f = Node /\ \A n \in Node : IsFrame(f[n])
  BY FrameIsFrame DEF Inv, Sending, Receiving
<1>3. \A n \in Node : pending[n] \in Transmission
  BY DEF Inv, Sending
<1>4. /\ DOMAIN pending = Node
      /\ \A n \in Node : /\ DOMAIN pending[n] = {"wait", "frame"}
                         /\ pending[n].wait \in Nat \cup {-1}
                         /\ IsFrame(pending[n].frame)
  BY <1>3, FrameIsFrame DEF Inv, Sending, Transmission
<1> QED
  BY <1>1, <1>2, <1>4 DEF TypeOK, Inv, Sweeping, Sending, Timing, Flags

(* The invariant holds in every reachable state of any network.            *)
THEOREM Invariance == Spec => []Inv
<1>1. Init => Inv
  BY InitInv
<1>2. Inv /\ [Next]_vars => Inv'
  BY NextInv
<1> QED
  BY <1>1, <1>2, PTL DEF Spec

(* Whatever the radio loses and however late loop() is, every node keeps   *)
(* the type of its state (TypeOK): in particular it only lists nodes of    *)
(* the other kind, and the count of its table stays within the array.      *)
THEOREM TypeCorrect == Spec => []TypeOK
<1>1. Inv => TypeOK
  BY InvType
<1> QED
  BY <1>1, Invariance, PTL

(* The tables of a whole network stay consistent (TablesConsistent),       *)
(* whatever frames they are filled from and in whatever order those and    *)
(* the sweeps come.                                                        *)
THEOREM Consistent == Spec => []TablesConsistent
<1>1. Inv => TablesConsistent
  BY DEF Inv, Tables, Good, TablesConsistent
<1> QED
  BY <1>1, Invariance, PTL
================================================================================
