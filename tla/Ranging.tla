-------------------------------- MODULE Ranging --------------------------------
(***************************************************************************)
(* The two-way ranging protocol of DW1000Ranging: any number of tags and   *)
(* anchors, each running loop() on its own chip, over a radio that may     *)
(* lose any frame for any receiver.                                        *)
(*                                                                         *)
(* A tag announces itself with a BLINK; an anchor the BLINK does not name  *)
(* answers with a RANGING_INIT, and the tag stores it.  From then on the   *)
(* tag POLLs the anchors it knows; each answers in its own time slot with  *)
(* a POLL_ACK; the tag sends a RANGE with what it measured; and the anchor *)
(* computes the distance.                                                  *)
(*                                                                         *)
(* loop() does not block: it reads two flags that the interrupt handlers   *)
(* set (_sentAck, _receivedAck), each at its own place, and then the data  *)
(* and the stamps from registers of the chip that the next frame           *)
(* overwrites.                                                             *)
(*                                                                         *)
(* A time stamp is represented by the transmission it was taken of: the    *)
(* sender and the sequence number of the frame.  Waits are in microseconds *)
(* and cover the delayed replies; one Elapse is a period of the timer,     *)
(* about half a second, at the end of which every reply is long sent.      *)
(*                                                                         *)
(* getReplyTimeWithoutGaps, PollMarkedAnswered, PollMarkedServed,          *)
(* PollNotedOnce, ServeNobody, CounterUnwrapped and                        *)
(* CheckReceivedForgetting are slips the code could have made, kept to see *)
(* that a property notices.                                                *)
(***************************************************************************)
EXTENDS DeviceTable, FiniteSets

CONSTANTS
  Tags, Anchors,          \* the nodes, named by their short addresses
  Networks,               \* the sets of nodes that may be switched on
  NoAddress,              \* the unset address of a slot that was never used
  Quality,                \* values of getReceiveQuality()
  RandomSlots,            \* values of random(0, slotQty) + 1: 1 .. 7
  SEQ_MOD,                \* the sequence number wraps here (256)
  BLINK_INTERVAL,         \* every so many timer ticks a tag blinks (5)
  devicePerPollTransmit,  \* the slots of a POLL (4)
  devicePerTransmit,      \* the slots of a RANGE (6)
  RESET_PERIOD,           \* _resetPeriod, in timer periods
  RECOVERY_TIME,          \* _replyTimeOfLastPollAck + 3, in timer periods
  Prompt,     \* loop() answers an event before the next one happens
  Reliable,   \* a frame is heard by all that listen
  MaxTime,    \* bound on the number of timer periods; 0 for none
  MaxRestarts \* bound on the number of restarts of nodes

Node == Tags \cup Anchors

ASSUME NodeAssumption ==
  Tags \cap Anchors = {} /\ NoAddress \notin Node /\ IsFiniteSet(Node)
ASSUME RangingAssumption ==
  /\ Quality \subseteq Int /\ Quality # {}
  /\ RandomSlots \subseteq 1 .. 7 /\ RandomSlots # {}
  /\ {SEQ_MOD, BLINK_INTERVAL, devicePerPollTransmit, devicePerTransmit}
       \subseteq Nat \ {0}
  /\ {RESET_PERIOD, RECOVERY_TIME, MaxTime, MaxRestarts} \subseteq Nat
  /\ Networks \subseteq SUBSET Node
  /\ {Prompt, Reliable} \subseteq BOOLEAN

VARIABLES
  (* the state of DW1000Ranging *)
  table,            \* _networkDevices, _networkDevicesNumber
  sweep,            \* the inactiveDevices still to be removed
  counterForBlink,
  seq,              \* _globalMac._seqNumber
  sentData,         \* the frame built last
  data,             \* receivedData, while it is being handled
  pc,               \* where loop() is; "off" in a node that is not there
  sentAck, receivedAck,
  awaiting,         \* _replyTimeOfLastPollAck # 0
  sincePoll,        \* time since _timeOfLastPollSent
  quiet,            \* time since _lastActivity
  due,              \* more than _timerDelay since lastTimerTick
  (* the chip and the radio *)
  pending,          \* the transmission started and not yet done
  txStamp, rxFrame, \* the last frame sent; the last frame received
  deaf,             \* select() has reset the chip: ~_first of a tag
  time,
  restarts

loopVars == <<table, sweep, counterForBlink, seq, sentData, data, pc,
              awaiting, sincePoll, quiet, due, deaf>>
chipVars == <<sentAck, receivedAck, pending, txStamp, rxFrame>>
vars == <<loopVars, chipVars, time, restarts>>

---------------------------------------------------------------------------
(* Frames *)

NoStamp == <<NoAddress, 0>>
Stamp(f) == <<f.src, f.seq>>

NoFrame == [type |-> "NONE", src |-> NoAddress, seq |-> 0]

Blink(n, known) == [type |-> "BLINK", src |-> n, seq |-> seq[n], known |-> known]
RangingInit(n, d) == [type |-> "RANGING_INIT", src |-> n, seq |-> seq[n], dst |-> d]
Poll(n, devs) == [type |-> "POLL", src |-> n, seq |-> seq[n], devices |-> devs]
PollAck(n, d) == [type |-> "POLL_ACK", src |-> n, seq |-> seq[n], dst |-> d]
RangeFrame(n, devs) == [type |-> "RANGE", src |-> n, seq |-> seq[n], devices |-> devs]

Off == [wait |-> -1, frame |-> NoFrame]
Transmitting(n) == pending[n].wait >= 0

DEFAULT_REPLY_DELAY_TIME == 3000
slotDuration == 7500

getReplyTimeWithoutGaps(i) == (i + 1) * DEFAULT_REPLY_DELAY_TIME

getReplyTimeOfIndex(i) == (2 * i + 1) * DEFAULT_REPLY_DELAY_TIME

(* transmitInit, generate...Frame and transmit: whatever was still to be   *)
(* sent is abandoned (newTransmit calls idle), and the sequence number     *)
(* moves on.                                                               *)
Transmit(n, f, wait) ==
  /\ sentData' = [sentData EXCEPT ![n] = f]
  /\ pending' = [pending EXCEPT ![n] = [wait |-> wait, frame |-> f]]
  /\ seq' = [seq EXCEPT ![n] = (@ + 1) % SEQ_MOD]

TransmitNothing == UNCHANGED <<sentData, pending, seq>>

(* receiver(): newReceive calls idle, so a pending transmission is lost.   *)
Receiver(n) == pending' = [pending EXCEPT ![n] = Off]

---------------------------------------------------------------------------
(* Devices *)

Round == [poll : (Node \cup {NoAddress}) \X (0 .. SEQ_MOD - 1),
          ack : (Node \cup {NoAddress}) \X (0 .. SEQ_MOD - 1)]

NoRound == [poll |-> NoStamp, ack |-> NoStamp]

(* A device as its constructor, setQuality and addNetworkDevices leave it. *)
(* The constructor does not initialise hasSentPollAck (acked) and          *)
(* hasRangeBeenServed (served); only a tag reads them.  round1 is          *)
(* timePollAckReceivedMinusPollSent as the anchor copies it from a RANGE.  *)
NewDevice(n, a) ==
  [addr : {a}, index : {0}, quality : Quality, age : {0},
   acked : IF n \in Tags THEN BOOLEAN ELSE {FALSE},
   served : IF n \in Tags THEN BOOLEAN ELSE {FALSE},
   pollSent : {NoStamp}, ackReceived : {NoStamp},
   pollReceived : {NoStamp}, ackSent : {NoStamp}, round1 : {NoRound}]

(* What the tag notes of every device when its POLL is sent.               *)
PollMarkedAnswered(d, s) == [d EXCEPT !.pollSent = s, !.served = FALSE]

PollMarked(d, s) == [d EXCEPT !.pollSent = s, !.acked = FALSE, !.served = FALSE]

(* The devices in use become those of marked; the rest of the array stays. *)
MarkUsed(t, marked) ==
  [t EXCEPT !.dev = [i \in Slot |-> IF i \in Used(t) THEN marked[i] ELSE t.dev[i]]]

(* The k lowest elements of a set of slots.                                *)
FirstOf(S, k) == {i \in S : Cardinality({j \in S : j < i}) < k}

(* The devices a RANGE is for.                                             *)
Answered(t) ==
  FirstOf({i \in Used(t) : t.dev[i].acked /\ ~t.dev[i].served}, devicePerTransmit)

ServeNobody(t, S) == t

Serve(t, S) ==
  [t EXCEPT !.dev = [i \in Slot |-> IF i \in S THEN [t.dev[i] EXCEPT !.served = TRUE]
                                               ELSE t.dev[i]]]

(* The values val of the devices in the slots S, by address.               *)
ByAddress(t, S, val) ==
  [a \in {t.dev[i].addr : i \in S} |-> val[CHOOSE i \in S : t.dev[i].addr = a]]

---------------------------------------------------------------------------
EmptyTable(n) ==
  [dev |-> [i \in Slot |-> CHOOSE d \in NewDevice(n, NoAddress) : ~d.acked /\ ~d.served],
   num |-> 0]

Init ==
  /\ table = [n \in Node |-> EmptyTable(n)]
  /\ sweep = [n \in Node |-> {}]
  /\ counterForBlink = [n \in Node |-> 0]
  /\ seq = [n \in Node |-> 0]
  /\ sentData = [n \in Node |-> NoFrame]
  /\ data = [n \in Node |-> NoFrame]
  /\ \E on \in Networks : pc = [n \in Node |-> IF n \in on THEN "top" ELSE "off"]
  /\ sentAck = [n \in Node |-> FALSE]
  /\ receivedAck = [n \in Node |-> FALSE]
  /\ awaiting = [n \in Node |-> FALSE]
  /\ sincePoll = [n \in Node |-> 0]
  /\ quiet = [n \in Node |-> 0]
  /\ due = [n \in Node |-> FALSE]
  /\ pending = [n \in Node |-> Off]
  /\ txStamp = [n \in Node |-> NoStamp]
  /\ rxFrame = [n \in Node |-> NoFrame]
  /\ deaf = [n \in Node |-> FALSE]
  /\ time = 0 /\ restarts = 0

On == {n \in Node : pc[n] # "off"}

NoFlag(n) == ~sentAck[n] /\ ~receivedAck[n]

(* Nobody is handling an event. A loop always gets there within a period   *)
(* of the timer (Elapse); with Prompt it is also fast compared with the    *)
(* slots of the replies, so that the radio and the ticks wait for it.      *)
Calm == \A n \in On : pc[n] = "top" /\ NoFlag(n)
IfPrompt(P) == Prompt => P

---------------------------------------------------------------------------
(* loop(): the watchdog, the timer and the recovery *)

WatchdogDue(n) == NoFlag(n) /\ quiet[n] > RESET_PERIOD

CheckForReset(n) ==
  /\ pc[n] = "top"
  /\ WatchdogDue(n)
  /\ Receiver(n)
  /\ quiet' = [quiet EXCEPT ![n] = 0]
  /\ UNCHANGED <<table, sweep, counterForBlink, seq, sentData, data, pc, awaiting,
                 sincePoll, due, deaf, sentAck, receivedAck, txStamp, rxFrame, time, restarts>>

CounterUnwrapped(c) == c + 1

NextCounter(c) == (c + 1) % BLINK_INTERVAL

TransmitPoll(n) ==
  LET t == table[n]
      S == FirstOf(Used(t), devicePerPollTransmit)
      replyTime == [i \in S |-> getReplyTimeOfIndex(i)]
  IN /\ Transmit(n, Poll(n, ByAddress(t, S, replyTime)), 0)
     /\ awaiting' = [awaiting EXCEPT ![n] = TRUE]
     /\ sincePoll' = [sincePoll EXCEPT ![n] = 0]

TimerTick(n) ==
  /\ pc[n] = "top"
  /\ due[n]
  /\ ~WatchdogDue(n)
  /\ IfPrompt(Calm)
  /\ due' = [due EXCEPT ![n] = FALSE]
  /\ counterForBlink' = [counterForBlink EXCEPT ![n] = NextCounter(@)]
  /\ \/ /\ counterForBlink[n] = 0
        /\ IF n \in Tags THEN Transmit(n, Blink(n, Listed(table[n])), 0) ELSE TransmitNothing
        /\ sweep' = [sweep EXCEPT ![n] = InactiveSlots(table[n])]
        /\ pc' = [pc EXCEPT ![n] = IF InactiveSlots(table[n]) = {} THEN "top" ELSE "sweep"]
        /\ UNCHANGED <<awaiting, sincePoll>>
     \/ /\ counterForBlink[n] # 0
        /\ IF n \in Tags /\ table[n].num > 0
           THEN TransmitPoll(n)
           ELSE TransmitNothing /\ UNCHANGED <<awaiting, sincePoll>>
        /\ UNCHANGED <<sweep, pc>>
  /\ UNCHANGED <<table, data, quiet, deaf, sentAck, receivedAck, txStamp, rxFrame, time, restarts>>

(* checkForInactiveDevices removes the indices it recorded, lowest first.  *)
RemoveNextInactive(n) ==
  /\ pc[n] = "sweep"
  /\ \E i \in sweep[n] :
       /\ \A j \in sweep[n] : i <= j
       /\ table' = [table EXCEPT ![n] = RemoveNetworkDevice(@, i)]
       /\ sweep' = [sweep EXCEPT ![n] = @ \ {i}]
       /\ pc' = [pc EXCEPT ![n] = IF sweep[n] = {i} THEN "top" ELSE "sweep"]
  /\ UNCHANGED <<counterForBlink, seq, sentData, data, awaiting, sincePoll, quiet, due,
                 deaf, chipVars, time, restarts>>

RecoveryDue(n) ==
  /\ NoFlag(n)
  /\ awaiting[n] /\ sincePoll[n] > RECOVERY_TIME
  /\ n \in Tags /\ ~deaf[n]

(* select() resets the chip and writes an interrupt mask of zero. The mask *)
(* and the configuration are not written again.                            *)
RecoverySelect(n) ==
  /\ pc[n] = "top"
  /\ ~due[n] /\ ~WatchdogDue(n)
  /\ RecoveryDue(n)
  /\ deaf' = [deaf EXCEPT ![n] = TRUE]
  /\ pending' = [pending EXCEPT ![n] = Off]
  /\ UNCHANGED <<table, sweep, counterForBlink, seq, sentData, data, pc, awaiting,
                 sincePoll, quiet, due, sentAck, receivedAck, txStamp, rxFrame, time, restarts>>

---------------------------------------------------------------------------
(* loop(): the sent event *)

PollSent(n) ==
  /\ n \in Tags /\ sentData[n].type = "POLL"
  /\ LET marked == [i \in Slot |-> PollMarked(table[n].dev[i], txStamp[n])]
     IN table' = [table EXCEPT ![n] = MarkUsed(@, marked)]
  /\ Receiver(n)

PollAckSent(n) ==
  /\ n \in Anchors /\ sentData[n].type = "POLL_ACK"
  /\ LET marked == [i \in Slot |-> [table[n].dev[i] EXCEPT !.ackSent =
                        IF table[n].dev[i].addr = sentData[n].dst THEN txStamp[n] ELSE @]]
     IN table' = [table EXCEPT ![n] = MarkUsed(@, marked)]
  /\ UNCHANGED pending

(* After the other frames nothing is noted that is read again.             *)
OtherSent(n) ==
  /\ ~(n \in Tags /\ sentData[n].type = "POLL")
  /\ ~(n \in Anchors /\ sentData[n].type = "POLL_ACK")
  /\ UNCHANGED <<table, pending>>

(* Only after these three does the iteration go on to _receivedAck.        *)
SentTypes == {"POLL_ACK", "POLL", "RANGE"}

HandleSent(n) ==
  /\ pc[n] = "top" /\ sentAck[n]
  /\ sentAck' = [sentAck EXCEPT ![n] = FALSE]
  /\ pc' = [pc EXCEPT ![n] = IF sentData[n].type \in SentTypes THEN "recv" ELSE "top"]
  /\ PollSent(n) \/ PollAckSent(n) \/ OtherSent(n)
  /\ UNCHANGED <<sweep, counterForBlink, seq, sentData, data, awaiting, sincePoll, quiet,
                 due, deaf, receivedAck, txStamp, rxFrame, time, restarts>>

---------------------------------------------------------------------------
(* loop(): the received event *)

(* The iteration has found _sentAck clear and goes on to _receivedAck;     *)
(* either flag may be set in between.  With Prompt nothing happens before  *)
(* its end, and one that finds neither flag changes nothing: no step.      *)
NothingSent(n) ==
  /\ pc[n] = "top" /\ ~sentAck[n]
  /\ IfPrompt(receivedAck[n])
  /\ pc' = [pc EXCEPT ![n] = "recv"]
  /\ UNCHANGED <<table, sweep, counterForBlink, seq, sentData, data, awaiting, sincePoll,
                 quiet, due, deaf, chipVars, time, restarts>>

CheckReceivedForgetting(n) ==
  /\ pc[n] = "recv"
  /\ receivedAck' = [receivedAck EXCEPT ![n] = FALSE]
  /\ sentAck' = [sentAck EXCEPT ![n] = FALSE]
  /\ pc' = [pc EXCEPT ![n] = IF receivedAck[n] THEN "get" ELSE "top"]
  /\ UNCHANGED <<table, sweep, counterForBlink, seq, sentData, data, awaiting, sincePoll,
                 quiet, due, deaf, pending, txStamp, rxFrame, time, restarts>>

CheckReceived(n) ==
  /\ pc[n] = "recv"
  /\ receivedAck' = [receivedAck EXCEPT ![n] = FALSE]
  /\ pc' = [pc EXCEPT ![n] = IF receivedAck[n] THEN "get" ELSE "top"]
  /\ UNCHANGED <<table, sweep, counterForBlink, seq, sentData, data, awaiting, sincePoll,
                 quiet, due, deaf, sentAck, pending, txStamp, rxFrame, time, restarts>>

GetData(n) ==
  /\ pc[n] = "get"
  /\ data' = [data EXCEPT ![n] = rxFrame[n]]
  /\ pc' = [pc EXCEPT ![n] = "handle"]
  /\ UNCHANGED <<table, sweep, counterForBlink, seq, sentData, awaiting, sincePoll, quiet,
                 due, deaf, chipVars, time, restarts>>

NoteActivity(n) == quiet' = [quiet EXCEPT ![n] = 0]

BlinkAtAnchor(n, f) ==
  /\ f.type = "BLINK" /\ n \in Anchors
  /\ IF n \in f.known
     THEN TransmitNothing
     ELSE \E slot \in RandomSlots :
            Transmit(n, RangingInit(n, f.src), slotDuration * slot)
  /\ NoteActivity(n)
  /\ UNCHANGED <<table, awaiting>>

RangingInitAtTag(n, f) ==
  /\ f.type = "RANGING_INIT" /\ n \in Tags /\ f.dst = n
  /\ \E d \in NewDevice(n, f.src) :
       \E t \in AddNetworkDevice(table[n], d) : table' = [table EXCEPT ![n] = t]
  /\ NoteActivity(n)
  /\ TransmitNothing
  /\ UNCHANGED awaiting

PollNotedOnce(d, s) ==
  [d EXCEPT !.age = 0, !.pollReceived = IF @ = NoStamp THEN s ELSE @]

PollNoted(d, s) == [d EXCEPT !.age = 0, !.pollReceived = s]

PollAtAnchor(n, f) ==
  /\ f.type = "POLL" /\ n \in Anchors /\ n \in DOMAIN f.devices
  /\ \E d \in NewDevice(n, f.src) :
       \E t \in AddNetworkDevice(table[n], d) :
         \E i \in SlotsOf(t, f.src) :
           table' = [table EXCEPT ![n] =
                       [t EXCEPT !.dev[i] = PollNoted(@, Stamp(rxFrame[n]))]]
  /\ Transmit(n, PollAck(n, f.src), f.devices[n])
  /\ NoteActivity(n)
  /\ UNCHANGED awaiting

RangeAtAnchor(n, f) ==
  /\ f.type = "RANGE" /\ n \in Anchors /\ n \in DOMAIN f.devices
  /\ \E i \in SlotsOf(table[n], f.src), q \in Quality :
       table' = [table EXCEPT ![n].dev[i] =
                   [@ EXCEPT !.age = 0, !.quality = q, !.round1 = f.devices[n]]]
  /\ NoteActivity(n)
  /\ TransmitNothing
  /\ UNCHANGED awaiting

(* transmitRange(), on the table the POLL_ACK left.                        *)
TransmitRange(n, t) ==
  LET S == Answered(t)
      measured == [i \in S |-> [poll |-> t.dev[i].pollSent, ack |-> t.dev[i].ackReceived]]
  IN /\ awaiting' = [awaiting EXCEPT ![n] = FALSE]
     /\ table' = [table EXCEPT ![n] = Serve(t, S)]
     /\ IF S = {}
        THEN TransmitNothing
        ELSE Transmit(n, RangeFrame(n, ByAddress(t, S, measured)), DEFAULT_REPLY_DELAY_TIME)

AckNoted(d, s) == [d EXCEPT !.age = 0, !.ackReceived = s, !.acked = TRUE]

PollAckAtTag(n, f) ==
  /\ f.type = "POLL_ACK" /\ n \in Tags /\ f.dst = n
  /\ \E i \in SlotsOf(table[n], f.src) :
       TransmitRange(n, [table[n] EXCEPT !.dev[i] = AckNoted(@, Stamp(rxFrame[n]))])
  /\ NoteActivity(n)

(* Every other frame, and a RANGE or POLL_ACK of a device that is not      *)
(* listed, changes nothing.                                                *)
Relevant(n, f) ==
  \/ f.type = "BLINK" /\ n \in Anchors
  \/ f.type = "RANGING_INIT" /\ n \in Tags /\ f.dst = n
  \/ f.type = "POLL" /\ n \in Anchors /\ n \in DOMAIN f.devices
  \/ f.type = "RANGE" /\ n \in Anchors /\ n \in DOMAIN f.devices /\ f.src \in Listed(table[n])
  \/ f.type = "POLL_ACK" /\ n \in Tags /\ f.dst = n /\ f.src \in Listed(table[n])

IgnoreFrame(n, f) ==
  /\ ~Relevant(n, f)
  /\ UNCHANGED <<table, awaiting, quiet>>
  /\ TransmitNothing

HandleReceived(n) ==
  /\ pc[n] = "handle"
  /\ \/ BlinkAtAnchor(n, data[n])
     \/ RangingInitAtTag(n, data[n])
     \/ PollAtAnchor(n, data[n])
     \/ RangeAtAnchor(n, data[n])
     \/ PollAckAtTag(n, data[n])
     \/ IgnoreFrame(n, data[n])
  /\ data' = [data EXCEPT ![n] = NoFrame]
  /\ pc' = [pc EXCEPT ![n] = "top"]
  /\ UNCHANGED <<sweep, counterForBlink, sincePoll, due, deaf, sentAck, receivedAck,
                 txStamp, rxFrame, time, restarts>>

---------------------------------------------------------------------------
(* The radio and the clock *)

Listening(n) == ~deaf[n] /\ ~Transmitting(n)

(* A frame has been sent and arrives at those that hear it.  The sender is *)
(* interrupted (handleSent) and so are they (handleReceived, and then      *)
(* newReceive, which abandons a transmission of their own).                *)
TxDone(n) ==
  /\ pending[n].wait = 0
  /\ IfPrompt(Calm)
  /\ \E heard \in SUBSET {m \in On \ {n} : ~deaf[m]} :
       /\ Reliable => heard = {m \in On \ {n} : Listening(m)}
       /\ pending' = [m \in Node |-> IF m \in heard \cup {n} THEN Off ELSE pending[m]]
       /\ receivedAck' = [m \in Node |-> m \in heard \/ receivedAck[m]]
       /\ rxFrame' = [m \in Node |-> IF m \in heard THEN pending[n].frame ELSE rxFrame[m]]
  /\ IF deaf[n] THEN UNCHANGED <<sentAck, txStamp>>
     ELSE /\ sentAck' = [sentAck EXCEPT ![n] = TRUE]
          /\ txStamp' = [txStamp EXCEPT ![n] = Stamp(pending[n].frame)]
  /\ UNCHANGED <<loopVars, time, restarts>>

(* Nothing is to be sent at once: time passes up to the next transmission. *)
NextSlot ==
  /\ IfPrompt(Calm)
  /\ \E n \in Node :
       /\ pending[n].wait > 0
       /\ \A m \in Node : Transmitting(m) => pending[m].wait >= pending[n].wait
       /\ pending' = [m \in Node |-> IF Transmitting(m)
                                     THEN [pending[m] EXCEPT !.wait = @ - pending[n].wait]
                                     ELSE pending[m]]
  /\ UNCHANGED <<loopVars, sentAck, receivedAck, txStamp, rxFrame, time, restarts>>

Longer(t, bound) == IF t > bound THEN t ELSE t + 1
Aged(t) == [t EXCEPT !.dev = [i \in Slot |-> [t.dev[i] EXCEPT !.age = Older(@)]]]

(* The rest of a period of the timer, in which nothing is sent.            *)
Elapse ==
  /\ \A n \in Node : ~Transmitting(n)
  /\ Calm /\ \A n \in On : ~due[n] /\ ~WatchdogDue(n) /\ ~RecoveryDue(n)
  /\ MaxTime > 0 => time < MaxTime
  /\ time' = IF MaxTime > 0 THEN time + 1 ELSE 0
  /\ due' = [n \in Node |-> n \in On]
  /\ quiet' = [n \in Node |-> IF n \in On THEN Longer(quiet[n], RESET_PERIOD) ELSE 0]
  /\ sincePoll' = [n \in Node |-> IF n \in On THEN Longer(sincePoll[n], RECOVERY_TIME) ELSE 0]
  /\ table' = [n \in Node |-> IF n \in On THEN Aged(table[n]) ELSE table[n]]
  /\ UNCHANGED <<sweep, counterForBlink, seq, sentData, data, pc, awaiting, deaf, chipVars,
                 restarts>>

(* A node is switched off and on again: nothing of what it knew is kept.   *)
(* Only the sequence number goes on, to tell its new frames from the old   *)
(* ones; no receiver reads it.                                             *)
Restart(n) ==
  /\ n \in On
  /\ restarts < MaxRestarts
  /\ restarts' = restarts + 1
  /\ table' = [table EXCEPT ![n] = EmptyTable(n)]
  /\ sweep' = [sweep EXCEPT ![n] = {}]
  /\ counterForBlink' = [counterForBlink EXCEPT ![n] = 0]
  /\ sentData' = [sentData EXCEPT ![n] = NoFrame]
  /\ data' = [data EXCEPT ![n] = NoFrame]
  /\ pc' = [pc EXCEPT ![n] = "top"]
  /\ sentAck' = [sentAck EXCEPT ![n] = FALSE]
  /\ receivedAck' = [receivedAck EXCEPT ![n] = FALSE]
  /\ awaiting' = [awaiting EXCEPT ![n] = FALSE]
  /\ sincePoll' = [sincePoll EXCEPT ![n] = 0]
  /\ quiet' = [quiet EXCEPT ![n] = 0]
  /\ due' = [due EXCEPT ![n] = FALSE]
  /\ pending' = [pending EXCEPT ![n] = Off]
  /\ txStamp' = [txStamp EXCEPT ![n] = NoStamp]
  /\ rxFrame' = [rxFrame EXCEPT ![n] = NoFrame]
  /\ deaf' = [deaf EXCEPT ![n] = FALSE]
  /\ UNCHANGED <<seq, time>>

---------------------------------------------------------------------------
Loop(n) ==
  \/ CheckForReset(n)
  \/ TimerTick(n)
  \/ RemoveNextInactive(n)
  \/ RecoverySelect(n)
  \/ HandleSent(n)
  \/ NothingSent(n)
  \/ CheckReceived(n)
  \/ GetData(n)
  \/ HandleReceived(n)

Next ==
  \/ \E n \in Node : Loop(n) \/ TxDone(n) \/ Restart(n)
  \/ NextSlot
  \/ Elapse

Spec == Init /\ [][Next]_vars

(* Every node keeps calling loop(), the chip sends what it was told to     *)
(* send, and time passes.                                                  *)
FairSpec ==
  /\ Spec
  /\ \A n \in Node : WF_vars(Loop(n)) /\ WF_vars(TxDone(n))
  /\ WF_vars(NextSlot)
  /\ WF_vars(Elapse)

---------------------------------------------------------------------------
(* Properties *)

Sequence == 0 .. (SEQ_MOD - 1)
Stamps == (Node \cup {NoAddress}) \X Sequence

IsFrame(f) ==
  \/ f = NoFrame
  \/ f \in [type : {"BLINK"}, src : Tags, seq : Sequence, known : SUBSET Anchors]
  \/ f \in [type : {"RANGING_INIT", "POLL_ACK"}, src : Anchors, seq : Sequence, dst : Tags]
  \/ \E D \in SUBSET Anchors :
       \/ f \in [type : {"POLL"}, src : Tags, seq : Sequence, devices : [D -> Nat]]
       \/ f \in [type : {"RANGE"}, src : Tags, seq : Sequence, devices : [D -> Round]]

Device(n) ==
  [addr : {NoAddress} \cup (IF n \in Tags THEN Anchors ELSE Tags),
   index : Slot, quality : Quality, age : Age, acked : BOOLEAN, served : BOOLEAN,
   pollSent : Stamps, ackReceived : Stamps, pollReceived : Stamps, ackSent : Stamps,
   round1 : Round]

TypeOK ==
  /\ \A n \in Node : table[n] \in [dev : [Slot -> Device(n)], num : Count]
  /\ DOMAIN table = Node
  /\ sweep \in [Node -> SUBSET Slot]
  /\ counterForBlink \in [Node -> 0 .. BLINK_INTERVAL - 1]
  /\ seq \in [Node -> Sequence]
  /\ \A f \in {sentData, data, rxFrame} :
       DOMAIN f = Node /\ \A n \in Node : IsFrame(f[n])
  /\ pc \in [Node -> {"off", "top", "sweep", "recv", "get", "handle"}]
  /\ sentAck \in [Node -> BOOLEAN] /\ receivedAck \in [Node -> BOOLEAN]
  /\ awaiting \in [Node -> BOOLEAN] /\ due \in [Node -> BOOLEAN] /\ deaf \in [Node -> BOOLEAN]
  /\ sincePoll \in [Node -> 0 .. RECOVERY_TIME + 1]
  /\ quiet \in [Node -> 0 .. RESET_PERIOD + 1]
  /\ DOMAIN pending = Node
  /\ \A n \in Node : /\ DOMAIN pending[n] = {"wait", "frame"}
                      /\ pending[n].wait \in Nat \cup {-1}
                      /\ IsFrame(pending[n].frame)
  /\ txStamp \in [Node -> Stamps]
  /\ time \in Nat /\ restarts \in 0 .. MaxRestarts

(* In every node, whatever frames it has heard and whatever sweeps it has  *)
(* run, an address is listed once and each device knows its slot, so that  *)
(* the stamps of an exchange all meet in one device.                       *)
TablesConsistent == \A n \in Node : TableOK(table[n])

(* Anchor n is about to handle a RANGE that names it, from a listed tag.   *)
Ranging(n) ==
  /\ pc[n] = "handle" /\ n \in Anchors
  /\ data[n].type = "RANGE" /\ n \in DOMAIN data[n].devices
  /\ data[n].src \in Listed(table[n])

(* When an anchor computes a range (loop, "(re-)compute range as two-way   *)
(* ranging is done"), its own stamps and the ones the RANGE carries are of *)
(* the same POLL and the same POLL_ACK, and the stamp of reception it has  *)
(* read is of the RANGE whose contents it has read.                        *)
RangeOfOneExchange ==
  \A n \in Node : Ranging(n) =>
    \A i \in SlotsOf(table[n], data[n].src) :
      /\ table[n].dev[i].pollReceived = data[n].devices[n].poll
      /\ table[n].dev[i].ackSent = data[n].devices[n].ack
      /\ Stamp(rxFrame[n]) = Stamp(data[n])

(* A loop that lags may handle the answer to a frame before it has noted   *)
(* the stamp of the frame: a tag the POLL_ACK before its POLL's sent       *)
(* event, an anchor the RANGE before its POLL_ACK's.  As long as one tag   *)
(* and one anchor talk, _sentAck tells: where it is clear, the device      *)
(* holds the stamp of the frame answered, and the receive buffer and the   *)
(* stamp of reception are still the answer's.                              *)
FlagTellsLateStamp ==
  \A n \in Node : pc[n] = "handle" /\ ~sentAck[n] =>
    \A i \in SlotsOf(table[n], data[n].src) :
      /\ n \in Tags /\ data[n].type = "POLL_ACK" /\ data[n].dst = n =>
           /\ sentData[n].type = "POLL" /\ table[n].dev[i].pollSent = Stamp(sentData[n])
           /\ rxFrame[n] = data[n]
      /\ Ranging(n) =>
           /\ table[n].dev[i].ackSent = data[n].devices[n].ack
           /\ rxFrame[n] = data[n]

(* An anchor computes at most one range per POLL: the RANGE it handles is  *)
(* not about the POLL of the range it computed last (hasRangeBeenServed).  *)
ServedOncePerPoll ==
  \A n \in Node : Ranging(n) =>
    \A i \in SlotsOf(table[n], data[n].src) :
      table[n].dev[i].round1.poll # data[n].devices[n].poll

(* The answers to a POLL stay apart: "each devices have a different reply  *)
(* delay time" (transmitPoll), and so does the RANGE that the tag sends    *)
(* after one from the POLL_ACKs still to come.  Any two begin at least     *)
(* DEFAULT_REPLY_DELAY_TIME after one another: frames shorter than that do *)
(* not meet in the air.                                                    *)
Exchange(n) ==
  CASE pending[n].frame.type = "POLL_ACK" -> pending[n].frame.dst
    [] pending[n].frame.type = "RANGE" -> n
    [] OTHER -> NoAddress

Spaced(x, y) == x - y >= DEFAULT_REPLY_DELAY_TIME \/ y - x >= DEFAULT_REPLY_DELAY_TIME

SlotsDisjoint ==
  \A m, n \in Node :
    m # n /\ Exchange(m) = Exchange(n) /\ Exchange(m) # NoAddress =>
      Spaced(pending[m].wait, pending[n].wait)

(* Together the tables of tags and anchors implement the abstract exchange *)
(* of TwoWayRanging: pair by pair, tag n's device for anchor m and anchor  *)
(* m's device for tag n.                                                   *)
DeviceOf(n, m) == table[n].dev[CHOOSE i \in SlotsOf(table[n], m) : TRUE]
Knows(n, m) == m \in Listed(table[n])

PollOf(stamp) == IF stamp = NoStamp THEN -1 ELSE stamp[2]

Pairs == INSTANCE TwoWayRanging WITH
  ofTag <- [p \in Tags \X Anchors |->
    LET d == DeviceOf(p[1], p[2])
    IN IF Knows(p[1], p[2])
       THEN [asked |-> PollOf(d.pollSent), answered |-> d.acked, reported |-> d.served]
       ELSE [asked |-> -1, answered |-> FALSE, reported |-> FALSE]],
  ofAnchor <- [p \in Tags \X Anchors |->
    LET d == DeviceOf(p[2], p[1])
    IN IF Knows(p[2], p[1])
       THEN [taken |-> PollOf(d.pollReceived), ranged |-> PollOf(d.round1.poll)]
       ELSE [taken |-> -1, ranged |-> -1]]

RangesTwoWay == Pairs!Spec


(* What loop says where it looks up the sender of a RANGE: "Cannot be a    *)
(* nullptr as we should have cached the TAG when we received the POLL".    *)
NoOrphanRange ==
  \A n \in Anchors :
    pc[n] = "handle" /\ data[n].type = "RANGE" /\ n \in DOMAIN data[n].devices =>
      data[n].src \in Listed(table[n])

(* What resetInactive says: "reset to receive mode on reset_period". When  *)
(* the watchdog has run, the node can hear frames again.                   *)
WatchdogRestoresReception ==
  [][\A n \in Node : CheckForReset(n) => ~deaf'[n]]_vars
================================================================================
