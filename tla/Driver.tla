--------------------------------- MODULE Driver ---------------------------------
(***************************************************************************)
(* The driver DW1000 as two tasks use it at once: loop(), which transmits  *)
(* and restarts the receiver, and the interrupt task of the port, which    *)
(* runs handleInterrupt.  They share, without a lock, the fields of the    *)
(* DW1000 object and the SPI bus with the chip behind it.                  *)
(*                                                                         *)
(* A function of the class is the sequence of its steps: accesses to the   *)
(* fields, and SPI transfers.  A task holds the steps it has still to do;  *)
(* a branch or a call puts the steps of its body in front of them.         *)
(*                                                                         *)
(* An SPI transfer is three steps, because the port drives the chip select *)
(* itself, outside the lock that the SPI driver holds during the transfer: *)
(* one task's transfer can fall outside its own select window, or into a   *)
(* window the other task has used already.  The chip does not see it then. *)
(*                                                                         *)
(* setBit is one step here.  The clock, the antenna delay and the contents *)
(* of the frames are left to the modules TwrExchange and Ranging.          *)
(*                                                                         *)
(* DelayBitUnguarded, HandleInterruptKeepingRest, StartTransmitOnly,       *)
(* HandleInterruptFromCache, NewReceiveIdle and ReceiverNotStarted are     *)
(* slips the code could have made, kept to see that a property notices.    *)
(***************************************************************************)
EXTENDS Naturals, Sequences

CONSTANT Builds   \* the ways to build the program, see Build

(* cores: the interrupt task is pinned to core 0 with priority 5; loop()   *)
(* is called from a task of lower priority on that core, or on the other.  *)
(* whole: no transfer is cut by the other task.                            *)
Build == [cores : {1, 2}, whole : BOOLEAN]

ASSUME BuildsAssumption == Builds \subseteq Build

VARIABLES
  build,
  (* the chip *)
  status,           \* the events latched in SYS_STATUS
  trx,              \* the transceiver: off, receiving, sending, or about to
  thenReceive,      \* the receiver is to go on after the transmission
  window,           \* the chip select: high, low, or low and used
  (* the DW1000 object *)
  sysctrl, sysstatus,
  deviceMode, permanentReceive,
  txfctrl,          \* whether _txfctrl is as configureNetwork left it
  (* the port and DW1000Ranging *)
  sem,              \* the binary semaphore
  sentAck, receivedAck,
  code,             \* the steps each task has still to do
  (* history *)
  reception,        \* the last one: not read, read, or told to loop()
  lost              \* a reception was cleared unread, or a command was cut

chip == <<status, trx, thenReceive, window>>
fields == <<sysctrl, sysstatus, deviceMode, permanentReceive, txfctrl>>
flags == <<sem, sentAck, receivedAck>>
history == <<reception, lost>>
vars == <<build, chip, fields, flags, code, history>>

Task == {"loop", "irq"}
Event == {"TXFRS", "RXFCG"}
ControlBit == {"TRXOFF", "TXSTRT", "TXDLYS", "RXENAB", "RXDLYS"}

---------------------------------------------------------------------------
(* The steps and the functions made of them *)

Do(what) == <<what, "">>
SetCtrl(bit) == <<"SetCtrl", bit>>
SetMode(mode) == <<"SetMode", mode>>

Spi(access) ==
  IF build.whole THEN <<access>> ELSE <<Do("Select"), access, Do("Deselect")>>

(* A transfer that reads or writes what is not modelled here.              *)
OtherTransfer == Spi(Do("Other"))

Idle == <<Do("PrepareIdle")>> \o Spi(Do("WriteCtrl"))

ClearReceiveStatus == <<Do("MarkReceive")>> \o Spi(Do("WriteStatus"))

ClearTransmitStatus == <<Do("MarkTransmit")>> \o Spi(Do("WriteStatus"))

ClearAllStatus == <<Do("MarkAll")>> \o Spi(Do("WriteStatus"))

NewReceiveIdle == Idle \o <<Do("ClearCtrl")>> \o ClearReceiveStatus

NewReceive ==
  Idle \o <<Do("ClearCtrl")>> \o ClearReceiveStatus \o <<SetMode("RX")>>

StartReceive == <<SetCtrl("RXENAB")>> \o Spi(Do("WriteCtrl"))

NewTransmit ==
  Idle \o <<Do("ClearCtrl")>> \o ClearTransmitStatus \o <<SetMode("TX")>>

StartTransmitOnly(how) ==
  OtherTransfer \o <<SetCtrl("TXSTRT")>> \o Spi(Do("WriteCtrl"))

(* writeTransmitFrameControlRegister, TXSTRT, and then the receiver again. *)
(* How the frame is meant to be sent is noted for a property.              *)
StartTransmit(how) ==
  OtherTransfer \o <<SetCtrl("TXSTRT")>> \o Spi(<<"WriteCtrl", how>>)
    \o <<Do("IfPermanentThenReceive")>>

ReceiverNotStarted == NewReceive \o <<Do("SetDefaults"), Do("ReceivePermanently")>>

(* DW1000Ranging::receiver, transmitInit and the two transmit.  SetData is *)
(* a transfer.                                                             *)
Receiver ==
  NewReceive \o <<Do("SetDefaults"), Do("ReceivePermanently")>> \o StartReceive

TransmitInit == NewTransmit \o <<Do("SetDefaults")>>

Transmit == TransmitInit \o OtherTransfer \o StartTransmit("now")

TransmitDelayed ==
  TransmitInit \o <<Do("SetDelay")>> \o OtherTransfer \o StartTransmit("delayed")

HandleInterruptKeepingRest ==
  Spi(Do("ReadStatus")) \o <<Do("IfTransmitDone"), Do("IfReceiveDone")>>

HandleInterruptFromCache ==
  <<Do("IfTransmitDone"), Do("IfReceiveDone")>> \o ClearAllStatus

(* The handlers of clock problems, time stamps, failed receptions and      *)
(* timeouts are not attached, so that their branches do nothing.           *)
HandleInterrupt ==
  Spi(Do("ReadStatus")) \o <<Do("IfTransmitDone"), Do("IfReceiveDone")>> \o ClearAllStatus

---------------------------------------------------------------------------
(* After configureNetwork, before the receiver() of generalStart.          *)
Init ==
  /\ build \in Builds
  /\ status = {} /\ trx = "IDLE" /\ thenReceive = FALSE /\ window = "high"
  /\ sysctrl = {"TRXOFF"} /\ sysstatus \in SUBSET Event
  /\ deviceMode = "IDLE" /\ permanentReceive = FALSE /\ txfctrl = "configured"
  /\ sem = FALSE /\ sentAck = FALSE /\ receivedAck = FALSE
  /\ code = [loop |-> Receiver, irq |-> <<>>]
  /\ reception = "told" /\ lost = FALSE

---------------------------------------------------------------------------
(* The chip and its interrupt line: every event here is enabled in the     *)
(* mask, and the port's GPIO interrupt gives the semaphore when the line   *)
(* rises, not while it is high.                                            *)

LatchStatus(events) ==
  /\ status' = events
  /\ sem' = (sem \/ (status = {} /\ events # {}))

(* A command without TRXOFF.  While a transmission is on, RXENAB turns on  *)
(* the receiver after it, which is what startTransmit relies on.           *)
Command(bits) ==
  IF "TXSTRT" \in bits
  THEN /\ trx' = IF "TXDLYS" \in bits THEN "DELAYED" ELSE "SENDING"
       /\ thenReceive' = ("RXENAB" \in bits)
  ELSE IF "RXENAB" \in bits /\ trx \in {"DELAYED", "SENDING"}
  THEN thenReceive' = TRUE /\ UNCHANGED trx
  ELSE IF "RXENAB" \in bits
  THEN trx' = "RECEIVING" /\ UNCHANGED thenReceive
  ELSE UNCHANGED <<trx, thenReceive>>

(* What the chip makes of TRXOFF with another bit is not known here.       *)
WriteControl(bits) ==
  \/ "TRXOFF" \in bits /\ trx' = "IDLE" /\ thenReceive' = FALSE
  \/ bits # {"TRXOFF"} /\ Command(bits \ {"TRXOFF"})

FrameSent ==
  /\ trx \in {"DELAYED", "SENDING"}
  /\ LatchStatus(status \cup {"TXFRS"})
  /\ trx' = IF thenReceive THEN "RECEIVING" ELSE "IDLE"
  /\ thenReceive' = FALSE
  /\ UNCHANGED <<build, window, fields, sentAck, receivedAck, code, history>>

FrameReceived ==
  /\ trx = "RECEIVING"
  /\ LatchStatus(status \cup {"RXFCG"})
  /\ trx' = "IDLE"
  /\ reception' = "unread"
  /\ UNCHANGED <<build, thenReceive, window, fields, sentAck, receivedAck, code, lost>>

Chip == FrameSent \/ FrameReceived

---------------------------------------------------------------------------
(* Steps of a task *)

(* On one core loop() does not run while the handler does.                 *)
Runs(t) == t = "loop" /\ build.cores = 1 => code["irq"] = <<>>

AtStep(t, step) == Runs(t) /\ code[t] # <<>> /\ Head(code[t]) = step

(* Task t has done its step and goes on with body first.                   *)
Then(t, body) == code' = [code EXCEPT ![t] = body \o Tail(@)]
Done(t) == Then(t, <<>>)

Select(t) ==
  /\ AtStep(t, Do("Select"))
  /\ window' = IF window = "high" THEN "low" ELSE window
  /\ Done(t)
  /\ UNCHANGED <<build, status, trx, thenReceive, fields, flags, history>>

Deselect(t) ==
  /\ AtStep(t, Do("Deselect"))
  /\ window' = "high"
  /\ Done(t)
  /\ UNCHANGED <<build, status, trx, thenReceive, fields, flags, history>>

Seen == build.whole \/ window = "low"   \* the chip sees the transfer
Used == window' = IF window = "low" THEN "used" ELSE window

Other(t) ==
  /\ AtStep(t, Do("Other"))
  /\ Used /\ Done(t)
  /\ UNCHANGED <<build, status, trx, thenReceive, fields, flags, history>>

(* A receiver that is switched on makes good what was lost.                *)
WriteCtrl(t) ==
  /\ \E how \in {"", "now", "delayed"} : AtStep(t, <<"WriteCtrl", how>>)
  /\ IF Seen
     THEN /\ WriteControl(sysctrl)
          /\ lost' = (lost /\ ~(trx' = "RECEIVING" \/ thenReceive'))
     ELSE UNCHANGED <<trx, thenReceive>> /\ lost' = TRUE
  /\ Used /\ Done(t)
  /\ UNCHANGED <<build, status, fields, flags, reception>>

(* Writing ones to SYS_STATUS clears the bits.                             *)
Clear(bits) ==
  IF Seen
  THEN /\ LatchStatus(status \ bits)
       /\ lost' = (lost \/ (reception = "unread" /\ "RXFCG" \in bits \cap status))
       /\ UNCHANGED reception
  ELSE UNCHANGED <<status, sem, history>>

WriteStatus(t) ==
  /\ AtStep(t, Do("WriteStatus"))
  /\ Clear(sysstatus)
  /\ Used /\ Done(t)
  /\ UNCHANGED <<build, trx, thenReceive, fields, sentAck, receivedAck>>

(* A read the chip does not see returns whatever is on the line.           *)
ReadStatus(t) ==
  /\ AtStep(t, Do("ReadStatus"))
  /\ IF Seen
     THEN /\ sysstatus' = status
          /\ reception' = IF reception = "unread" THEN "read" ELSE reception
     ELSE sysstatus' \in SUBSET Event /\ UNCHANGED reception
  /\ Used /\ Done(t)
  /\ UNCHANGED <<build, status, trx, thenReceive, sysctrl, deviceMode, permanentReceive,
                 txfctrl, flags, lost>>

Bus(t) ==
  Select(t) \/ Deselect(t) \/ Other(t) \/ WriteCtrl(t) \/ WriteStatus(t) \/ ReadStatus(t)

SetSysctrl(t) ==
  /\ \/ AtStep(t, Do("ClearCtrl")) /\ sysctrl' = {}
     \/ \E bit \in ControlBit :
          AtStep(t, SetCtrl(bit)) /\ sysctrl' = sysctrl \cup {bit}
  /\ Done(t)
  /\ UNCHANGED <<build, chip, sysstatus, deviceMode, permanentReceive, txfctrl, flags, history>>

SetSysstatus(t) ==
  /\ \/ AtStep(t, Do("MarkReceive")) /\ sysstatus' = sysstatus \cup {"RXFCG"}
     \/ AtStep(t, Do("MarkTransmit")) /\ sysstatus' = sysstatus \cup {"TXFRS"}
     \/ AtStep(t, Do("MarkAll")) /\ sysstatus' = Event
  /\ Done(t)
  /\ UNCHANGED <<build, chip, sysctrl, deviceMode, permanentReceive, txfctrl, flags, history>>

(* idle(), up to the transfer *)
PrepareIdle(t) ==
  /\ AtStep(t, Do("PrepareIdle"))
  /\ sysctrl' = {"TRXOFF"}
  /\ deviceMode' = "IDLE"
  /\ Done(t)
  /\ UNCHANGED <<build, chip, sysstatus, permanentReceive, txfctrl, flags, history>>

SetDeviceMode(t) ==
  /\ \E mode \in {"IDLE", "RX", "TX"} :
       AtStep(t, SetMode(mode)) /\ deviceMode' = mode
  /\ Done(t)
  /\ UNCHANGED <<build, chip, sysctrl, sysstatus, permanentReceive, txfctrl, flags, history>>

(* In TX and RX mode setDefaults does nothing.                             *)
SetDefaults(t) ==
  /\ AtStep(t, Do("SetDefaults"))
  /\ txfctrl' = IF deviceMode = "IDLE" THEN "default" ELSE txfctrl
  /\ Done(t)
  /\ UNCHANGED <<build, chip, sysctrl, sysstatus, deviceMode, permanentReceive, flags, history>>

ReceivePermanently(t) ==
  /\ AtStep(t, Do("ReceivePermanently"))
  /\ permanentReceive' = TRUE
  /\ Then(t, OtherTransfer)
  /\ UNCHANGED <<build, chip, sysctrl, sysstatus, deviceMode, txfctrl, flags, history>>

DelayBitUnguarded == IF deviceMode = "TX" THEN {"TXDLYS"} ELSE {"RXDLYE"}

DelayBit ==
  CASE deviceMode = "TX" -> {"TXDLYS"}
    [] deviceMode = "RX" -> {"RXDLYS"}
    [] OTHER -> {}

(* The time is read and the time to send is written, unless idle.          *)
SetDelay(t) ==
  /\ AtStep(t, Do("SetDelay"))
  /\ sysctrl' = sysctrl \cup DelayBit
  /\ Then(t, IF deviceMode = "IDLE" THEN <<>> ELSE OtherTransfer \o OtherTransfer)
  /\ UNCHANGED <<build, chip, sysstatus, deviceMode, permanentReceive, txfctrl, flags, history>>

IfPermanentThenReceive(t) ==
  /\ AtStep(t, Do("IfPermanentThenReceive"))
  /\ Then(t, IF permanentReceive
             THEN <<Do("ClearCtrl"), SetMode("RX")>> \o StartReceive
             ELSE <<SetMode("IDLE")>>)
  /\ UNCHANGED <<build, chip, fields, flags, history>>

Fields(t) ==
  \/ PrepareIdle(t) \/ SetSysctrl(t) \/ SetSysstatus(t) \/ SetDeviceMode(t) \/ SetDefaults(t)
  \/ ReceivePermanently(t) \/ SetDelay(t) \/ IfPermanentThenReceive(t)

---------------------------------------------------------------------------
(* The interrupt task *)

TakeSemaphore ==
  /\ code["irq"] = <<>> /\ sem
  /\ sem' = FALSE
  /\ code' = [code EXCEPT !["irq"] = HandleInterrupt]
  /\ UNCHANGED <<build, chip, fields, sentAck, receivedAck, history>>

IfTransmitDone ==
  /\ AtStep("irq", Do("IfTransmitDone"))
  /\ IF "TXFRS" \in sysstatus
     THEN sentAck' = TRUE /\ Then("irq", ClearTransmitStatus)
     ELSE UNCHANGED sentAck /\ Done("irq")
  /\ UNCHANGED <<build, chip, fields, sem, receivedAck, history>>

Restart == IF permanentReceive THEN NewReceive \o StartReceive ELSE <<>>

IfReceiveDone ==
  /\ AtStep("irq", Do("IfReceiveDone"))
  /\ IF "RXFCG" \in sysstatus
     THEN /\ receivedAck' = TRUE
          /\ reception' = IF reception = "read" THEN "told" ELSE reception
          /\ Then("irq", ClearReceiveStatus \o Restart)
     ELSE UNCHANGED <<receivedAck, reception>> /\ Done("irq")
  /\ UNCHANGED <<build, chip, fields, sem, sentAck, lost>>

InterruptTask ==
  TakeSemaphore \/ IfTransmitDone \/ IfReceiveDone \/ Bus("irq") \/ Fields("irq")

---------------------------------------------------------------------------
(* The task of loop(): what it does of its own, and what it does after an  *)
(* event.  Which frame it was is left open.                                *)

Idles == code["loop"] = <<>> /\ Runs("loop")
Calls(body) == code' = [code EXCEPT !["loop"] = body]

TimerTick ==
  /\ Idles
  /\ Calls(Transmit)
  /\ UNCHANGED <<build, chip, fields, flags, history>>

CheckForReset ==
  /\ Idles /\ ~sentAck /\ ~receivedAck
  /\ Calls(Receiver)
  /\ UNCHANGED <<build, chip, fields, flags, history>>

(* The stamp is read of a POLL and of a POLL_ACK.                          *)
HandleSent ==
  /\ Idles /\ sentAck
  /\ sentAck' = FALSE
  /\ \E body \in {<<>>, OtherTransfer, OtherTransfer \o Receiver} : Calls(body)
  /\ UNCHANGED <<build, chip, fields, sem, receivedAck, history>>

HandleReceived ==
  /\ Idles /\ receivedAck
  /\ receivedAck' = FALSE
  /\ \E body \in {OtherTransfer, OtherTransfer \o TransmitDelayed} : Calls(body)
  /\ UNCHANGED <<build, chip, fields, sem, sentAck, history>>

Loop ==
  TimerTick \/ CheckForReset \/ HandleSent \/ HandleReceived \/ Bus("loop") \/ Fields("loop")

Next == Chip \/ InterruptTask \/ Loop

Spec == Init /\ [][Next]_vars

(* The tasks run, and loop() calls the watchdog when it has been quiet.    *)
FairSpec ==
  Spec /\ WF_vars(InterruptTask) /\ WF_vars(Loop) /\ WF_vars(CheckForReset)

---------------------------------------------------------------------------
(* Properties *)

Step ==
  ({"Select", "Deselect", "Other", "WriteStatus", "ReadStatus", "PrepareIdle", "ClearCtrl",
    "MarkReceive", "MarkTransmit", "MarkAll", "SetDefaults", "ReceivePermanently",
    "SetDelay", "IfPermanentThenReceive", "IfTransmitDone", "IfReceiveDone"} \X {""})
  \cup ({"WriteCtrl"} \X {"", "now", "delayed"})
  \cup ({"SetCtrl"} \X ControlBit) \cup ({"SetMode"} \X {"IDLE", "RX", "TX"})

TypeOK ==
  /\ build \in Build
  /\ status \subseteq Event /\ sysstatus \subseteq Event
  /\ reception \in {"unread", "read", "told"}
  /\ trx \in {"IDLE", "RECEIVING", "SENDING", "DELAYED"}
  /\ window \in {"high", "low", "used"}
  /\ sysctrl \subseteq ControlBit
  /\ deviceMode \in {"IDLE", "RX", "TX"} /\ txfctrl \in {"configured", "default"}
  /\ {thenReceive, permanentReceive, sem, sentAck, receivedAck, lost}
       \subseteq BOOLEAN
  /\ code \in [Task -> Seq(Step)]

WillClearAll ==
  \/ \E i \in DOMAIN code["irq"] : code["irq"][i] = Do("MarkAll")
  \/ sysstatus = Event /\ \E i \in DOMAIN code["irq"] : code["irq"][i] = Do("WriteStatus")

(* The semaphore is given when the interrupt line rises.  A line that is   *)
(* high is never left without a task to see to it: handleInterrupt is to   *)
(* be called, or it will still clear every bit before it ends.             *)
NoLostWakeUp ==
  build.whole \/ build.cores = 1 => (status # {} => sem \/ WillClearAll)

AtRest == \A t \in Task : code[t] = <<>>

(* However newReceive, newTransmit and their starts of the two tasks fall  *)
(* into each other, once both have ended the driver is in receive mode and *)
(* the chip receives, or will after a transmission; unless the clearing of *)
(* a status bit has hidden a reception, or a transfer was cut.             *)
ListensAtRest ==
  AtRest /\ ~sem /\ status = {} =>
    /\ deviceMode = "RX"
    /\ trx = "RECEIVING" \/ thenReceive \/ lost

(* On one core loop() is told of events only that have happened, although  *)
(* the cached status is full of ones between two interrupts.               *)
FlagsTellEvents ==
  [][build.cores = 1 /\ build.whole =>
       /\ sentAck' /\ ~sentAck => "TXFRS" \in status
       /\ receivedAck' /\ ~receivedAck => reception # "told"]_vars

(* On one core the transmissions of loop() keep the rate and the preamble  *)
(* that configureNetwork set: setDefaults never finds the mode idle.       *)
ConfigurationKept == build.cores = 1 => txfctrl = "configured"

(* Whatever is lost or cut, the interrupt line falls again and again, so   *)
(* that it can rise again: handleInterrupt clears what it does not handle. *)
LineFalls == []<>(status = {})

(* And the chip comes to listen or to send again and again: what takes it  *)
(* out of reception for good, the watchdog's receiver() makes good.        *)
ReceiverReturns == []<>(trx # "IDLE")

(* What transmitRange says: "delay sending the message and remember        *)
(* expected future sent timestamp".  The command that starts a frame after *)
(* setDelay delays it.                                                     *)
MessageDelayed ==
  AtStep("loop", <<"WriteCtrl", "delayed">>) /\ "TXSTRT" \in sysctrl =>
    "TXDLYS" \in sysctrl
================================================================================
