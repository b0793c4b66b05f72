----------------------------- MODULE Configuration -----------------------------
(***************************************************************************)
(* How the DW1000 class configures the chip.  The class keeps the settings *)
(* three times: in fields (_dataRate, ...), in images of the registers     *)
(* (_txfctrl, _chanctrl, _syscfg, _sysmask), and in the chip.  A setter    *)
(* changes fields and images; newConfiguration() refreshes the images, but *)
(* not the fields, from the chip; commitConfiguration() writes the images  *)
(* and tunes the chip by the fields.  A reset of the chip (select) leaves  *)
(* the fields and most images as they were.                                *)
(*                                                                         *)
(* An object with its chip is a record dw, and a function of the class an  *)
(* operator from objects to objects, so that composed functions such as    *)
(* configureNetwork read as they do in the code.  The value of a tuning    *)
(* register is represented by the settings it is right for.  Arguments are *)
(* the documented ones.  Bits that no property needs (frame filter, frame  *)
(* length, interrupt polarity, addresses) are left out.                    *)
(*                                                                         *)
(* SetDataRateWithoutFlag, SetPreambleLengthOnly, SetPulseFrequencyImages  *)
(* and NewConfigurationKeepMode are slips the code could have made.        *)
(***************************************************************************)
EXTENDS Naturals

CONSTANTS
  Lengths,   \* the preamble lengths an application uses
  Channels,  \* the channels it uses
  Codes,     \* the preamble codes it sets itself
  MaxCalls   \* bound on the number of its calls

DataRate == {"110K", "850K", "6800K"}
PulseFrequency == {16, 64}
PreambleLength == {64, 128, 256, 512, 1024, 1536, 2048, 4096}
PreambleCode == 1 .. 12 \cup 17 .. 20
Channel == {1, 2, 3, 4, 5, 7}

ASSUME SettingsAssumption ==
  /\ Lengths \subseteq PreambleLength
  /\ Channels \subseteq Channel
  /\ Codes \subseteq PreambleCode
  /\ MaxCalls \in Nat

(* MODE_LONGDATA_RANGE_LOWPOWER and the other five.                        *)
LongRangeLowPower == [rate |-> "110K", prf |-> 16, plen |-> 2048]
Mode ==
  {LongRangeLowPower, [LongRangeLowPower EXCEPT !.prf = 64]} \cup
  [rate : {"6800K"}, prf : PulseFrequency, plen : {128, 1024}]

VARIABLES
  dw,           \* the object and its chip
  configuring,  \* between newConfiguration() and commitConfiguration()
  defaults,     \* setDefaults() has taken effect since the last reset
  calls         \* number of calls so far

vars == <<dw, configuring, defaults, calls>>

---------------------------------------------------------------------------
(* The setters *)

SfdType(rate) == [decawave |-> rate # "6800K", nonStandard |-> rate = "850K"]
SfdLength(rate) == CASE rate = "6800K" -> 8 [] rate = "850K" -> 16 [] rate = "110K" -> 64

SetDataRateWithoutFlag(d, r) ==
  [d EXCEPT !.rate = r, !.txfctrl.rate = r,
            !.chanctrl.sfd = SfdType(r), !.chip.sfdLength = SfdLength(r)]

(* The length of the SFD is written to the chip at once.                   *)
SetDataRate(d, r) ==
  [d EXCEPT !.rate = r, !.txfctrl.rate = r, !.syscfg.rxm110k = (r = "110K"),
            !.chanctrl.sfd = SfdType(r), !.chip.sfdLength = SfdLength(r)]

SetPulseFrequencyImages(d, f) == [d EXCEPT !.txfctrl.prf = f, !.chanctrl.prf = f]

SetPulseFrequency(d, f) ==
  [d EXCEPT !.prf = f, !.txfctrl.prf = f, !.chanctrl.prf = f]

PacSize(plen) ==
  CASE plen \in {64, 128} -> 8
    [] plen \in {256, 512} -> 16
    [] plen = 1024 -> 32
    [] plen \in {1536, 2048, 4096} -> 64

SetPreambleLengthOnly(d, l) == [d EXCEPT !.plen = l, !.txfctrl.plen = l]

SetPreambleLength(d, l) ==
  [d EXCEPT !.plen = l, !.txfctrl.plen = l, !.pac = PacSize(l)]

SetPreambleCode(d, c) == [d EXCEPT !.code = c, !.chanctrl.code = c]

CodeOfChannel(ch, prf) ==
  IF prf = 16
  THEN CASE ch = 1 -> 2 [] ch = 3 -> 6 [] ch \in {4, 7} -> 8 [] ch \in {2, 5} -> 4
  ELSE IF ch \in {4, 7} THEN 18 ELSE 10

SetChannel(d, ch) ==
  SetPreambleCode([d EXCEPT !.channel = ch, !.chanctrl.channel = ch],
                  CodeOfChannel(ch, d.prf))

UseSmartPower(d, on) == [d EXCEPT !.smart = on, !.syscfg.disStxp = ~on]

EnableMode(d, m) ==
  SetPreambleLength(SetPulseFrequency(SetDataRate(d, m.rate), m.prf), m.plen)

InterruptOn(d) == [d EXCEPT !.sysmask = TRUE]

(* setDefaults() does nothing unless the chip is idle.                     *)
SetDefaults(d) ==
  IF d.mode # "IDLE" THEN d
  ELSE LET e == SetChannel(EnableMode(InterruptOn(UseSmartPower(d, FALSE)),
                                      LongRangeLowPower), 5)
       IN SetPreambleCode(e, IF e.prf = 16 THEN 4 ELSE 10)

---------------------------------------------------------------------------
(* Tuning *)

(* Where tune() assigns nothing it writes what the stack held.             *)
Unassigned == "unassigned"

DrxTune1b(d) ==
  CASE d.plen \in {1536, 2048, 4096} -> IF d.rate = "110K" THEN "long" ELSE Unassigned
    [] d.plen \in {128, 256, 512, 1024} -> IF d.rate # "110K" THEN "normal" ELSE Unassigned
    [] d.plen = 64 -> IF d.rate = "6800K" THEN "short" ELSE Unassigned

ReceiverTuning(d) ==
  [agcTune1 |-> d.prf, drxTune0b |-> d.rate, drxTune1a |-> d.prf, drxTune1b |-> DrxTune1b(d),
   drxTune2 |-> <<d.pac, d.prf>>, drxTune4H |-> d.plen = 64, rfRxCtrlH |-> d.channel \in {4, 7}]

(* Codes that share a value of LDE_REPC are represented by the lowest.     *)
RepcCode(c) == CASE c = 2 -> 1 [] c = 8 -> 3 [] c = 17 -> 10 [] c = 19 -> 18 [] OTHER -> c

LdeTuning(d) == [ldeCfg2 |-> d.prf, ldeRepc |-> <<RepcCode(d.code), d.rate = "110K">>]

PllChannel(ch) == CASE ch = 4 -> 2 [] ch = 7 -> 5 [] OTHER -> ch

SynthesizerTuning(d) ==
  [rfTxCtrl |-> d.channel, tcPgDelay |-> d.channel, fsPll |-> PllChannel(d.channel)]

TxPower(d) == <<IF d.channel = 2 THEN 1 ELSE d.channel, d.prf, d.smart>>

Tuning(d) ==
  [rx |-> ReceiverTuning(d), lde |-> LdeTuning(d), fs |-> SynthesizerTuning(d),
   power |-> TxPower(d)]

---------------------------------------------------------------------------
(* The chip *)

(* The registers of interest after a reset, by the manual of the chip.     *)
Untuned == "reset"
ChipReset ==
  [txfctrl |-> [rate |-> "6800K", prf |-> 16, plen |-> 128],
   chanctrl |-> [channel |-> 5, prf |-> 16, code |-> 4, sfd |-> SfdType("6800K")],
   syscfg |-> [rxm110k |-> FALSE, disStxp |-> FALSE],
   sysmask |-> FALSE, sfdLength |-> 8, tuned |-> FALSE, tuning |-> Untuned]

Idle(d) == [d EXCEPT !.mode = "IDLE"]

(* select(): the images of SYS_CFG and SYS_MASK are set up anew.           *)
Select(d) ==
  Idle([d EXCEPT !.chip = ChipReset, !.syscfg = ChipReset.syscfg, !.sysmask = FALSE])

NewConfigurationKeepMode(d) ==
  [d EXCEPT !.syscfg = d.chip.syscfg, !.chanctrl = d.chip.chanctrl,
            !.txfctrl = d.chip.txfctrl, !.sysmask = d.chip.sysmask]

NewConfiguration(d) ==
  Idle([d EXCEPT !.syscfg = d.chip.syscfg, !.chanctrl = d.chip.chanctrl,
                 !.txfctrl = d.chip.txfctrl, !.sysmask = d.chip.sysmask])

CommitConfiguration(d) ==
  [d EXCEPT !.chip = [txfctrl |-> d.txfctrl, chanctrl |-> d.chanctrl,
                      syscfg |-> d.syscfg, sysmask |-> d.sysmask,
                      sfdLength |-> d.chip.sfdLength, tuned |-> TRUE, tuning |-> Tuning(d)]]

(* DW1000Ranging::configureNetwork.                                        *)
ConfigureNetwork(d, m) ==
  CommitConfiguration(EnableMode(SetDefaults(NewConfiguration(d)), m))

(* DW1000Ranging::receiver and transmit, as far as they concern this.      *)
Receiver(d) ==
  [SetDefaults([d EXCEPT !.mode = "RX"]) EXCEPT !.permanent = TRUE, !.chip.syscfg = d.syscfg]
Transmit(d) ==
  [SetDefaults([d EXCEPT !.mode = "TX"]) EXCEPT
     !.chip.txfctrl = d.txfctrl, !.mode = IF d.permanent THEN "RX" ELSE "IDLE"]

---------------------------------------------------------------------------
(* The constructor, and the select() of begin().                           *)
PowerUp ==
  [rate |-> "6800K", prf |-> 16, plen |-> 128, pac |-> 8, code |-> 4, channel |-> 5,
   smart |-> FALSE, mode |-> "IDLE", permanent |-> FALSE, txfctrl |-> ChipReset.txfctrl,
   chanctrl |-> ChipReset.chanctrl, syscfg |-> ChipReset.syscfg, sysmask |-> FALSE,
   chip |-> ChipReset]

Init == dw = PowerUp /\ configuring = FALSE /\ defaults = FALSE /\ calls = 0

Call(d) == calls < MaxCalls /\ calls' = calls + 1 /\ dw' = d

(* The calls that make up a configuration, in any order.                   *)
Setting ==
  \/ Call(SetDefaults(dw)) /\ defaults' = (defaults \/ dw.mode = "IDLE")
  \/ /\ UNCHANGED defaults
     /\ \/ \E m \in Mode : Call(EnableMode(dw, m))
        \/ \E r \in DataRate : Call(SetDataRate(dw, r))
        \/ \E f \in PulseFrequency : Call(SetPulseFrequency(dw, f))
        \/ \E l \in Lengths : Call(SetPreambleLength(dw, l))
        \/ \E ch \in Channels : Call(SetChannel(dw, ch))
        \/ \E c \in Codes : Call(SetPreambleCode(dw, c))
        \/ \E on \in BOOLEAN : Call(UseSmartPower(dw, on))

BeginConfiguration ==
  ~configuring /\ configuring' = TRUE /\ Call(NewConfiguration(dw)) /\ UNCHANGED defaults

Configure == configuring /\ UNCHANGED configuring /\ Setting

EndConfiguration ==
  configuring /\ configuring' = FALSE /\ Call(CommitConfiguration(dw)) /\ UNCHANGED defaults

Operate ==
  /\ ~configuring /\ UNCHANGED configuring
  /\ \/ Call(Select(dw)) /\ defaults' = FALSE
     \/ (Call(Receiver(dw)) \/ Call(Transmit(dw))) /\ UNCHANGED defaults
     \/ (\E m \in Mode : Call(ConfigureNetwork(dw, m))) /\ defaults' = TRUE

Next == BeginConfiguration \/ Configure \/ EndConfiguration \/ Operate

Spec == Init /\ [][Next]_vars

---------------------------------------------------------------------------
(* Properties *)

TxfCtrl == [rate : DataRate, prf : PulseFrequency, plen : PreambleLength]
ChanCtrl == [channel : Channel, prf : PulseFrequency, code : PreambleCode,
             sfd : {SfdType(r) : r \in DataRate}]
SysCfg == [rxm110k : BOOLEAN, disStxp : BOOLEAN]

TypeOK ==
  /\ dw.rate \in DataRate /\ dw.prf \in PulseFrequency /\ dw.plen \in PreambleLength
  /\ dw.pac = PacSize(dw.plen) /\ dw.code \in PreambleCode /\ dw.channel \in Channel
  /\ {dw.smart, dw.sysmask, dw.permanent} \subseteq BOOLEAN /\ dw.mode \in {"IDLE", "RX"}
  /\ {dw.txfctrl, dw.chip.txfctrl} \subseteq TxfCtrl
  /\ {dw.chanctrl, dw.chip.chanctrl} \subseteq ChanCtrl
  /\ {dw.syscfg, dw.chip.syscfg} \subseteq SysCfg
  /\ configuring \in BOOLEAN /\ defaults \in BOOLEAN /\ calls \in 0 .. MaxCalls

(* Two boards given the same mode understand each other, whatever was done *)
(* to either of them before: what configureNetwork leaves in the chip does *)
(* not depend on earlier settings, on images read back, on resets, or on   *)
(* what the stack held when tune() was called.                             *)
ConfigureNetworkForgets ==
  ~configuring =>
    \A m \in Mode :
      LET c == ConfigureNetwork(dw, m).chip
      IN c = ConfigureNetwork(PowerUp, m).chip /\ c.tuning.rx.drxTune1b # Unassigned

(* Once the defaults have been set, any sequence of settings, read-backs,  *)
(* commits and transmissions leaves in the chip one pulse frequency in     *)
(* TX_FCTRL and CHAN_CTRL, and the 110 kb/s flag, the SFD type and the     *)
(* SFD length of its data rate.  (After a reset, a transmission writes a   *)
(* stale image of TX_FCTRL, and only setDefaults or enableMode repair it.) *)
RegistersCoherent ==
  dw.chip.tuned /\ defaults /\ ~configuring =>
    LET c == dw.chip
    IN /\ c.txfctrl.prf = c.chanctrl.prf
       /\ c.syscfg.rxm110k <=> c.txfctrl.rate = "110K"
       /\ c.chanctrl.sfd = SfdType(c.txfctrl.rate)
       /\ c.sfdLength = SfdLength(c.txfctrl.rate)

(* The preamble codes of a channel: table 61 of the manual of the chip.    *)
Table61(ch, prf) ==
  IF prf = 16
  THEN CASE ch = 1 -> {1, 2} [] ch \in {2, 5} -> {3, 4} [] ch = 3 -> {5, 6}
         [] ch \in {4, 7} -> {7, 8}
  ELSE IF ch \in {4, 7} THEN 17 .. 20 ELSE 9 .. 12

CodeFits(chanctrl) == chanctrl.code \in Table61(chanctrl.channel, chanctrl.prf)

(* The chip after changing to channel ch: by what has been set so far and  *)
(* a commit, or by a configuration of its own, which begins by reading the *)
(* images back.                                                            *)
ChipOnChannel(ch) ==
  LET d == IF configuring THEN dw ELSE NewConfiguration(dw)
  IN CommitConfiguration(SetChannel(d, ch)).chip

(* Once the defaults have been set since the last reset, the channel can   *)
(* be changed at any time, after any settings, read-backs, transmissions   *)
(* and other configurations: the chip gets a preamble code of that channel *)
(* and of the pulse frequency it has: table 61 of the manual, by which     *)
(* setChannel says it goes.  Not so between a reset and the next defaults: *)
(* setChannel goes by the field, and newConfiguration reads back the       *)
(* images only.                                                            *)
ChannelSetsFittingCode ==
  defaults => \A ch \in Channels : CodeFits(ChipOnChannel(ch).chanctrl)

(* What DW1000.h says of the modes: "pre-defined combinations of data      *)
(* rate, pulse repetition frequency, preamble and channel settings that    *)
(* properly go together".                                                  *)
ModesGoTogether ==
  [][\A m \in Mode : dw' = ConfigureNetwork(dw, m) => CodeFits(dw'.chip.chanctrl)]_vars
================================================================================
