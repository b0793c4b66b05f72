------------------------- MODULE Configuration_proofs --------------------------
(***************************************************************************)
(* The settings, the images and the registers keep together, for every set *)
(* of channels, codes and lengths and any number of calls.                 *)
(*                                                                         *)
(* What a function of the class returns is stated of any object d whose    *)
(* chip has the tuning t.  RegistersCoherent is not inductive: the chip is *)
(* written from the images, so the images must agree with each other, and  *)
(* outside a configuration the chip must have them (Inv).  Nor is          *)
(* ChannelSetsFittingCode: setChannel chooses by the field, which a        *)
(* read-back does not refresh, so the field must agree with the images,    *)
(* and after the read-back with the chip.                                  *)
(***************************************************************************)
EXTENDS Configuration, TLAPS

Registers(t) ==
  [txfctrl : TxfCtrl, chanctrl : ChanCtrl, syscfg : SysCfg, sysmask : BOOLEAN,
   sfdLength : {8, 16, 64}, tuned : BOOLEAN, tuning : {t}]

Objects(t) ==
  [rate : DataRate, prf : PulseFrequency, plen : PreambleLength, pac : {8, 16, 32, 64},
   code : PreambleCode, channel : Channel, smart : BOOLEAN, mode : {"IDLE", "RX", "TX"},
   permanent : BOOLEAN, txfctrl : TxfCtrl, chanctrl : ChanCtrl, syscfg : SysCfg,
   sysmask : BOOLEAN, chip : Registers(t)]

PacFits(d) == d.pac = PacSize(d.plen)

PulseAgrees(d) == d.txfctrl.prf = d.chanctrl.prf /\ d.prf = d.txfctrl.prf
RateAgrees(d) ==
  /\ d.syscfg.rxm110k <=> d.txfctrl.rate = "110K"
  /\ d.chanctrl.sfd = SfdType(d.txfctrl.rate)
  /\ d.chip.sfdLength = SfdLength(d.txfctrl.rate)
ImagesAgree(d) == PulseAgrees(d) /\ RateAgrees(d)

ChipHasImages(d) ==
  /\ d.chip.txfctrl = d.txfctrl /\ d.chip.chanctrl = d.chanctrl
  /\ d.chip.syscfg = d.syscfg

Typed ==
  /\ dw \in Objects(dw.chip.tuning) /\ PacFits(dw) /\ dw.mode # "TX"
  /\ configuring \in BOOLEAN /\ defaults \in BOOLEAN /\ calls \in 0 .. MaxCalls

Coherent == defaults => ImagesAgree(dw) /\ (~configuring => ChipHasImages(dw))

Inv == Typed /\ Coherent

---------------------------------------------------------------------------
(* The setters: what is new in e after the call on d *)

Kept(d, e) ==
  /\ e.channel = d.channel /\ e.code = d.code /\ e.smart = d.smart
  /\ e.sysmask = d.sysmask /\ e.mode = d.mode

RateEffect(d, r, e) ==
  /\ Kept(d, e)
  /\ e.rate = r /\ e.txfctrl = [d.txfctrl EXCEPT !.rate = r]
  /\ e.chanctrl = [d.chanctrl EXCEPT !.sfd = SfdType(r)]
  /\ e.syscfg = [d.syscfg EXCEPT !.rxm110k = (r = "110K")]
  /\ e.prf = d.prf /\ e.chip.sfdLength = SfdLength(r)

PulseEffect(d, f, e) ==
  /\ Kept(d, e)
  /\ e.rate = d.rate /\ e.prf = f
  /\ e.txfctrl = [d.txfctrl EXCEPT !.prf = f]
  /\ e.chanctrl = [d.chanctrl EXCEPT !.prf = f]
  /\ e.syscfg = d.syscfg /\ e.chip = d.chip

LengthEffect(d, l, e) ==
  /\ Kept(d, e)
  /\ e.rate = d.rate /\ e.prf = d.prf /\ e.plen = l
  /\ e.txfctrl = [d.txfctrl EXCEPT !.plen = l] /\ e.chanctrl = d.chanctrl
  /\ e.syscfg = d.syscfg /\ e.chip = d.chip

ModeEffect(d, m, e) ==
  /\ Kept(d, e)
  /\ e.rate = m.rate /\ e.prf = m.prf /\ e.plen = m.plen
  /\ e.txfctrl = [rate |-> m.rate, prf |-> m.prf, plen |-> m.plen]
  /\ e.chanctrl = [d.chanctrl EXCEPT !.sfd = SfdType(m.rate), !.prf = m.prf]
  /\ e.syscfg = [d.syscfg EXCEPT !.rxm110k = (m.rate = "110K")]
  /\ e.chip.sfdLength = SfdLength(m.rate)

LEMMA PacSizes == \A l \in PreambleLength : PacSize(l) \in {8, 16, 32, 64}
<1> SUFFICES ASSUME NEW l \in PreambleLength PROVE PacSize(l) \in {8, 16, 32, 64}
  OBVIOUS
<1>1. CASE l \in {64, 128}
  BY <1>1 DEF PacSize
<1>2. CASE l \in {256, 512}
  BY <1>2 DEF PacSize
<1>3. CASE l = 1024
  BY <1>3 DEF PacSize
<1>4. CASE l \in {1536, 2048, 4096}
  BY <1>4 DEF PacSize
<1> QED
  BY <1>1, <1>2, <1>3, <1>4 DEF PreambleLength

LEMMA SfdTypes ==
  \A r \in DataRate : SfdType(r) \in {SfdType(s) : s \in DataRate} /\ SfdLength(r) \in {8, 16, 64}
  BY DEF DataRate, SfdLength

LEMMA DataRateSet ==
  ASSUME NEW t, NEW d \in Objects(t), NEW r \in DataRate
  PROVE  LET e == SetDataRate(d, r)
         IN /\ e \in Objects(t) /\ RateAgrees(e)
            /\ PulseAgrees(d) => PulseAgrees(e)
            /\ PacFits(d) => PacFits(e)
            /\ RateEffect(d, r, e)
<1> DEFINE e == SetDataRate(d, r)
<1>1. e \in Objects(t)
  <2> DEFINE flag == (r = "110K")
             sfd == SfdType(r)
             x == [d.txfctrl EXCEPT !.rate = r]
             y == [d.chanctrl EXCEPT !.sfd = sfd]
             z == [d.syscfg EXCEPT !.rxm110k = flag]
             c == [d.chip EXCEPT !.sfdLength = SfdLength(r)]
  <2>1. flag \in BOOLEAN /\ sfd \in {SfdType(s) : s \in DataRate} /\ SfdLength(r) \in {8, 16, 64}
    BY SfdTypes
  <2>2. e = [d EXCEPT !.rate = r, !.txfctrl = x, !.syscfg = z, !.chanctrl = y, !.chip = c]
    BY DEF SetDataRate
  <2> HIDE DEF flag, sfd, e
  <2>3. x \in TxfCtrl
    BY DEF Objects, TxfCtrl
  <2>4. y \in ChanCtrl
    BY <2>1 DEF Objects, ChanCtrl
  <2>5. z \in SysCfg
    BY <2>1 DEF Objects, SysCfg
  <2>6. c \in Registers(t)
    BY <2>1 DEF Objects, Registers
  <2> HIDE DEF x, y, z, c
  <2> QED
    BY <2>2, <2>3, <2>4, <2>5, <2>6 DEF Objects
<1>2. /\ e.rate = r /\ e.txfctrl = [d.txfctrl EXCEPT !.rate = r]
      /\ e.chanctrl = [d.chanctrl EXCEPT !.sfd = SfdType(r)]
      /\ e.syscfg = [d.syscfg EXCEPT !.rxm110k = (r = "110K")]
      /\ e.chip.sfdLength = SfdLength(r)
      /\ e.prf = d.prf /\ e.plen = d.plen /\ e.pac = d.pac
      /\ e.channel = d.channel /\ e.code = d.code /\ e.smart = d.smart
      /\ e.sysmask = d.sysmask /\ e.mode = d.mode
  BY DEF SetDataRate, Objects, Registers
<1> HIDE DEF e
<1>3. /\ e.txfctrl.rate = r /\ e.txfctrl.prf = d.txfctrl.prf
      /\ e.chanctrl.prf = d.chanctrl.prf /\ e.chanctrl.sfd = SfdType(r)
      /\ e.syscfg.rxm110k = (r = "110K")
  BY <1>2 DEF Objects, TxfCtrl, ChanCtrl, SysCfg
<1>4. RateAgrees(e) /\ (PulseAgrees(d) => PulseAgrees(e)) /\ (PacFits(d) => PacFits(e))
  BY <1>2, <1>3 DEF RateAgrees, PulseAgrees, PacFits
<1> QED
  BY <1>1, <1>2, <1>4 DEF e, RateEffect, Kept

LEMMA PulseFrequencySet ==
  ASSUME NEW t, NEW d \in Objects(t), NEW f \in PulseFrequency
  PROVE  LET e == SetPulseFrequency(d, f)
         IN /\ e \in Objects(t) /\ PulseAgrees(e)
            /\ RateAgrees(d) => RateAgrees(e)
            /\ PacFits(d) => PacFits(e)
            /\ PulseEffect(d, f, e)
<1> DEFINE e == SetPulseFrequency(d, f)
<1>1. e \in Objects(t)
  BY DEF SetPulseFrequency, Objects, TxfCtrl, ChanCtrl
<1>2. /\ e.rate = d.rate /\ e.prf = f
      /\ e.txfctrl = [d.txfctrl EXCEPT !.prf = f]
      /\ e.chanctrl = [d.chanctrl EXCEPT !.prf = f]
      /\ e.syscfg = d.syscfg /\ e.channel = d.channel /\ e.code = d.code
      /\ e.smart = d.smart /\ e.sysmask = d.sysmask /\ e.mode = d.mode
      /\ e.chip = d.chip /\ e.plen = d.plen /\ e.pac = d.pac
  BY DEF SetPulseFrequency, Objects
<1> HIDE DEF e
<1>3. /\ e.txfctrl.rate = d.txfctrl.rate /\ e.txfctrl.prf = f
      /\ e.chanctrl.prf = f /\ e.chanctrl.sfd = d.chanctrl.sfd
  BY <1>2 DEF Objects, TxfCtrl, ChanCtrl
<1>4. PulseAgrees(e) /\ (RateAgrees(d) => RateAgrees(e)) /\ (PacFits(d) => PacFits(e))
  BY <1>2, <1>3 DEF RateAgrees, PulseAgrees, PacFits
<1> QED
  BY <1>1, <1>2, <1>4 DEF e, PulseEffect, Kept

LEMMA PreambleLengthSet ==
  ASSUME NEW t, NEW d \in Objects(t), NEW l \in PreambleLength
  PROVE  LET e == SetPreambleLength(d, l)
         IN /\ e \in Objects(t) /\ PacFits(e)
            /\ ImagesAgree(d) => ImagesAgree(e)
            /\ LengthEffect(d, l, e)
<1> DEFINE e == SetPreambleLength(d, l)
<1>1. e \in Objects(t)
  BY PacSizes DEF SetPreambleLength, Objects, TxfCtrl
<1>2. /\ e.rate = d.rate /\ e.prf = d.prf /\ e.plen = l /\ e.pac = PacSize(l)
      /\ e.txfctrl = [d.txfctrl EXCEPT !.plen = l] /\ e.chanctrl = d.chanctrl
      /\ e.syscfg = d.syscfg /\ e.channel = d.channel /\ e.code = d.code
      /\ e.smart = d.smart /\ e.sysmask = d.sysmask /\ e.mode = d.mode
      /\ e.chip = d.chip
  BY DEF SetPreambleLength, Objects
<1> HIDE DEF e
<1>3. e.txfctrl.rate = d.txfctrl.rate /\ e.txfctrl.prf = d.txfctrl.prf
  BY <1>2 DEF Objects, TxfCtrl
<1>4. PacFits(e) /\ (ImagesAgree(d) => ImagesAgree(e))
  BY <1>2, <1>3 DEF ImagesAgree, RateAgrees, PulseAgrees, PacFits
<1> QED
  BY <1>1, <1>2, <1>4 DEF e, LengthEffect, Kept

LEMMA PreambleCodeSet ==
  ASSUME NEW t, NEW d \in Objects(t), NEW c \in PreambleCode
  PROVE  LET e == SetPreambleCode(d, c)
         IN /\ e \in Objects(t)
            /\ PacFits(d) => PacFits(e)
            /\ ImagesAgree(d) => ImagesAgree(e)
            /\ e.chanctrl = [d.chanctrl EXCEPT !.code = c] /\ e.code = c
            /\ e.prf = d.prf /\ e.syscfg = d.syscfg /\ e.channel = d.channel
            /\ e.smart = d.smart /\ e.sysmask = d.sysmask /\ e.mode = d.mode
<1> DEFINE e == SetPreambleCode(d, c)
<1>1. e \in Objects(t)
  BY DEF SetPreambleCode, Objects, ChanCtrl
<1>2. /\ e.chanctrl = [d.chanctrl EXCEPT !.code = c] /\ e.code = c
      /\ e.prf = d.prf /\ e.syscfg = d.syscfg /\ e.channel = d.channel
      /\ e.smart = d.smart /\ e.sysmask = d.sysmask /\ e.mode = d.mode
      /\ e.chip = d.chip /\ e.plen = d.plen /\ e.pac = d.pac /\ e.txfctrl = d.txfctrl
  BY DEF SetPreambleCode, Objects
<1> HIDE DEF e
<1>3. e.chanctrl.prf = d.chanctrl.prf /\ e.chanctrl.sfd = d.chanctrl.sfd
  BY <1>2 DEF Objects, ChanCtrl
<1>4. (PacFits(d) => PacFits(e)) /\ (ImagesAgree(d) => ImagesAgree(e))
  BY <1>2, <1>3 DEF ImagesAgree, RateAgrees, PulseAgrees, PacFits
<1> QED
  BY <1>1, <1>2, <1>4 DEF e

LEMMA ChannelCodes ==
  \A ch \in Channel, f \in PulseFrequency :
    /\ CodeOfChannel(ch, f) \in PreambleCode
    /\ CodeOfChannel(ch, f) \in Table61(ch, f)
<1> SUFFICES ASSUME NEW ch \in Channel, NEW f \in PulseFrequency
             PROVE  /\ CodeOfChannel(ch, f) \in PreambleCode
                    /\ CodeOfChannel(ch, f) \in Table61(ch, f)
  OBVIOUS
<1>1. CASE f = 16
  <2>1. CASE ch = 1
    BY <1>1, <2>1 DEF CodeOfChannel, Table61, PreambleCode
  <2>2. CASE ch = 3
    BY <1>1, <2>2 DEF CodeOfChannel, Table61, PreambleCode
  <2>3. CASE ch \in {4, 7}
    BY <1>1, <2>3 DEF CodeOfChannel, Table61, PreambleCode
  <2>4. CASE ch \in {2, 5}
    BY <1>1, <2>4 DEF CodeOfChannel, Table61, PreambleCode
  <2> QED
    BY <2>1, <2>2, <2>3, <2>4 DEF Channel
<1>2. CASE f = 64
  BY <1>2 DEF CodeOfChannel, Table61, PreambleCode
<1> QED
  BY <1>1, <1>2 DEF PulseFrequency

LEMMA ChannelSet ==
  ASSUME NEW t, NEW d \in Objects(t), NEW ch \in Channel
  PROVE  LET e == SetChannel(d, ch)
         IN /\ e \in Objects(t)
            /\ PacFits(d) => PacFits(e)
            /\ ImagesAgree(d) => ImagesAgree(e)
            /\ e.channel = ch /\ e.chanctrl.channel = ch
            /\ e.chanctrl.code = CodeOfChannel(ch, d.prf)
            /\ e.chanctrl.prf = d.chanctrl.prf
            /\ e.prf = d.prf /\ e.syscfg = d.syscfg
            /\ e.smart = d.smart /\ e.sysmask = d.sysmask /\ e.mode = d.mode
<1> DEFINE c == CodeOfChannel(ch, d.prf)
           m == [d EXCEPT !.channel = ch, !.chanctrl.channel = ch]
           e == SetChannel(d, ch)
<1>1. c \in PreambleCode
  BY ChannelCodes DEF Objects
<1>2. e = SetPreambleCode(m, c)
  BY DEF SetChannel
<1>3. m \in Objects(t)
  BY DEF Objects, ChanCtrl
<1>4. /\ m.channel = ch /\ m.chanctrl = [d.chanctrl EXCEPT !.channel = ch]
      /\ m.prf = d.prf /\ m.syscfg = d.syscfg /\ m.txfctrl = d.txfctrl /\ m.chip = d.chip
      /\ m.smart = d.smart /\ m.sysmask = d.sysmask /\ m.mode = d.mode
      /\ m.plen = d.plen /\ m.pac = d.pac
  BY DEF Objects
<1> HIDE DEF c, m, e
<1>5. /\ m.chanctrl.channel = ch /\ m.chanctrl.prf = d.chanctrl.prf
      /\ m.chanctrl.sfd = d.chanctrl.sfd
  BY <1>4 DEF Objects, ChanCtrl
<1>6. (PacFits(d) => PacFits(m)) /\ (ImagesAgree(d) => ImagesAgree(m))
  BY <1>4, <1>5 DEF ImagesAgree, RateAgrees, PulseAgrees, PacFits
<1>7. /\ e \in Objects(t) /\ (PacFits(m) => PacFits(e)) /\ (ImagesAgree(m) => ImagesAgree(e))
      /\ e.chanctrl = [m.chanctrl EXCEPT !.code = c]
      /\ e.prf = m.prf /\ e.syscfg = m.syscfg /\ e.channel = m.channel
      /\ e.smart = m.smart /\ e.sysmask = m.sysmask /\ e.mode = m.mode
  BY <1>1, <1>2, <1>3, PreambleCodeSet
<1>8. e.chanctrl.channel = ch /\ e.chanctrl.code = c /\ e.chanctrl.prf = d.chanctrl.prf
  BY <1>3, <1>5, <1>7 DEF Objects, ChanCtrl
<1> QED
  BY <1>4, <1>6, <1>7, <1>8 DEF e, c

LEMMA SmartPowerSet ==
  ASSUME NEW t, NEW d \in Objects(t), NEW on \in BOOLEAN
  PROVE  LET e == UseSmartPower(d, on)
         IN /\ e \in Objects(t)
            /\ PacFits(d) => PacFits(e)
            /\ ImagesAgree(d) => ImagesAgree(e)
            /\ e.smart = on /\ e.syscfg.disStxp = ~on
            /\ e.mode = d.mode /\ e.prf = d.prf
<1> DEFINE off == ~on
           e == UseSmartPower(d, on)
<1>0. off \in BOOLEAN
  OBVIOUS
<1>1. e = [d EXCEPT !.smart = on, !.syscfg.disStxp = off]
  BY DEF UseSmartPower
<1> HIDE DEF off, e
<1>2. e \in Objects(t)
  BY <1>0, <1>1 DEF Objects, SysCfg
<1>3. /\ e.smart = on /\ e.syscfg = [d.syscfg EXCEPT !.disStxp = off]
      /\ e.mode = d.mode /\ e.prf = d.prf /\ e.plen = d.plen /\ e.pac = d.pac
      /\ e.txfctrl = d.txfctrl /\ e.chanctrl = d.chanctrl /\ e.chip = d.chip
  BY <1>1 DEF Objects
<1>4. e.syscfg.disStxp = off /\ e.syscfg.rxm110k = d.syscfg.rxm110k
  BY <1>3 DEF Objects, SysCfg
<1>5. (PacFits(d) => PacFits(e)) /\ (ImagesAgree(d) => ImagesAgree(e))
  BY <1>3, <1>4 DEF ImagesAgree, RateAgrees, PulseAgrees, PacFits
<1> QED
  BY <1>2, <1>3, <1>4, <1>5 DEF e, off

LEMMA InterruptsSet ==
  ASSUME NEW t, NEW d \in Objects(t)
  PROVE  LET e == InterruptOn(d)
         IN /\ e \in Objects(t) /\ e.sysmask = TRUE
            /\ PacFits(d) => PacFits(e)
            /\ ImagesAgree(d) => ImagesAgree(e)
            /\ e.syscfg = d.syscfg /\ e.smart = d.smart /\ e.mode = d.mode
<1>1. InterruptOn(d) \in Objects(t)
  BY DEF InterruptOn, Objects
<1>2. LET e == InterruptOn(d)
      IN /\ e.sysmask = TRUE /\ e.syscfg = d.syscfg /\ e.smart = d.smart /\ e.mode = d.mode
         /\ e.txfctrl = d.txfctrl /\ e.chanctrl = d.chanctrl /\ e.chip = d.chip
         /\ e.plen = d.plen /\ e.pac = d.pac /\ e.prf = d.prf
  BY DEF InterruptOn, Objects
<1> QED
  BY <1>1, <1>2 DEF ImagesAgree, RateAgrees, PulseAgrees, PacFits

(* Whatever was set before, a mode makes the images agree.                 *)
LEMMA ModeEnabled ==
  ASSUME NEW t, NEW d \in Objects(t), NEW m \in Mode
  PROVE  LET e == EnableMode(d, m)
         IN /\ e \in Objects(t) /\ PacFits(e) /\ ImagesAgree(e)
            /\ ModeEffect(d, m, e)
<1> DEFINE r == m.rate
           f == m.prf
           l == m.plen
           x == SetDataRate(d, r)
           y == SetPulseFrequency(x, f)
           e == SetPreambleLength(y, l)
<1>1. r \in DataRate /\ f \in PulseFrequency /\ l \in PreambleLength
  BY DEF Mode, LongRangeLowPower, DataRate, PulseFrequency, PreambleLength
<1>2. EnableMode(d, m) = e
  BY DEF EnableMode
<1> HIDE DEF r, f, l
<1>3. x \in Objects(t) /\ RateAgrees(x) /\ RateEffect(d, r, x)
  BY <1>1, DataRateSet, Zenon
<1> HIDE DEF x
<1>4. y \in Objects(t) /\ PulseAgrees(y) /\ RateAgrees(y) /\ PulseEffect(x, f, y)
  BY <1>1, <1>3, PulseFrequencySet, Zenon
<1> HIDE DEF y
<1>5. e \in Objects(t) /\ PacFits(e) /\ ImagesAgree(e) /\ LengthEffect(y, l, e)
  <2>1. ImagesAgree(y)
    BY <1>4 DEF ImagesAgree
  <2> QED
    BY <1>1, <1>4, <2>1, PreambleLengthSet, Zenon
<1> HIDE DEF e
<1>6. e.txfctrl = [rate |-> r, prf |-> f, plen |-> l]
  <2>1. d.txfctrl \in TxfCtrl
    BY DEF Objects
  <2>2. e.txfctrl = [[[d.txfctrl EXCEPT !.rate = r] EXCEPT !.prf = f] EXCEPT !.plen = l]
    BY <1>3, <1>4, <1>5 DEF RateEffect, PulseEffect, LengthEffect
  <2> QED
    BY <2>1, <2>2 DEF TxfCtrl
<1>7. e.chanctrl = [d.chanctrl EXCEPT !.sfd = SfdType(r), !.prf = f]
  BY <1>3, <1>4, <1>5 DEF RateEffect, PulseEffect, LengthEffect
<1>8. e.syscfg = [d.syscfg EXCEPT !.rxm110k = (r = "110K")]
  BY <1>3, <1>4, <1>5 DEF RateEffect, PulseEffect, LengthEffect
<1>9. /\ Kept(d, e) /\ e.rate = r /\ e.prf = f /\ e.plen = l
      /\ e.chip.sfdLength = SfdLength(r)
  BY <1>3, <1>4, <1>5 DEF RateEffect, PulseEffect, LengthEffect, Kept
<1> QED
  BY <1>2, <1>5, <1>6, <1>7, <1>8, <1>9 DEF r, f, l, ModeEffect

---------------------------------------------------------------------------
(* The functions composed of them *)

DefaultsEffect(e) ==
  /\ e.smart = FALSE /\ e.sysmask = TRUE /\ e.syscfg.disStxp = TRUE
  /\ e.channel = 5 /\ e.code = 4 /\ e.chanctrl.channel = 5 /\ e.chanctrl.code = 4
  /\ e.mode = "IDLE"

LEMMA DefaultsSet ==
  ASSUME NEW t, NEW d \in Objects(t), d.mode = "IDLE"
  PROVE  LET e == SetDefaults(d)
         IN e \in Objects(t) /\ PacFits(e) /\ ImagesAgree(e) /\ DefaultsEffect(e)
<1> DEFINE a == UseSmartPower(d, FALSE)
           b == InterruptOn(a)
           m == LongRangeLowPower
           c == EnableMode(b, m)
           g == SetChannel(c, 5)
           h == SetPreambleCode(g, 4)
<1>1. a \in Objects(t) /\ a.smart = FALSE /\ a.syscfg.disStxp = TRUE /\ a.mode = d.mode
  BY SmartPowerSet
<1> HIDE DEF a
<1>2. /\ b \in Objects(t) /\ b.sysmask = TRUE
      /\ b.syscfg = a.syscfg /\ b.smart = a.smart /\ b.mode = a.mode
  BY <1>1, InterruptsSet
<1> HIDE DEF b
<1>3. m \in Mode /\ m.prf = 16
  BY DEF Mode, LongRangeLowPower
<1> HIDE DEF m
<1>4. c \in Objects(t) /\ PacFits(c) /\ ImagesAgree(c) /\ ModeEffect(b, m, c)
  BY <1>2, <1>3, ModeEnabled, Zenon
<1>5. c.prf = 16 /\ c.smart = b.smart /\ c.sysmask = b.sysmask /\ c.mode = b.mode
      /\ c.syscfg.disStxp = b.syscfg.disStxp
  BY <1>2, <1>3, <1>4 DEF ModeEffect, Kept, Objects, SysCfg
<1> HIDE DEF c
<1>6. /\ g \in Objects(t) /\ PacFits(g) /\ ImagesAgree(g)
      /\ g.channel = 5 /\ g.chanctrl.channel = 5 /\ g.prf = c.prf /\ g.syscfg = c.syscfg
      /\ g.smart = c.smart /\ g.sysmask = c.sysmask /\ g.mode = c.mode
  <2>1. 5 \in Channel
    BY DEF Channel
  <2> QED
    BY <1>4, <2>1, ChannelSet, Zenon
<1> HIDE DEF g
<1>7. /\ h \in Objects(t) /\ PacFits(h) /\ ImagesAgree(h)
      /\ h.chanctrl = [g.chanctrl EXCEPT !.code = 4] /\ h.code = 4
      /\ h.syscfg = g.syscfg /\ h.channel = g.channel
      /\ h.smart = g.smart /\ h.sysmask = g.sysmask /\ h.mode = g.mode
  <2>1. 4 \in PreambleCode
    BY DEF PreambleCode
  <2> QED
    BY <1>6, <2>1, PreambleCodeSet
<1> HIDE DEF h
<1>8. h.chanctrl.channel = 5 /\ h.chanctrl.code = 4
  BY <1>6, <1>7 DEF Objects, ChanCtrl
<1>9. DefaultsEffect(h)
  BY <1>1, <1>2, <1>5, <1>6, <1>7, <1>8 DEF DefaultsEffect
<1>10. SetDefaults(d) = SetPreambleCode(g, IF g.prf = 16 THEN 4 ELSE 10)
  BY DEF SetDefaults, g, c, m, b, a
<1>11. SetDefaults(d) = h
  BY <1>5, <1>6, <1>10 DEF h
<1> QED
  BY <1>7, <1>9, <1>11

LEMMA ConfigurationBegun ==
  ASSUME NEW t, NEW d \in Objects(t)
  PROVE  LET e == NewConfiguration(d)
         IN /\ e \in Objects(t) /\ e.mode = "IDLE"
            /\ PacFits(d) => PacFits(e)
            /\ ChipHasImages(d) /\ ImagesAgree(d) => ImagesAgree(e)
<1> DEFINE e == NewConfiguration(d)
<1>1. e \in Objects(t)
  BY DEF NewConfiguration, Idle, Objects, Registers
<1>2. /\ e.mode = "IDLE" /\ e.syscfg = d.chip.syscfg /\ e.chanctrl = d.chip.chanctrl
      /\ e.txfctrl = d.chip.txfctrl /\ e.chip = d.chip /\ e.plen = d.plen /\ e.pac = d.pac
      /\ e.prf = d.prf
  BY DEF NewConfiguration, Idle, Objects
<1> HIDE DEF e
<1>3. /\ PacFits(d) => PacFits(e)
      /\ ChipHasImages(d) /\ ImagesAgree(d) => ImagesAgree(e)
  BY <1>2 DEF PacFits, ChipHasImages, ImagesAgree, PulseAgrees, RateAgrees
<1> QED
  BY <1>1, <1>2, <1>3 DEF e

LEMMA ConfigurationCommitted ==
  ASSUME NEW t, NEW d \in Objects(t)
  PROVE  LET e == CommitConfiguration(d)
         IN /\ e \in Objects(Tuning(d)) /\ e.chip.tuning = Tuning(d)
            /\ ChipHasImages(e) /\ e.mode = d.mode /\ e.chip.chanctrl = d.chanctrl
            /\ PacFits(d) => PacFits(e)
            /\ ImagesAgree(d) => ImagesAgree(e)
<1> DEFINE u == Tuning(d)
           c == [txfctrl |-> d.txfctrl, chanctrl |-> d.chanctrl, syscfg |-> d.syscfg,
                 sysmask |-> d.sysmask, sfdLength |-> d.chip.sfdLength, tuned |-> TRUE,
                 tuning |-> u]
           e == CommitConfiguration(d)
<1>1. e = [d EXCEPT !.chip = c]
  BY DEF CommitConfiguration
<1> HIDE DEF u, e
<1>2. c \in Registers(u)
  BY DEF Objects, Registers
<1>3. /\ c.txfctrl = d.txfctrl /\ c.chanctrl = d.chanctrl /\ c.syscfg = d.syscfg
      /\ c.sfdLength = d.chip.sfdLength /\ c.tuning = u
  OBVIOUS
<1> HIDE DEF c
<1>4. e \in Objects(u)
  BY <1>1, <1>2 DEF Objects
<1>5. /\ e.chip = c /\ e.txfctrl = d.txfctrl /\ e.chanctrl = d.chanctrl
      /\ e.syscfg = d.syscfg /\ e.mode = d.mode /\ e.plen = d.plen /\ e.pac = d.pac
      /\ e.prf = d.prf
  BY <1>1 DEF Objects
<1>6. /\ ChipHasImages(e) /\ e.chip.tuning = u
      /\ PacFits(d) => PacFits(e)
      /\ ImagesAgree(d) => ImagesAgree(e)
  BY <1>3, <1>5 DEF PacFits, ChipHasImages, ImagesAgree, PulseAgrees, RateAgrees
<1> QED
  BY <1>3, <1>4, <1>5, <1>6 DEF u, e

(* What configureNetwork leaves in the chip, in terms of the mode alone.   *)
Configured(m) ==
  [txfctrl |-> [rate |-> m.rate, prf |-> m.prf, plen |-> m.plen],
   chanctrl |-> [channel |-> 5, prf |-> m.prf, code |-> 4, sfd |-> SfdType(m.rate)],
   syscfg |-> [rxm110k |-> (m.rate = "110K"), disStxp |-> TRUE],
   sysmask |-> TRUE, sfdLength |-> SfdLength(m.rate), tuned |-> TRUE,
   tuning |-> Tuning([rate |-> m.rate, prf |-> m.prf, plen |-> m.plen,
                      pac |-> PacSize(m.plen), code |-> 4, channel |-> 5, smart |-> FALSE])]

LEMMA SameTuning ==
  ASSUME NEW d, NEW e,
         d.rate = e.rate, d.prf = e.prf, d.plen = e.plen, d.pac = e.pac,
         d.code = e.code, d.channel = e.channel, d.smart = e.smart
  PROVE  Tuning(d) = Tuning(e)
  BY DEF Tuning, ReceiverTuning, DrxTune1b, LdeTuning, RepcCode, SynthesizerTuning,
         PllChannel, TxPower

LEMMA NetworkConfigured ==
  ASSUME NEW t, NEW d \in Objects(t), NEW m \in Mode
  PROVE  LET e == ConfigureNetwork(d, m)
         IN /\ e \in Objects(e.chip.tuning) /\ PacFits(e) /\ ImagesAgree(e)
            /\ ChipHasImages(e) /\ e.mode = "IDLE" /\ e.chip = Configured(m)
<1> DEFINE a == NewConfiguration(d)
           b == SetDefaults(a)
           c == EnableMode(b, m)
           e == CommitConfiguration(c)
<1>0. ConfigureNetwork(d, m) = e
  BY DEF ConfigureNetwork
<1>1. a \in Objects(t) /\ a.mode = "IDLE"
  BY ConfigurationBegun, Zenon
<1> HIDE DEF a
<1>2. b \in Objects(t) /\ DefaultsEffect(b)
  BY <1>1, DefaultsSet, Zenon
<1> HIDE DEF b
<1>3. c \in Objects(t) /\ PacFits(c) /\ ImagesAgree(c) /\ ModeEffect(b, m, c)
  BY <1>2, ModeEnabled, Zenon
<1> HIDE DEF c
<1>4. /\ e \in Objects(Tuning(c)) /\ e.chip.tuning = Tuning(c)
      /\ ChipHasImages(e) /\ e.mode = c.mode /\ PacFits(e) /\ ImagesAgree(e)
  BY <1>3, ConfigurationCommitted, Zenon
<1>5. e.chip = [txfctrl |-> c.txfctrl, chanctrl |-> c.chanctrl, syscfg |-> c.syscfg,
                sysmask |-> c.sysmask, sfdLength |-> c.chip.sfdLength, tuned |-> TRUE,
                tuning |-> Tuning(c)]
  BY <1>3 DEF CommitConfiguration, Objects
<1> HIDE DEF e
<1>6. c.chanctrl = [channel |-> 5, prf |-> m.prf, code |-> 4, sfd |-> SfdType(m.rate)]
  <2> DEFINE r == SfdType(m.rate)
             f == m.prf
  <2>1. b.chanctrl \in ChanCtrl
    BY <1>2 DEF Objects
  <2>2. /\ b.chanctrl.channel = 5 /\ b.chanctrl.code = 4
        /\ c.chanctrl = [b.chanctrl EXCEPT !.sfd = r, !.prf = f]
    BY <1>2, <1>3 DEF DefaultsEffect, ModeEffect
  <2> HIDE DEF r, f
  <2>3. c.chanctrl = [channel |-> 5, prf |-> f, code |-> 4, sfd |-> r]
    BY <2>1, <2>2 DEF ChanCtrl
  <2> QED
    BY <2>3 DEF r, f
<1>7. c.syscfg = [rxm110k |-> (m.rate = "110K"), disStxp |-> TRUE]
  <2> DEFINE g == (m.rate = "110K")
  <2>1. b.syscfg \in SysCfg
    BY <1>2 DEF Objects
  <2>2. b.syscfg.disStxp = TRUE /\ c.syscfg = [b.syscfg EXCEPT !.rxm110k = g]
    BY <1>2, <1>3 DEF DefaultsEffect, ModeEffect
  <2> HIDE DEF g
  <2>3. c.syscfg = [rxm110k |-> g, disStxp |-> TRUE]
    BY <2>1, <2>2 DEF SysCfg
  <2> QED
    BY <2>3 DEF g
<1>8. /\ c.txfctrl = [rate |-> m.rate, prf |-> m.prf, plen |-> m.plen]
      /\ c.sysmask = TRUE /\ c.chip.sfdLength = SfdLength(m.rate) /\ c.mode = "IDLE"
      /\ c.rate = m.rate /\ c.prf = m.prf /\ c.plen = m.plen /\ c.pac = PacSize(m.plen)
      /\ c.code = 4 /\ c.channel = 5 /\ c.smart = FALSE
  BY <1>2, <1>3 DEF DefaultsEffect, ModeEffect, Kept, PacFits
<1>9. Tuning(c) = Tuning([rate |-> m.rate, prf |-> m.prf, plen |-> m.plen,
                          pac |-> PacSize(m.plen), code |-> 4, channel |-> 5,
                          smart |-> FALSE])
  BY <1>8, SameTuning
<1>10. e.chip = Configured(m)
  BY <1>5, <1>6, <1>7, <1>8, <1>9 DEF Configured
<1> QED
  BY <1>0, <1>4, <1>8, <1>10

(* For none of the modes does tune() leave DRX_TUNE1b unassigned.          *)
LEMMA ModesAreTuned ==
  \A m \in Mode : Configured(m).tuning.rx.drxTune1b # Unassigned
<1> SUFFICES ASSUME NEW m \in Mode PROVE Configured(m).tuning.rx.drxTune1b # Unassigned
  OBVIOUS
<1> DEFINE e == [rate |-> m.rate, prf |-> m.prf, plen |-> m.plen,
                 pac |-> PacSize(m.plen), code |-> 4, channel |-> 5, smart |-> FALSE]
<1>1. Configured(m).tuning.rx.drxTune1b = DrxTune1b(e)
  BY DEF Configured, Tuning, ReceiverTuning
<1>2. e.rate = m.rate /\ e.plen = m.plen
  OBVIOUS
<1> HIDE DEF e
<1>3. CASE m.rate = "110K" /\ m.plen = 2048
  BY <1>1, <1>2, <1>3 DEF DrxTune1b, Unassigned
<1>4. CASE m.rate = "6800K" /\ m.plen \in {128, 1024}
  BY <1>1, <1>2, <1>4 DEF DrxTune1b, Unassigned
<1> QED
  BY <1>3, <1>4 DEF Mode, LongRangeLowPower

LEMMA ChipResetType ==
  /\ ChipReset \in Registers(Untuned) /\ ChipReset.tuning = Untuned
  /\ ChipReset.txfctrl \in TxfCtrl /\ ChipReset.chanctrl \in ChanCtrl
  /\ ChipReset.syscfg \in SysCfg
<1> DEFINE c == ChipReset
           sfd == SfdType("6800K")
<1>1. sfd \in {SfdType(s) : s \in DataRate}
  BY SfdTypes DEF DataRate
<1>2. 4 \in PreambleCode /\ 5 \in Channel
  BY DEF PreambleCode, Channel
<1>3. c = [txfctrl |-> [rate |-> "6800K", prf |-> 16, plen |-> 128],
           chanctrl |-> [channel |-> 5, prf |-> 16, code |-> 4, sfd |-> sfd],
           syscfg |-> [rxm110k |-> FALSE, disStxp |-> FALSE],
           sysmask |-> FALSE, sfdLength |-> 8, tuned |-> FALSE, tuning |-> Untuned]
  BY DEF ChipReset
<1> HIDE DEF c, sfd
<1>4. c \in Registers(Untuned) /\ c.tuning = Untuned /\ c.txfctrl \in TxfCtrl
      /\ c.chanctrl \in ChanCtrl /\ c.syscfg \in SysCfg
  BY <1>1, <1>2, <1>3 DEF Registers, TxfCtrl, ChanCtrl, SysCfg, DataRate, PulseFrequency,
       PreambleLength
<1> QED
  BY <1>4 DEF c

LEMMA Selected ==
  ASSUME NEW t, NEW d \in Objects(t)
  PROVE  LET e == Select(d)
         IN e \in Objects(e.chip.tuning) /\ e.mode = "IDLE" /\ (PacFits(d) => PacFits(e))
<1> DEFINE c == ChipReset
           e == Select(d)
<1>1. c \in Registers(Untuned) /\ c.syscfg \in SysCfg /\ c.tuning = Untuned
  BY ChipResetType
<1>2. e = [[d EXCEPT !.chip = c, !.syscfg = c.syscfg, !.sysmask = FALSE] EXCEPT !.mode = "IDLE"]
  BY DEF Select, Idle
<1> HIDE DEF c, e
<1>3. e \in Objects(Untuned) /\ e.chip = c
  BY <1>1, <1>2 DEF Objects
<1>4. e.mode = "IDLE" /\ e.plen = d.plen /\ e.pac = d.pac
  BY <1>2 DEF Objects
<1> QED
  BY <1>1, <1>3, <1>4 DEF PacFits, e

LEMMA ReceiverStarted ==
  ASSUME NEW t, NEW d \in Objects(t)
  PROVE  LET e == Receiver(d)
         IN /\ e \in Objects(t) /\ e.mode = "RX" /\ (PacFits(d) => PacFits(e))
            /\ ImagesAgree(d) => ImagesAgree(e)
            /\ ChipHasImages(d) => ChipHasImages(e)
<1> DEFINE c == [d.chip EXCEPT !.syscfg = d.syscfg]
           e == Receiver(d)
<1>1. e = [d EXCEPT !.mode = "RX", !.permanent = TRUE, !.chip = c]
  BY DEF Receiver, SetDefaults, Objects
<1>2. c \in Registers(t)
  BY DEF Objects, Registers
<1>3. /\ c.syscfg = d.syscfg /\ c.txfctrl = d.chip.txfctrl /\ c.chanctrl = d.chip.chanctrl
      /\ c.sfdLength = d.chip.sfdLength
  BY DEF Objects, Registers
<1> HIDE DEF c, e
<1>4. e \in Objects(t)
  BY <1>1, <1>2 DEF Objects
<1>5. /\ e.mode = "RX" /\ e.chip = c /\ e.txfctrl = d.txfctrl /\ e.chanctrl = d.chanctrl
      /\ e.syscfg = d.syscfg /\ e.plen = d.plen /\ e.pac = d.pac /\ e.prf = d.prf
  BY <1>1 DEF Objects
<1> QED
  BY <1>3, <1>4, <1>5 DEF PacFits, ChipHasImages, ImagesAgree, PulseAgrees, RateAgrees, e

LEMMA Transmitted ==
  ASSUME NEW t, NEW d \in Objects(t)
  PROVE  LET e == Transmit(d)
         IN /\ e \in Objects(t) /\ e.mode # "TX" /\ (PacFits(d) => PacFits(e))
            /\ ImagesAgree(d) => ImagesAgree(e)
            /\ ChipHasImages(d) => ChipHasImages(e)
<1> DEFINE c == [d.chip EXCEPT !.txfctrl = d.txfctrl]
           w == IF d.permanent THEN "RX" ELSE "IDLE"
           e == Transmit(d)
<1>1. e = [d EXCEPT !.mode = w, !.chip = c]
  BY DEF Transmit, SetDefaults, Objects
<1>2. c \in Registers(t) /\ w \in {"IDLE", "RX"}
  BY DEF Objects, Registers
<1>3. /\ c.syscfg = d.chip.syscfg /\ c.txfctrl = d.txfctrl /\ c.chanctrl = d.chip.chanctrl
      /\ c.sfdLength = d.chip.sfdLength
  BY DEF Objects, Registers
<1> HIDE DEF c, w, e
<1>4. e \in Objects(t)
  BY <1>1, <1>2 DEF Objects
<1>5. /\ e.mode = w /\ e.chip = c /\ e.txfctrl = d.txfctrl /\ e.chanctrl = d.chanctrl
      /\ e.syscfg = d.syscfg /\ e.plen = d.plen /\ e.pac = d.pac /\ e.prf = d.prf
  BY <1>1 DEF Objects
<1> QED
  BY <1>2, <1>3, <1>4, <1>5 DEF PacFits, ChipHasImages, ImagesAgree, PulseAgrees, RateAgrees, e

---------------------------------------------------------------------------
(* The invariant *)

LEMMA TuningOf == \A u : \A d \in Objects(u) : d.chip.tuning = u
  BY DEF Objects, Registers

LEMMA PowerUpType == PowerUp \in Objects(PowerUp.chip.tuning) /\ PacFits(PowerUp)
<1>1. /\ ChipReset \in Registers(Untuned) /\ ChipReset.tuning = Untuned
      /\ ChipReset.txfctrl \in TxfCtrl /\ ChipReset.chanctrl \in ChanCtrl
      /\ ChipReset.syscfg \in SysCfg
  BY ChipResetType
<1>2. 4 \in PreambleCode /\ 5 \in Channel /\ PacSize(128) = 8
  BY DEF PreambleCode, Channel, PacSize
<1>3. PowerUp \in Objects(Untuned) /\ PowerUp.chip = ChipReset /\ PacFits(PowerUp)
  BY <1>1, <1>2 DEF PowerUp, Objects, PacFits, DataRate, PulseFrequency, PreambleLength
<1> QED
  BY <1>1, <1>3

LEMMA InitInv == Init => Inv
<1> SUFFICES ASSUME Init PROVE Inv
  OBVIOUS
<1>1. dw = PowerUp /\ configuring = FALSE /\ defaults = FALSE /\ calls = 0
  BY DEF Init
<1>2. dw.mode # "TX"
  BY <1>1 DEF PowerUp
<1>3. dw \in Objects(dw.chip.tuning) /\ PacFits(dw)
  BY <1>1, PowerUpType
<1>4. calls \in 0 .. MaxCalls
  BY <1>1, SettingsAssumption
<1> QED
  BY <1>1, <1>2, <1>3, <1>4 DEF Inv, Typed, Coherent

(* One step of the application.                                            *)
LEMMA NextInv == Inv /\ [Next]_vars => Inv'
<1> SUFFICES ASSUME Inv, [Next]_vars PROVE Inv'
  OBVIOUS
<1> DEFINE t == dw.chip.tuning
<1>1. /\ dw \in Objects(t) /\ PacFits(dw) /\ dw.mode # "TX"
      /\ configuring \in BOOLEAN /\ defaults \in BOOLEAN /\ calls \in 0 .. MaxCalls
      /\ Coherent
  BY DEF Inv, Typed
<1> HIDE DEF t
<1>2. ASSUME NEW d, Call(d)
      PROVE  dw' = d /\ calls' \in 0 .. MaxCalls
  BY <1>1, <1>2, SettingsAssumption DEF Call
<1>3. ASSUME NEW d, NEW u, Call(d), d \in Objects(u), PacFits(d), d.mode # "TX",
             configuring' \in BOOLEAN, defaults' \in BOOLEAN,
             defaults' => ImagesAgree(d) /\ (~configuring' => ChipHasImages(d))
      PROVE  Inv'
  <2>1. dw' = d /\ calls' \in 0 .. MaxCalls
    BY <1>2, <1>3
  <2>2. dw' \in Objects(dw'.chip.tuning) /\ PacFits(dw') /\ dw'.mode # "TX"
    BY <1>3, <2>1, TuningOf
  <2> QED
    BY <1>3, <2>1, <2>2 DEF Inv, Typed, Coherent, ImagesAgree, PulseAgrees, RateAgrees,
      ChipHasImages, PacFits, Objects, Registers
<1>4. CASE BeginConfiguration
  <2> DEFINE e == NewConfiguration(dw)
  <2>1. /\ e \in Objects(t) /\ e.mode = "IDLE" /\ PacFits(e)
        /\ ChipHasImages(dw) /\ ImagesAgree(dw) => ImagesAgree(e)
    BY <1>1, ConfigurationBegun, Zenon
  <2> HIDE DEF e
  <2>2. defaults => ImagesAgree(e)
    BY <1>1, <1>4, <2>1 DEF BeginConfiguration, Coherent
  <2>3. Call(e) /\ configuring' = TRUE /\ defaults' = defaults
    BY <1>4 DEF BeginConfiguration, e
  <2> QED
    BY <1>1, <1>3, <2>1, <2>2, <2>3
<1>5. ASSUME configuring, configuring' = configuring, defaults' = defaults, NEW e, Call(e),
             e \in Objects(t), e.mode = dw.mode, PacFits(e),
             ImagesAgree(dw) => ImagesAgree(e)
      PROVE  Inv'
  <2>1. defaults => ImagesAgree(e)
    BY <1>1, <1>5 DEF Coherent
  <2> QED
    BY <1>1, <1>3, <1>5, <2>1
<1>6. CASE Configure
  <2>1. configuring /\ configuring' = configuring
    BY <1>6 DEF Configure
  <2>2. CASE Call(SetDefaults(dw)) /\ defaults' = (defaults \/ dw.mode = "IDLE")
    <3> DEFINE e == SetDefaults(dw)
    <3>1. CASE dw.mode = "IDLE"
      <4>1. e \in Objects(t) /\ PacFits(e) /\ ImagesAgree(e) /\ DefaultsEffect(e)
        BY <1>1, <3>1, DefaultsSet, Zenon
      <4>2. e.mode # "TX"
        BY <4>1 DEF DefaultsEffect
      <4> HIDE DEF e
      <4>3. Call(e) /\ defaults' \in BOOLEAN
        BY <1>1, <2>2 DEF e
      <4> QED
        BY <1>1, <1>3, <2>1, <4>1, <4>2, <4>3
    <3>2. CASE dw.mode # "IDLE"
      <4>1. e = dw /\ defaults' = defaults
        BY <1>1, <2>2, <3>2 DEF SetDefaults
      <4> QED
        BY <1>1, <1>5, <2>1, <2>2, <4>1
    <3> QED
      BY <3>1, <3>2
  <2>3. CASE /\ UNCHANGED defaults
             /\ \/ \E m \in Mode : Call(EnableMode(dw, m))
                \/ \E r \in DataRate : Call(SetDataRate(dw, r))
                \/ \E f \in PulseFrequency : Call(SetPulseFrequency(dw, f))
                \/ \E l \in Lengths : Call(SetPreambleLength(dw, l))
                \/ \E ch \in Channels : Call(SetChannel(dw, ch))
                \/ \E c \in Codes : Call(SetPreambleCode(dw, c))
                \/ \E on \in BOOLEAN : Call(UseSmartPower(dw, on))
    <3>1. ASSUME NEW m \in Mode, Call(EnableMode(dw, m)) PROVE Inv'
      <4> DEFINE e == EnableMode(dw, m)
      <4>1. e \in Objects(t) /\ PacFits(e) /\ ImagesAgree(e) /\ ModeEffect(dw, m, e)
        BY <1>1, ModeEnabled, Zenon
      <4>2. e.mode = dw.mode
        BY <4>1 DEF ModeEffect, Kept
      <4> QED
        BY <1>5, <2>1, <2>3, <3>1, <4>1, <4>2
    <3>2. ASSUME NEW r \in DataRate, Call(SetDataRate(dw, r)) PROVE Inv'
      <4> DEFINE e == SetDataRate(dw, r)
      <4>1. /\ e \in Objects(t) /\ RateAgrees(e) /\ RateEffect(dw, r, e)
            /\ PacFits(e) /\ (PulseAgrees(dw) => PulseAgrees(e))
        BY <1>1, DataRateSet, Zenon
      <4>2. e.mode = dw.mode /\ (ImagesAgree(dw) => ImagesAgree(e))
        BY <4>1 DEF RateEffect, Kept, ImagesAgree
      <4> QED
        BY <1>5, <2>1, <2>3, <3>2, <4>1, <4>2
    <3>3. ASSUME NEW f \in PulseFrequency, Call(SetPulseFrequency(dw, f)) PROVE Inv'
      <4> DEFINE e == SetPulseFrequency(dw, f)
      <4>1. /\ e \in Objects(t) /\ PulseAgrees(e) /\ PulseEffect(dw, f, e)
            /\ PacFits(e) /\ (RateAgrees(dw) => RateAgrees(e))
        BY <1>1, PulseFrequencySet, Zenon
      <4>2. e.mode = dw.mode /\ (ImagesAgree(dw) => ImagesAgree(e))
        BY <4>1 DEF PulseEffect, Kept, ImagesAgree
      <4> QED
        BY <1>5, <2>1, <2>3, <3>3, <4>1, <4>2
    <3>4. ASSUME NEW l \in Lengths, Call(SetPreambleLength(dw, l)) PROVE Inv'
      <4> DEFINE e == SetPreambleLength(dw, l)
      <4>1. l \in PreambleLength
        BY SettingsAssumption
      <4>2. /\ e \in Objects(t) /\ PacFits(e) /\ LengthEffect(dw, l, e)
            /\ ImagesAgree(dw) => ImagesAgree(e)
        BY <1>1, <4>1, PreambleLengthSet, Zenon
      <4>3. e.mode = dw.mode
        BY <4>2 DEF LengthEffect, Kept
      <4> QED
        BY <1>5, <2>1, <2>3, <3>4, <4>2, <4>3
    <3>5. ASSUME NEW ch \in Channels, Call(SetChannel(dw, ch)) PROVE Inv'
      <4> DEFINE e == SetChannel(dw, ch)
      <4>1. ch \in Channel
        BY SettingsAssumption
      <4>2. /\ e \in Objects(t) /\ PacFits(e) /\ e.mode = dw.mode
            /\ ImagesAgree(dw) => ImagesAgree(e)
        BY <1>1, <4>1, ChannelSet, Zenon
      <4> QED
        BY <1>5, <2>1, <2>3, <3>5, <4>2
    <3>6. ASSUME NEW c \in Codes, Call(SetPreambleCode(dw, c)) PROVE Inv'
      <4> DEFINE e == SetPreambleCode(dw, c)
      <4>1. c \in PreambleCode
        BY SettingsAssumption
      <4>2. /\ e \in Objects(t) /\ PacFits(e) /\ e.mode = dw.mode
            /\ ImagesAgree(dw) => ImagesAgree(e)
        BY <1>1, <4>1, PreambleCodeSet, Zenon
      <4> QED
        BY <1>5, <2>1, <2>3, <3>6, <4>2
    <3>7. ASSUME NEW on \in BOOLEAN, Call(UseSmartPower(dw, on)) PROVE Inv'
      <4> DEFINE e == UseSmartPower(dw, on)
      <4>1. /\ e \in Objects(t) /\ PacFits(e) /\ e.mode = dw.mode
            /\ ImagesAgree(dw) => ImagesAgree(e)
        BY <1>1, SmartPowerSet
      <4> QED
        BY <1>5, <2>1, <2>3, <3>7, <4>1
    <3> QED
      BY <2>3, <3>1, <3>2, <3>3, <3>4, <3>5, <3>6, <3>7
  <2> QED
    BY <1>6, <2>2, <2>3 DEF Configure, Setting
<1>7. CASE EndConfiguration
  <2> DEFINE e == CommitConfiguration(dw)
             u == Tuning(dw)
  <2>1. /\ e \in Objects(u) /\ ChipHasImages(e) /\ e.mode = dw.mode /\ PacFits(e)
        /\ ImagesAgree(dw) => ImagesAgree(e)
    BY <1>1, ConfigurationCommitted, Zenon
  <2> HIDE DEF e, u
  <2>2. Call(e) /\ configuring' = FALSE /\ defaults' = defaults
    BY <1>7 DEF EndConfiguration, e
  <2>3. defaults => ImagesAgree(e)
    BY <1>1, <2>1 DEF Coherent
  <2> QED
    BY <1>1, <1>3, <2>1, <2>2, <2>3
<1>8. CASE Operate
  <2>1. ~configuring /\ configuring' = configuring
    BY <1>8 DEF Operate
  <2>2. CASE Call(Select(dw)) /\ defaults' = FALSE
    <3> DEFINE e == Select(dw)
               u == e.chip.tuning
    <3>1. e \in Objects(u) /\ e.mode = "IDLE" /\ PacFits(e)
      BY <1>1, Selected, Zenon
    <3> HIDE DEF e, u
    <3>2. Call(e)
      BY <2>2 DEF e
    <3> QED
      BY <1>1, <1>3, <2>1, <2>2, <3>1, <3>2
  <2>3. CASE Call(Receiver(dw)) /\ UNCHANGED defaults
    <3> DEFINE e == Receiver(dw)
    <3>1. /\ e \in Objects(t) /\ e.mode = "RX" /\ PacFits(e)
          /\ ImagesAgree(dw) => ImagesAgree(e)
          /\ ChipHasImages(dw) => ChipHasImages(e)
      BY <1>1, ReceiverStarted, Zenon
    <3> HIDE DEF e
    <3>2. Call(e) /\ defaults' = defaults
      BY <2>3 DEF e
    <3>3. defaults => ImagesAgree(e) /\ ChipHasImages(e)
      BY <1>1, <2>1, <3>1 DEF Coherent
    <3> QED
      BY <1>1, <1>3, <2>1, <3>1, <3>2, <3>3
  <2>4. CASE Call(Transmit(dw)) /\ UNCHANGED defaults
    <3> DEFINE e == Transmit(dw)
    <3>1. /\ e \in Objects(t) /\ e.mode # "TX" /\ PacFits(e)
          /\ ImagesAgree(dw) => ImagesAgree(e)
          /\ ChipHasImages(dw) => ChipHasImages(e)
      BY <1>1, Transmitted, Zenon
    <3> HIDE DEF e
    <3>2. Call(e) /\ defaults' = defaults
      BY <2>4 DEF e
    <3>3. defaults => ImagesAgree(e) /\ ChipHasImages(e)
      BY <1>1, <2>1, <3>1 DEF Coherent
    <3> QED
      BY <1>1, <1>3, <2>1, <3>1, <3>2, <3>3
  <2>5. ASSUME NEW m \in Mode, Call(ConfigureNetwork(dw, m)), defaults' = TRUE PROVE Inv'
    <3> DEFINE e == ConfigureNetwork(dw, m)
               u == e.chip.tuning
    <3>1. e \in Objects(u) /\ PacFits(e) /\ ImagesAgree(e) /\ ChipHasImages(e) /\ e.mode = "IDLE"
      BY <1>1, NetworkConfigured, Zenon
    <3> HIDE DEF e, u
    <3>2. Call(e)
      BY <2>5 DEF e
    <3> QED
      BY <1>1, <1>3, <2>1, <2>5, <3>1, <3>2
  <2> QED
    BY <1>8, <2>2, <2>3, <2>4, <2>5 DEF Operate
<1>9. CASE UNCHANGED vars
  BY <1>9 DEF vars, Inv, Typed, Coherent, ImagesAgree, PulseAgrees, RateAgrees,
    ChipHasImages, PacFits
<1> QED
  BY <1>4, <1>6, <1>7, <1>8, <1>9 DEF Next

(* The inductive invariant of the object, its register images and the chip. *)
THEOREM Invariance == Spec => []Inv
  BY InitInv, NextInv, PTL DEF Spec

---------------------------------------------------------------------------
(* Images and registers keep their types, and the PAC size fits the        *)
(* preamble length, whatever is called in whatever order.                  *)
THEOREM TypeCorrect == Spec => []TypeOK
<1>1. Inv => TypeOK
  <2> SUFFICES ASSUME Inv PROVE TypeOK
    OBVIOUS
  <2>1. /\ dw \in Objects(dw.chip.tuning) /\ PacFits(dw) /\ dw.mode # "TX"
        /\ configuring \in BOOLEAN /\ defaults \in BOOLEAN /\ calls \in 0 .. MaxCalls
    BY DEF Inv, Typed
  <2>2. dw.chip \in Registers(dw.chip.tuning)
    BY <2>1 DEF Objects
  <2>3. /\ dw.chip.txfctrl \in TxfCtrl /\ dw.chip.chanctrl \in ChanCtrl
        /\ dw.chip.syscfg \in SysCfg
    BY <2>2 DEF Registers
  <2> QED
    BY <2>1, <2>3 DEF TypeOK, Objects, PacFits
<1> QED
  BY <1>1, Invariance, PTL

(* Once the defaults have been set, the registers agree about the pulse    *)
(* frequency and the data rate: the chip was written from images that      *)
(* agree, and newConfiguration reads back no others.                       *)
THEOREM Coherence == Spec => []RegistersCoherent
<1>1. Inv => RegistersCoherent
  BY DEF Inv, Coherent, ImagesAgree, PulseAgrees, RateAgrees, ChipHasImages, RegistersCoherent
<1> QED
  BY <1>1, Invariance, PTL

(* configureNetwork leaves a chip that depends on the mode alone.          *)
THEOREM Forgets == Spec => []ConfigureNetworkForgets
<1>1. Inv => ConfigureNetworkForgets
  <2> SUFFICES ASSUME Inv, NEW m \in Mode
               PROVE  LET c == ConfigureNetwork(dw, m).chip
                      IN /\ c = ConfigureNetwork(PowerUp, m).chip
                         /\ c.tuning.rx.drxTune1b # Unassigned
    BY DEF ConfigureNetworkForgets
  <2>1. dw \in Objects(dw.chip.tuning)
    BY DEF Inv, Typed
  <2>2. ConfigureNetwork(dw, m).chip = Configured(m)
    BY <2>1, NetworkConfigured, Zenon
  <2>3. ConfigureNetwork(PowerUp, m).chip = Configured(m)
    BY PowerUpType, NetworkConfigured, Zenon
  <2> QED
    BY <2>2, <2>3, ModesAreTuned
<1> QED
  BY <1>1, Invariance, PTL

(* Whatever was set, read back, committed and sent since the defaults were *)
(* set, changing the channel leaves the chip with a preamble code of table *)
(* 61 for that channel and the pulse frequency of the chip.                *)
THEOREM ChannelsFit == Spec => []ChannelSetsFittingCode
<1>1. Inv => ChannelSetsFittingCode
  <2> SUFFICES ASSUME Inv, defaults, NEW ch \in Channels
               PROVE  CodeFits(ChipOnChannel(ch).chanctrl)
    BY DEF ChannelSetsFittingCode
  <2> DEFINE t == dw.chip.tuning
             d == IF configuring THEN dw ELSE NewConfiguration(dw)
             e == SetChannel(d, ch)
  <2>1. dw \in Objects(t) /\ ch \in Channel
    BY SettingsAssumption DEF Inv, Typed
  <2>2. ImagesAgree(dw) /\ (~configuring => ChipHasImages(dw))
    BY DEF Inv, Coherent
  <2>3. d \in Objects(t) /\ ImagesAgree(d)
    <3>1. CASE configuring
      BY <2>1, <2>2, <3>1
    <3>2. CASE ~configuring
      <4>1. NewConfiguration(dw) \in Objects(t) /\ ImagesAgree(NewConfiguration(dw))
        BY <2>1, <2>2, <3>2, ConfigurationBegun, Zenon
      <4> QED
        BY <3>2, <4>1
    <3> QED
      BY <3>1, <3>2
  <2> HIDE DEF t, d
  <2>4. /\ e \in Objects(t)
        /\ e.chanctrl.channel = ch /\ e.chanctrl.code = CodeOfChannel(ch, d.prf)
        /\ e.chanctrl.prf = d.chanctrl.prf
    BY <2>1, <2>3, ChannelSet, Zenon
  <2>5. d.chanctrl.prf = d.prf /\ d.prf \in PulseFrequency
    BY <2>3 DEF ImagesAgree, PulseAgrees, Objects
  <2>6. CodeFits(e.chanctrl)
    BY <2>1, <2>4, <2>5, ChannelCodes DEF CodeFits
  <2>7. CommitConfiguration(e).chip.chanctrl = e.chanctrl
    BY <2>4, ConfigurationCommitted, Zenon
  <2> QED
    BY <2>6, <2>7 DEF ChipOnChannel, d
<1> QED
  BY <1>1, Invariance, PTL
================================================================================
