------------------------ MODULE ChannelConfig_proofs ------------------------
(***************************************************************************)
(* Proofs about ChannelConfig.  Every reachable state is what one call of  *)
(* resetRadioConfig made of some settings a phone wrote (Produced), which  *)
(* needs no induction: each step overwrites the whole state.  The         *)
(* invariants are then facts about resetRadioConfig, proved from facts   *)
(* about each of its stages, which keep the settings in Stage.            *)
(***************************************************************************)
EXTENDS ChannelConfig, TLAPS

ChanFields == {"psk", "name", "modem", "bandwidth", "txPower"}

Mk(p, n, m, b, t) == [psk |-> p, name |-> n, modem |-> m, bandwidth |-> b, txPower |-> t]

(* The settings between two stages of resetRadioConfig: a phone-written  *)
(* record, the zeroed one, or one with the compact default key.           *)
Stage == [psk : Psks \cup {<< >>, <<1>>}, name : Names, modem : Modems,
          bandwidth : Bandwidths, txPower : TxPowers]

LEMMA StageDomain ==
    ASSUME NEW x \in Stage
    PROVE  /\ DOMAIN x = ChanFields
           /\ x = Mk(x.psk, x.name, x.modem, x.bandwidth, x.txPower)
BY DEF Stage, ChanFields, Mk

(* The record EXCEPTs of resetRadioConfig, as explicit records.           *)
LEMMA SetNameForm ==
    ASSUME NEW x \in Stage, NEW v
    PROVE  [x EXCEPT !.name = v] = Mk(x.psk, v, x.modem, x.bandwidth, x.txPower)
<1> DEFINE y == [x EXCEPT !.name = v]
           r == Mk(x.psk, v, x.modem, x.bandwidth, x.txPower)
<1>1. DOMAIN x = ChanFields
  BY StageDomain
<1>2. /\ DOMAIN y = ChanFields /\ y = [f \in DOMAIN y |-> y[f]]
      /\ y.psk = x.psk /\ y.name = v /\ y.modem = x.modem
      /\ y.bandwidth = x.bandwidth /\ y.txPower = x.txPower
  BY <1>1, Zenon DEF ChanFields
<1>3. /\ DOMAIN r = ChanFields /\ r = [f \in ChanFields |-> r[f]]
      /\ \A f \in ChanFields : y[f] = r[f]
  BY <1>2 DEF ChanFields, Mk
<1>. QED
  BY <1>2, <1>3, Zenon

LEMMA SetPskForm ==
    ASSUME NEW x \in Stage, NEW v
    PROVE  [x EXCEPT !.psk = v] = Mk(v, x.name, x.modem, x.bandwidth, x.txPower)
<1> DEFINE y == [x EXCEPT !.psk = v]
           r == Mk(v, x.name, x.modem, x.bandwidth, x.txPower)
<1>1. DOMAIN x = ChanFields
  BY StageDomain
<1>2. /\ DOMAIN y = ChanFields /\ y = [f \in DOMAIN y |-> y[f]]
      /\ y.psk = v /\ y.name = x.name /\ y.modem = x.modem
      /\ y.bandwidth = x.bandwidth /\ y.txPower = x.txPower
  BY <1>1, Zenon DEF ChanFields
<1>3. /\ DOMAIN r = ChanFields /\ r = [f \in ChanFields |-> r[f]]
      /\ \A f \in ChanFields : y[f] = r[f]
  BY <1>2 DEF ChanFields, Mk
<1>. QED
  BY <1>2, <1>3, Zenon

LEMMA SetDefaultForm ==
    ASSUME NEW x \in Stage
    PROVE  [x EXCEPT !.modem = "Bw125Cr48Sf4096", !.txPower = 0,
                     !.psk = <<1>>, !.name = EmptyStr]
             = Mk(<<1>>, EmptyStr, "Bw125Cr48Sf4096", x.bandwidth, 0)
<1> DEFINE y == [x EXCEPT !.modem = "Bw125Cr48Sf4096", !.txPower = 0,
                          !.psk = <<1>>, !.name = EmptyStr]
           r == Mk(<<1>>, EmptyStr, "Bw125Cr48Sf4096", x.bandwidth, 0)
<1>1. DOMAIN x = ChanFields
  BY StageDomain
<1>2. /\ DOMAIN y = ChanFields /\ y = [f \in DOMAIN y |-> y[f]]
      /\ y.psk = <<1>> /\ y.name = EmptyStr /\ y.modem = "Bw125Cr48Sf4096"
      /\ y.bandwidth = x.bandwidth /\ y.txPower = 0
  BY <1>1, Zenon DEF ChanFields
<1>3. /\ DOMAIN r = ChanFields /\ r = [f \in ChanFields |-> r[f]]
      /\ \A f \in ChanFields : y[f] = r[f]
  BY <1>2 DEF ChanFields, Mk
<1>. QED
  BY <1>2, <1>3, Zenon

LEMMA StageKey ==
    ASSUME NEW x \in Stage
    PROVE  /\ x.psk \in Seq(0..255)
           /\ Len(x.psk) = 0 <=> x.psk = << >>
<1>1. x.psk \in Seq(0..255)
  <2>1. x.psk \in Psks \cup {<< >>, <<1>>}
    BY DEF Stage
  <2>2. << >> \in Seq(0..255) /\ <<1>> \in Seq(0..255)
    OBVIOUS
  <2>. QED
    BY <2>1, <2>2, ChannelAssumption
<1>. QED
  BY <1>1

(* Lines 122-138: the default channel has the compact key 1, so after it *)
(* the key is never empty; a key already there is left alone.            *)
LEMMA DefaultChannelStage ==
    ASSUME NEW x \in Stage
    PROVE  /\ DefaultChannel(x) \in Stage
           /\ DefaultChannel(x).psk # << >>
           /\ x.psk # << >> => DefaultChannel(x) = x
<1>1. CASE x.psk = << >>
  <2>1. DefaultChannel(x) = Mk(<<1>>, EmptyStr, "Bw125Cr48Sf4096", x.bandwidth, 0)
    BY <1>1, StageKey, SetDefaultForm DEF DefaultChannel
  <2>. QED
    BY <1>1, <2>1, ChannelAssumption DEF Stage, Mk
<1>2. CASE x.psk # << >>
  BY <1>2, StageKey DEF DefaultChannel
<1>. QED
  BY <1>1, <1>2

(* Lines 140-142: after the migration the name is never "Default".      *)
LEMMA MigrateNameStage ==
    ASSUME NEW x \in Stage
    PROVE  /\ MigrateName(x) \in Stage
           /\ MigrateName(x).name # "Default"
           /\ MigrateName(x).psk = x.psk /\ MigrateName(x).modem = x.modem
           /\ MigrateName(x).bandwidth = x.bandwidth
           /\ x.name # "Default" => MigrateName(x) = x
<1>1. CASE x.name = "Default"
  <2>1. MigrateName(x) = Mk(x.psk, EmptyStr, x.modem, x.bandwidth, x.txPower)
    BY <1>1, SetNameForm DEF MigrateName
  <2>. QED
    BY <1>1, <2>1, ChannelAssumption DEF Stage, Mk
<1>2. CASE x.name # "Default"
  BY <1>2 DEF MigrateName
<1>. QED
  BY <1>1, <1>2

(* Lines 172-177: after the migration the key is never the full default  *)
(* key, and a non-empty key stays non-empty.                              *)
LEMMA MigratePskStage ==
    ASSUME NEW x \in Stage
    PROVE  /\ MigratePsk(x) \in Stage
           /\ MigratePsk(x).psk # defaultpsk
           /\ x.psk # << >> => MigratePsk(x).psk # << >>
           /\ MigratePsk(x).name = x.name /\ MigratePsk(x).modem = x.modem
           /\ MigratePsk(x).bandwidth = x.bandwidth
           /\ x.psk # defaultpsk => MigratePsk(x) = x
<1>1. CASE x.psk = defaultpsk
  <2>1. MigratePsk(x) = Mk(<<1>>, x.name, x.modem, x.bandwidth, x.txPower)
    BY <1>1, SetPskForm DEF MigratePsk
  <2>2. <<1>> # defaultpsk
    BY DEF defaultpsk
  <2>3. MigratePsk(x) \in Stage
    BY <2>1 DEF Stage, Mk
  <2>4. /\ MigratePsk(x).psk = <<1>> /\ MigratePsk(x).name = x.name
        /\ MigratePsk(x).modem = x.modem /\ MigratePsk(x).bandwidth = x.bandwidth
    BY <2>1 DEF Mk
  <2>. QED
    BY <1>1, <2>2, <2>3, <2>4
<1>2. CASE x.psk # defaultpsk
  BY <1>2 DEF MigratePsk
<1>. QED
  BY <1>1, <1>2

LEMMA ZeroStage == ZeroChannel \in Stage
BY ChannelAssumption DEF ZeroChannel, Stage

LEMMA SettingsStage == ChannelSettings \subseteq Stage
BY DEF ChannelSettings, Stage

(* The settings resetRadioConfig resolves the name from, and the ones it  *)
(* stores.                                                                *)
Named(c, f) == MigrateName(FactoryOrDefault(c, f))
Stored(c, f) == MigratePsk(Named(c, f))

LEMMA ResetForm ==
    ASSUME NEW c, NEW f
    PROVE  resetRadioConfig(c, f) =
             [chan |-> Stored(c, f), activePSK |-> ExpandPsk(Stored(c, f).psk),
              channelName |-> ResolveName(Named(c, f))]
BY DEF resetRadioConfig, Stored, Named

(* Lines 118-138: both branches leave a non-empty key.                    *)
LEMMA FactoryStage ==
    ASSUME NEW c \in Stage, NEW f \in BOOLEAN
    PROVE  FactoryOrDefault(c, f) \in Stage /\ FactoryOrDefault(c, f).psk # << >>
<1>1. CASE f
  <2> DEFINE d0 == DefaultChannel(ZeroChannel)
             n0 == MigrateName(d0)
  <2>1. d0 \in Stage /\ d0.psk # << >>
    BY ZeroStage, DefaultChannelStage
  <2>2. n0 \in Stage /\ n0.psk # << >>
    BY <2>1, MigrateNameStage
  <2>3. MigratePsk(n0) \in Stage /\ MigratePsk(n0).psk # << >>
    BY <2>2, MigratePskStage
  <2>. QED
    BY <1>1, <2>3 DEF FactoryOrDefault, Normalize
<1>2. CASE ~f
  BY <1>2, DefaultChannelStage DEF FactoryOrDefault
<1>. QED
  BY <1>1, <1>2

(* What resetRadioConfig stores: settings in Stage whose key is neither   *)
(* empty nor the full default key and whose name is not "Default", and   *)
(* which resolve to the same display name as the settings it resolved.    *)
LEMMA StoredFacts ==
    ASSUME NEW c \in Stage, NEW f \in BOOLEAN
    PROVE  /\ Named(c, f) \in Stage
           /\ Stored(c, f) \in Stage
           /\ Stored(c, f).psk # << >> /\ Stored(c, f).psk # defaultpsk
           /\ Stored(c, f).name # "Default"
           /\ ResolveName(Stored(c, f)) = ResolveName(Named(c, f))
<1> DEFINE fd == FactoryOrDefault(c, f)
           n  == Named(c, f)
           s  == Stored(c, f)
<1>1. fd \in Stage /\ fd.psk # << >>
  BY FactoryStage
<1>2. /\ n \in Stage /\ n.psk # << >> /\ n.name # "Default"
  BY <1>1, MigrateNameStage DEF Named
<1>3. /\ s \in Stage /\ s.psk # << >> /\ s.psk # defaultpsk
      /\ s.name = n.name /\ s.modem = n.modem /\ s.bandwidth = n.bandwidth
  BY <1>2, MigratePskStage DEF Stored
<1>4. ResolveName(s) = ResolveName(n)
  BY <1>3 DEF ResolveName
<1>. QED
  BY <1>2, <1>3, <1>4


(* Lines 179-194 against spec section 8: the expansion of every byte     *)
(* sequence is the one the spec prescribes.                               *)
LEMMA ExpandMatchesSpec ==
    ASSUME NEW k \in Seq(0..255)
    PROVE  ExpandPsk(k) = SpecKey(k)
<1>1. CASE Len(k) # 1
  BY <1>1 DEF ExpandPsk, SpecKey
<1>2. CASE Len(k) = 1 /\ k[1] = 0
  BY <1>2 DEF ExpandPsk, SpecKey
<1>3. CASE Len(k) = 1 /\ k[1] # 0
  <2> DEFINE v == (defaultpsk[16] + k[1] - 1) % 256
  <2>1. ExpandPsk(k) = [defaultpsk EXCEPT ![16] = v]
    BY <1>3 DEF ExpandPsk
  <2>2. SpecKey(k) = [i \in 1..16 |-> IF i < 16 THEN defaultpsk[i] ELSE v]
    BY <1>3 DEF SpecKey
  <2>3. defaultpsk \in [1..16 -> 0..255]
    BY DEF defaultpsk
  <2>4. [defaultpsk EXCEPT ![16] = v]
          = [i \in 1..16 |-> IF i < 16 THEN defaultpsk[i] ELSE v]
    <3> DEFINE e == [defaultpsk EXCEPT ![16] = v]
    <3>1. DOMAIN e = 1..16 /\ e = [i \in DOMAIN e |-> e[i]]
      BY <2>3, Zenon
    <3>2. \A i \in 1..16 : e[i] = IF i < 16 THEN defaultpsk[i] ELSE v
      BY <2>3
    <3>. QED
      BY <3>1, <3>2, Zenon
  <2>. QED
    BY <2>1, <2>2, <2>4
<1>. QED
  BY <1>1, <1>2, <1>3

(* Lines 179-194 on index 1: the default key itself.                      *)
LEMMA ExpandIndexOne == ExpandPsk(<<1>>) = defaultpsk
<1>1. defaultpsk \in [1..16 -> 0..255] /\ defaultpsk[16] = 191
  BY DEF defaultpsk
<1>2. (defaultpsk[16] + 1 - 1) % 256 = defaultpsk[16]
  BY <1>1
<1>3. [defaultpsk EXCEPT ![16] = defaultpsk[16]] = defaultpsk
  BY <1>1, Zenon
<1>4. ExpandPsk(<<1>>) = [defaultpsk EXCEPT ![16] = (defaultpsk[16] + 1 - 1) % 256]
  BY DEF ExpandPsk
<1>. QED
  BY <1>2, <1>3, <1>4

(* Lines 172-177: the default-key migration does not change the key the  *)
(* expansion makes.                                                        *)
LEMMA MigratePskExpand ==
    ASSUME NEW x \in Stage
    PROVE  ExpandPsk(MigratePsk(x).psk) = ExpandPsk(x.psk)
<1>1. CASE x.psk = defaultpsk
  <2>1. MigratePsk(x).psk = <<1>>
    BY <1>1, SetPskForm DEF MigratePsk, Mk
  <2>2. ExpandPsk(defaultpsk) = defaultpsk
    BY DEF ExpandPsk, defaultpsk
  <2>. QED
    BY <1>1, <2>1, <2>2, ExpandIndexOne
<1>2. CASE x.psk # defaultpsk
  BY <1>2 DEF MigratePsk
<1>. QED
  BY <1>1, <1>2

(* Lines 122-138: the default channel's key is the one an empty key      *)
(* means.                                                                  *)
LEMMA DefaultChannelKey ==
    ASSUME NEW x \in Stage
    PROVE  DefaultChannel(x).psk = MeantKey(x.psk)
<1>1. CASE x.psk = << >>
  <2>1. DefaultChannel(x) = Mk(<<1>>, EmptyStr, "Bw125Cr48Sf4096", x.bandwidth, 0)
    BY <1>1, StageKey, SetDefaultForm DEF DefaultChannel
  <2>. QED
    BY <1>1, <2>1 DEF Mk, MeantKey
<1>2. CASE x.psk # << >>
  BY <1>2, StageKey DEF DefaultChannel, MeantKey
<1>. QED
  BY <1>1, <1>2

(* resetRadioConfig, lines 118-194: the key expanded into activePSK is    *)
(* the expansion of the key the phone meant.                              *)
LEMMA StoredKey ==
    ASSUME NEW c \in Stage, NEW f \in BOOLEAN
    PROVE  ExpandPsk(Stored(c, f).psk) = ExpandPsk(MeantKey(WrittenPsk(c, f)))
<1> DEFINE fd == FactoryOrDefault(c, f)
<1>1. fd \in Stage
  BY FactoryStage
<1>2. ExpandPsk(Stored(c, f).psk) = ExpandPsk(fd.psk)
  <2>1. Named(c, f) \in Stage /\ Named(c, f).psk = fd.psk
    BY <1>1, MigrateNameStage DEF Named
  <2>. QED
    BY <2>1, MigratePskExpand DEF Stored
<1>3. CASE f
  <2> DEFINE d0 == DefaultChannel(ZeroChannel)
  <2>1. d0 \in Stage /\ d0.psk = MeantKey(ZeroChannel.psk)
    BY ZeroStage, DefaultChannelStage, DefaultChannelKey
  <2>2. MigrateName(d0) \in Stage /\ MigrateName(d0).psk = d0.psk
    BY <2>1, MigrateNameStage
  <2>3. ExpandPsk(fd.psk) = ExpandPsk(d0.psk)
    BY <1>3, <2>2, MigratePskExpand DEF FactoryOrDefault, Normalize
  <2>. QED
    BY <1>2, <1>3, <2>1, <2>3 DEF WrittenPsk
<1>4. CASE ~f
  BY <1>2, <1>4, DefaultChannelKey DEF FactoryOrDefault, WrittenPsk
<1>. QED
  BY <1>3, <1>4

-----------------------------------------------------------------------------
(* The state is what resetRadioConfig made of some settings a phone can   *)
(* write, with or without a factory reset.                                *)
Produced(c, f) ==
    /\ chan = Stored(c, f)
    /\ activePSK = ExpandPsk(Stored(c, f).psk)
    /\ channelName = ResolveName(Named(c, f))
    /\ pskWritten = WrittenPsk(c, f)

Reach == \E c \in ChannelSettings, f \in BOOLEAN : Produced(c, f)

LEMMA InitReach == Init => Reach
BY ResetForm DEF Init, Reach, Produced, WrittenPsk

LEMMA NextReach == Reach /\ [Next]_vars => Reach'
<1> SUFFICES ASSUME Reach, [Next]_vars PROVE Reach'
  OBVIOUS
<1>1. CASE Next
  <2>1. PICK c \in ChannelSettings, f \in BOOLEAN : SetChannel(c, f)
    BY <1>1 DEF Next
  <2>2. Produced(c, f)'
    BY <2>1, ResetForm DEF SetChannel, Produced
  <2>. QED
    BY <2>2 DEF Reach
<1>2. CASE UNCHANGED vars
  BY <1>2 DEF vars, Reach, Produced
<1>. QED
  BY <1>1, <1>2

(* Every reachable state is the result of one resetRadioConfig.           *)
THEOREM ReachInvariant == Spec => []Reach
BY InitReach, NextReach, PTL DEF Spec


LEMMA ReachFacts ==
    ASSUME Reach
    PROVE  \E c \in Stage, f \in BOOLEAN :
              /\ Produced(c, f)
              /\ Named(c, f) \in Stage
              /\ Stored(c, f) \in Stage
              /\ Stored(c, f).psk # << >> /\ Stored(c, f).psk # defaultpsk
              /\ Stored(c, f).name # "Default"
              /\ ResolveName(Stored(c, f)) = ResolveName(Named(c, f))
<1>1. PICK c \in ChannelSettings, f \in BOOLEAN : Produced(c, f)
  BY DEF Reach
<1>2. c \in Stage
  BY SettingsStage
<1>. QED
  BY <1>1, <1>2, StoredFacts

(* The stored settings, the active key and the display name stay within   *)
(* their types after every configuration change, for every set of keys,  *)
(* names and modem values a phone may write.                              *)
THEOREM ChannelTypeCorrect == Spec => []TypeOK
<1>1. Reach => TypeOK
  <2> SUFFICES ASSUME Reach PROVE TypeOK
    OBVIOUS
  <2>1. PICK c \in Stage, f \in BOOLEAN :
           /\ Produced(c, f)
           /\ Named(c, f) \in Stage
           /\ Stored(c, f) \in Stage
           /\ Stored(c, f).psk # << >> /\ Stored(c, f).psk # defaultpsk
           /\ Stored(c, f).name # "Default"
    BY ReachFacts
  <2> DEFINE s == Stored(c, f)
             n == Named(c, f)
  <2>2. s.psk \in Psks \cup {<<1>>}
    BY <2>1 DEF Stage
  <2>3. chan \in [psk : Psks \cup {<<1>>}, name : Names \ {"Default"},
                  modem : Modems, bandwidth : Bandwidths, txPower : TxPowers]
    <3>1. s = Mk(s.psk, s.name, s.modem, s.bandwidth, s.txPower)
      BY <2>1, StageDomain
    <3>. QED
      BY <2>1, <2>2, <3>1 DEF Produced, Stage, Mk
  <2>4. activePSK \in Keys \cup {ExpandPsk(<<1>>)}
    BY <2>1, <2>2 DEF Produced, Keys
  <2>5. channelName \in Names \cup {"Unset", "Invalid"} \cup {Presets[m] : m \in DOMAIN Presets}
    <3>1. n.name \in Names
      BY <2>1 DEF Stage
    <3>. QED
      BY <2>1, <3>1 DEF Produced, ResolveName
  <2>6. pskWritten \in Psks \cup {<< >>}
    <3>1. PICK c2 \in ChannelSettings, f2 \in BOOLEAN : Produced(c2, f2)
      BY DEF Reach
    <3>2. WrittenPsk(c2, f2) \in Psks \cup {<< >>}
      BY DEF WrittenPsk, ZeroChannel, ChannelSettings
    <3>. QED
      BY <3>1, <3>2 DEF Produced
  <2>. QED
    BY <2>3, <2>4, <2>5, <2>6 DEF TypeOK
<1>. QED
  BY <1>1, ReachInvariant, PTL

(* After every configuration change the radio encrypts with the spec's    *)
(* expansion of the key the phone wrote, index 1 when it wrote none or    *)
(* reset to factory defaults (lines 118-194 against spec section 8),      *)
(* whatever keys a phone writes.                                          *)
THEOREM ActiveKeyCorrect == Spec => []ActiveKeyIsWritten
<1>1. Reach => ActiveKeyIsWritten
  <2> SUFFICES ASSUME Reach PROVE ActiveKeyIsWritten
    OBVIOUS
  <2>1. PICK c \in Stage, f \in BOOLEAN : Produced(c, f)
    BY ReachFacts
  <2>2. activePSK = ExpandPsk(MeantKey(WrittenPsk(c, f)))
    BY <2>1, StoredKey DEF Produced
  <2>3. MeantKey(WrittenPsk(c, f)) \in Seq(0..255)
    <3>1. c.psk \in Seq(0..255)
      BY StageKey
    <3>2. << >> \in Seq(0..255) /\ <<1>> \in Seq(0..255)
      OBVIOUS
    <3>3. WrittenPsk(c, f) \in Seq(0..255)
      BY <3>1, <3>2 DEF WrittenPsk, ZeroChannel
    <3>. QED
      BY <3>2, <3>3 DEF MeantKey
  <2>. QED
    BY <2>1, <2>2, <2>3, ExpandMatchesSpec DEF ActiveKeyIsWritten, Produced
<1>. QED
  BY <1>1, ReachInvariant, PTL

(* resetRadioConfig is idempotent on what it leaves: a further call (the  *)
(* second one in init, or a reloadConfig) changes neither the settings   *)
(* nor the active key nor the display name.                               *)
THEOREM ReloadStable == Spec => []StableUnderReload
<1>1. Reach => StableUnderReload
  <2> SUFFICES ASSUME Reach PROVE StableUnderReload
    OBVIOUS
  <2>1. PICK c \in Stage, f \in BOOLEAN :
           /\ Produced(c, f)
           /\ Stored(c, f) \in Stage
           /\ Stored(c, f).psk # << >> /\ Stored(c, f).psk # defaultpsk
           /\ Stored(c, f).name # "Default"
           /\ ResolveName(Stored(c, f)) = ResolveName(Named(c, f))
    BY ReachFacts
  <2> DEFINE s == Stored(c, f)
  <2>2. DefaultChannel(s) = s
    BY <2>1, DefaultChannelStage
  <2>3. MigrateName(s) = s
    BY <2>1, MigrateNameStage
  <2>4. MigratePsk(s) = s
    BY <2>1, MigratePskStage
  <2>5. Named(s, FALSE) = s /\ Stored(s, FALSE) = s
    BY <2>2, <2>3, <2>4 DEF Named, Stored, FactoryOrDefault
  <2>6. resetRadioConfig(s, FALSE)
          = [chan |-> s, activePSK |-> ExpandPsk(s.psk), channelName |-> ResolveName(s)]
    BY <2>5, ResetForm
  <2>. QED
    BY <2>1, <2>6 DEF Produced, StableUnderReload
<1>. QED
  BY <1>1, ReachInvariant, PTL


=============================================================================
