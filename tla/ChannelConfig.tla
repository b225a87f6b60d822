---------------------------- MODULE ChannelConfig ----------------------------
(***************************************************************************)
(* ChannelConfigManager: the channel half of NodeDB::resetRadioConfig     *)
(* (default channel, the "Default" name and full-default-key migrations,  *)
(* display-name resolution, PSK expansion); getChannelName, which reads  *)
(* this state, is in ChannelName.                                         *)
(*                                                                         *)
(* The state is the persisted channelSettings record and the two derived  *)
(* globals activePSK and channelName.  A key is the byte sequence         *)
(* psk.bytes[0 .. psk.size-1]; a display name is the pair of the          *)
(* "#%s-%c" arguments (the name and the suffix character code); the       *)
(* 32-byte buffer never truncates, as a name holds at most 11 characters. *)
(* radioGeneration is modelled in NodeDB; the rest of a factory reset     *)
(* (table, owner, node number) too.                                       *)
(***************************************************************************)
EXTENDS Naturals, Sequences

CONSTANTS
    Psks,        \* keys a phone may write into channelSettings.psk
    Names,       \* channel names a phone may write
    Modems,      \* modem_config values, the four presets and others
    Bandwidths,  \* bandwidth overrides, 0 meaning none
    TxPowers,    \* tx_power values
    EmptyStr     \* the empty string ""

(* defaultpsk, lines 114-116.                                              *)
defaultpsk == <<212, 241, 187, 58, 32, 41, 7, 89, 240, 188, 255, 171, 207, 78, 105, 191>>

Presets == [ Bw125Cr45Sf128   |-> "Medium",
             Bw500Cr45Sf128   |-> "ShortFast",
             Bw31_25Cr48Sf512 |-> "LongAlt",
             Bw125Cr48Sf4096  |-> "LongSlow" ]

ChannelSettings ==
    [psk : Psks, name : Names, modem : Modems, bandwidth : Bandwidths, txPower : TxPowers]

(* The channel part of the memset in installDefaultDeviceState.  A zero   *)
(* modem_config is the first enum value.                                  *)
ZeroChannel == [psk |-> <<>>, name |-> EmptyStr, modem |-> "Bw125Cr45Sf128",
                bandwidth |-> 0, txPower |-> 0]

(* A key is a byte sequence; a zeroed or phone-written name may be      *)
(* empty; the zeroed modem_config and the default channel's modem are    *)
(* values of the enum; a zeroed bandwidth and tx_power are 0.            *)
ASSUME ChannelAssumption ==
    /\ Psks \subseteq Seq(0..255)
    /\ EmptyStr \in Names /\ EmptyStr # "Default"
    /\ {"Bw125Cr45Sf128", "Bw125Cr48Sf4096"} \subseteq Modems
    /\ 0 \in Bandwidths /\ 0 \in TxPowers

VARIABLES
    chan,        \* channelSettings
    activePSK,   \* activePSK[0 .. activePSKSize-1]
    channelName, \* the string channelName points to
    pskWritten   \* history, not a variable of the code: the key the phone
                 \* wrote last, or the zeroed key of a factory reset

vars == <<chan, activePSK, channelName, pskWritten>>

-----------------------------------------------------------------------------
(* Lines 122-138: no key material installs the default channel.           *)
DefaultChannel(c) ==
    IF Len(c.psk) = 0
    THEN [c EXCEPT !.modem = "Bw125Cr48Sf4096", !.txPower = 0,
                   !.psk = <<1>>, !.name = EmptyStr]
    ELSE c

(* Seeded fault: the strcmp test inverted.                                 *)
MigrateName_inverted(c) == IF c.name # "Default" THEN [c EXCEPT !.name = EmptyStr] ELSE c

(* Lines 140-142: the legacy name "Default" becomes "".                   *)
MigrateName(c) == IF c.name = "Default" THEN [c EXCEPT !.name = EmptyStr] ELSE c

(* Lines 144-170: the name, else "Unset" for a bandwidth override, else   *)
(* the preset's name, else "Invalid".                                     *)
ResolveName(c) ==
    IF c.name # EmptyStr THEN c.name
    ELSE IF c.bandwidth # 0 THEN "Unset"
    ELSE IF c.modem \in DOMAIN Presets THEN Presets[c.modem]
    ELSE "Invalid"

(* Seeded fault: the default key migrated to the wrong index.             *)
MigratePsk_wrongIndex(c) == IF c.psk = defaultpsk THEN [c EXCEPT !.psk = <<0>>] ELSE c

(* Lines 172-177: a full key equal to defaultpsk becomes index 1.         *)
MigratePsk(c) == IF c.psk = defaultpsk THEN [c EXCEPT !.psk = <<1>>] ELSE c

(* Seeded fault: the index is added to the last byte without the -1.      *)
ExpandPsk_noMinusOne(k) ==
    IF Len(k) # 1 THEN k
    ELSE IF k[1] = 0 THEN <<>>
    ELSE [defaultpsk EXCEPT ![16] = (@ + k[1]) % 256]

(* Lines 179-194: a one-byte index is expanded; index 0 turns encryption  *)
(* off; index N copies defaultpsk and adds N-1 to its last byte (uint8_t).*)
ExpandPsk(k) ==
    IF Len(k) # 1 THEN k
    ELSE IF k[1] = 0 THEN <<>>
    ELSE [defaultpsk EXCEPT ![16] = (@ + k[1] - 1) % 256]

(* The settings after resetRadioConfig with factory_reset clear, as the   *)
(* nested call inside installDefaultDeviceState leaves them.              *)
Normalize(c) == MigratePsk(MigrateName(DefaultChannel(c)))

(* Lines 118-138: with factory_reset set, installDefaultDeviceState       *)
(* zeroes the record and its nested resetRadioConfig normalises it; else  *)
(* an empty key installs the default channel.                             *)
FactoryOrDefault(c, factory) ==
    IF factory THEN Normalize(ZeroChannel) ELSE DefaultChannel(c)

(* Seeded fault: the expanded key is written back into channelSettings.  *)
resetRadioConfig_expandInPlace(c, factory) ==
    LET named == MigrateName(FactoryOrDefault(c, factory))
        s     == MigratePsk(named)
    IN  [chan        |-> [s EXCEPT !.psk = ExpandPsk(s.psk)],
         activePSK   |-> ExpandPsk(s.psk),
         channelName |-> ResolveName(named)]

(* resetRadioConfig, lines 108-220, on the channel: the name is migrated  *)
(* and resolved, then the key migrated and expanded into activePSK.       *)
resetRadioConfig(c, factory) ==
    LET named == MigrateName(FactoryOrDefault(c, factory))
        s     == MigratePsk(named)
    IN  [chan        |-> s,
         activePSK   |-> ExpandPsk(s.psk),
         channelName |-> ResolveName(named)]

(* The key written: the phone's, or the one the factory reset zeroed.    *)
WrittenPsk(c, factory) == IF factory THEN ZeroChannel.psk ELSE c.psk

-----------------------------------------------------------------------------
(* init: the settings loaded from flash (or the defaults), then the final *)
(* resetRadioConfig of init.                                              *)
Init ==
    \E c \in ChannelSettings :
        LET r == resetRadioConfig(c, FALSE)
        IN  /\ chan = r.chan
            /\ activePSK = r.activePSK
            /\ channelName = r.channelName
            /\ pskWritten = WrittenPsk(c, FALSE)

(* A phone writes channel settings (and possibly the factory_reset flag)  *)
(* and the configuration is reloaded.                                     *)
SetChannel(c, factory) ==
    LET r == resetRadioConfig(c, factory)
    IN  /\ chan' = r.chan
        /\ activePSK' = r.activePSK
        /\ channelName' = r.channelName
        /\ pskWritten' = WrittenPsk(c, factory)

Next == \E c \in ChannelSettings, f \in BOOLEAN : SetChannel(c, f)

Spec == Init /\ [][Next]_vars

-----------------------------------------------------------------------------
Keys == {ExpandPsk(k) : k \in Psks} \cup {defaultpsk}

TypeOK ==
    /\ chan \in [psk : Psks \cup {<<1>>}, name : Names \ {"Default"},
                 modem : Modems, bandwidth : Bandwidths, txPower : TxPowers]
    /\ activePSK \in Keys \cup {ExpandPsk(<<1>>)}
    /\ channelName \in Names \cup {"Unset", "Invalid"} \cup {Presets[m] : m \in DOMAIN Presets}
    /\ pskWritten \in Psks \cup {<< >>}

(* Spec section 8, the expansion as the spec states it: index 0 is no key, *)
(* index N the default key with its last byte offset by N-1 modulo 256,   *)
(* anything else the stored key itself.                                   *)
SpecKey(k) ==
    CASE Len(k) = 1 /\ k[1] = 0 -> <<>>
      [] Len(k) = 1 /\ k[1] # 0 -> [i \in 1..16 |->
                                      IF i < 16 THEN defaultpsk[i]
                                      ELSE (defaultpsk[16] + k[1] - 1) % 256]
      [] OTHER                   -> k

(* The key a phone means: an empty key selects the default channel,       *)
(* whose key is index 1 (lines 122-138).                                  *)
MeantKey(k) == IF k = << >> THEN <<1>> ELSE k

(* After every configuration change the radio encrypts with the spec's    *)
(* expansion of the key the phone wrote (or of index 1 when it wrote      *)
(* none or reset to factory defaults): the default-channel install, the  *)
(* name and the full-default-key migrations and the expansion between    *)
(* them never change which key is in use.                                *)
ActiveKeyIsWritten == activePSK = SpecKey(MeantKey(pskWritten))

(* Spec section 8: expansion and the display name are stable across      *)
(* repeated calls; another resetRadioConfig (init's second call, a        *)
(* reloadConfig) changes neither the settings nor what is derived.        *)
StableUnderReload ==
    resetRadioConfig(chan, FALSE) =
        [chan |-> chan, activePSK |-> activePSK, channelName |-> channelName]

=============================================================================
