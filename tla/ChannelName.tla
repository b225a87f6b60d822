----------------------------- MODULE ChannelName -----------------------------
(***************************************************************************)
(* getChannelName: the display name of the primary channel, the resolved  *)
(* name and a one-character suffix derived from the stored and the active *)
(* key.  The suffix XORs the key bytes, so this module needs Bitwise and  *)
(* the folds of SequencesExt, which ChannelConfig keeps out of its proofs.*)
(***************************************************************************)
EXTENDS ChannelConfig, SequencesExt, Bitwise

(* Lines 93-97:  XOR of the active key, as a letter 'A'..'Z'.               *)
XorAll(k) == FoldLeft(LAMBDA acc, b : acc ^^ b, 0, k)

(* Lines 90-100: the suffix character code.  '0' + psk.bytes[0] is a char  *)
(* addition, taken modulo 256.                                            *)
Suffix(c, active) ==
    IF Len(c.psk) # 1 THEN 65 + (XorAll(active) % 26)
    ELSE (48 + c.psk[1]) % 256

(* getChannelName, lines 86-104.                                           *)
getChannelName == <<channelName, Suffix(chan, activePSK)>>


(* Spec section 4.1: with a bare compact index stored, the suffix of      *)
(* getChannelName is the digit character of that index.                 *)
SuffixIsDigit == Len(chan.psk) = 1 => Suffix(chan, activePSK) \in 48..57

=============================================================================
