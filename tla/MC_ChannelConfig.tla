-------------------------- MODULE MC_ChannelConfig --------------------------
(***************************************************************************)
(* Inputs for ChannelConfig: keys of every kind resetRadioConfig tells    *)
(* apart (none, index 0, 1, a small and a two-digit index, the full       *)
(* default key, the full key that index 2 expands to, a short custom key), *)
(* the empty, legacy and a custom name, every preset and one unknown      *)
(* modem value, with and without a bandwidth override.                    *)
(***************************************************************************)
EXTENDS ChannelConfig

MC_Psks ==
    { <<>>, <<0>>, <<1>>, <<2>>, <<10>>, defaultpsk,
      [defaultpsk EXCEPT ![16] = @ + 1], <<5, 7>> }

MC_Names == {"", "Default", "Home"}

MC_Modems == {"Bw125Cr45Sf128", "Bw500Cr45Sf128", "Bw31_25Cr48Sf512",
              "Bw125Cr48Sf4096", "Bw250Cr46Sf2048"}
=============================================================================
