--------------------------- MODULE MC_ChannelName ---------------------------
(***************************************************************************)
(* getChannelName over the inputs of MC_ChannelConfig.                    *)
(***************************************************************************)
EXTENDS MC_ChannelConfig, ChannelName
=============================================================================
