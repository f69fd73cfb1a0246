------------------------------- MODULE MCDma -------------------------------
(* Instances of Dma for TLC.  PerWord is 2 for the channels that cost more  *)
(* than a cycle per word (MDEC out, SPU), so that cycles accumulate.        *)
EXTENDS Dma

(* All channels, none, and the drive alone: enough for one channel to be   *)
(* disabled, masked or acknowledged while another is not.                  *)
MCMasks == {{}, {3} \cap Channels, Channels}

MCPerWord == [ch \in Channels |-> IF ch \in {1, 4} THEN 2 ELSE 1]
=============================================================================
