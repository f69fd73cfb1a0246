------------------------------ MODULE MCCdrom ------------------------------
(* Instances of Cdrom for TLC.                                             *)
EXTENDS Cdrom

(* Everything enabled, everything masked, and sectors masked.              *)
MCEnables == {IrqFlags \ {{}}, {}, IrqFlags \ {{}, DataReady}}
=============================================================================
