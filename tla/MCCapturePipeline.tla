------------------------- MODULE MCCapturePipeline -------------------------
(* Instances of CapturePipeline for TLC: the session of a player, in which  *)
(* at most a capture fails; one in which every step fails now and then; and *)
(* those of a developer at the debug console, who leaves the compiles to    *)
(* the frame loop or starts them by hand.                                   *)
EXTENDS CapturePipeline

Played    == [commands |-> {}, fails |-> {"write"}]
Strained  == [commands |-> {}, fails |-> Failures]
Inspected == [commands |-> {"rescan", "dump"}, fails |-> {"write", "child"}]
Commanded == [commands |-> Commands, fails |-> {"watch"}]

AllSessions == {Played, Strained, Inspected, Commanded}
JustStrained == {Strained}
JustCommanded == {Commanded}
=============================================================================
