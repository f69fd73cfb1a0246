--------------------------- MODULE OverlayContract --------------------------
(***************************************************************************)
(* What the native-overlay tier promises the guest program, with no word   *)
(* about how: compiled code is entered only while the RAM it was compiled  *)
(* from is intact, and code overwritten while it runs is never entered     *)
(* again (docs/EXECUTION_MODEL.md, "precision over recall").               *)
(***************************************************************************)
EXTENDS Naturals, Sequences

CONSTANTS Cells, Bytes, Fns, CodeCells(_), Code

VARIABLES
    ram,     \* guest RAM
    calls,   \* compiled functions executing, outermost first
    banned   \* functions never to be entered again

cvars == <<ram, calls, banned>>

Intact(f) == \A a \in CodeCells(f) : ram[a] = Code[f][a]
Running   == {calls[k] : k \in DOMAIN calls}

CInit == ram \in [Cells -> Bytes] /\ calls = <<>> /\ banned = {}

(* A store bans what it overwrites in execution, and only functions it     *)
(* really overwrites.                                                      *)
Write == \E a \in Cells, b \in Bytes :
    /\ UNCHANGED calls
    /\ ram' = [ram EXCEPT ![a] = b]
    /\ {f \in Running : a \in CodeCells(f)} \subseteq banned'
    /\ banned \subseteq banned'
    /\ \A f \in banned' \ banned : f \in Fns /\ a \in CodeCells(f)

Enter == \E f \in Fns :
    /\ calls' = Append(calls, f)
    /\ Intact(f) /\ f \notin banned
    /\ UNCHANGED <<ram, banned>>

(* A return drops the innermost activation, a host unwind several.         *)
Leave == \E n \in 0..Len(calls) :
    /\ calls' = SubSeq(calls, 1, n)
    /\ UNCHANGED <<ram, banned>>

CNext == Write \/ Enter \/ Leave

Contract == CInit /\ [][CNext]_cvars
=============================================================================
