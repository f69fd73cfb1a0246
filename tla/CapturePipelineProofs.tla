----------------------- MODULE CapturePipelineProofs -----------------------
(***************************************************************************)
(* Proofs about CapturePipeline, for any images, earlier manifest, retry   *)
(* ceiling and number of processes, and whatever fails on the host.        *)
(***************************************************************************)
EXTENDS CapturePipeline, TLAPS

Process == [at : {"none", "spawned", "read"}, by : {"none", "thread", "nobody", "lost"},
            got : Image \cup {None, Torn}]

StatesOK ==
    /\ writer \in {"idle", "start", "open", "hash", "done"}
    /\ state \in {"idle", "running", "done"}
    /\ proc \in [Procs -> Process]
    /\ frame \in {"tick", "poll"}

(* There is one recorded process at most, and while it exists the state is *)
(* RUNNING: that is what busy() relies on.                                 *)
RunningIsKnown ==
    \A p \in Procs : Recorded(p) =>
        state = "running" /\ \A q \in Procs : Recorded(q) => p = q

(* A compile and a write exclude each other: one starts only when the      *)
(* other is over.  A write may start in the very frame that has yet to     *)
(* poll a finished compile, so by the next tick that compile was applied.  *)
Exclusive == writer = "idle" \/ state = "idle" \/ (state = "done" /\ frame = "poll")

(* Without the debug server the file is torn only while its writer has it. *)
TornWhileOpen ==
    /\ ~clobbered
    /\ disk = Torn => writer = "open"

(* Seen to be compiled and not listed, the rescan is still to come.        *)
RescanDue == reported \subseteq indexed \/ (state = "done" /\ exit_ok)

(* What needs the debug server to leave compiles and captures alone.       *)
LeftAlone ==
    /\ "run" \notin session.commands => Exclusive /\ RescanDue
    /\ "dump" \notin session.commands => TornWhileOpen

IndInv ==
    /\ StatesOK /\ RunningIsKnown /\ LeftAlone
    /\ reported \subseteq cache
    /\ code \in Image /\ disk \in Image \cup {None, Torn} /\ job \in Image \cup {None}

(* Leaves are Zenon's; one that needs arithmetic, records or sequences     *)
(* names SMT.                                                              *)
USE Zenon

(* The invariant holds before the first frame.                             *)
LEMMA IndInit ==
    ASSUME Init
    PROVE  IndInv
<1>1. proc \in [Procs -> Process] /\ \A p \in Procs : ~Recorded(p)
  BY SMT DEF Init, Process, Gone, Recorded, Exists
<1>2. StatesOK /\ RunningIsKnown  BY <1>1 DEF Init, StatesOK, RunningIsKnown
<1>3. LeftAlone /\ reported \subseteq cache /\ code \in Image
      /\ disk \in Image \cup {None, Torn} /\ job \in Image \cup {None}
  BY PipelineAssumption DEF Init, LeftAlone, Exclusive, TornWhileOpen, RescanDue
<1>4. QED  BY <1>2, <1>3 DEF IndInv

(* A process is started in a free place, by whom the caller says.          *)
LEMMA StartedEffect ==
    ASSUME NEW by \in {"thread", "nobody", "lost"}, Started(by), proc \in [Procs -> Process]
    PROVE  /\ proc' \in [Procs -> Process]
           /\ \E p \in Procs : \A q \in Procs :
                 Recorded(q)' => Recorded(q) \/ (q = p /\ by # "lost")
<1> DEFINE free == {p \in Procs : proc[p] = Gone}
           p == CHOOSE q \in free : TRUE
           new == [at |-> "spawned", by |-> by, got |-> None]
<1>1. free # {} /\ proc' = [proc EXCEPT ![p] = new]  BY DEF Started
<1>2. p \in Procs  BY <1>1
<1>3. new \in Process  BY SMT DEF Process
<1> HIDE DEF p, new
<1>4. proc' \in [Procs -> Process]  BY <1>1, <1>2, <1>3, SMT
<1>5. ASSUME NEW q \in Procs, Recorded(q)'
      PROVE  Recorded(q) \/ (q = p /\ by # "lost")
  <2>1. CASE q = p
    <3>1. proc'[q] = new  BY <1>1, <1>2, <2>1, SMT
    <3>2. QED  BY <1>5, <2>1, <3>1, SMT DEF Recorded, new
  <2>2. CASE q # p
    <3>1. proc'[q] = proc[q]  BY <1>1, <2>2, <1>5, SMT
    <3>2. QED  BY <1>5, <3>1 DEF Recorded, Exists
  <2>3. QED  BY <2>1, <2>2
<1>6. QED  BY <1>2, <1>4, <1>5

(* autocompile_request keeps the record of processes, and starts one only  *)
(* when no other is recorded.                                              *)
LEMMA RequestEffect ==
    ASSUME Request, RunningIsKnown, proc \in [Procs -> Process]
    PROVE  /\ proc' \in [Procs -> Process] /\ RunningIsKnown'
           /\ UNCHANGED state \/ (state # "running" /\ state' = "running")
<1>1. CASE UNCHANGED <<state, proc>>
  BY <1>1 DEF RunningIsKnown, Recorded, Exists
<1>2. ASSUME state # "running", NEW by \in {"thread", "nobody"}, Started(by), state' = "running"
      PROVE  proc' \in [Procs -> Process] /\ RunningIsKnown'
  <2>1. \A q \in Procs : ~Recorded(q)  BY <1>2 DEF RunningIsKnown
  <2>2. QED  BY <1>2, <2>1, StartedEffect DEF RunningIsKnown
<1>3. CASE state # "running" /\ Started("lost") /\ UNCHANGED state
  <2>1. \A q \in Procs : ~Recorded(q)  BY <1>3 DEF RunningIsKnown
  <2>2. proc' \in [Procs -> Process] /\ \A q \in Procs : ~Recorded(q)'
    BY <1>3, <2>1, StartedEffect
  <2>3. QED  BY <1>3, <2>2 DEF RunningIsKnown
<1>4. QED  BY <1>1, <1>2, <1>3 DEF Request

(* The steps of one compile process, whoever waits for it, create no       *)
(* recorded process; the exit of one removes it.                           *)
LEMMA ChildEffect ==
    ASSUME proc \in [Procs -> Process], disk \in Image \cup {None, Torn},
           NEW p \in Procs,
           \/ ChildReads(p)
           \/ proc' = [proc EXCEPT ![p] = Gone]
    PROVE  /\ proc' \in [Procs -> Process]
           /\ \A q \in Procs : Recorded(q)' => Recorded(q)
           /\ proc' = [proc EXCEPT ![p] = Gone] => ~Recorded(p)'
<1>1. CASE ChildReads(p)
  <2>1. proc[p] \in Process  OBVIOUS
  <2> DEFINE new == [at |-> "read", by |-> proc[p].by, got |-> disk]
  <2>2. new \in Process /\ new.by = proc[p].by /\ new.at = "read"
    <3>1. proc[p].by \in {"none", "thread", "nobody", "lost"}  BY <2>1, SMT DEF Process
    <3>2. QED  BY <3>1, SMT DEF Process
  <2>3. proc' = [proc EXCEPT ![p] = new] /\ proc[p].at = "spawned"
    BY <1>1 DEF ChildReads
  <2> HIDE DEF new
  <2>4. proc'[p] = new /\ proc' \in [Procs -> Process]
    BY <2>2, <2>3, SMT
  <2>5. \A q \in Procs : q # p => proc'[q] = proc[q]
    BY <2>3, SMT
  <2>6. \A q \in Procs : Recorded(q)' => Recorded(q)
    BY <2>2, <2>3, <2>4, <2>5, SMT DEF Recorded, Exists
  <2>7. ~(proc' = [proc EXCEPT ![p] = Gone])
    <3>1. proc'[p].at = "read"  BY <2>2, <2>4
    <3>2. QED  BY <3>1, SMT DEF Gone
  <2>8. QED  BY <2>4, <2>6, <2>7
<1>2. CASE proc' = [proc EXCEPT ![p] = Gone]
  <2>1. Gone \in Process  BY SMT DEF Gone, Process
  <2>2. proc' \in [Procs -> Process]  BY <1>2, <2>1, SMT
  <2>3. proc'[p] = Gone  BY <1>2, SMT
  <2>4. ~Recorded(p)'  BY <2>3, SMT DEF Recorded, Exists, Gone
  <2>5. \A q \in Procs : q # p => proc'[q] = proc[q]  BY <1>2, SMT
  <2>6. QED  BY <2>2, <2>4, <2>5 DEF Recorded, Exists
<1>3. QED  BY <1>1, <1>2

(* What an exit does beside the process.                                   *)
LEMMA ExitEffect ==
    ASSUME NEW p \in Procs, NEW ok, ChildExits(p, ok)
    PROVE  /\ cache \subseteq cache' /\ proc' = [proc EXCEPT ![p] = Gone]
           /\ ok = TRUE => proc[p].got \in cache'
           /\ UNCHANGED <<session, guest, writing, futility, indexed, frame>>
<1>1. ok = TRUE => proc[p].got \in Image  BY DEF ChildExits
<1>2. QED  BY <1>1 DEF ChildExits

(* Every step of the frame loop, the writer and the processes keeps it.    *)
LEMMA IndStep ==
    ASSUME IndInv, [Next]_vars
    PROVE  IndInv'
<1> USE DEF IndInv, LeftAlone, StatesOK, Exclusive, TornWhileOpen, RescanDue,
            guest, writing, futility, compiling
<1>0. UNCHANGED <<state, proc>> => RunningIsKnown'
  BY DEF RunningIsKnown, Recorded, Exists
<1>1. CASE LoadCode  BY <1>0, <1>1 DEF LoadCode
<1>2. CASE DispatchNative  BY <1>0, <1>2 DEF DispatchNative
<1>3. CASE TakeResult
  <2>1. "run" \notin session.commands => state = "idle" /\ reported \subseteq indexed
    BY <1>3 DEF TakeResult
  <2>2. \/ UNCHANGED <<state, proc>>
        \/ /\ proc' \in [Procs -> Process] /\ RunningIsKnown'
           /\ UNCHANGED state \/ state' = "running"
    BY <1>3, RequestEffect DEF TakeResult
  <2>3. QED  BY <1>0, <1>3, <2>1, <2>2 DEF TakeResult
<1>4. CASE Fire  BY <1>0, <1>4 DEF Fire, Fired
<1>5. CASE QuietTick \/ FireFails  BY <1>0, <1>5, SMT DEF QuietTick, FireFails
<1>6. CASE Poll
  <2>1. UNCHANGED proc /\ (state = "running" => state' = "running")  BY <1>6 DEF Poll
  <2>2. RunningIsKnown'  BY <2>1 DEF RunningIsKnown, Recorded, Exists
  <2>3. QED  BY <1>6, <2>2 DEF Poll
<1>7. CASE AutocompileRun
  BY <1>7, RequestEffect DEF AutocompileRun
<1>8. CASE OverlayRescan  BY <1>0, <1>8 DEF OverlayRescan
<1>9. CASE OverlayCaptureDump
  <2>1. /\ RunningIsKnown' /\ UNCHANGED <<session, compiling, indexed, frame, code, job, writer>>
        /\ disk' \in Image \cup {None, Torn} /\ "dump" \in session.commands
    BY <1>0, <1>9 DEF OverlayCaptureDump
  <2>2. QED  BY <2>1
<1>10. CASE WriteOpen \/ WriteFails  BY <1>0, <1>10, SMT DEF WriteOpen, WriteFails
<1>11. CASE WriteClose
  <2>1. job # Torn  BY PipelineAssumption
  <2>2. /\ RunningIsKnown' /\ UNCHANGED <<session, compiling, indexed, frame, code, job>>
        /\ writer = "open" /\ writer' = "hash" /\ clobbered' = FALSE
        /\ disk' = Torn \/ disk' = job
    BY <1>0, <1>11 DEF WriteClose
  <2>3. ~clobbered => disk' # Torn  BY <1>11, <2>1 DEF WriteClose
  <2>4. QED  BY <2>2, <2>3
<1>12. CASE WriteHash  BY <1>0, <1>12 DEF WriteHash
<1>13. ASSUME NEW p \in Procs, ChildReads(p)
       PROVE  IndInv'
  <2>1. proc' \in [Procs -> Process] /\ RunningIsKnown'
    BY <1>13, ChildEffect DEF RunningIsKnown, ChildReads
  <2>2. QED  BY <1>13, <2>1 DEF ChildReads
<1>14. ASSUME NEW p \in Procs, Watch(p)
       PROVE  IndInv'
  <2>1. Recorded(p)  BY <1>14 DEF Watch, ChildExits, Recorded, Exists
  <2>2. state = "running" /\ \A q \in Procs : Recorded(q) => q = p
    BY <2>1 DEF RunningIsKnown
  <2>3. /\ cache \subseteq cache' /\ proc' = [proc EXCEPT ![p] = Gone]
        /\ exit_ok' = TRUE => proc[p].got \in cache'
        /\ UNCHANGED <<session, guest, writing, futility, indexed, frame>>
    BY <1>14, ExitEffect DEF Watch
  <2>4. proc' \in [Procs -> Process] /\ \A q \in Procs : ~Recorded(q)'
    BY <2>2, <2>3, ChildEffect
  <2>5. RunningIsKnown'  BY <2>4 DEF RunningIsKnown
  <2>6. QED  BY <1>14, <2>2, <2>3, <2>4, <2>5 DEF Watch
<1>15. ASSUME NEW p \in Procs, ExitsUnseen(p)
       PROVE  IndInv'
  <2>1. /\ cache \subseteq cache' /\ proc' = [proc EXCEPT ![p] = Gone]
        /\ UNCHANGED <<session, guest, writing, futility, indexed, frame>>
    BY <1>15, ExitEffect DEF ExitsUnseen
  <2>2. proc' \in [Procs -> Process] /\ RunningIsKnown'
    BY <1>15, <2>1, ChildEffect DEF RunningIsKnown, ExitsUnseen
  <2>3. QED  BY <1>15, <2>1, <2>2 DEF ExitsUnseen
<1>16. CASE UNCHANGED vars  BY <1>0, <1>16 DEF vars
<1>17. QED
  BY <1>1, <1>2, <1>3, <1>4, <1>5, <1>6, <1>7, <1>8, <1>9, <1>10, <1>11, <1>12,
     <1>13, <1>14, <1>15, <1>16 DEF Next

-----------------------------------------------------------------------------
(* The inductive invariant holds in every kind of session.                 *)
THEOREM Inductive == Spec => []IndInv
<1>1. Init => IndInv  BY IndInit
<1>2. IndInv /\ [Next]_vars => IndInv'  BY IndStep
<1>3. QED  BY <1>1, <1>2, PTL DEF Spec

(* autocompile_busy() is never 0 while a process that autocompile_request  *)
(* recorded exists, whatever fails, whatever else runs unrecorded, and     *)
(* whatever the debug server asks for.                                     *)
THEOREM BusyIsReliable == Spec => []BusyWhileCompiling
<1>1. IndInv => BusyWhileCompiling  BY DEF IndInv, RunningIsKnown, BusyWhileCompiling
<1>2. QED  BY <1>1, Inductive, PTL

(* Left to the frame loop, and whatever fails, a recorded compile never    *)
(* reads a manifest that the write thread of overlay_capture.c has open.   *)
THEOREM ManifestIntact == Spec => []WholeManifest
<1>1. IndInv => WholeManifest
  BY DEF IndInv, StatesOK, RunningIsKnown, LeftAlone, Exclusive, TornWhileOpen, WholeManifest
<1>2. QED  BY <1>1, Inductive, PTL

(* Left to the frame loop, and whatever fails, autocompile_poll_main       *)
(* applies every compile that watch_thread saw succeed.                    *)
THEOREM EveryCompileApplied == Spec => []NoLostCompile
<1>1. IndInv => NoLostCompile
  BY DEF IndInv, LeftAlone, RescanDue, NoLostCompile, CompileKept
<1>2. QED  BY <1>1, Inductive, PTL
=============================================================================
