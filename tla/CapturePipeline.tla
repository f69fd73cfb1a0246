-------------------------- MODULE CapturePipeline --------------------------
(***************************************************************************)
(* From interpreted code to native code in one session                     *)
(* (runtime/src/overlay_capture.c, autocompile.c).  Interpreter pressure   *)
(* makes the emulation thread snapshot the hot code; a thread writes the   *)
(* snapshot to overlay_captures.json; a later frame asks for a compile,    *)
(* which runs in a child process with a thread waiting for it; a later     *)
(* frame rescans the cache.  The same requests can come from the debug     *)
(* server.                                                                 *)
(***************************************************************************)
EXTENDS Naturals

CONSTANTS
    Image,       \* what the hot region can hold
    None,
    Previous,    \* the manifest an earlier session left, or None
    BackoffMax,  \* AUTOCAP_BACKOFF_MAX
    Procs,       \* compile processes the host can run at once
    Sessions     \* which debug commands are used, and what may fail on the host

Torn == "torn"
Commands == {"run", "rescan", "dump"}
Failures == {"write", "spawn", "alloc", "watch", "child"}

ASSUME PipelineAssumption ==
    /\ None \notin Image /\ Torn \notin Image /\ Torn # None
    /\ Previous \in Image \cup {None}
    /\ BackoffMax \in Nat \ {0}
    /\ Sessions \subseteq [commands : SUBSET Commands, fails : SUBSET Failures]

VARIABLES
    session,    \* the kind of session, which does not change
    code,       \* the image in the hot region
    native,     \* images with a loaded candidate
    disk,       \* overlay_captures.json
    writer,     \* the write thread: "idle", "start", "open", "hash", "done"
    job,        \* its snapshot
    clobbered,  \* another writer had the file open meanwhile
    sig,        \* manifest_sig of the job
    sig_at_req, seeded, backoff, wait,
    state,      \* s_state: "idle", "running", "done"
    exit_ok,    \* s_exit_code = 0
    proc,       \* the compile processes: how far each is, who waits for it
                \* ("thread", "nobody", or "lost": not even s_state tells of
                \* it), and the manifest it has read
    cache,      \* images in the cache directory
    reported,   \* images compiled by a process whose thread saw it exit with 0
    indexed,    \* images the loader's index of the cache lists
    frame       \* the emulation thread's place in a frame: "tick", "poll"

guest == <<code, native>>
writing == <<writer, job, clobbered, sig, disk>>
futility == <<sig_at_req, seeded, backoff, wait>>
compiling == <<state, exit_ok, proc, cache, reported>>
vars == <<session, guest, writing, futility, compiling, indexed, frame>>

Gone == [at |-> "none", by |-> "none", got |-> None]

Init ==
    /\ session \in Sessions
    /\ code \in Image /\ native = {}
    /\ disk = Previous /\ writer = "idle" /\ job = None /\ clobbered = FALSE /\ sig = None
    /\ sig_at_req = Previous /\ seeded = (Previous # None) /\ backoff = 1 /\ wait = 0
    /\ state = "idle" /\ exit_ok = FALSE /\ proc = [p \in Procs |-> Gone]
    /\ cache = {} /\ reported = {} /\ indexed = {} /\ frame = "tick"

-----------------------------------------------------------------------------
(* The guest loads other code; the loader loads a listed image it meets.   *)
LoadCode ==
    /\ frame = "tick"
    /\ code' \in Image
    /\ UNCHANGED <<session, native, writing, futility, compiling, indexed, frame>>

DispatchNative ==
    /\ frame = "tick"
    /\ code \in indexed \ native
    /\ native' = native \cup {code}
    /\ UNCHANGED <<session, code, writing, futility, compiling, indexed, frame>>

(* CreateProcess, and the thread that will wait for the process.           *)
Started(by) ==
    LET free == {p \in Procs : proc[p] = Gone}
        p == CHOOSE q \in free : TRUE
    IN /\ free # {}
       /\ proc' = [proc EXCEPT ![p] = [at |-> "spawned", by |-> by, got |-> None]]

BugRequest ==
    \/ state = "running" /\ UNCHANGED <<state, proc>>
    \/ /\ state # "running"
       /\ \/ Started("thread") /\ state' = "running"
          \/ "spawn" \in session.fails /\ UNCHANGED <<state, proc>>
          \/ "alloc" \in session.fails /\ Started("lost") /\ UNCHANGED state
          \/ "watch" \in session.fails /\ Started("nobody") /\ UNCHANGED state

(* autocompile_request: refused while a compile runs.  The pipe or the     *)
(* process may fail to start; with the process running, the memory for its *)
(* thread may be missing, and the function returns as if nothing ran; the  *)
(* thread itself may fail to start, which nothing tests.                   *)
Request ==
    \/ state = "running" /\ UNCHANGED <<state, proc>>
    \/ /\ state # "running"
       /\ \/ Started("thread") /\ state' = "running"
          \/ "spawn" \in session.fails /\ UNCHANGED <<state, proc>>
          \/ "alloc" \in session.fails /\ Started("lost") /\ UNCHANGED state
          \/ "watch" \in session.fails /\ Started("nobody") /\ state' = "running"

BugFutile(same) == seeded \/ same

(* The manifest is the one of the last request, and no candidate became or *)
(* ceased to be valid since (same).                                        *)
Futile(same) == sig = sig_at_req /\ (seeded \/ same)

Doubled == IF backoff < BackoffMax THEN 2 * backoff ELSE backoff

(* overlay_autocapture_tick when the write thread is done.                 *)
TakeResult ==
    /\ frame = "tick" /\ writer = "done"
    /\ frame' = "poll"
    /\ writer' = "idle" /\ job' = None
    /\ \/ /\ sig = None
          /\ UNCHANGED <<futility, state, proc>>
       \/ /\ sig # None
          /\ \E same \in BOOLEAN :
               \/ /\ Futile(same)
                  /\ seeded' = FALSE /\ backoff' = Doubled /\ wait' = backoff'
                  /\ UNCHANGED <<sig_at_req, state, proc>>
               \/ /\ ~Futile(same)
                  /\ seeded' = FALSE /\ backoff' = 1 /\ sig_at_req' = sig
                  /\ Request
                  /\ UNCHANGED wait
    /\ UNCHANGED <<session, guest, clobbered, sig, disk, exit_ok, cache, reported, indexed>>

(* The tick under pressure, at a coherent moment, with no compile running  *)
(* and the cooldown over: autocap_write_start.                             *)
Fired ==
    /\ frame = "tick" /\ writer = "idle"
    /\ code \notin native
    /\ wait = 0
    /\ frame' = "poll"
    /\ wait' = 1
    /\ writer' = "start" /\ job' = code /\ sig' = None
    /\ UNCHANGED <<session, guest, clobbered, disk, sig_at_req, seeded, backoff, compiling, indexed>>

BugFire == Fired

Fire == Fired /\ state # "running"

(* Out of memory or of threads: the fire is spent, nothing is written.     *)
FireFails ==
    /\ frame = "tick" /\ writer = "idle" /\ state # "running"
    /\ code \notin native /\ wait = 0
    /\ "write" \in session.fails
    /\ frame' = "poll"
    /\ wait' = 1
    /\ UNCHANGED <<session, guest, writing, sig_at_req, seeded, backoff, compiling, indexed>>

(* The tick that samples nothing, sees no pressure or meets a disc load.   *)
QuietTick ==
    /\ frame = "tick" /\ writer # "done"
    /\ frame' = "poll"
    /\ wait' = IF wait = 0 THEN 0 ELSE wait - 1
    /\ UNCHANGED <<session, guest, writing, sig_at_req, seeded, backoff, compiling, indexed>>

(* autocompile_poll_main.                                                  *)
BugPoll ==
    /\ frame = "poll" /\ frame' = "tick"
    /\ state' = IF state = "done" THEN "idle" ELSE state
    /\ indexed' = IF state = "done" /\ ~exit_ok THEN indexed \cup cache ELSE indexed
    /\ UNCHANGED <<session, guest, writing, futility, exit_ok, proc, cache, reported>>

Poll ==
    /\ frame = "poll" /\ frame' = "tick"
    /\ state' = IF state = "done" THEN "idle" ELSE state
    /\ indexed' = IF state = "done" /\ exit_ok THEN indexed \cup cache ELSE indexed
    /\ UNCHANGED <<session, guest, writing, futility, exit_ok, proc, cache, reported>>

(* Debug server: autocompile_run, overlay_rescan, overlay_capture_dump.    *)
AutocompileRun ==
    /\ "run" \in session.commands /\ frame = "tick"
    /\ Request
    /\ UNCHANGED <<session, guest, writing, futility, exit_ok, cache, reported, indexed, frame>>

OverlayRescan ==
    /\ "rescan" \in session.commands /\ frame = "tick"
    /\ indexed' = indexed \cup cache
    /\ UNCHANGED <<session, guest, writing, futility, compiling, frame>>

OverlayCaptureDump ==
    /\ "dump" \in session.commands /\ frame = "tick"
    /\ IF writer = "open" THEN disk' = Torn /\ clobbered' = TRUE
                          ELSE disk' = code /\ UNCHANGED clobbered
    /\ UNCHANGED <<session, guest, writer, job, sig, futility, compiling, indexed, frame>>

-----------------------------------------------------------------------------
(* autocap_write_thread_main: the file is opened for writing in place,     *)
(* written, closed, and read again for its hash.                           *)
WriteOpen ==
    /\ writer = "start"
    /\ writer' = "open" /\ disk' = Torn
    /\ UNCHANGED <<session, guest, job, clobbered, sig, futility, compiling, indexed, frame>>

WriteFails ==
    /\ writer = "start" /\ "write" \in session.fails
    /\ writer' = "done"
    /\ UNCHANGED <<session, guest, job, clobbered, sig, disk, futility, compiling, indexed, frame>>

WriteClose ==
    /\ writer = "open"
    /\ writer' = "hash" /\ clobbered' = FALSE
    /\ disk' = IF clobbered THEN Torn ELSE job
    /\ UNCHANGED <<session, guest, job, sig, futility, compiling, indexed, frame>>

WriteHash ==
    /\ writer = "hash"
    /\ writer' = "done" /\ sig' = disk
    /\ UNCHANGED <<session, guest, job, clobbered, disk, futility, compiling, indexed, frame>>

(* The compile command reads the manifest, and exits.  One that fails may  *)
(* have left its image in the cache all the same.                          *)
ChildReads(p) ==
    /\ proc[p].at = "spawned"
    /\ proc' = [proc EXCEPT ![p] = [at |-> "read", by |-> proc[p].by, got |-> disk]]
    /\ UNCHANGED <<session, guest, writing, futility, state, exit_ok, cache, reported, indexed, frame>>

ChildExits(p, ok) ==
    /\ proc[p].at = "read"
    /\ ok \in {proc[p].got \in Image} \cup {o \in {FALSE} : "child" \in session.fails}
    /\ cache' = cache \cup ({proc[p].got} \cap Image) \/ (~ok /\ cache' = cache)
    /\ proc' = [proc EXCEPT ![p] = Gone]
    /\ UNCHANGED <<session, guest, writing, futility, indexed, frame>>

(* watch_thread sees the exit, or nobody does.                             *)
Watch(p) ==
    /\ proc[p].by = "thread"
    /\ ChildExits(p, exit_ok')
    /\ state' = "done"
    /\ reported' = IF exit_ok' THEN reported \cup {proc[p].got} ELSE reported

ExitsUnseen(p) ==
    /\ proc[p].by \in {"nobody", "lost"}
    /\ \E ok \in BOOLEAN : ChildExits(p, ok)
    /\ UNCHANGED <<state, exit_ok, reported>>

Next ==
    \/ LoadCode \/ DispatchNative
    \/ TakeResult \/ Fire \/ FireFails \/ QuietTick \/ Poll
    \/ AutocompileRun \/ OverlayRescan \/ OverlayCaptureDump
    \/ WriteOpen \/ WriteFails \/ WriteClose \/ WriteHash
    \/ \E p \in Procs : ChildReads(p) \/ Watch(p) \/ ExitsUnseen(p)

Spec == Init /\ [][Next]_vars

(* Frames go on; samples under pressure between loads recur, and so do     *)
(* writes that succeed; the host schedules the thread, and the process a   *)
(* thread waits for; the guest goes on dispatching its hot code.  Nothing  *)
(* is assumed of a process nobody waits for: its output pipe is not read.  *)
FairSpec ==
    /\ Spec
    /\ WF_vars(TakeResult \/ QuietTick) /\ WF_vars(Poll)
    /\ SF_vars(Fire) /\ SF_vars(WriteOpen) /\ SF_vars(DispatchNative)
    /\ WF_vars(WriteClose \/ WriteHash)
    /\ \A p \in Procs : WF_vars((proc[p].by = "thread" /\ ChildReads(p)) \/ Watch(p))

-----------------------------------------------------------------------------
(* Types; the retry interval keeps its ceiling.                            *)
TypeOK ==
    /\ code \in Image /\ native \subseteq indexed /\ indexed \subseteq cache
    /\ reported \subseteq cache /\ cache \subseteq Image
    /\ {disk, job, sig, sig_at_req} \subseteq Image \cup {None, Torn}
    /\ writer \in {"idle", "start", "open", "hash", "done"}
    /\ {clobbered, seeded, exit_ok} \subseteq BOOLEAN
    /\ backoff \in 1..2 * BackoffMax - 1 /\ wait \in 0..2 * BackoffMax - 1
    /\ state \in {"idle", "running", "done"}
    /\ proc \in [Procs -> [at : {"none", "spawned", "read"},
                            by : {"none", "thread", "nobody", "lost"},
                            got : Image \cup {None, Torn}]]
    /\ frame \in {"tick", "poll"}

Exists(p) == proc[p].at # "none"

(* The processes autocompile_request recorded: all but those it had no     *)
(* memory to wait for.                                                     *)
Recorded(p) == Exists(p) /\ proc[p].by # "lost"

(* While a recorded compile process exists autocompile_busy() says so,     *)
(* though its thread may have failed to start, other processes may run     *)
(* unrecorded, and whatever the debug server asks for: what refuses a      *)
(* second compile and holds back the next capture.                         *)
BusyWhileCompiling == (\E p \in Procs : Recorded(p)) => state = "running"

(* "1 while a compile process is running" (autocompile.h): the state the   *)
(* emulation thread tests agrees with the processes.                       *)
BusyExact == state = "running" <=> \E p \in Procs : Exists(p)

(* A recorded compile never reads a manifest that is being written: the    *)
(* file is rewritten in place, and only busy() and the write state keep    *)
(* the two apart.  Whatever fails, unless the debug server starts compiles *)
(* or dumps captures by hand.                                              *)
WholeManifest ==
    session.commands \subseteq {"rescan"} /\ (\E p \in Procs : Recorded(p))
        => writer = "idle" /\ disk # Torn

(* "cp->busy defers fires while a compile is in flight"                    *)
(* (overlay_capture.c): the same of every compile process.                 *)
NoTornRead == \A p \in Procs : proc[p].got # Torn

(* "on success has the emu thread rescan the overlay-DLL cache"            *)
(* (autocompile.h): what a compile that a thread saw succeed produced is   *)
(* listed, or the rescan for it is still to come.                          *)
CompileKept == reported \subseteq indexed \/ (state = "done" /\ exit_ok)

(* The same, whatever fails, where no debug command starts a compile over  *)
(* a result that has yet to be taken.                                      *)
NoLostCompile == "run" \notin session.commands => CompileKept

(* "the new variant goes native in-session": code that stays hot becomes   *)
(* native, unless it is all the manifest of an earlier session held.  In   *)
(* a session without debug commands in which only captures may fail.       *)
Undisturbed == session.commands = {} /\ session.fails \subseteq {"write"}
GoesNative ==
    \A v \in Image \ {Previous} :
        Undisturbed /\ <>[](code = v) => <>(v \in native)
=============================================================================
