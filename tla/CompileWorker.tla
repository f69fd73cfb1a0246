--------------------------- MODULE CompileWorker ---------------------------
(***************************************************************************)
(* Background compilation of overlay fragments                             *)
(* (runtime/src/overlay_compile_worker.c and the dispatch and publish ends *)
(* of it in overlay_loader.c).  The dispatch thread snapshots the code at  *)
(* an address that has no native candidate and queues it; one worker       *)
(* compiles the snapshot, writes a shard file and raises a flag; a later   *)
(* miss of the dispatch thread sees the flag and registers the files.      *)
(***************************************************************************)
EXTENDS Integers, Sequences, FiniteSets

CONSTANTS
    Phys,       \* entry addresses
    Image,      \* what RAM can hold there
    QueueCap,   \* WQ_CAP
    StateCap,   \* STATE_CAP
    TriedCap,   \* MAX_SLJIT_TRIED
    CandCap,    \* what CAND_CAP leaves for shards
    NoJob

Key == Phys \X Image

ASSUME WorkerAssumption ==
    /\ IsFiniteSet(Phys) /\ IsFiniteSet(Image)
    /\ {QueueCap, StateCap, TriedCap, CandCap} \subseteq Nat \ {0}
    /\ NoJob \notin Key

VARIABLES
    ram,       \* the code now at each address
    written,   \* addresses holding code loaded at run time (dirty_ram_is_dirty)
    tried,     \* s_sljit_tried
    queue,     \* s_q: snapshots waiting, by key
    status,    \* s_state: "none" when the key has no entry
    running,   \* s_running
    worker,    \* the worker thread: "wait", "idle", "compile", "write", "flag",
               \* "record", "off"
    job,       \* its WorkItem
    ok,        \* its verdict on the job
    files,     \* shards in the on-disk cache
    dirty,     \* s_async_cache_dirty
    blobs,     \* s_loaded_blobs: shards a scan need not look at again
    loaded,    \* shards registered as candidates
    passed,    \* shards that the last scan to meet them did not register
    dispatch,  \* the dispatch thread: "run", "open", "scan", "enqueue", "join",
               \* "stopped"
    at,        \* the address it is dispatching
    listed     \* shards that were in the directory when its scan began

guest == <<ram, written>>
table == <<tried, queue, status>>
thread == <<running, worker, job, ok>>
cache == <<files, dirty, blobs, loaded, passed>>
dispatcher == <<dispatch, at, listed>>
vars == <<guest, table, thread, cache, dispatcher>>

InFlight == {"queued", "compiling"}
Finished == {"done", "failed"}

Tracked == {k \in Key : status[k] # "none"}

-----------------------------------------------------------------------------
Init ==
    /\ ram \in [Phys -> Image] /\ written = {}
    /\ tried = {} /\ queue = <<>>
    /\ status = [k \in Key |-> "none"]
    /\ running = TRUE /\ worker = "idle" /\ job = NoJob /\ ok = FALSE
    /\ files = {} /\ dirty = FALSE /\ blobs = {} /\ loaded = {} /\ passed = {}
    /\ dispatch = "run" /\ at \in Phys /\ listed = {}

(* The guest loads other code at an address.                               *)
LoadOverlay ==
    /\ dispatch = "run"
    /\ \E p \in Phys, i \in Image :
         /\ ram' = [ram EXCEPT ![p] = i]
         /\ written' = written \cup {p}
    /\ UNCHANGED <<table, thread, cache, dispatcher>>

(* overlay_loader_dispatch finds no candidate for an address: the flag is  *)
(* taken down, and the directory is read if it was up.                     *)
Miss ==
    /\ dispatch = "run"
    /\ \E p \in Phys :
         /\ \A k \in loaded : k[1] # p
         /\ at' = p
    /\ dispatch' = IF dirty THEN "open" ELSE "enqueue"
    /\ dirty' = FALSE
    /\ UNCHANGED <<guest, table, thread, files, blobs, loaded, passed, listed>>

(* scan_sljit_cache_dir: what is there when the listing is opened is seen; *)
(* a shard renamed into place during the scan is seen or not.  If the      *)
(* directory cannot be listed the scan is over.                            *)
OpenListing ==
    /\ dispatch = "open"
    /\ \/ listed' = files /\ dispatch' = "scan" /\ UNCHANGED passed
       \/ passed' = files \ loaded /\ dispatch' = "enqueue" /\ UNCHANGED listed
    /\ UNCHANGED <<guest, table, thread, files, dirty, blobs, loaded, at>>

(* The shards that get a place in s_cand when these are to be registered.  *)
Registered(shards) ==
    LET free == CandCap - Cardinality(loaded)
    IN  IF Cardinality(shards) <= free THEN {shards}
        ELSE {new \in SUBSET shards : Cardinality(new) = free}

(* A shard that was handled before is passed over, and so is one that      *)
(* cannot be opened, read or deserialized, which a later scan tries again. *)
(* One for which s_cand has no place is marked as loaded all the same.     *)
(* Then the second look for a candidate.                                   *)
Scanned ==
    /\ \E late \in SUBSET (files \ listed) :
         LET met == listed \cup late
         IN  /\ \E read \in SUBSET (met \ blobs) :
                  /\ blobs' = blobs \cup read
                  /\ \E new \in Registered(read) : loaded' = loaded \cup new
             /\ passed' = (passed \cup met) \ loaded'
    /\ dispatch' = IF \E k \in loaded' : k[1] = at THEN "run" ELSE "enqueue"
    /\ UNCHANGED <<guest, table, thread, files, at, listed>>

BugScan == dispatch = "scan" /\ Scanned /\ dirty' = FALSE

Scan == dispatch = "scan" /\ Scanned /\ UNCHANGED dirty

(* state_add on a table that is full drops a finished entry, if there is   *)
(* one.  Which one depends on the order of the table.                      *)
Evicted == {[status EXCEPT ![e] = "none"] : e \in {x \in Tracked : status[x] \in Finished}}

Room == IF Cardinality(Tracked) < StateCap THEN {status} ELSE Evicted

BugAccepted(k) == Len(queue) < QueueCap /\ Room # {}

Accepted(k) == status[k] = "none" /\ Len(queue) < QueueCap /\ Room # {}

Woken == IF worker = "wait" THEN "idle" ELSE worker

(* The rest of the miss: an address not tried before is marked, then its   *)
(* snapshot goes to overlay_compile_worker_enqueue, which signals the      *)
(* worker if it takes it; there may be no memory for the copy.             *)
Enqueue ==
    /\ dispatch = "enqueue"
    /\ dispatch' = "run"
    /\ IF at \in written \ tried
       THEN LET k == <<at, ram[at]>>
            IN  /\ tried' = IF Cardinality(tried) < TriedCap THEN tried \cup {at} ELSE tried
                /\ \/ /\ Accepted(k)
                      /\ queue' = Append(queue, k)
                      /\ \E s \in Room : status' = [s EXCEPT ![k] = "queued"]
                      /\ worker' = Woken
                   \/ UNCHANGED <<queue, status, worker>>
       ELSE UNCHANGED <<table, worker>>
    /\ UNCHANGED <<guest, running, job, ok, cache, at, listed>>

(* overlay_compile_worker_stop up to the join.                             *)
BugStop ==
    /\ dispatch = "run"
    /\ running' = FALSE
    /\ dispatch' = "join"
    /\ UNCHANGED <<guest, table, worker, job, ok, cache, at, listed>>

Stop ==
    /\ dispatch = "run"
    /\ running' = FALSE
    /\ worker' = Woken
    /\ dispatch' = "join"
    /\ UNCHANGED <<guest, table, job, ok, cache, at, listed>>

(* The join returns; what is left in the queue is freed.                   *)
Joined ==
    /\ dispatch = "join" /\ worker = "off"
    /\ queue' = <<>>
    /\ dispatch' = "stopped"
    /\ UNCHANGED <<guest, tried, status, thread, cache, at, listed>>

-----------------------------------------------------------------------------
(* worker_main.  Waiting releases the lock; an SDL wait may also end       *)
(* without a signal.                                                       *)
Wait ==
    /\ worker = "idle" /\ running /\ queue = <<>>
    /\ worker' = "wait"
    /\ UNCHANGED <<guest, table, running, job, ok, cache, dispatcher>>

SpuriousWake ==
    /\ worker = "wait"
    /\ worker' = "idle"
    /\ UNCHANGED <<guest, table, running, job, ok, cache, dispatcher>>

BugPop ==
    /\ worker = "idle" /\ queue # <<>>
    /\ job' = queue[Len(queue)]
    /\ queue' = SubSeq(queue, 1, Len(queue) - 1)
    /\ status' = [status EXCEPT ![job'] = IF @ = "none" THEN @ ELSE "compiling"]
    /\ worker' = "compile"
    /\ UNCHANGED <<guest, tried, running, ok, cache, dispatcher>>

Pop ==
    /\ worker = "idle" /\ queue # <<>>
    /\ job' = Head(queue)
    /\ queue' = Tail(queue)
    /\ status' = [status EXCEPT ![job'] = IF @ = "none" THEN @ ELSE "compiling"]
    /\ worker' = "compile"
    /\ UNCHANGED <<guest, tried, running, ok, cache, dispatcher>>

(* compile_fragment declines a fragment or produces a shard.               *)
Compile ==
    /\ worker = "compile"
    /\ ok' \in BOOLEAN
    /\ worker' = IF ok' THEN "write" ELSE "record"
    /\ UNCHANGED <<guest, table, running, job, cache, dispatcher>>

(* overlay_loader_async_publish: the file is renamed into place and the    *)
(* flag raised, or it cannot be written, which the worker is not told.     *)
Write ==
    /\ worker = "write"
    /\ \/ files' = files \cup {job} /\ passed' = passed \ {job} /\ worker' = "flag"
       \/ UNCHANGED <<files, passed>> /\ worker' = "record"
    /\ UNCHANGED <<guest, table, running, job, ok, dirty, blobs, loaded, dispatcher>>

Flag ==
    /\ worker = "flag"
    /\ dirty' = TRUE
    /\ worker' = "record"
    /\ UNCHANGED <<guest, table, running, job, ok, files, blobs, loaded, passed, dispatcher>>

Record ==
    /\ worker = "record"
    /\ status' = [status EXCEPT
                    ![job] = IF @ = "none" THEN @ ELSE IF ok THEN "done" ELSE "failed"]
    /\ worker' = "idle" /\ job' = NoJob
    /\ UNCHANGED <<guest, tried, queue, running, ok, cache, dispatcher>>

(* Told to stop, the worker leaves only when the queue is empty.           *)
Quit ==
    /\ worker = "idle" /\ ~running /\ queue = <<>>
    /\ worker' = "off"
    /\ UNCHANGED <<guest, table, running, job, ok, cache, dispatcher>>

Worker == Wait \/ Pop \/ Compile \/ Write \/ Flag \/ Record \/ Quit

Dispatcher == LoadOverlay \/ Miss \/ OpenListing \/ Scan \/ Enqueue \/ Stop \/ Joined

Next == Worker \/ SpuriousWake \/ Dispatcher

Spec == Init /\ [][Next]_vars

(* The host schedules the worker, and the dispatch thread finishes a miss  *)
(* or a join that has begun.  No wake-up without a signal is assumed.      *)
FairSpec ==
    /\ Spec
    /\ WF_vars(Worker)
    /\ WF_vars(OpenListing \/ Scan \/ Enqueue \/ Joined)

-----------------------------------------------------------------------------
GuestOK == ram \in [Phys -> Image] /\ written \subseteq Phys

TableOK ==
    /\ tried \subseteq Phys
    /\ queue \in Seq(Key) /\ Len(queue) <= QueueCap
    /\ status \in [Key -> {"none"} \cup InFlight \cup Finished]
    /\ Cardinality(Tracked) <= StateCap

ThreadOK ==
    /\ running \in BOOLEAN /\ ok \in BOOLEAN
    /\ worker \in {"wait", "idle", "compile", "write", "flag", "record", "off"}
    /\ job \in Key \cup {NoJob}

CacheOK ==
    /\ files \subseteq Key /\ blobs \subseteq Key /\ loaded \subseteq Key /\ passed \subseteq Key
    /\ dirty \in BOOLEAN

DispatchOK ==
    /\ dispatch \in {"run", "open", "scan", "enqueue", "join", "stopped"}
    /\ at \in Phys /\ listed \subseteq Key

(* Types, and the bounds of the ring s_q and of the table s_state.         *)
TypeOK == GuestOK /\ TableOK /\ ThreadOK /\ CacheOK /\ DispatchOK

Working == worker \in {"compile", "write", "flag", "record"}

(* The dedup map agrees with the work: an entry is QUEUED exactly while    *)
(* its snapshot is in the queue, once, and COMPILING exactly while the     *)
(* worker has it.  Eviction never takes an entry in flight, so no variant  *)
(* is compiled twice at a time.                                            *)
InFlightOnce ==
    /\ \A i, j \in 1..Len(queue) : queue[i] = queue[j] => i = j
    /\ \A k \in Key : status[k] = "queued" <=> \E i \in 1..Len(queue) : queue[i] = k
    /\ \A k \in Key : status[k] = "compiling" <=> Working /\ job = k

(* No publish goes unnoticed: a shard on disk that is not registered is    *)
(* announced by the flag, is about to be, is covered by a scan of the      *)
(* directory that is under way, or a scan begun after its rename has met   *)
(* it and could not take it.  It rests on the order of rename and flag in  *)
(* the worker and of flag and listing in the dispatch thread.              *)
NoLostPublish ==
    \/ files \subseteq loaded \cup passed
    \/ dirty \/ worker = "flag"
    \/ dispatch = "open"
    \/ dispatch = "scan" /\ files \subseteq loaded \cup passed \cup listed

(* "Pick up shards the background compile worker just published"           *)
(* (overlay_loader_dispatch): the same with no shard passed over.          *)
PublishedIsPickedUp == passed = {}

(* Shutdown: when the join has returned the queue was worked off, nothing  *)
(* is left in flight and no snapshot had to be thrown away.                *)
StopDrains ==
    dispatch = "stopped" => \A k \in Key : status[k] \notin InFlight

(* Every queued snapshot is compiled or declined, also when the runtime    *)
(* shuts down meanwhile.                                                   *)
QueuedIsDecided == \A k \in Key : status[k] = "queued" ~> status[k] \notin InFlight

(* A shutdown that has begun completes.                                    *)
StopReturns == dispatch = "join" ~> dispatch = "stopped"

(* "ok: 1 = published a shard" (overlay_compile_worker.h): a compile the   *)
(* worker records as ok has its shard on disk.                             *)
OkIsPublished == worker = "record" /\ ok => job \in files

(* A finished entry may be evicted because "a later re-miss can re-enqueue *)
(* if ever needed" (overlay_compile_worker.c), and entries are kept per    *)
(* variant: a second miss on runtime code without an entry queues it.      *)
UntrackedMissIsQueued ==
    [][Enqueue /\ at \in written \cap tried /\ Accepted(<<at, ram[at]>>)
         => status'[<<at, ram[at]>>] = "queued"]_vars
=============================================================================
