----------------------------- MODULE ImageWarm -----------------------------
(***************************************************************************)
(* Speculative mapping of overlay DLLs (runtime/src/overlay_loader.c).     *)
(* After boot a thread maps the small DLLs of one region so that their     *)
(* first use is quick; the emulation thread maps a DLL itself when it      *)
(* needs it first, and in either case gives the speculative reference      *)
(* back.  The two meet only in the atomic state of each DLL's slot.        *)
(***************************************************************************)
EXTENDS Integers, FiniteSets

CONSTANTS
    Slot,     \* indexed DLLs that are warmed
    KeptMax,  \* bound on the loads of a DLL that register nothing
    NoSlot

ASSUME WarmAssumption == IsFiniteSet(Slot) /\ NoSlot \notin Slot /\ KeptMax \in Nat

idle == 0
mapping == 1
ready == 2
cancelled == 3
failed == -1

VARIABLES
    state,    \* s_image_warm[].state
    handle,   \* s_image_warm[].handle is set
    refs,     \* references to the mapped DLL, as the host counts them
    opened,   \* the loader has the DLL open for its candidates
    kept,     \* references of loads that registered nothing, which nothing holds
    jobs,     \* slots of the batch the thread has not come to
    warmer,   \* the warming thread: "loop", "map", "publish", "drop", "reset"
    cur,      \* its slot
    got,      \* its mapping succeeded
    emu,      \* the emulation thread: "run", "load", "release"
    want      \* the slot it loads

warmVars == <<state, handle, refs, opened, kept, jobs, warmer, cur, got, emu, want>>

(* overlay_image_warm_queue, once, at the end of the loader's init.        *)
WarmInit ==
    /\ jobs \in SUBSET Slot
    /\ state = [s \in Slot |-> IF s \in jobs THEN mapping ELSE idle]
    /\ handle = [s \in Slot |-> FALSE]
    /\ refs = [s \in Slot |-> 0]
    /\ opened = [s \in Slot |-> FALSE] /\ kept = [s \in Slot |-> 0]
    /\ warmer = "loop" /\ cur = NoSlot /\ got = FALSE
    /\ emu = "run" /\ want = NoSlot

-----------------------------------------------------------------------------
(* overlay_image_warm_main.  A slot that is no longer in the mapping state *)
(* is passed over and left as it is.                                       *)
Take ==
    /\ warmer = "loop"
    /\ \E s \in jobs :
         /\ jobs' = jobs \ {s}
         /\ IF state[s] = mapping THEN warmer' = "map" /\ cur' = s
                                  ELSE UNCHANGED <<warmer, cur>>
    /\ UNCHANGED <<state, handle, refs, opened, kept, got, emu, want>>

Map ==
    /\ warmer = "map"
    /\ got' \in BOOLEAN
    /\ handle' = [handle EXCEPT ![cur] = got']
    /\ refs' = [refs EXCEPT ![cur] = IF got' THEN @ + 1 ELSE @]
    /\ warmer' = "publish"
    /\ UNCHANGED <<state, opened, kept, jobs, cur, emu, want>>

(* The compare-and-exchange that publishes the reference.                  *)
BugPublish ==
    /\ warmer = "publish"
    /\ state' = [state EXCEPT ![cur] = IF got THEN ready ELSE failed]
    /\ warmer' = "loop" /\ cur' = NoSlot
    /\ UNCHANGED <<handle, refs, opened, kept, jobs, got, emu, want>>

Publish ==
    /\ warmer = "publish"
    /\ IF state[cur] = mapping
       THEN /\ state' = [state EXCEPT ![cur] = IF got THEN ready ELSE failed]
            /\ warmer' = "loop" /\ cur' = NoSlot
       ELSE warmer' = "drop" /\ UNCHANGED <<state, cur>>
    /\ UNCHANGED <<handle, refs, opened, kept, jobs, got, emu, want>>

BugDrop ==
    /\ warmer = "drop"
    /\ refs' = [refs EXCEPT ![cur] = IF got THEN @ - 1 ELSE @]
    /\ warmer' = "reset"
    /\ UNCHANGED <<state, handle, opened, kept, jobs, cur, got, emu, want>>

Drop ==
    /\ warmer = "drop"
    /\ handle' = [handle EXCEPT ![cur] = FALSE]
    /\ refs' = [refs EXCEPT ![cur] = IF got THEN @ - 1 ELSE @]
    /\ warmer' = "reset"
    /\ UNCHANGED <<state, opened, kept, jobs, cur, got, emu, want>>

Reset ==
    /\ warmer = "reset"
    /\ state' = [state EXCEPT ![cur] = idle]
    /\ warmer' = "loop" /\ cur' = NoSlot
    /\ UNCHANGED <<handle, refs, opened, kept, jobs, got, emu, want>>

-----------------------------------------------------------------------------
(* lazy_load_selected: overlay_image_warm_cancel, load_one_dll,            *)
(* overlay_image_warm_release.                                             *)
BugCancels(s) == state[s] \in {mapping, ready}

Cancels(s) == state[s] = mapping

Select ==
    /\ emu = "run"
    /\ \E s \in Slot :
         /\ ~opened[s]
         /\ want' = s
         /\ state' = [state EXCEPT ![s] = IF Cancels(s) THEN cancelled ELSE @]
    /\ emu' = "load"
    /\ UNCHANGED <<handle, refs, opened, kept, jobs, warmer, cur, got>>

(* load_one_dll: the manifest, the library or one of its gates fails, and  *)
(* the library is freed; it registers candidates and is recorded as        *)
(* loaded; or none of its functions is in the manifest, and it stays       *)
(* mapped although it is not recorded and may be loaded again.             *)
Load ==
    /\ emu = "load"
    /\ \/ UNCHANGED <<refs, opened, kept>>
       \/ /\ refs' = [refs EXCEPT ![want] = @ + 1]
          /\ opened' = [opened EXCEPT ![want] = TRUE]
          /\ UNCHANGED kept
       \/ /\ kept[want] < KeptMax
          /\ refs' = [refs EXCEPT ![want] = @ + 1]
          /\ kept' = [kept EXCEPT ![want] = @ + 1]
          /\ UNCHANGED opened
    /\ emu' = "release"
    /\ UNCHANGED <<state, handle, jobs, warmer, cur, got, want>>

Release ==
    /\ emu = "release"
    /\ IF state[want] = ready
       THEN /\ refs' = [refs EXCEPT ![want] = IF handle[want] THEN @ - 1 ELSE @]
            /\ handle' = [handle EXCEPT ![want] = FALSE]
            /\ state' = [state EXCEPT ![want] = idle]
       ELSE UNCHANGED <<refs, handle, state>>
    /\ emu' = "run" /\ want' = NoSlot
    /\ UNCHANGED <<opened, kept, jobs, warmer, cur, got>>

Warmer == Take \/ Map \/ Publish \/ Drop \/ Reset

Loader == Select \/ Load \/ Release

WarmNext == Warmer \/ Loader

WarmSpec == WarmInit /\ [][WarmNext]_warmVars

(* The host schedules the thread; a load that has begun ends.              *)
WarmFairSpec == WarmSpec /\ WF_warmVars(Warmer) /\ WF_warmVars(Load \/ Release)

-----------------------------------------------------------------------------
WarmTypeOK ==
    /\ state \in [Slot -> {idle, mapping, ready, cancelled, failed}]
    /\ handle \in [Slot -> BOOLEAN] /\ opened \in [Slot -> BOOLEAN]
    /\ refs \in [Slot -> Nat] /\ kept \in [Slot -> Nat]
    /\ jobs \subseteq Slot
    /\ warmer \in {"loop", "map", "publish", "drop", "reset"}
    /\ cur \in Slot \cup {NoSlot} /\ got \in BOOLEAN
    /\ emu \in {"run", "load", "release"} /\ want \in Slot \cup {NoSlot}

Count(b) == IF b THEN 1 ELSE 0

(* The host's count is what the loads and the slots account for: the       *)
(* speculative reference is given back once, by one of the two threads.    *)
(* Twice would unmap code that candidates still point into.                *)
RefsExact ==
    \A s \in Slot : refs[s] = Count(opened[s]) + Count(handle[s]) + kept[s]

(* A speculative reference is in a slot the emulation thread will find it  *)
(* in (ready), or in the hands of the thread.                              *)
ReferenceIsFindable ==
    \A s \in Slot : handle[s] => state[s] = ready \/ (cur = s /\ warmer \in {"publish", "drop"})

(* A DLL in use keeps no speculative reference for good: "the worker drops *)
(* its speculative reference safely" (lazy_load_selected), whoever came    *)
(* first.                                                                  *)
SpeculationEnds == \A s \in Slot : opened[s] ~> ~handle[s]
=============================================================================
