---------------------------- MODULE DeviceClock ----------------------------
(***************************************************************************)
(* Event-deadline device servicing (runtime/src/psx_cycles.c).  Guest      *)
(* cycles are charged cheaply; the devices lag behind and are replayed up  *)
(* to the present when the next event is due or when the guest touches a   *)
(* device register.  Beside the lagging devices the model keeps `ref`, the *)
(* same devices stepped one cycle at a time, which is what the guest would *)
(* see without the optimisation.                                           *)
(*                                                                         *)
(* A device is a countdown to its next event: a timer target, a drive      *)
(* response, a DMA completion, a serial byte.  Its next event, if any, is  *)
(* armed by the previous one.  One cdrom_advance or dma_advance handles    *)
(* one event; one sio_advance handles several, but not an event that falls *)
(* on its last cycle, so the countdown of the serial port is kept with one *)
(* cycle added.  The absolute counters psx_cycle_count,                    *)
(* s_devices_synced_cycle and s_next_service_cycle appear only through     *)
(* their differences.                                                      *)
(***************************************************************************)
EXTENDS Integers, FiniteSets, FiniteSetsExt

CONSTANTS
    Dev,         \* the devices
    Serial,      \* those on the serial port: bytes of a pad or a memory card
    Reload,      \* distance a device's event arms for the next one, 0 for none
    Delays,      \* distances the guest may program
    Period,      \* VBLANK_CYCLES
    Stale,       \* VBLANK_DEFER_STALE_CYCLES
    Cap,         \* PSX_DEADLINE_HARD_CAP
    MaxCharge,   \* most cycles charged at once
    MaxSince,    \* bound on cycles_since_vblank while VBlank is held back
    StreakMin,   \* IDLE_STREAK_MIN
    QuantumMax,  \* IDLE_QUANTUM_MAX
    Transitions, \* MAX_TRANSITIONS: serial events one sio_advance handles
    Sessions     \* the kinds of session to consider

VBlank == "vblank"

(* What a session does: the devices the guest uses, whether the idle-loop  *)
(* skip is enabled, the per-charge diagnostic mode switched at run time,   *)
(* and states saved and restored.                                          *)
SessionKinds == [uses : SUBSET Dev, idleSkip : BOOLEAN, toggles : BOOLEAN,
                 saves : BOOLEAN]

ASSUME ClockAssumption ==
    /\ IsFiniteSet(Dev) /\ VBlank \notin Dev /\ Serial \subseteq Dev
    /\ Reload \in [Dev -> Nat] /\ Delays \subseteq Nat
    /\ {Period, Stale, Cap, MaxCharge, MaxSince, StreakMin, QuantumMax,
        Transitions} \subseteq Nat \ {0}
    /\ Sessions \subseteq SessionKinds

VARIABLES
    clk,     \* the lagging devices m, gap = psx_cycle_count - s_devices_synced_cycle,
             \* due = s_next_service_cycle - s_devices_synced_cycle, 0 when dirty
    ref,     \* the same devices advanced cycle by cycle
    in_exception,
    exact,   \* g_event_step_conservative
    idle,    \* the wait-loop detector: s_idle_quantum, s_idle_streak, cycles since
             \* the last check, and whether only the loop ran since then
    saved,   \* the save state on disk
    session  \* the kind of this session

vars == <<clk, ref, in_exception, exact, idle, saved, session>>

Least(a, b) == IF a <= b THEN a ELSE b

-----------------------------------------------------------------------------
(* The devices.  A machine has the countdowns `left`, cycles_since_vblank, *)
(* I_STAT, whether a memory-card transfer is in progress, and for how long *)
(* its last byte still counts as recent.                                   *)

(* should_defer_vblank_for_sio, and the exception handler.                 *)
Held(m) == in_exception \/ (m.card /\ m.recent > 0)

(* interrupts_service_scheduled_events: every VBlank period that has       *)
(* elapsed is retired and raises the one I_STAT bit.                       *)
Scheduled(m) ==
    IF Held(m) \/ m.since < Period THEN m
    ELSE [m EXCEPT !.since = @ % Period, !.stat = @ \cup {VBlank}]

Expires(m, c) == {d \in Dev : m.left[d] > 0 /\ c >= m.left[d]}

(* A countdown of n cycles as `left` has it.                               *)
Armed(d, n) == IF d \in Serial /\ n > 0 THEN n + 1 ELSE n

(* sio_advance: the cycles an event leaves over go to the next one.        *)
SioRound(d, r) ==
    IF r.left = 0 \/ r.rest < r.left THEN r
    ELSE [left |-> Armed(d, Reload[d]), rest |-> r.rest - (r.left - 1)]

SioAdvance(d, left, c) ==
    LET run[k \in 0..Transitions] ==
          IF k = 0 THEN [left |-> left, rest |-> c] ELSE SioRound(d, run[k - 1])
        end == run[Transitions]
    IN  IF end.left = 0 \/ end.rest >= end.left THEN end.left ELSE end.left - end.rest

(* advance_devices: any other device handles at most one event, and cycles *)
(* past it are not given to the next one.                                  *)
Advanced(m, c) ==
    LET fired == Expires(m, c)
    IN  Scheduled(
          [m EXCEPT
             !.left   = [d \in Dev |-> IF d \in Serial THEN SioAdvance(d, @[d], c)
                                       ELSE IF d \in fired THEN Reload[d]
                                       ELSE IF @[d] = 0 THEN 0 ELSE @[d] - c],
             !.since  = @ + c,
             !.stat   = @ \cup fired,
             !.recent = IF fired \cap Serial # {} THEN Stale
                        ELSE IF @ > c THEN @ - c ELSE 0])

interrupts_cycles_to_vblank(m) == IF m.since >= Period THEN 0 ELSE Period - m.since

(* The countdown a device reports; an expired one is not reported.         *)
Remaining(m, d) == IF d \in Serial /\ m.left[d] > 0 THEN m.left[d] - 1 ELSE m.left[d]

(* The distance to the nearest event of VBlank and of the given devices.   *)
Distance(m, devices) ==
    Min({interrupts_cycles_to_vblank(m)}
          \cup ({Remaining(m, d) : d \in devices} \ {0}))

AtLeastOne(n) == IF n = 0 THEN 1 ELSE n

(* devices_cycles_to_next_internal_event: blind to I_MASK.                 *)
ToNextEvent(m) == AtLeastOne(Distance(m, Dev))

BugServiceToNow(m, cycles) == IF cycles = 0 THEN m ELSE Advanced(Scheduled(m), cycles)

(* psx_devices_service_to_now: the gap is replayed in chunks that end on   *)
(* the nearest event.  run[k] is the state after k chunks.                 *)
Chunk(r) ==
    LET step == Least(r.rest, ToNextEvent(r.m))
    IN  IF r.rest = 0 THEN r
        ELSE [m |-> Advanced(r.m, step), rest |-> r.rest - step]

ServiceToNow(m, cycles) ==
    LET run[k \in 0..cycles] ==
          IF k = 0 THEN [m |-> Scheduled(m), rest |-> cycles] ELSE Chunk(run[k - 1])
    IN  IF cycles = 0 THEN m ELSE run[cycles].m

(* psx_advance_cycles_exact with g_event_step_conservative set.            *)
Exactly(m, cycles) ==
    LET run[k \in 0..cycles] ==
          IF k = 0 THEN Scheduled(m) ELSE Advanced(run[k - 1], 1)
    IN  run[cycles]

(* psx_devices_recompute_deadline.                                         *)
Deadline(m) == Least(ToNextEvent(m), Cap)

(* psx_advance_cycles: on the deadline path the devices are serviced only  *)
(* when the deadline is dirty or reached; the exact path gives the devices *)
(* these cycles and declares them in step.                                 *)
Charged(c, n) ==
    IF exact THEN [m |-> Exactly(c.m, n), gap |-> 0, due |-> 0]
    ELSE IF c.due = 0 \/ c.gap + n >= c.due
    THEN LET now == ServiceToNow(c.m, c.gap + n)
         IN  [m |-> now, gap |-> 0, due |-> Deadline(now)]
    ELSE [c EXCEPT !.gap = @ + n]

-----------------------------------------------------------------------------
Quiet == [left |-> [d \in Dev |-> 0], since |-> 0, stat |-> {},
          card |-> FALSE, recent |-> Stale]

NoLoop == [quantum |-> 0, streak |-> 0, elapsed |-> 0, pure |-> FALSE]

Init ==
    /\ clk = [m |-> Quiet, gap |-> 0, due |-> 0]
    /\ ref = Quiet
    /\ in_exception = FALSE /\ exact = FALSE
    /\ idle = NoLoop
    /\ saved = [m |-> Quiet, ref |-> Quiet]
    /\ session \in Sessions

(* A basic block charges its cycles.                                       *)
Charge ==
    \E n \in 1..MaxCharge :
        /\ ref.since + n <= MaxSince
        /\ clk' = Charged(clk, n)
        /\ ref' = Exactly(ref, n)
        /\ idle' = IF session.idleSkip
                   THEN [idle EXCEPT !.elapsed = Least(@ + n, QuantumMax + 1)]
                   ELSE idle
        /\ UNCHANGED <<in_exception, exact, saved, session>>

(* psx_devices_mmio_sync, at the top of every device register access.      *)
Synced(c) == [m |-> ServiceToNow(c.m, c.gap), gap |-> 0, due |-> 0]

(* What the access then does to the devices.                               *)
Programmed(m, d, delay) == [m EXCEPT !.left[d] = Armed(d, delay)]
Acknowledged(m, stat)   == [m EXCEPT !.stat = @ \ stat]
CardSelected(m, b)      == [m EXCEPT !.card = b]

MmioAccess ==
    /\ LET c == Synced(clk)
       IN  \/ \E d \in session.uses, k \in Delays :
                /\ clk' = [c EXCEPT !.m = Programmed(c.m, d, k)]
                /\ ref' = Programmed(ref, d, k)
          \/ \E stat \in SUBSET (session.uses \cup {VBlank}) :
                /\ clk' = [c EXCEPT !.m = Acknowledged(c.m, stat)]
                /\ ref' = Acknowledged(ref, stat)
          \/ \E b \in BOOLEAN :
                /\ session.uses \cap Serial # {}
                /\ clk' = [c EXCEPT !.m = CardSelected(c.m, b)]
                /\ ref' = CardSelected(ref, b)
    /\ idle' = [idle EXCEPT !.pure = FALSE]
    /\ UNCHANGED <<in_exception, exact, saved, session>>

-----------------------------------------------------------------------------
(* The interrupt check.                                                    *)

(* psx_idle_note_check up to its streak test.  `same` says that the check  *)
(* is at the PC of the last one with no register progress.                 *)
Noted(same) ==
    LET stable == same /\ idle.pure /\ idle.elapsed \in 1..QuantumMax
    IN  [quantum |-> IF stable THEN idle.elapsed ELSE 0,
         streak  |-> IF ~stable THEN 0
                     ELSE IF idle.elapsed # idle.quantum THEN 1
                     ELSE Least(idle.streak + 1, StreakMin),
         elapsed |-> 0,
         pure    |-> TRUE]

(* The iterations of length q to the first check at or after `dist`.       *)
Iterations(dist, q) == (dist + q - 1) \div q

(* devices_cycles_to_next_idle_event: only unmasked devices bound the skip. *)
ToIdleEvent(m, mask) == AtLeastOne(Distance(m, mask))

(* The numbers of iterations the skip may elide.  A loop that counts a     *)
(* register down is skipped for fewer.                                     *)
Skips(m, loop, mask) ==
    IF loop.streak < StreakMin \/ ToIdleEvent(m, mask) <= loop.quantum THEN {0}
    ELSE 0..Iterations(ToIdleEvent(m, mask), loop.quantum)

(* psx_check_interrupts outside the handler: due VBlanks are raised, the   *)
(* wait-loop skip may advance the clock, and a pending interrupt may be    *)
(* taken.                                                                  *)
Check(same, mask, k) ==
    LET c    == [clk EXCEPT !.m = Scheduled(@)]
        loop == IF session.idleSkip THEN Noted(same) ELSE idle
        skip == k * loop.quantum
        after == IF k = 0 THEN c ELSE Charged(c, skip)
    IN  /\ ~in_exception
        /\ k \in Skips(c.m, loop, mask)
        /\ ref.since + skip <= MaxSince
        /\ clk' = after
        /\ ref' = IF k = 0 THEN Scheduled(ref) ELSE Exactly(Scheduled(ref), skip)
        /\ idle' = IF k = 0 THEN loop ELSE [loop EXCEPT !.streak = 0]
        /\ in_exception' \in {FALSE, after.m.stat # {}}
        /\ UNCHANGED <<exact, saved, session>>

CheckInterrupts ==
    \E same \in BOOLEAN, mask \in SUBSET session.uses, k \in 0..MaxSince : Check(same, mask, k)

(* The handler returns.                                                    *)
LeaveException ==
    /\ in_exception
    /\ in_exception' = FALSE
    /\ UNCHANGED <<clk, ref, exact, idle, saved, session>>

(* The debug command that flips g_event_step_conservative.                 *)
ToggleExact ==
    /\ session.toggles
    /\ exact' = ~exact
    /\ UNCHANGED <<clk, ref, in_exception, idle, saved, session>>

(* savestate_poll runs inside the interrupt check, outside the handler.    *)
SaveState ==
    /\ session.saves /\ ~in_exception
    /\ saved' = [m |-> clk.m, ref |-> ref]
    /\ UNCHANGED <<clk, ref, in_exception, exact, idle, session>>

(* The cycles for which the last card byte may still count as recent after *)
(* a load; without serial traffic nothing depends on them.                 *)
Recency == IF session.uses \cap Serial = {} THEN {0} ELSE 0..Stale

BugLoadState ==
    /\ session.saves /\ ~in_exception
    /\ \E r \in Recency :
         /\ clk' = [clk EXCEPT !.m = [saved.m EXCEPT !.since = clk.m.since, !.recent = r]]
         /\ ref' = [saved.ref EXCEPT !.since = clk.m.since, !.recent = r]
    /\ UNCHANGED <<in_exception, exact, idle, saved, session>>

(* A load keeps what is not in the file, cycles_since_vblank and the cycle *)
(* of the last card byte, and psx_cycles_resync_after_restore declares the *)
(* devices in step.                                                        *)
LoadState ==
    /\ session.saves /\ ~in_exception
    /\ \E r \in Recency :
         /\ clk' = [m |-> [saved.m EXCEPT !.since = clk.m.since, !.recent = r],
                    gap |-> 0, due |-> 0]
         /\ ref' = [saved.ref EXCEPT !.since = clk.m.since, !.recent = r]
    /\ UNCHANGED <<in_exception, exact, idle, saved, session>>

Next ==
    \/ Charge \/ MmioAccess
    \/ CheckInterrupts \/ LeaveException
    \/ ToggleExact \/ SaveState \/ LoadState

Spec == Init /\ [][Next]_vars

-----------------------------------------------------------------------------
Machine == [left : [Dev -> Nat], since : Nat, stat : SUBSET (Dev \cup {VBlank}),
            card : BOOLEAN, recent : 0..Stale]

(* Types of the machines, the clock and the detector.                      *)
TypeOK ==
    /\ clk \in [m : Machine, gap : Nat, due : Nat]
    /\ ref \in Machine
    /\ in_exception \in BOOLEAN /\ exact \in BOOLEAN
    /\ idle \in [quantum : Nat, streak : 0..StreakMin, elapsed : Nat, pure : BOOLEAN]
    /\ saved \in [m : Machine, ref : Machine]
    /\ session \in Sessions

(* "no event can fire late because the deadline is by construction <= the  *)
(* earliest device event" (psx_cycles.c): the pending interrupts are those *)
(* of devices stepped every cycle.                                         *)
NoneLate == clk.m.stat = ref.stat

(* Once synchronised, at a register access or after a service, the devices *)
(* are in the very state single stepping would have brought them to.       *)
InStep == clk.gap = 0 => clk.m = ref

(* The serial port is not used, nothing is restored, and the servicing     *)
(* mode stays as it is.                                                    *)
Plain == session.uses \cap Serial = {} /\ ~session.toggles /\ ~session.saves

(* "Guest-visible semantics are IDENTICAL" (psx_cycles.c): in a session    *)
(* without serial traffic no event is ever late, early or lost although    *)
(* the devices lag, and psx_devices_service_to_now replays neither more    *)
(* nor less than the cycles they lag behind.                               *)
LagInvisible == Plain => NoneLate /\ InStep

(* The unserviced cycles never contain an event, and the service deadline  *)
(* that psx_devices_recompute_deadline left is never beyond the next one.  *)
GapIsQuiet ==
    /\ clk.gap < ToNextEvent(clk.m)
    /\ clk.due # 0 => clk.gap < clk.due /\ clk.due <= ToNextEvent(clk.m)

(* "Every query is a conservative UNDER-estimate" (interrupts.c): the      *)
(* distance cycles_to_next_event reports never exceeds the real one.       *)
DistanceUnderEstimates == Distance(clk.m, Dev) <= Distance(ref, Dev)

(* "the skip lands on exactly that boundary (k = ceil(dist / quantum)      *)
(* whole iterations)" (psx_cycles.c): a wait-loop skip never elides an     *)
(* iteration that begins at or after the event that may release the loop.  *)
SkipStopsAtEvent ==
    [][\A mask \in SUBSET Dev, k \in 1..MaxSince :
          Check(TRUE, mask, k) =>
              (k - 1) * idle.quantum < ToIdleEvent(Scheduled(ref), mask)]_vars
=============================================================================
