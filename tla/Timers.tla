------------------------------- MODULE Timers -------------------------------
(***************************************************************************)
(* One root counter (runtime/src/timers.c).  The three counters share no   *)
(* state, so one is modelled, with any clock divider any of them may have. *)
(* The code advances a counter by jumping from event to event              *)
(* (timer_advance_counts) and predicts the next interrupt                  *)
(* (timers_cycles_to_irq); both are compared with single counts.           *)
(***************************************************************************)
EXTENDS Integers

CONSTANTS
    Width,      \* 2^16 in the code
    Dividers,   \* cycles per count: 1, 8, 5 or 2146 in the code
    MaxAdvance  \* most cycles passed to timers_advance at once

ASSUME TimersAssumption ==
    /\ Width \in Nat \ {0, 1}
    /\ Dividers \subseteq Nat \ {0} /\ 1 \in Dividers
    /\ MaxAdvance \in Nat \ {0}

VARIABLE tm   \* the Timer record, its timer_frac and its I_STAT bit

Smaller(a, b) == IF a <= b THEN a ELSE b

(* The mode bits a guest write sets.  MODE_CLK_SRC* is the divider.        *)
Mode == [irq_target : BOOLEAN, irq_overflow : BOOLEAN, repeat : BOOLEAN,
         toggle : BOOLEAN, reset_target : BOOLEAN, div : Dividers]

-----------------------------------------------------------------------------
(* timer_fire_irq.  `fires` counts calls since the mode was written, to 2. *)
BugFireIrq(t) ==
    LET line == IF t.toggle THEN ~t.irq_line ELSE t.irq_line
    IN  [t EXCEPT !.irq_line = line,
                  !.request = IF t.toggle THEN ~line ELSE TRUE,
                  !.istat = (@ \/ ~t.toggle \/ line),
                  !.irq_target = (@ /\ t.repeat),
                  !.fires = Smaller(@ + 1, 2)]

FireIrq(t) ==
    LET line == IF t.toggle THEN ~t.irq_line ELSE t.irq_line
    IN  [t EXCEPT !.irq_line = line,
                  !.request = IF t.toggle THEN ~line ELSE TRUE,
                  !.istat = (@ \/ ~t.toggle \/ line),
                  !.irq_target = (@ /\ t.repeat),
                  !.irq_overflow = (@ /\ t.repeat),
                  !.fires = Smaller(@ + 1, 2)]

OnTarget(t) ==
    LET fired == IF t.irq_target THEN FireIrq(t) ELSE t
    IN  [fired EXCEPT !.target_flag = TRUE,
                      !.counter = IF t.reset_target THEN 0 ELSE @]

OnOverflow(t) ==
    LET fired == IF t.irq_overflow THEN FireIrq(t) ELSE t
    IN  [fired EXCEPT !.overflow_flag = TRUE]

(* timer_tick_one.                                                         *)
TickOne(t) ==
    LET moved == [t EXCEPT !.counter = (@ + 1) % Width]
        hit   == IF moved.counter = t.target THEN OnTarget(moved) ELSE moved
    IN  IF t.counter = Width - 1 THEN OnOverflow(hit) ELSE hit

(* Distances of timer_advance_counts, never 0.                             *)
TargetDist(t) ==
    IF t.target = t.counter THEN Width ELSE (t.target - t.counter) % Width

OverflowDist(t) == Width - t.counter

BugJump(r) ==
    LET t     == r.t
        step  == Smaller(r.rest, Smaller(TargetDist(t), OverflowDist(t)))
        moved == [t EXCEPT !.counter = (@ + step) % Width]
        hit   == IF step = TargetDist(t) THEN OnTarget(moved) ELSE moved
    IN  IF r.rest = 0 THEN r
        ELSE [t    |-> IF t.counter + step > Width THEN OnOverflow(hit) ELSE hit,
              rest |-> r.rest - step]

(* One round of timer_advance_counts: to the nearest event or to the end.  *)
Jump(r) ==
    LET t     == r.t
        step  == Smaller(r.rest, Smaller(TargetDist(t), OverflowDist(t)))
        moved == [t EXCEPT !.counter = (@ + step) % Width]
        hit   == IF step = TargetDist(t) THEN OnTarget(moved) ELSE moved
    IN  IF r.rest = 0 THEN r
        ELSE [t    |-> IF step = OverflowDist(t) THEN OnOverflow(hit) ELSE hit,
              rest |-> r.rest - step]

AdvanceCounts(t, ticks) ==
    LET run[k \in 0..ticks] ==
          IF k = 0 THEN [t |-> t, rest |-> ticks] ELSE Jump(run[k - 1])
    IN  run[ticks].t

(* timer_advance_divided, and timer_advance_counts for the divider 1.      *)
TimersAdvanced(t, cycles) ==
    LET total == t.frac + cycles
    IN  AdvanceCounts([t EXCEPT !.frac = total % t.div], total \div t.div)

(* One cycle, and the same cycles one at a time.                          *)
Cycle(t) ==
    IF t.frac + 1 < t.div THEN [t EXCEPT !.frac = @ + 1]
    ELSE TickOne([t EXCEPT !.frac = 0])

Ticked(t, cycles) ==
    LET run[k \in 0..cycles] == IF k = 0 THEN t ELSE Cycle(run[k - 1])
    IN  run[cycles]

IrqEnabled(t) == t.irq_target \/ t.irq_overflow

BugCyclesToIrq(t) ==
    LET ticks == IF t.irq_target THEN TargetDist(t) ELSE OverflowDist(t)
    IN  ticks * t.div - t.frac

(* timers_cycles_to_irq for an armed counter.                              *)
CyclesToIrq(t) ==
    LET ticks == IF ~t.irq_overflow THEN TargetDist(t)
                 ELSE IF ~t.irq_target THEN OverflowDist(t)
                 ELSE Smaller(TargetDist(t), OverflowDist(t))
        cyc   == ticks * t.div
    IN  IF cyc > t.frac THEN cyc - t.frac ELSE 0

-----------------------------------------------------------------------------
(* A write of the mode register restarts the counter.                      *)
ModeWritten(t, mode) ==
    [t EXCEPT !.irq_target = mode.irq_target, !.irq_overflow = mode.irq_overflow,
              !.repeat = mode.repeat, !.toggle = mode.toggle,
              !.reset_target = mode.reset_target, !.div = mode.div,
              !.counter = 0, !.frac = 0, !.fires = 0, !.request = TRUE,
              !.irq_line = FALSE, !.target_flag = FALSE, !.overflow_flag = FALSE]

(* timers_init.                                                            *)
TimersInit ==
    tm = [counter |-> 0, target |-> 0, frac |-> 0, fires |-> 0, div |-> 1,
          irq_target |-> FALSE, irq_overflow |-> FALSE, repeat |-> FALSE,
          toggle |-> FALSE, reset_target |-> FALSE, request |-> FALSE,
          target_flag |-> FALSE, overflow_flag |-> FALSE,
          irq_line |-> FALSE, istat |-> FALSE]

(* timers_advance.                                                         *)
Advance == \E c \in 1..MaxAdvance : tm' = TimersAdvanced(tm, c)

(* timers_write.                                                           *)
WriteMode    == \E mode \in Mode : tm' = ModeWritten(tm, mode)
WriteCounter == \E v \in 0..Width - 1 : tm' = [tm EXCEPT !.counter = v]
WriteTarget  == \E v \in 0..Width - 1 : tm' = [tm EXCEPT !.target = v]

(* timers_read of the mode clears the two flags.                           *)
ReadMode == tm' = [tm EXCEPT !.target_flag = FALSE, !.overflow_flag = FALSE]

(* The guest acknowledges the I_STAT bit.                                  *)
AckIrq == tm' = [tm EXCEPT !.istat = FALSE]

TimersNext == Advance \/ WriteMode \/ WriteCounter \/ WriteTarget \/ ReadMode \/ AckIrq

TimersSpec == TimersInit /\ [][TimersNext]_tm

-----------------------------------------------------------------------------
(* The registers of a counter.                                             *)
Timer == [counter : 0..Width - 1, target : 0..Width - 1, frac : Nat, fires : 0..2,
          div : Dividers, irq_target : BOOLEAN, irq_overflow : BOOLEAN,
          repeat : BOOLEAN, toggle : BOOLEAN, reset_target : BOOLEAN,
          request : BOOLEAN, target_flag : BOOLEAN, overflow_flag : BOOLEAN,
          irq_line : BOOLEAN, istat : BOOLEAN]

(* Counter and prescaler stay within their registers.                      *)
TimerOK == tm \in Timer /\ tm.frac < tm.div

(* Jumping from event to event does what counting does: whatever the state *)
(* and however many cycles timers_advance is given, the counter, flags,    *)
(* line and interrupt are those of timer_tick_one once per count.  Hence   *)
(* splitting an advance in two never changes its outcome.                  *)
BatchEqualsTicks == \A c \in 0..MaxAdvance : TimersAdvanced(tm, c) = Ticked(tm, c)

Fires(c) == Ticked([tm EXCEPT !.fires = 0], c).fires > 0

(* "the slice trigger never lets a native block run past a timer           *)
(* interrupt": the distance timers_cycles_to_irq reports is at least one   *)
(* cycle, no interrupt is due before it, and unless a reset at the target  *)
(* keeps the counter from overflowing one is due exactly then.             *)
SliceIsExact ==
    IrqEnabled(tm) =>
        /\ CyclesToIrq(tm) > 0
        /\ ~Fires(CyclesToIrq(tm) - 1)
        /\ tm.irq_target \/ ~tm.reset_target => Fires(CyclesToIrq(tm))

(* Without MODE_IRQ_REPEAT a mode write is good for one interrupt, even    *)
(* when target and overflow fall on the same count.                        *)
OneShotFiresOnce == tm.repeat \/ tm.fires <= 1
=============================================================================
