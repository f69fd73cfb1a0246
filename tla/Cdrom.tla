------------------------------- MODULE Cdrom -------------------------------
(***************************************************************************)
(* The CD-ROM controller of runtime/src/cdrom.c and the guest driver that  *)
(* talks to it: commands and their first and second responses, the sector  *)
(* stream, the one response the controller shows at a time, and its path   *)
(* through the interrupt controller to the guest's handler and back.       *)
(*                                                                         *)
(* Left out: the bytes of responses, parameters and sectors, positions on  *)
(* the disc and the audio volumes.  A countdown the code computes from the *)
(* speed mode, the position or the divisor is any member of a set.  Every  *)
(* register access finds the device advanced to the present cycle          *)
(* (psx_devices_mmio_sync), so no cycles are owed to the device at a write. *)
(***************************************************************************)
EXTENDS Integers, FiniteSets

CONSTANTS
    Cmds,          \* the commands the guest issues
    Disc,          \* is a disc mounted?
    PresentDelay,  \* CDROM_IRQ_PRESENT_DELAY
    Delays,        \* countdowns to second responses and to a first sector
    Periods,       \* countdowns from one sector to the next
    Enables,       \* interrupt enable masks the guest programs
    MaxStep,       \* largest number of cycles one cdrom_advance is given
    Latency,       \* cycles the guest takes from I_STAT to its controller ack
    HandlerMax,    \* cycles its handler takes from there to its I_STAT ack
    None

(* The response code is kept as its bits, which an acknowledge clears.     *)
DataReady == {1}
Complete  == {2}
Ack       == {1, 2}
Error     == {1, 4}
AllBits   == {1, 2, 4}
IrqFlags  == SUBSET AllBits

AllCmds == {"GetStat", "SetMode", "GetTD", "Read", "Play", "MotorOn", "Stop",
            "Pause", "Init", "Seek", "GetID", "ReadTOC", "Unknown"}
TwoPhase == {"MotorOn", "Stop", "Pause", "Init", "Seek", "GetID", "ReadTOC"}
Halting  == {"Stop", "Pause", "Init"}

ASSUME CdromAssumption ==
    /\ Cmds \subseteq AllCmds /\ None \notin AllCmds
    /\ Disc \in BOOLEAN
    /\ PresentDelay \in Nat \ {0} /\ MaxStep \in Nat
    /\ Latency \in Nat /\ HandlerMax \in Nat
    /\ Delays \subseteq Nat \ {0} /\ Periods \subseteq Nat \ {0}
    /\ Enables \subseteq SUBSET IrqFlags

(* "Sized to comfortably outlast an ISR teardown".                         *)
ASSUME TeardownAssumption == HandlerMax < PresentDelay

VARIABLES
    cd,      \* the controller, a record
    isr,     \* where the guest's handler is
    waited   \* cycles since the last thing the handler's timing is bound to

vars == <<cd, isr, waited>>

Stat == {"MOTOR", "SHELL", "READ", "SEEK", "PLAY"}

Controller ==
    [stat    : SUBSET Stat,
     flag    : IrqFlags,             \* irq_flag
     enable  : SUBSET IrqFlags,      \* irq_enable: the responses let through
     latched : BOOLEAN,              \* cdrom_intc_request_latched
     shown   : BOOLEAN,              \* cdrom_intc_latched_generation is current
     hold    : 0..PresentDelay,      \* cdrom_irq_present_delay
     queued  : AllCmds \cup {None},  \* queued_cmd
     pcmd    : AllCmds \cup {None},  \* pending.cmd, None when not pending
     pdelay  : Nat,                  \* pending.delay
     reading : BOOLEAN,
     rdelay  : Nat,                  \* read_delay
     pended  : BOOLEAN,              \* pending_dataready
     istat   : BOOLEAN]              \* I_STAT bit 2

DriveStat == IF Disc THEN "MOTOR" ELSE "SHELL"

Init ==
    /\ cd = [stat |-> {DriveStat}, flag |-> {}, enable |-> IrqFlags \ {{}},
             latched |-> FALSE, shown |-> FALSE, hold |-> 0, queued |-> None,
             pcmd |-> None, pdelay |-> 0, reading |-> FALSE, rdelay |-> 0,
             pended |-> FALSE, istat |-> FALSE]
    /\ isr = "out" /\ waited = 0

-----------------------------------------------------------------------------
(* Showing a response and presenting it to the interrupt controller.       *)

BugSetIrq(c, type) ==
    [c EXCEPT !.flag = type, !.shown = FALSE, !.latched = FALSE,
              !.hold = HandlerMax]

set_irq(c, type) ==
    [c EXCEPT !.flag = type, !.shown = FALSE, !.latched = FALSE,
              !.hold = PresentDelay]

present_cdrom_irq(c) ==
    IF c.hold = 0 /\ c.flag # {} /\ c.flag \in c.enable /\ ~c.latched
    THEN [c EXCEPT !.istat = TRUE, !.latched = TRUE, !.shown = TRUE]
    ELSE c

Respond(c, type) == present_cdrom_irq(set_irq(c, type))

-----------------------------------------------------------------------------
(* Commands.                                                               *)

Rejected(c, cmd) ==
    \/ cmd = "Unknown"
    \/ cmd \in {"Read", "Play", "Seek", "GetTD"} /\ ~Disc
    \/ cmd = "MotorOn" /\ "MOTOR" \in c.stat

Drops(cmd) == IF cmd = "Stop" THEN {"READ", "PLAY", "SEEK"}
              ELSE IF cmd = "Pause" THEN {"READ"}
              ELSE IF cmd = "Play" THEN {"READ", "SEEK"}
              ELSE IF cmd = "Init" THEN Stat ELSE {}
Adds(cmd) == IF cmd \in {"GetStat", "Init"} THEN {DriveStat}
             ELSE IF cmd = "Read" THEN {"READ"}
             ELSE IF cmd = "Seek" THEN {"SEEK"}
             ELSE IF cmd = "Play" THEN {"MOTOR", "PLAY"} ELSE {}

(* start_read_stream and stop_read_stream.                                 *)
Streaming(c, cmd) == cmd = "Read" \/ (c.reading /\ cmd \notin Halting)

Accepted(c, cmd, d) ==
    [c EXCEPT !.stat = (@ \ Drops(cmd)) \cup Adds(cmd),
              !.reading = Streaming(c, cmd),
              !.rdelay = IF cmd = "Read" THEN d ELSE IF cmd \in Halting THEN 0 ELSE @,
              !.pended = @ /\ cmd # "Read" /\ cmd \notin Halting,
              !.pcmd = IF cmd \in TwoPhase THEN cmd ELSE @,
              !.pdelay = IF cmd \in TwoPhase THEN d ELSE @]

exec_command(c, cmd, d) ==
    IF Rejected(c, cmd) THEN Respond(c, Error)
    ELSE Respond(Accepted(c, cmd, d), Ack)

queue_or_exec_command(c, cmd, d) ==
    IF c.flag = {} THEN exec_command(c, cmd, d) ELSE [c EXCEPT !.queued = cmd]

try_execute_queued_command(c, d) ==
    IF c.queued = None \/ c.flag # {} THEN c
    ELSE exec_command([c EXCEPT !.queued = None], c.queued, d)

-----------------------------------------------------------------------------
(* cdrom_advance.                                                          *)

Age(t, n) == IF t > n THEN t - n ELSE 0

(* What a second response changes in the status.                           *)
Settled(cmd) == IF cmd = "Stop" THEN {"MOTOR", "READ", "PLAY", "SEEK"}
                ELSE IF cmd = "Pause" THEN {"READ"}
                ELSE IF cmd = "Seek" THEN {"SEEK"} ELSE {}
Completed(c) ==
    [c EXCEPT !.stat = (@ \ Settled(c.pcmd))
                          \cup (IF c.pcmd = "MotorOn" THEN {"MOTOR"} ELSE {}),
              !.pcmd = None, !.pdelay = 0]

SecondResponse(c) ==
    Respond(Completed(c), IF c.pcmd = "GetID" /\ ~Disc THEN Error ELSE Complete)

BugProcessPending(c, n) ==
    IF c.pcmd = None THEN c
    ELSE IF c.pdelay > n THEN [c EXCEPT !.pdelay = @ - n]
    ELSE SecondResponse(c)

BugPendingExact(c, n) ==
    IF c.pcmd = None \/ c.flag # {} THEN c
    ELSE IF c.pdelay # n THEN [c EXCEPT !.pdelay = Age(@, n)]
    ELSE SecondResponse(c)

(* Frozen while a response is unacknowledged.                              *)
process_pending(c, n) ==
    IF c.pcmd = None \/ c.flag # {} THEN c
    ELSE IF c.pdelay > n THEN [c EXCEPT !.pdelay = @ - n]
    ELSE SecondResponse(c)

(* The next sector's countdown; a debt of more than a period is dropped.   *)
Rearmed(c, n, p) ==
    [c EXCEPT !.rdelay = IF @ - n + p > 0 THEN @ - n + p ELSE p]

(* A sector with data becomes an INT1 at once, only refills the buffer of  *)
(* a running DMA, or has its INT1 wait, one deep.                          *)
Sector(c, data, dma) ==
    IF ~data THEN c
    ELSE IF c.flag = {} THEN Respond(c, DataReady)
    ELSE IF dma THEN c
    ELSE [c EXCEPT !.pended = TRUE]

process_read_stream(c, n, p, data, dma) ==
    IF ~c.reading THEN c
    ELSE IF c.rdelay > n THEN [c EXCEPT !.rdelay = @ - n]
    ELSE Sector(Rearmed(c, n, p), data, dma)

cdrom_advance(c, n, d, p, data, dma) ==
    LET aged   == present_cdrom_irq([c EXCEPT !.hold = Age(@, n)])
        second == process_pending(try_execute_queued_command(aged, d), n)
    IN  present_cdrom_irq(process_read_stream(second, n, p, data, dma))

BugCountdowns(c) ==
    (IF c.pcmd # None /\ c.pdelay > 0 THEN {c.pdelay} ELSE {})
    \cup (IF c.reading /\ c.rdelay > 0 THEN {c.rdelay} ELSE {})

(* cdrom_cycles_to_irq, bit 2 unmasked: the least of these.                *)
Countdowns(c) ==
    (IF c.flag # {} /\ c.flag \in c.enable THEN {c.hold} ELSE {})
    \cup (IF c.pcmd # None /\ c.pdelay > 0 THEN {c.pdelay} ELSE {})
    \cup (IF c.reading /\ c.rdelay > 0 THEN {c.rdelay} ELSE {})

-----------------------------------------------------------------------------
(* The acknowledge register.                                               *)

BugPresentPending(c) ==
    IF c.pended /\ c.flag = {} THEN Respond(c, DataReady) ELSE c

present_pending_dataready(c) ==
    IF c.pended /\ c.flag = {}
    THEN Respond([c EXCEPT !.pended = FALSE], DataReady)
    ELSE c

BugAcknowledged(c, bits) ==
    [c EXCEPT !.flag = @ \ bits, !.latched = FALSE]

Acknowledged(c, bits) ==
    [c EXCEPT !.flag = @ \ bits,
              !.latched = @ /\ ~(c.flag # {} /\ c.flag \subseteq bits)]

BugWriteAck(c, bits, d) ==
    try_execute_queued_command(Acknowledged(c, bits), d)

(* A pended INT1 goes first; a queued command waits behind it.             *)
write_ack(c, bits, d) ==
    try_execute_queued_command(present_pending_dataready(Acknowledged(c, bits)), d)

-----------------------------------------------------------------------------
(* The guest.  Its handler is entered on I_STAT bit 2 and acknowledges the *)
(* controller and I_STAT, in either order; commands are issued at any      *)
(* time, from inside the handler too; the main program may also poll.      *)

Busy == isr # "out" \/ cd.istat

Advance ==
    \E n \in 1..MaxStep, d \in Delays, p \in Periods, data, dma \in BOOLEAN :
        /\ Busy => waited + n <= IF isr = "acked" THEN HandlerMax ELSE Latency
        /\ cd' = cdrom_advance(cd, n, d, p, data, dma)
        /\ waited' = IF Busy THEN waited + n ELSE 0
        /\ UNCHANGED isr

Command(cmd) ==
    /\ \E d \in Delays : cd' = queue_or_exec_command(cd, cmd, d)
    /\ UNCHANGED <<isr, waited>>

SetEnable(mask) ==
    /\ cd' = [cd EXCEPT !.enable = mask]
    /\ UNCHANGED <<isr, waited>>

EnterHandler ==
    /\ isr = "out" /\ cd.istat
    /\ isr' = "entered"
    /\ UNCHANGED <<cd, waited>>

(* An acknowledge that leaves some bits of the response set.               *)
PartialAck ==
    /\ isr = "entered"
    /\ \E bits \in SUBSET AllBits, d \in Delays :
          ~(cd.flag \subseteq bits) /\ cd' = write_ack(cd, bits, d)
    /\ UNCHANGED <<isr, waited>>

AckController ==
    /\ isr \in {"entered", "cleared"}
    /\ \E d \in Delays : cd' = write_ack(cd, AllBits, d)
    /\ isr' = IF isr = "entered" THEN "acked" ELSE "out"
    /\ waited' = 0

AckIstat ==
    /\ isr \in {"entered", "acked"}
    /\ cd' = [cd EXCEPT !.istat = FALSE]
    /\ isr' = IF isr = "entered" THEN "cleared" ELSE "out"
    /\ waited' = IF isr = "entered" THEN waited ELSE 0

PollAck ==
    /\ isr = "out" /\ cd.flag # {}
    /\ \E d \in Delays : cd' = write_ack(cd, AllBits, d)
    /\ UNCHANGED <<isr, waited>>

Next ==
    \/ Advance
    \/ \E cmd \in Cmds : Command(cmd)
    \/ \E mask \in Enables : SetEnable(mask)
    \/ EnterHandler \/ PartialAck \/ AckController \/ AckIstat \/ PollAck

Spec == Init /\ [][Next]_vars

(* Guest cycles pass, and a handler that was entered runs to its end.      *)
FairSpec == /\ Spec /\ WF_vars(Advance) /\ WF_vars(EnterHandler)
            /\ WF_vars(AckController) /\ WF_vars(AckIstat)

-----------------------------------------------------------------------------
TypeOK == /\ cd \in Controller
          /\ isr \in {"out", "entered", "cleared", "acked"}
          /\ waited \in Nat

(* A response presented to the interrupt controller is never lost: as long *)
(* as it is unacknowledged, I_STAT bit 2 is set or a handler is on its way *)
(* to acknowledge it.  The latch suppresses a second presentation, so the  *)
(* driver would wait for ever.  In particular the I_STAT acknowledge at    *)
(* the end of a handler never takes away the response to a command issued  *)
(* in that handler.                                                        *)
NoLostInterrupt ==
    cd.flag # {} /\ cd.latched => cd.istat \/ isr \in {"entered", "cleared"}

(* "The latch presents each generation to INTC exactly once": an unacked   *)
(* response raises I_STAT no second time, partial acknowledges included.   *)
PresentedOnce == [][cd'.latched /\ ~cd.latched => ~cd.shown]_vars

(* "delivers responses directly and does not overwrite": whichever of the  *)
(* sector stream, a second response and a queued command comes next, an    *)
(* unacknowledged response stays as it is until the guest acknowledges it. *)
ResponseKept ==
    [][cd.flag # {} /\ (cd'.flag # cd.flag \/ (cd.shown /\ ~cd'.shown))
          => AckController \/ PollAck \/ PartialAck]_vars

(* Nothing waits for an acknowledge that will not come: a command is held  *)
(* back (BUSYSTS) and an INT1 is pended only behind a response, and an     *)
(* INT1 only for a drive that still reads, so none follows a Pause.        *)
NothingStranded ==
    /\ cd.queued # None \/ cd.pended => cd.flag # {}
    /\ cd.pended => cd.reading

(* cdrom_cycles_to_irq never exceeds the cycles to the next interrupt: an  *)
(* advance shorter than it raises nothing.                                 *)
SliceStopsShort ==
    \A n \in 1..MaxStep, d \in Delays, p \in Periods, data, dma \in BOOLEAN :
        (\A k \in Countdowns(cd) : n < k)
            => cdrom_advance(cd, n, d, p, data, dma).istat = cd.istat

Masked  == cd.flag # {} /\ cd.flag \notin cd.enable
Issuing == \E cmd \in Cmds : Command(cmd)

(* Cycles within which an INT1 that waited is shown, presented and         *)
(* acknowledged, the one step included that overshoots the presentation.   *)
Room == PresentDelay + Latency + MaxStep

(* A sector arrives and the next one follows before there is room for its  *)
(* INT1, as apply_speed allows: CDROM_MIN_DELAY is less than               *)
(* CDROM_IRQ_PRESENT_DELAY.                                                *)
Hurried ==
    /\ cd.reading
    /\ \E n \in 1..MaxStep, d \in Delays, p \in Periods, data, dma \in BOOLEAN :
          /\ p <= Room /\ cd.rdelay <= n
          /\ cd' = cdrom_advance(cd, n, d, p, data, dma)

(* A command written while a response is outstanding is carried out in the *)
(* end, although an INT1 that waits is shown before it: the INT1s of an    *)
(* earlier stream cannot hold it back for ever (present_pending_dataready  *)
(* before try_execute_queued_command), unless the sectors keep coming      *)
(* faster than their INT1s can be acknowledged.                            *)
CommandRuns == []<>(cd.queued = None) \/ []<>Masked \/ []<><<Hurried>>_vars

(* A second response arrives, whatever sectors are delivered meanwhile     *)
(* (process_pending stands still behind each of their INT1s), unless the   *)
(* sectors keep coming that fast or the guest issues commands for ever.    *)
CompletionArrives ==
    []<>(cd.pcmd = None) \/ []<>Masked \/ []<><<Hurried>>_vars
        \/ []<><<Issuing>>_vars

(* The fast modes' least period is "enough for the interrupt handler to    *)
(* save state, check the IRQ flag, process data, and return": at that      *)
(* period too a held back command gets its turn.                           *)
FastPeriodIsEnough == []<>(cd.queued = None) \/ []<>Masked
=============================================================================
