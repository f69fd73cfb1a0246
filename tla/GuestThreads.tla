---------------------------- MODULE GuestThreads ----------------------------
(***************************************************************************)
(* Guest threads under the deterministic scheduler: the delivery of an     *)
(* interrupt and the way back from its handler (psx_check_interrupts of    *)
(* runtime/src/interrupts.c), thread switches asked for inside a handler,  *)
(* their deferral, and the cooperative scheduler of runtime/src/traps.c.   *)
(*                                                                         *)
(* All threads run the same loop of blocks, so two may wait at the same    *)
(* PC.  A register file is known by the thread and the block it belongs    *)
(* to, or is None when a handler has used the registers.  The cooldown     *)
(* after an exception is a deliverable interrupt left for later.           *)
(* Left out: save states, the legacy fiber bridge, and handlers that leave *)
(* without a return from exception.                                        *)
(***************************************************************************)
EXTENDS Integers

CONSTANTS
    Threads,
    Loop,         \* blocks in the loop
    Kernel,       \* those whose PC is below 64 KB
    KernelPumps,  \* does the interpreter run those, too?
    Nested,       \* does a handler enable interrupts again?
    None, Sentinel

ASSUME ThreadsAssumption ==
    /\ Loop \in Nat \ {0} /\ Kernel \subseteq 0 .. Loop - 1
    /\ None \notin Threads /\ None \notin Threads \X (0 .. Loop - 1)
    /\ {None, Sentinel} \cap (0 .. Loop - 1) = {} /\ None # Sentinel
    /\ KernelPumps \in BOOLEAN /\ Nested \in BOOLEAN

Blocks == 0 .. Loop - 1
After(k) == (k + 1) % Loop
Registers == (Threads \X Blocks) \cup {None}
AfterRegs(r) == <<r[1], After(r[2])>>

(* How the running code asks for interrupts: at a block leader of static   *)
(* code, at one of an overlay shard, at a committed PC of the interpreter, *)
(* at an interpreter entry without a PC, and when a thread has returned.   *)
Kinds == {"block", "shard", "pump", "poll", "end"}

VARIABLES
    cpu,     \* regs, ie (IEc) and pc of CPUState
    native,  \* the block the host's code goes on with
    kind,    \* the check it makes there
    phase,
    tcb,     \* saved contexts, in guest memory
    pcb,     \* PCB[0], the TCB of the current thread
    ret,     \* g_sched_return_tcb
    depth,   \* exception_nest_depth
    frame,   \* the locals of psx_check_interrupts, one frame for each level
    exc,     \* the escape globals
    latch,   \* g_dirty_safe_resume_pc
    site,    \* g_cosim_dirty_pump_site # 0
    defer,   \* s_defer_switch_*
    irq,     \* i_stat & i_mask # 0
    own,     \* history: each thread's own context
    ended    \* history: threads that have returned

vars == <<cpu, native, kind, phase, tcb, pcb, ret, depth, frame, exc, latch,
          site, defer, irq, own, ended>>

Contexts == [regs : Registers, pc : Blocks \cup {Sentinel}, ie : BOOLEAN]
Frames == [entry : Threads \cup {None}, regs : Registers,
           latch : Blocks \cup {None},   \* saved_dirty_resume_pc
           prev : Blocks \cup {None},    \* what the pump puts back
           site : BOOLEAN]
NoFrame == [entry |-> None, regs |-> None, latch |-> None, prev |-> None,
            site |-> FALSE]
NoDefer == [pending |-> FALSE, from |-> None, to |-> None]
Quiet == [armed |-> 0, epc |-> None, reason |-> "none", rfe |-> FALSE]

Context(t, k, ie) == [regs |-> <<t, k>>, pc |-> k, ie |-> ie]

Init ==
    /\ pcb \in Threads
    /\ own = [t \in Threads |-> Context(t, 0, TRUE)]
    /\ tcb = own
    /\ cpu = own[pcb] /\ native = 0
    /\ kind = "block" /\ phase = "leader"
    /\ ret = None /\ exc = Quiet
    /\ depth = 0 /\ frame = [i \in 1..2 |-> NoFrame]
    /\ latch = None /\ site = FALSE /\ defer = NoDefer
    /\ irq = FALSE /\ ended = {}

InException == depth > 0

(* The checks the code of a block can make.                                *)
KindsAt(k) == IF k \notin Kernel THEN Kinds
              ELSE IF KernelPumps THEN {"block", "pump", "poll"}
              ELSE {"block"}

-----------------------------------------------------------------------------
(* psx_scheduler_run after an escape: restore the current TCB and dispatch *)
(* its PC; a TCB without one is fatal.                                     *)
Run(contexts, t) ==
    /\ pcb' = t
    /\ IF contexts[t].pc \in Blocks
       THEN /\ cpu' = contexts[t] /\ native' = contexts[t].pc
            /\ kind' \in KindsAt(native')
            /\ phase' = "leader"
       ELSE phase' = "halted" /\ UNCHANGED <<cpu, native, kind>>

-----------------------------------------------------------------------------
(* Thread code.                                                            *)

(* The block runs; it may enter or leave a critical section.               *)
Body ==
    /\ phase = "body" /\ kind # "end"
    /\ \E ie \in BOOLEAN :
          /\ cpu' = [cpu EXCEPT !.regs = AfterRegs(@), !.ie = ie]
          /\ own' = [own EXCEPT ![pcb] = Context(pcb, After(@.pc), ie)]
    /\ native' = After(native)
    /\ kind' \in KindsAt(native')
    /\ phase' = "leader"
    /\ UNCHANGED <<tcb, pcb, ret, depth, frame, exc, latch, site, defer, irq, ended>>

(* psx_request_thread_switch, the block being a ChangeThread call.         *)
Yield ==
    /\ phase = "body" /\ kind # "end"
    /\ LET here == [regs |-> AfterRegs(cpu.regs), pc |-> After(native), ie |-> cpu.ie]
           saved == [tcb EXCEPT ![pcb] = here]
       IN  /\ tcb' = saved
           /\ \E u \in Threads \ ({pcb} \cup ended) : Run(saved, u)
    /\ own' = [own EXCEPT ![pcb] = Context(pcb, After(@.pc), @.ie)]
    /\ ret' = pcb
    /\ UNCHANGED <<depth, frame, exc, latch, site, defer, irq, ended>>

(* The thread's outermost function has returned.                           *)
Finish ==
    /\ phase = "body" /\ kind = "end"
    /\ ended' = ended \cup {pcb}
    /\ IF ret # None /\ ret # pcb
       THEN Run(tcb, ret) /\ ret' = None
       ELSE phase' = "exited" /\ UNCHANGED <<cpu, native, kind, pcb, ret>>
    /\ UNCHANGED <<tcb, depth, frame, exc, latch, site, defer, irq, own>>

-----------------------------------------------------------------------------
(* psx_check_interrupts in thread code.                                    *)

(* g_dirty_safe_resume_pc, or else s_compiled_interrupt_resume_pc.         *)
ResumePC == IF kind = "pump" THEN native
            ELSE IF latch # None THEN latch
            ELSE IF kind \in {"block", "shard"} THEN native ELSE None
PumpSite == kind = "pump" \/ site

Stale == defer.pending /\ pcb # defer.from
Honours == defer.pending /\ ~Stale /\ ~PumpSite /\ ResumePC # None

(* A shard's wrapper calls only when an interrupt can be taken.            *)
Checks == kind = "shard" => irq /\ cpu.ie

BugResaved == tcb

Resaved == [tcb EXCEPT ![defer.from] =
               [regs |-> cpu.regs, pc |-> ResumePC, ie |-> cpu.ie]]

(* The deferred switch, at a boundary with a resume PC.                    *)
Honour ==
    /\ phase = "leader" /\ Checks /\ Honours
    /\ tcb' = Resaved /\ Run(Resaved, defer.to)
    /\ defer' = NoDefer
    /\ UNCHANGED <<ret, depth, frame, exc, latch, site, irq, own, ended>>

Kept == IF Stale THEN NoDefer ELSE defer

(* Nothing to take, interrupts disabled, or the cooldown still runs.       *)
PassBy ==
    /\ phase = "leader" /\ ~(Checks /\ Honours)
    /\ defer' = IF Checks THEN Kept ELSE defer
    /\ phase' = "body"
    /\ UNCHANGED <<cpu, native, kind, tcb, pcb, ret, depth, frame, exc, latch, site,
                   irq, own, ended>>

(* Entry to the exception; the BIOS handler saves the registers and EPC in *)
(* the current TCB.                                                        *)
Enter(pc) ==
    LET epc == IF pc = None THEN Sentinel ELSE pc IN
    /\ depth' = depth + 1
    /\ frame' = [frame EXCEPT ![depth + 1] =
          [entry |-> pcb, regs |-> cpu.regs,
           latch |-> IF kind = "pump" THEN native ELSE latch,
           prev |-> latch, site |-> site]]
    /\ exc' = [armed |-> depth + 1, epc |-> epc, rfe |-> FALSE,
               reason |-> IF pc = None THEN "legacy" ELSE "none"]
    /\ tcb' = [tcb EXCEPT ![pcb] = [regs |-> cpu.regs, pc |-> epc, ie |-> TRUE]]
    /\ cpu' = [regs |-> None, pc |-> epc, ie |-> FALSE]
    /\ latch' = None
    /\ phase' = "handler"

Deliver ==
    /\ phase = "leader" /\ Checks /\ ~Honours /\ irq /\ cpu.ie
    /\ Enter(ResumePC)
    /\ site' = PumpSite /\ defer' = Kept
    /\ UNCHANGED <<native, kind, pcb, ret, irq, own, ended>>

-----------------------------------------------------------------------------
(* The handler: BIOS code and the game's callbacks.                        *)

Acknowledge ==
    /\ phase = "handler" /\ irq
    /\ irq' = FALSE
    /\ UNCHANGED <<cpu, native, kind, phase, tcb, pcb, ret, depth, frame, exc, latch,
                   site, defer, own, ended>>

HandlerSwitch ==
    /\ phase = "handler"
    /\ pcb' \in Threads \ ({pcb} \cup ended)
    /\ UNCHANGED <<cpu, native, kind, phase, tcb, ret, depth, frame, exc, latch, site,
                   defer, irq, own, ended>>

EnableNested ==
    /\ phase = "handler" /\ Nested
    /\ cpu' = [cpu EXCEPT !.ie = TRUE]
    /\ UNCHANGED <<native, kind, phase, tcb, pcb, ret, depth, frame, exc, latch, site,
                   defer, irq, own, ended>>

(* The gates on a delivery in a handler: one level, and none once the      *)
(* return from exception has begun.  Its EPC is not a thread's PC, except  *)
(* that a check without a PC finds the one latched for the outer delivery. *)
DeliverNested ==
    /\ phase \in {"handler", "returning"} /\ irq /\ cpu.ie
    /\ depth < 2 /\ ~exc.rfe /\ exc.reason = "none"
    /\ \E pc \in {None, native} : Enter(pc)
    /\ UNCHANGED <<native, kind, pcb, ret, site, defer, irq, own, ended>>

(* What a handler's return loads; the guest's own restore of the registers *)
(* may be incomplete.                                                      *)
Restored == {tcb[pcb], [tcb[pcb] EXCEPT !.regs = None]}

(* The recompiled rfe; psx_rfe_mark_escape arms the escape, except for a   *)
(* delivery without a PC.                                                  *)
ReturnFromException ==
    /\ phase = "handler"
    /\ cpu' \in Restored
    /\ exc' = IF exc.reason = "legacy" THEN exc
              ELSE [exc EXCEPT !.rfe = TRUE, !.reason = "rfe"]
    /\ phase' = "returning"
    /\ UNCHANGED <<native, kind, tcb, pcb, ret, depth, frame, latch, site, defer, irq,
                   own, ended>>

-----------------------------------------------------------------------------
(* The way back: longjmp to the frame armed last, c the CPU at that time.  *)

BugSameThread(c, reason) == reason = "legacy"

(* The interrupted registers come back when the resumed PC is the one that *)
(* was interrupted.                                                        *)
SameThread(c, reason) == reason = "legacy" \/ c.pc = exc.epc

Deferrable ==
    /\ exc.epc \in Blocks /\ exc.epc \notin Kernel
    /\ kind # "end"

BugPutBack(f) ==
    /\ latch' \in IF kind = "pump" THEN {f.prev, None} ELSE {f.latch}
    /\ site' = site

(* What a pump does with its two globals when the check has returned.      *)
PutBack(f) ==
    /\ latch' \in IF kind = "pump" THEN {f.prev, None} ELSE {f.latch}
    /\ site' = f.site

(* psx_check_interrupts returns to the thread; a pump resumes at cpu->pc.  *)
BackToThread(f, c) ==
    /\ cpu' = c
    /\ native' = IF kind = "pump" /\ c.pc \in Blocks THEN c.pc ELSE native
    /\ PutBack(f)
    /\ phase' = "body"
    /\ UNCHANGED <<kind, tcb, ret>>

SwitchNow(f) ==
    /\ Run(tcb, pcb)
    /\ latch' = f.latch
    /\ UNCHANGED <<site, defer, tcb, ret>>

Landed(c, reason) ==
    LET f == frame[depth]
        back == [c EXCEPT !.regs = IF SameThread(c, reason) THEN f.regs ELSE @]
    IN
    /\ depth' = depth - 1 /\ frame' = [frame EXCEPT ![depth] = NoFrame]
    /\ exc' = [exc EXCEPT !.reason = "none", !.rfe = FALSE]
    /\ IF depth = 2
       THEN /\ cpu' = back /\ latch' = f.latch /\ phase' = "handler"
            /\ UNCHANGED <<native, kind, tcb, pcb, ret, site, defer>>
       ELSE IF f.entry = pcb
       THEN BackToThread(f, back) /\ UNCHANGED <<pcb, defer>>
       ELSE IF Deferrable
       THEN /\ BackToThread(f, [regs |-> f.regs, pc |-> exc.epc, ie |-> TRUE])
            /\ pcb' = f.entry
            /\ defer' = [pending |-> TRUE, from |-> f.entry, to |-> pcb]
       ELSE SwitchNow(f)

(* The frame of a nested delivery that has returned is armed still.        *)
Longjmp(c, reason) ==
    /\ IF exc.armed = depth THEN Landed(c, reason)
       ELSE /\ phase' = "undefined"
            /\ UNCHANGED <<cpu, native, kind, tcb, pcb, ret, depth, frame, exc, latch,
                           site, defer>>
    /\ UNCHANGED <<irq, own, ended>>

(* psx_rfe_escape_check, or the dispatch of the sentinel.                  *)
Escape ==
    /\ phase = "returning"
    /\ exc.rfe \/ cpu.pc = Sentinel
    /\ Longjmp(cpu, exc.reason)

(* Otherwise the trampoline dispatches the PC, inside the exception.       *)
RunInside ==
    /\ phase = "returning" /\ ~exc.rfe /\ cpu.pc # Sentinel
    /\ phase' = "inside"
    /\ UNCHANGED <<cpu, native, kind, tcb, pcb, ret, depth, frame, exc, latch, site,
                   defer, irq, own, ended>>

(* psx_syscall 3 in a handler.                                             *)
SyscallReturn ==
    /\ phase = "handler"
    /\ Longjmp(tcb[pcb], "syscall")

Raise ==
    /\ ~irq /\ irq' = TRUE
    /\ UNCHANGED <<cpu, native, kind, phase, tcb, pcb, ret, depth, frame, exc, latch,
                   site, defer, own, ended>>

-----------------------------------------------------------------------------
Thread  == Body \/ Yield \/ Finish
Check   == Honour \/ PassBy \/ Deliver
Handler == Acknowledge \/ HandlerSwitch \/ EnableNested \/ DeliverNested
Return  == ReturnFromException \/ SyscallReturn

Next == Thread \/ Check \/ Handler \/ Return \/ Escape \/ RunInside \/ Raise

Spec == Init /\ [][Next]_vars

(* The host goes on running whatever it runs, and handlers return.         *)
FairSpec == Spec /\ WF_vars(Thread) /\ WF_vars(Check) /\ WF_vars(Return)
                 /\ WF_vars(Escape)

-----------------------------------------------------------------------------
TypeOK ==
    /\ cpu \in Contexts /\ native \in Blocks /\ kind \in Kinds
    /\ phase \in {"leader", "body", "handler", "returning", "halted", "exited",
                  "undefined", "inside"}
    /\ tcb \in [Threads -> Contexts] /\ pcb \in Threads
    /\ ret \in Threads \cup {None}
    /\ depth \in 0..2 /\ frame \in [1..2 -> Frames]
    /\ exc \in [armed : 0..2, epc : Blocks \cup {Sentinel, None},
                reason : {"none", "legacy", "rfe"}, rfe : BOOLEAN]
    /\ latch \in Blocks \cup {None} /\ site \in BOOLEAN
    /\ defer \in [pending : BOOLEAN, from : Threads \cup {None},
                  to : Threads \cup {None}]
    /\ irq \in BOOLEAN
    /\ own \in [Threads -> Contexts] /\ ended \subseteq Threads

InThread == phase \in {"leader", "body"}

(* Thread code runs as the thread the kernel names, on that thread's       *)
(* registers, at the block that thread has come to: an interrupt is        *)
(* transparent, whatever the handler did and however many switches were    *)
(* deferred, dropped or taken at once.                                     *)
ResumesWhereItLeft ==
    InThread => /\ native = own[pcb].pc
                /\ cpu.regs = own[pcb].regs /\ cpu.ie = own[pcb].ie

(* "guest thread context lives ONLY in CPUState / RAM / the TCB": the TCB  *)
(* of a thread that is not running holds that thread's registers and the   *)
(* PC of the same moment, the last it reached, and never the context of    *)
(* the thread that happened to be current.  The PC is missing only where   *)
(* the thread was switched away from at a delivery without one; such a     *)
(* thread is not resumed: the scheduler halts.                             *)
Running == IF InThread THEN {pcb}
           ELSE IF InException THEN {frame[1].entry} ELSE Threads
SuspendedContext ==
    exc.armed < 2 =>
        \A t \in Threads \ (Running \cup ended) :
            tcb[t] \in {own[t], [own[t] EXCEPT !.pc = Sentinel]}

(* A thread switch that was put off is made or, when the guest has         *)
(* switched by itself, dropped: it does not stay pending for ever, as long *)
(* as static code runs again and again.                                    *)
StaticRuns == phase = "leader" /\ kind = "block"
DeferredRuns == []<>StaticRuns => []<>~defer.pending

(* "The synchronous-handler machinery below is nesting-safe": no return    *)
(* from exception jumps to a frame that has returned.                      *)
NestingSafe == phase # "undefined"

(* "unwind to psx_scheduler_run and dispatch whatever PCB[0] now points    *)
(* at": a thread that a handler switched to never runs inside the handler. *)
NeverInside == phase # "inside"

(* "honor immediately - the guest handler's save of the outgoing thread is *)
(* consistent here": the scheduler finds a PC in every TCB it resumes.     *)
NeverHalts == phase # "halted"
=============================================================================
