------------------------- MODULE GuestThreadsProofs -------------------------
(***************************************************************************)
(* Proofs about GuestThreads, for any number of threads, any loop and any  *)
(* split of it between the kernel and the game, as long as the interpreter *)
(* does not run kernel code.                                               *)
(***************************************************************************)
EXTENDS GuestThreads, TLAPS

(* The parts of TypeOK.                                                    *)
CpuType == /\ cpu \in Contexts /\ native \in Blocks /\ kind \in Kinds
           /\ phase \in {"leader", "body", "handler", "returning", "halted", "exited",
                         "undefined", "inside"}
TcbType == tcb \in [Threads -> Contexts] /\ own \in [Threads -> Contexts] /\ pcb \in Threads
SwitchType == /\ ret \in Threads \cup {None} /\ ended \subseteq Threads
              /\ latch \in Blocks \cup {None}
              /\ defer \in [pending : BOOLEAN, from : Threads \cup {None},
                            to : Threads \cup {None}]
FrameType == depth \in 0..2 /\ frame \in [1..2 -> Frames]
EscapeType == exc \in [armed : 0..2, epc : Blocks \cup {Sentinel, None},
                       reason : {"none", "legacy", "rfe"}, rfe : BOOLEAN]
FlagType == site \in BOOLEAN /\ irq \in BOOLEAN

Types == CpuType /\ TcbType /\ SwitchType /\ FrameType /\ EscapeType /\ FlagType

(* Which phases belong to which depth, and which frame is armed.           *)
Depths ==
    \/ phase \in {"leader", "body", "halted", "exited"} /\ depth = 0 /\ exc.armed < 2
    \/ phase \in {"handler", "returning", "inside"} /\ depth = 1 /\ exc.armed = 1
    \/ phase \in {"handler", "returning", "inside", "undefined"} /\ exc.armed = 2
       /\ depth > 0

OwnOK == \A t \in Threads : /\ own[t].pc \in Blocks /\ own[t].ie \in BOOLEAN
                            /\ own[t].regs = <<t, own[t].pc>>

KindFits == native \in Kernel => kind = "block"

(* A thread that waits: its TCB is its own context, the PC maybe missing.  *)
Coherent(t) == \/ tcb[t] = own[t]
               \/ tcb[t].pc = Sentinel /\ tcb[t].regs = own[t].regs /\ tcb[t].ie = own[t].ie

(* Thread code runs on the thread's context and no latch is left over.     *)
ThreadOK ==
    InThread =>
        /\ latch = None /\ site = FALSE /\ KindFits /\ pcb \notin ended
        /\ cpu.regs = own[pcb].regs /\ cpu.ie = own[pcb].ie /\ native = own[pcb].pc
        /\ \A t \in Threads \ ({pcb} \cup ended) : Coherent(t)

(* In a handler of the first level, and on the way back from it.           *)
Outer == depth = 1 /\ exc.armed = 1
HandlerOK ==
    Outer =>
        LET e == frame[1].entry IN
        /\ e \in Threads /\ e \notin ended /\ pcb \notin ended
        /\ KindFits /\ native = own[e].pc /\ own[e].ie = TRUE
        /\ frame[1].regs = own[e].regs
        /\ frame[1].prev = None /\ frame[1].site = FALSE
        /\ frame[1].latch = IF kind = "pump" THEN native ELSE None
        /\ site = (kind = "pump")
        /\ exc.epc = IF kind \in {"poll", "end"} THEN Sentinel ELSE native
        /\ tcb[e].regs = own[e].regs /\ tcb[e].pc = exc.epc /\ tcb[e].ie = TRUE
        /\ \A t \in Threads \ ({e} \cup ended) : Coherent(t)
        /\ phase # "handler" => cpu.pc = tcb[pcb].pc /\ cpu.ie = tcb[pcb].ie
                                /\ cpu.regs \in {tcb[pcb].regs, None}
        /\ exc.reason = "legacy" <=> exc.epc = Sentinel

(* A switch that is put off goes to another thread, which has not ended,   *)
(* and a thread is at its end only after a check.                          *)
DeferOK ==
    defer.pending =>
        /\ defer.from \in Threads /\ defer.to \in Threads
        /\ defer.from # defer.to /\ defer.to \notin ended
        /\ phase = "body" /\ kind = "end" => pcb = defer.from
        /\ Outer /\ kind = "end" => frame[1].entry = defer.from

ReturnOK == phase # "exited" => ret \notin ended

IndInv == Types /\ Depths /\ OwnOK /\ ThreadOK /\ HandlerOK /\ DeferOK /\ ReturnOK

(* Leaves are Zenon's; one that needs arithmetic, records or sequences     *)
(* names SMT.                                                              *)
USE Zenon

-----------------------------------------------------------------------------
(* The next block is a block; registers follow it.                         *)
LEMMA AfterIsBlock ==
    ASSUME NEW k \in Blocks
    PROVE  After(k) \in Blocks
BY ThreadsAssumption, SMT DEF After, Blocks

(* The markers are no blocks and no threads.                               *)
LEMMA NoBlocks == None \notin Blocks /\ Sentinel \notin Blocks /\ None # Sentinel
                  /\ None \notin Threads /\ Kernel \subseteq Blocks
BY ThreadsAssumption DEF Blocks

(* A context of a thread at a block has the registers of that place.       *)
LEMMA ContextType ==
    ASSUME NEW t \in Threads, NEW k \in Blocks, NEW ie \in BOOLEAN
    PROVE  /\ Context(t, k, ie) \in Contexts
           /\ Context(t, k, ie).regs = <<t, k>> /\ Context(t, k, ie).pc = k
           /\ Context(t, k, ie).ie = ie
           /\ AfterRegs(<<t, k>>) = <<t, After(k)>>
<1>1. <<t, k>> \in Registers  BY DEF Registers
<1>2. QED  BY <1>1 DEF Context, Contexts, AfterRegs

(* Without kernel pumps a low-kernel block delivers at its start only.     *)
LEMMA KindsAtType ==
    ASSUME ~KernelPumps, NEW k \in Blocks, NEW x \in KindsAt(k)
    PROVE  x \in Kinds /\ (k \in Kernel => x = "block")
BY DEF KindsAt, Kinds

(* What psx_scheduler_run does with a coherent context.                    *)
LEMMA RunEffect ==
    ASSUME ~KernelPumps, NEW contexts, NEW t \in Threads,
           contexts \in [Threads -> Contexts], Run(contexts, t)
    PROVE  /\ pcb' = t
           /\ \/ /\ contexts[t].pc \in Blocks /\ cpu' = contexts[t]
                 /\ native' = contexts[t].pc /\ kind' \in Kinds
                 /\ (native' \in Kernel => kind' = "block") /\ phase' = "leader"
              \/ phase' = "halted" /\ cpu' = cpu /\ native' = native /\ kind' = kind
<1>1. CASE contexts[t].pc \in Blocks
  <2>1. native' = contexts[t].pc /\ cpu' = contexts[t] /\ kind' \in KindsAt(native')
        /\ phase' = "leader" /\ pcb' = t
    BY <1>1 DEF Run
  <2>2. kind' \in Kinds /\ (native' \in Kernel => kind' = "block")
    BY <1>1, <2>1, KindsAtType
  <2>3. QED  BY <1>1, <2>1, <2>2
<1>2. CASE contexts[t].pc \notin Blocks  BY <1>2 DEF Run
<1>3. QED  BY <1>1, <1>2

(* The invariant holds when the first thread starts.                       *)
LEMMA IndInit ==
    ASSUME Init
    PROVE  IndInv
<1> USE DEF Init, IndInv
<1>1. 0 \in Blocks /\ ~InException  BY ThreadsAssumption, SMT DEF Blocks, InException
<1>2. \A t \in Threads : own[t] = Context(t, 0, TRUE) /\ own[t] \in Contexts
                         /\ own[t].pc = 0 /\ own[t].ie = TRUE
                         /\ own[t].regs = <<t, 0>>
  BY <1>1, ContextType
<1>3. CpuType  BY <1>1, <1>2 DEF CpuType, Kinds
<1>4. TcbType  BY <1>2 DEF TcbType
<1>5. SwitchType  BY DEF SwitchType, NoDefer
<1>6. FrameType
  <2>1. NoFrame \in Frames  BY DEF NoFrame, Frames, Registers
  <2>2. QED  BY <2>1, SMT DEF FrameType
<1>7. EscapeType /\ FlagType
  <2>1. Quiet \in [armed : 0..2, epc : Blocks \cup {Sentinel, None},
                  reason : {"none", "legacy", "rfe"}, rfe : BOOLEAN]
    BY SMT DEF Quiet
  <2>2. QED  BY <2>1 DEF EscapeType, FlagType
<1>8. Depths /\ DeferOK  BY SMT DEF Depths, DeferOK, Quiet, NoDefer
<1>9. OwnOK  BY <1>1, <1>2 DEF OwnOK
<1>10. ReturnOK  BY DEF ReturnOK
<1>11. ThreadOK  BY <1>1, <1>2 DEF ThreadOK, KindFits, Coherent
<1>12. HandlerOK  BY SMT DEF HandlerOK, Outer
<1>13. QED
  BY <1>3, <1>4, <1>5, <1>6, <1>7, <1>8, <1>9, <1>10, <1>11, <1>12 DEF Types

-----------------------------------------------------------------------------
(* Thread code.                                                            *)

(* In a thread no handler is active and the machine has the thread's own   *)
(* context.                                                                *)
LEMMA AtHome ==
    ASSUME IndInv, InThread
    PROVE  /\ depth = 0 /\ ~Outer /\ exc.armed < 2
           /\ native \in Blocks /\ cpu.ie \in BOOLEAN /\ pcb \in Threads
           /\ cpu.regs = <<pcb, native>> /\ own[pcb].pc = native /\ own[pcb].ie = cpu.ie
<1>1. depth = 0 /\ exc.armed < 2  BY DEF IndInv, Depths, InThread
<1>2. pcb \in Threads /\ native \in Blocks  BY DEF IndInv, Types, CpuType, TcbType
<1>3. own[pcb].pc \in Blocks /\ own[pcb].ie \in BOOLEAN
      /\ own[pcb].regs = <<pcb, own[pcb].pc>>
  BY <1>2 DEF IndInv, OwnOK
<1>5. cpu.regs = own[pcb].regs /\ cpu.ie = own[pcb].ie /\ native = own[pcb].pc
  BY DEF IndInv, ThreadOK
<1>6. QED  BY <1>1, <1>2, <1>3, <1>5, SMT DEF Outer

(* psx_scheduler_run picks a thread whose context, like that of every      *)
(* other thread that has not ended, is coherent.                           *)
LEMMA RunKeepsThreads ==
    ASSUME ~KernelPumps, NEW t \in Threads, TcbType', OwnOK', Run(tcb', t), t \notin ended',
           latch' = None, site' = FALSE,
           \A u \in Threads \ ended' : Coherent(u)'
    PROVE  ThreadOK' /\ (InThread' => phase' = "leader") /\ pcb' = t
<1>1. tcb' \in [Threads -> Contexts]  BY DEF TcbType
<1>2. /\ pcb' = t
      /\ \/ /\ tcb'[t].pc \in Blocks /\ cpu' = tcb'[t]
            /\ native' = tcb'[t].pc /\ kind' \in Kinds
            /\ (native' \in Kernel => kind' = "block") /\ phase' = "leader"
         \/ phase' = "halted"
  BY <1>1, RunEffect
<1>3. CASE phase' = "halted"  BY <1>2, <1>3 DEF ThreadOK, InThread
<1>4. CASE phase' = "leader"
  <2>1. tcb'[t].pc \in Blocks /\ cpu' = tcb'[t] /\ native' = tcb'[t].pc
    BY <1>2, <1>4
  <2>2. tcb'[t] = own'[t]  BY <2>1, NoBlocks DEF Coherent
  <2>3. KindFits'  BY <1>2, <1>4 DEF KindFits
  <2>4. QED  BY <1>2, <1>4, <2>1, <2>2, <2>3 DEF ThreadOK, InThread
<1>5. QED  BY <1>2, <1>3, <1>4

(* A dispatch of a thread gives the machine a typed context.               *)
LEMMA RunTypes ==
    ASSUME ~KernelPumps, NEW t \in Threads, CpuType, TcbType', Run(tcb', t)
    PROVE  CpuType'
<1>1. tcb' \in [Threads -> Contexts]  BY DEF TcbType
<1>2. \/ /\ tcb'[t].pc \in Blocks /\ cpu' = tcb'[t]
         /\ native' = tcb'[t].pc /\ kind' \in Kinds /\ phase' = "leader"
      \/ phase' = "halted" /\ cpu' = cpu /\ native' = native /\ kind' = kind
  BY <1>1, RunEffect
<1>3. tcb'[t] \in Contexts  BY <1>1
<1>4. QED  BY <1>2, <1>3 DEF CpuType

(* The body of a block keeps the invariant.                                *)
LEMMA BodyKeeps ==
    ASSUME ~KernelPumps, IndInv, Body
    PROVE  IndInv'
<1>1. PICK ie \in BOOLEAN :
          /\ cpu' = [cpu EXCEPT !.regs = AfterRegs(@), !.ie = ie]
          /\ own' = [own EXCEPT ![pcb] = Context(pcb, After(@.pc), ie)]
  BY DEF Body
<1>2. InThread /\ phase = "body" /\ phase' = "leader" /\ native' = After(native)
  BY DEF Body, InThread
<1>3. /\ depth = 0 /\ native \in Blocks /\ pcb \in Threads /\ exc.armed < 2
      /\ cpu.regs = <<pcb, native>> /\ own[pcb].pc = native
  BY <1>2, AtHome
<1>4. After(native) \in Blocks  BY <1>3, AfterIsBlock
<1>5. kind' \in Kinds /\ (native' \in Kernel => kind' = "block")
  BY <1>2, <1>4, KindsAtType DEF Body
<1>6. cpu \in Contexts /\ own \in [Threads -> Contexts]
  BY DEF IndInv, Types, CpuType, TcbType
<1>7. /\ cpu'.regs = <<pcb, After(native)>> /\ cpu'.ie = ie /\ cpu'.pc = cpu.pc
      /\ cpu' \in Contexts
  <2>1. AfterRegs(cpu.regs) = <<pcb, After(native)>>  BY <1>3, SMT DEF AfterRegs
  <2>2. <<pcb, After(native)>> \in Registers  BY <1>3, <1>4 DEF Registers
  <2>3. QED  BY <1>1, <1>6, <2>1, <2>2 DEF Contexts
<1>8. own'[pcb] = Context(pcb, After(native), ie)
      /\ \A t \in Threads \ {pcb} : own'[t] = own[t]
  BY <1>1, <1>3, <1>6
<1>9. /\ own'[pcb].regs = <<pcb, After(native)>> /\ own'[pcb].pc = After(native)
      /\ own'[pcb].ie = ie /\ own'[pcb] \in Contexts
  BY <1>3, <1>4, <1>8, SMT DEF Context, Contexts, Registers
<1>10. own' \in [Threads -> Contexts]  BY <1>1, <1>3, <1>6, <1>8, <1>9
<1>11. UNCHANGED <<tcb, pcb, ret, depth, frame, exc, latch, site, defer, irq, ended>>
  BY DEF Body
<1>12. Types'
  BY <1>2, <1>4, <1>5, <1>7, <1>10, <1>11, SMT
  DEF IndInv, Types, CpuType, TcbType, SwitchType, FrameType, EscapeType, FlagType
<1>13. Depths'  BY <1>2, <1>3, <1>11 DEF IndInv, Depths
<1>14. OwnOK'  BY <1>4, <1>8, <1>9 DEF IndInv, OwnOK
<1>15. ThreadOK'
  <2>1. \A t \in Threads \ ({pcb} \cup ended) : Coherent(t)'
    BY <1>2, <1>8, <1>11 DEF IndInv, ThreadOK, Coherent
  <2>2. latch' = None /\ site' = FALSE /\ pcb' \notin ended'
    BY <1>2, <1>11 DEF IndInv, ThreadOK
  <2>3. QED  BY <1>2, <1>5, <1>7, <1>9, <1>11, <2>1, <2>2 DEF ThreadOK, KindFits
<1>16. HandlerOK' /\ ReturnOK' /\ ~Outer'
  BY <1>2, <1>3, <1>11, SMT DEF IndInv, HandlerOK, Outer, ReturnOK
<1>17. DeferOK'  BY <1>2, <1>11, <1>16 DEF IndInv, DeferOK
<1>18. QED  BY <1>12, <1>13, <1>14, <1>15, <1>16, <1>17 DEF IndInv

(* The switch types, when only ret, ended and defer change.                *)
LEMMA FrameUnchanged ==
    ASSUME IndInv, UNCHANGED <<depth, frame, exc>>
    PROVE  FrameType' /\ EscapeType'
BY DEF IndInv, Types, FrameType, EscapeType

(* A ChangeThread syscall keeps it.                                        *)
LEMMA YieldKeeps ==
    ASSUME ~KernelPumps, IndInv, Yield
    PROVE  IndInv'
<1> DEFINE here == [regs |-> AfterRegs(cpu.regs), pc |-> After(native), ie |-> cpu.ie]
<1>1. /\ tcb' = [tcb EXCEPT ![pcb] = here]
      /\ own' = [own EXCEPT ![pcb] = Context(pcb, After(@.pc), @.ie)]
      /\ ret' = pcb
      /\ UNCHANGED <<depth, frame, exc, latch, site, defer, irq, ended>>
  BY DEF Yield
<1>2. PICK u \in Threads \ ({pcb} \cup ended) : Run(tcb', u)
  BY DEF Yield
<1>3. InThread /\ phase = "body"  BY DEF Yield, InThread
<1>4. /\ depth = 0 /\ native \in Blocks /\ pcb \in Threads /\ exc.armed < 2
      /\ cpu.ie \in BOOLEAN
      /\ cpu.regs = <<pcb, native>> /\ own[pcb].pc = native /\ own[pcb].ie = cpu.ie
  BY <1>3, AtHome
<1>5. After(native) \in Blocks  BY <1>4, AfterIsBlock
<1>6. tcb \in [Threads -> Contexts] /\ own \in [Threads -> Contexts]
  BY DEF IndInv, Types, TcbType
<1>7. here = Context(pcb, After(native), cpu.ie) /\ here \in Contexts
  <2>1. AfterRegs(cpu.regs) = <<pcb, After(native)>>  BY <1>4, SMT DEF AfterRegs
  <2>2. <<pcb, After(native)>> \in Registers  BY <1>4, <1>5 DEF Registers
  <2>3. QED  BY <1>4, <1>5, <2>1, <2>2 DEF Context, Contexts
<1>8. own'[pcb] = here /\ tcb'[pcb] = here
      /\ \A t \in Threads \ {pcb} : own'[t] = own[t] /\ tcb'[t] = tcb[t]
  BY <1>1, <1>4, <1>6, <1>7
<1>9. TcbType'
  <2>1. tcb' \in [Threads -> Contexts] /\ own' \in [Threads -> Contexts]
    BY <1>1, <1>4, <1>6, <1>7, <1>8
  <2>2. pcb' = u  BY <1>2, <2>1, RunEffect
  <2>3. QED  BY <1>2, <2>1, <2>2 DEF TcbType
<1>10. OwnOK'
  <2>1. own'[pcb].regs = <<pcb, After(native)>> /\ own'[pcb].pc = After(native)
        /\ own'[pcb].ie = cpu.ie
    BY <1>7, <1>8, SMT DEF Context
  <2>2. QED  BY <1>4, <1>5, <1>8, <2>1 DEF IndInv, OwnOK
<1>11. \A t \in Threads \ ended' : Coherent(t)'
  <2>1. \A t \in Threads \ ({pcb} \cup ended) : Coherent(t)  BY <1>3 DEF IndInv, ThreadOK
  <2>2. QED  BY <1>1, <1>8, <2>1, SMT DEF Coherent
<1>12. latch' = None /\ site' = FALSE  BY <1>1, <1>3 DEF IndInv, ThreadOK
<1>13. ThreadOK' /\ (InThread' => phase' = "leader")
  BY <1>1, <1>2, <1>9, <1>10, <1>11, <1>12, RunKeepsThreads
<1>14. CpuType'  BY <1>2, <1>9, RunTypes DEF IndInv, Types
<1>15. Types'
  <2>1. SwitchType'  BY <1>1, <1>4 DEF IndInv, Types, SwitchType
  <2>2. FlagType'  BY <1>1 DEF IndInv, Types, FlagType
  <2>3. QED  BY <1>1, <1>9, <1>14, <2>1, <2>2, FrameUnchanged DEF Types
<1>16. phase' \in {"leader", "halted"}
  BY <1>2, <1>9, RunEffect DEF TcbType
<1>17. Depths'  BY <1>1, <1>4, <1>16 DEF Depths
<1>18. HandlerOK' /\ ~Outer'  BY <1>1, <1>4, SMT DEF HandlerOK, Outer
<1>19. DeferOK'  BY <1>1, <1>16, <1>18 DEF IndInv, DeferOK
<1>20. ReturnOK'  BY <1>1, <1>3 DEF IndInv, ThreadOK, ReturnOK
<1>21. QED  BY <1>10, <1>13, <1>15, <1>17, <1>18, <1>19, <1>20 DEF IndInv

(* The end of a thread keeps it.                                           *)
LEMMA FinishKeeps ==
    ASSUME ~KernelPumps, IndInv, Finish
    PROVE  IndInv'
<1>1. /\ phase = "body" /\ kind = "end" /\ InThread
      /\ ended' = ended \cup {pcb}
      /\ UNCHANGED <<tcb, depth, frame, exc, latch, site, defer, irq, own>>
  BY DEF Finish, InThread
<1>2. depth = 0 /\ pcb \in Threads /\ exc.armed < 2  BY <1>1, AtHome
<1>3. HandlerOK' /\ ~Outer'  BY <1>1, <1>2, SMT DEF HandlerOK, Outer
<1>4. OwnOK'  BY <1>1 DEF IndInv, OwnOK
<1>5. DeferOK' \/ phase' = "body"
  BY <1>1, <1>3 DEF IndInv, DeferOK
<1>6. FrameType' /\ EscapeType' /\ FlagType'
  BY <1>1, FrameUnchanged DEF IndInv, Types, FlagType
<1>7. CASE ret # None /\ ret # pcb
  <2>1. Run(tcb, ret) /\ ret' = None  BY <1>7 DEF Finish
  <2>2. ret \in Threads /\ ret \notin ended'
    BY <1>1, <1>7 DEF IndInv, Types, SwitchType, ReturnOK
  <2>3. tcb' \in [Threads -> Contexts] /\ own' \in [Threads -> Contexts]
    BY <1>1 DEF IndInv, Types, TcbType
  <2>4. pcb' = ret /\ phase' \in {"leader", "halted"}
    BY <1>1, <2>1, <2>2, <2>3, RunEffect
  <2>5. TcbType'  BY <2>2, <2>3, <2>4 DEF TcbType
  <2>6. \A t \in Threads \ ended' : Coherent(t)'
    BY <1>1 DEF IndInv, ThreadOK, Coherent
  <2>7. latch' = None /\ site' = FALSE  BY <1>1 DEF IndInv, ThreadOK
  <2>8. Run(tcb', ret)  BY <1>1, <2>1
  <2>9. ThreadOK'  BY <1>4, <2>2, <2>5, <2>6, <2>7, <2>8, RunKeepsThreads
  <2>10. CpuType'  BY <2>2, <2>5, <2>8, RunTypes DEF IndInv, Types
  <2>11. SwitchType'  BY <1>1, <1>2, <2>1 DEF IndInv, Types, SwitchType
  <2>12. Depths'  BY <1>1, <1>2, <2>4 DEF Depths
  <2>13. ReturnOK'  BY <1>1, <1>2, <2>1, NoBlocks DEF IndInv, Types, SwitchType, ReturnOK
  <2>14. QED
    BY <1>3, <1>4, <1>5, <1>6, <2>4, <2>5, <2>9, <2>10, <2>11, <2>12, <2>13
    DEF IndInv, Types
<1>8. CASE ~(ret # None /\ ret # pcb)
  <2>1. phase' = "exited" /\ UNCHANGED <<cpu, native, kind, pcb, ret>>
    BY <1>8 DEF Finish
  <2>2. CpuType' /\ TcbType'  BY <1>1, <2>1 DEF IndInv, Types, CpuType, TcbType
  <2>3. SwitchType'  BY <1>1, <1>2, <2>1 DEF IndInv, Types, SwitchType
  <2>4. Depths' /\ ReturnOK' /\ ThreadOK'
    BY <1>1, <1>2, <2>1 DEF Depths, ReturnOK, ThreadOK, InThread
  <2>5. QED
    BY <1>3, <1>4, <1>5, <1>6, <2>1, <2>2, <2>3, <2>4 DEF IndInv, Types
<1>9. QED  BY <1>7, <1>8

-----------------------------------------------------------------------------
(* Interrupt checks of thread code.                                        *)

(* With no latch left over, a check of thread code has the PC of the block *)
(* it is at, or none.                                                      *)
LEMMA ResumeIsNative ==
    ASSUME IndInv, InThread
    PROVE  /\ ResumePC = IF kind \in {"poll", "end"} THEN None ELSE native
           /\ PumpSite = (kind = "pump")
<1>1. latch = None /\ site = FALSE  BY DEF IndInv, ThreadOK
<1>2. kind \in {"block", "shard", "pump", "poll", "end"}
  BY DEF IndInv, Types, CpuType, Kinds
<1>3. ResumePC = IF kind \in {"poll", "end"} THEN None ELSE native
  BY <1>1, <1>2 DEF ResumePC
<1>4. PumpSite = (kind = "pump")  BY <1>1, <1>2 DEF PumpSite
<1>5. QED  BY <1>3, <1>4

(* Honouring a deferred switch keeps it.                                   *)
LEMMA HonourKeeps ==
    ASSUME ~KernelPumps, IndInv, Honour
    PROVE  IndInv'
<1>1. /\ phase = "leader" /\ InThread
      /\ defer.pending /\ pcb = defer.from /\ ~PumpSite /\ ResumePC # None
  BY DEF Honour, Honours, Stale, InThread
<1>2. /\ tcb' = Resaved /\ Run(tcb', defer.to) /\ defer' = NoDefer
      /\ UNCHANGED <<ret, depth, frame, exc, latch, site, irq, own, ended>>
  BY DEF Honour
<1>3. /\ depth = 0 /\ native \in Blocks /\ pcb \in Threads /\ exc.armed < 2
      /\ cpu.ie \in BOOLEAN
      /\ cpu.regs = own[pcb].regs /\ own[pcb].pc = native /\ own[pcb].ie = cpu.ie
  BY <1>1, AtHome DEF IndInv, ThreadOK
<1>4. ResumePC = native  BY <1>1, <1>3, ResumeIsNative
<1>5. tcb \in [Threads -> Contexts] /\ own \in [Threads -> Contexts]
  BY DEF IndInv, Types, TcbType
<1>6. own[pcb] = [regs |-> cpu.regs, pc |-> native, ie |-> cpu.ie]
  BY <1>3, <1>5 DEF Contexts
<1>7. tcb' = [tcb EXCEPT ![pcb] = own[pcb]]  BY <1>1, <1>2, <1>4, <1>6 DEF Resaved
<1>8. tcb' \in [Threads -> Contexts] /\ tcb'[pcb] = own[pcb]
      /\ \A t \in Threads \ {pcb} : tcb'[t] = tcb[t]
  BY <1>3, <1>5, <1>7
<1>9. defer.to \in Threads /\ defer.to \notin ended  BY <1>1 DEF IndInv, DeferOK
<1>10. pcb' = defer.to /\ phase' \in {"leader", "halted"}
  BY <1>2, <1>8, <1>9, RunEffect
<1>11. TcbType'  BY <1>2, <1>5, <1>8, <1>9, <1>10 DEF TcbType
<1>12. OwnOK'  BY <1>2 DEF IndInv, OwnOK
<1>13. \A t \in Threads \ ended' : Coherent(t)'
  <2>1. \A t \in Threads \ ({pcb} \cup ended) : Coherent(t)  BY <1>1 DEF IndInv, ThreadOK
  <2>2. QED  BY <1>2, <1>8, <2>1 DEF Coherent
<1>14. latch' = None /\ site' = FALSE  BY <1>1, <1>2 DEF IndInv, ThreadOK
<1>15. ThreadOK'
  BY <1>2, <1>9, <1>11, <1>12, <1>13, <1>14, RunKeepsThreads
<1>16. CpuType'  BY <1>2, <1>9, <1>11, RunTypes DEF IndInv, Types
<1>17. SwitchType'  BY <1>2 DEF IndInv, Types, SwitchType, NoDefer
<1>18. FrameType' /\ EscapeType' /\ FlagType'
  BY <1>2, FrameUnchanged DEF IndInv, Types, FlagType
<1>19. Depths'  BY <1>2, <1>3, <1>10 DEF Depths
<1>20. HandlerOK'  BY <1>2, <1>3, SMT DEF HandlerOK, Outer
<1>21. DeferOK'  BY <1>2 DEF DeferOK, NoDefer
<1>22. ReturnOK'  BY <1>1, <1>2 DEF IndInv, ReturnOK
<1>23. QED
  BY <1>11, <1>12, <1>15, <1>16, <1>17, <1>18, <1>19, <1>20, <1>21, <1>22
  DEF IndInv, Types

(* A deferral kept is one of the current thread.                           *)
LEMMA KeptIsCurrent ==
    ASSUME IndInv
    PROVE  /\ Kept \in [pending : BOOLEAN, from : Threads \cup {None},
                        to : Threads \cup {None}]
           /\ Kept.pending => Kept = defer /\ pcb = defer.from
<1>1. CASE Stale  BY <1>1 DEF Kept, NoDefer
<1>2. CASE ~Stale  BY <1>2 DEF Kept, Stale, IndInv, Types, SwitchType
<1>3. QED  BY <1>1, <1>2

(* A check with nothing to deliver keeps it.                               *)
LEMMA PassByKeeps ==
    ASSUME IndInv, PassBy
    PROVE  IndInv'
<1>1. /\ phase = "leader" /\ phase' = "body" /\ InThread
      /\ defer' = IF Checks THEN Kept ELSE defer
      /\ UNCHANGED <<cpu, native, kind, tcb, pcb, ret, depth, frame, exc, latch, site,
                     irq, own, ended>>
  BY DEF PassBy, InThread
<1>2. depth = 0 /\ exc.armed < 2  BY <1>1, AtHome
<1>3. Types'
  <2>1. defer' \in [pending : BOOLEAN, from : Threads \cup {None},
                    to : Threads \cup {None}]
    BY <1>1, KeptIsCurrent DEF IndInv, Types, SwitchType
  <2>2. QED
    BY <1>1, <2>1
    DEF IndInv, Types, CpuType, TcbType, SwitchType, FrameType, EscapeType, FlagType
<1>4. Depths'  BY <1>1, <1>2 DEF Depths
<1>5. OwnOK'  BY <1>1 DEF IndInv, OwnOK
<1>6. ThreadOK'  BY <1>1 DEF IndInv, ThreadOK, InThread, KindFits, Coherent
<1>7. HandlerOK' /\ ~Outer'  BY <1>1, <1>2, SMT DEF HandlerOK, Outer
<1>8. DeferOK'
  <2>1. SUFFICES ASSUME defer'.pending PROVE DeferOK'
    BY DEF DeferOK
  <2>2. defer' = defer  BY <1>1, <2>1, KeptIsCurrent
  <2>3. kind = "end" => pcb = defer.from
    BY <1>1, <2>1, KeptIsCurrent DEF Checks
  <2>4. QED  BY <1>1, <1>7, <2>1, <2>2, <2>3 DEF IndInv, DeferOK
<1>9. ReturnOK'  BY <1>1 DEF IndInv, ReturnOK
<1>10. QED  BY <1>3, <1>4, <1>5, <1>6, <1>7, <1>8, <1>9 DEF IndInv

(* Entering an exception keeps the types.                                  *)
LEMMA EnterTypes ==
    ASSUME Types, OwnOK, depth < 2, NEW pc \in Blocks \cup {None}, Enter(pc),
           UNCHANGED <<native, kind, pcb, own>>
    PROVE  CpuType' /\ TcbType' /\ FrameType' /\ EscapeType' /\ latch' = None
<1> DEFINE epc == IF pc = None THEN Sentinel ELSE pc
<1>1. epc \in Blocks \cup {Sentinel}  BY DEF epc
<1>2. cpu.regs \in Registers /\ pcb \in Threads /\ tcb \in [Threads -> Contexts]
      /\ own \in [Threads -> Contexts] /\ native \in Blocks /\ kind \in Kinds
      /\ latch \in Blocks \cup {None} /\ site \in BOOLEAN
      /\ depth \in 0..1 /\ frame \in [1..2 -> Frames]
  BY SMT DEF Types, CpuType, TcbType, SwitchType, FrameType, FlagType, Contexts
<1>3. CpuType'
  <2>1. cpu' = [regs |-> None, pc |-> epc, ie |-> FALSE] /\ phase' = "handler"
    BY DEF Enter
  <2>2. QED  BY <1>1, <1>2, <2>1 DEF CpuType, Contexts, Registers
<1>4. TcbType'
  <2>1. tcb' = [tcb EXCEPT ![pcb] = [regs |-> cpu.regs, pc |-> epc, ie |-> TRUE]]
    BY DEF Enter
  <2>2. [regs |-> cpu.regs, pc |-> epc, ie |-> TRUE] \in Contexts
    BY <1>1, <1>2 DEF Contexts
  <2>3. QED  BY <1>2, <2>1, <2>2 DEF TcbType
<1>5. FrameType'
  <2> DEFINE f == [entry |-> pcb, regs |-> cpu.regs,
                   latch |-> IF kind = "pump" THEN native ELSE latch,
                   prev |-> latch, site |-> site]
  <2>1. f \in Frames  BY <1>2 DEF Frames
  <2>2. depth' = depth + 1 /\ frame' = [frame EXCEPT ![depth + 1] = f]
    BY DEF Enter
  <2>3. QED  BY <1>2, <2>1, <2>2, SMT DEF FrameType
<1>6. EscapeType'
  <2>1. exc' = [armed |-> depth + 1, epc |-> epc, rfe |-> FALSE,
               reason |-> IF pc = None THEN "legacy" ELSE "none"]
    BY DEF Enter
  <2>2. depth + 1 \in 0..2  BY <1>2, SMT
  <2>3. QED  BY <1>1, <2>1, <2>2 DEF EscapeType
<1>7. latch' = None  BY DEF Enter
<1>8. QED  BY <1>3, <1>4, <1>5, <1>6, <1>7

(* The delivery of an interrupt keeps it.                                  *)
LEMMA DeliverKeeps ==
    ASSUME IndInv, Deliver
    PROVE  IndInv'
<1>1. /\ phase = "leader" /\ InThread /\ cpu.ie /\ Checks
      /\ Enter(ResumePC) /\ site' = PumpSite /\ defer' = Kept
      /\ UNCHANGED <<native, kind, pcb, ret, irq, own, ended>>
  BY DEF Deliver, InThread
<1>2. /\ depth = 0 /\ native \in Blocks /\ pcb \in Threads
      /\ cpu.regs = own[pcb].regs /\ own[pcb].pc = native /\ own[pcb].ie = TRUE
      /\ latch = None /\ site = FALSE /\ KindFits /\ pcb \notin ended
  BY <1>1, AtHome DEF IndInv, ThreadOK
<1>3. /\ ResumePC = IF kind \in {"poll", "end"} THEN None ELSE native
      /\ PumpSite = (kind = "pump")
  BY <1>1, ResumeIsNative
<1> DEFINE epc == IF kind \in {"poll", "end"} THEN Sentinel ELSE native
<1>4. epc = (IF ResumePC = None THEN Sentinel ELSE ResumePC)
      /\ (ResumePC = None <=> epc = Sentinel)
  BY <1>2, <1>3, NoBlocks DEF epc
<1>5. /\ depth' = 1 /\ phase' = "handler" /\ latch' = None
      /\ frame'[1].entry = pcb /\ frame'[1].regs = cpu.regs /\ frame'[1].prev = None
      /\ frame'[1].site = FALSE
      /\ frame'[1].latch = IF kind = "pump" THEN native ELSE None
      /\ exc'.armed = 1 /\ exc'.epc = epc
      /\ exc'.reason = IF ResumePC = None THEN "legacy" ELSE "none"
      /\ tcb' = [tcb EXCEPT ![pcb] = [regs |-> cpu.regs, pc |-> epc, ie |-> TRUE]]
  <2>1. depth' = 1 /\ phase' = "handler" /\ latch' = None
    BY <1>1, <1>2, SMT DEF Enter
  <2> DEFINE f == [entry |-> pcb, regs |-> cpu.regs,
                   latch |-> IF kind = "pump" THEN native ELSE latch,
                   prev |-> latch, site |-> site]
  <2>2. frame' = [frame EXCEPT ![depth + 1] = f]  BY <1>1 DEF Enter
  <2>3. frame \in [1..2 -> Frames]  BY DEF IndInv, Types, FrameType
  <2>4. frame'[1] = f  BY <1>2, <2>2, <2>3, SMT
  <2>5. f.entry = pcb /\ f.regs = cpu.regs /\ f.prev = None /\ f.site = FALSE
        /\ f.latch = IF kind = "pump" THEN native ELSE None
    BY <1>2
  <2>6. exc' = [armed |-> depth + 1, rfe |-> FALSE,
                epc |-> IF ResumePC = None THEN Sentinel ELSE ResumePC,
                reason |-> IF ResumePC = None THEN "legacy" ELSE "none"]
    BY <1>1 DEF Enter
  <2>7. exc'.armed = 1 /\ exc'.epc = epc
        /\ exc'.reason = IF ResumePC = None THEN "legacy" ELSE "none"
    BY <1>2, <1>4, <2>6, SMT
  <2>8. tcb' = [tcb EXCEPT ![pcb] = [regs |-> cpu.regs, pc |-> epc, ie |-> TRUE]]
    BY <1>1, <1>4 DEF Enter
  <2>9. QED  BY <2>1, <2>4, <2>5, <2>7, <2>8
<1>6. CpuType' /\ TcbType' /\ FrameType' /\ EscapeType'
  <2>1. ResumePC \in Blocks \cup {None}  BY <1>2, <1>3
  <2>2. QED  BY <1>1, <1>2, <2>1, EnterTypes, SMT DEF IndInv
<1>7. SwitchType'
  BY <1>1, <1>5, KeptIsCurrent DEF IndInv, Types, SwitchType
<1>8. FlagType'
  BY <1>1, <1>3 DEF IndInv, Types, FlagType
<1>9. Depths'  BY <1>5 DEF Depths
<1>10. OwnOK'  BY <1>1 DEF IndInv, OwnOK
<1>11. ThreadOK'  BY <1>5 DEF ThreadOK, InThread
<1>12. tcb \in [Threads -> Contexts]  BY DEF IndInv, Types, TcbType
<1>13. HandlerOK'
  <2>1. frame'[1].entry = pcb /\ frame'[1].regs = cpu.regs /\ frame'[1].prev = None
        /\ frame'[1].site = FALSE
        /\ frame'[1].latch = IF kind = "pump" THEN native ELSE None
    BY <1>5
  <2>2. exc'.epc = epc /\ (exc'.reason = "legacy" <=> epc = Sentinel)
    BY <1>4, <1>5
  <2>3. tcb'[pcb].regs = cpu.regs /\ tcb'[pcb].pc = epc /\ tcb'[pcb].ie = TRUE
        /\ \A t \in Threads \ {pcb} : tcb'[t] = tcb[t]
    BY <1>2, <1>5, <1>12
  <2>4. \A t \in Threads \ ({pcb} \cup ended) : Coherent(t)'
    <3>1. \A t \in Threads \ ({pcb} \cup ended) : Coherent(t)
      BY <1>1 DEF IndInv, ThreadOK
    <3>2. QED  BY <1>1, <2>3, <3>1 DEF Coherent
  <2>5. site' = (kind = "pump")  BY <1>1, <1>3
  <2>6. KindFits'  BY <1>1, <1>2 DEF KindFits
  <2>7. QED
    BY <1>1, <1>2, <1>5, <2>1, <2>2, <2>3, <2>4, <2>5, <2>6 DEF HandlerOK
<1>14. DeferOK'
  <2>1. SUFFICES ASSUME defer'.pending PROVE DeferOK'
    BY DEF DeferOK
  <2>2. defer' = defer /\ pcb = defer.from  BY <1>1, <2>1, KeptIsCurrent
  <2>3. frame'[1].entry = pcb /\ phase' # "body"  BY <1>5
  <2>4. QED  BY <1>1, <2>1, <2>2, <2>3 DEF IndInv, DeferOK
<1>15. ReturnOK'  BY <1>1 DEF IndInv, ReturnOK
<1>16. QED
  BY <1>6, <1>7, <1>8, <1>9, <1>10, <1>11, <1>13, <1>14, <1>15 DEF IndInv, Types

-----------------------------------------------------------------------------
(* Handlers.                                                               *)

(* In a handler the frame that will return is the outer one or armed.      *)
LEMMA HandlerDepths ==
    ASSUME IndInv, phase \in {"handler", "returning", "inside"}
    PROVE  depth \in 1..2 /\ ~InThread /\ (exc.armed = 2 \/ Outer)
BY SMT DEF IndInv, Types, FrameType, Depths, InThread, Outer

(* Acknowledge and Raise change only the interrupt line.                   *)
LEMMA LineKeeps ==
    ASSUME IndInv, Acknowledge \/ Raise
    PROVE  IndInv'
<1>1. UNCHANGED <<cpu, native, kind, phase, tcb, pcb, ret, depth, frame, exc, latch,
                  site, defer, own, ended>>
  BY DEF Acknowledge, Raise
<1>2. irq' \in BOOLEAN  BY DEF Acknowledge, Raise
<1>3. CpuType' /\ TcbType' /\ SwitchType' /\ FrameType' /\ EscapeType'
  BY <1>1, SMT
  DEF IndInv, Types, CpuType, TcbType, SwitchType, FrameType, EscapeType
<1>4. FlagType'  BY <1>1, <1>2 DEF IndInv, Types, FlagType
<1>5. Depths' /\ OwnOK' /\ ThreadOK' /\ HandlerOK' /\ DeferOK' /\ ReturnOK'
  BY <1>1, SMT DEF IndInv, Depths, OwnOK, ThreadOK, HandlerOK, DeferOK, ReturnOK,
                    InThread, Outer, Coherent, KindFits
<1>6. QED  BY <1>3, <1>4, <1>5 DEF IndInv, Types

(* A handler that changes the current thread keeps it.                     *)
LEMMA HandlerSwitchKeeps ==
    ASSUME IndInv, HandlerSwitch
    PROVE  IndInv'
<1>1. /\ phase = "handler" /\ pcb' \in Threads /\ pcb' \notin ended
      /\ UNCHANGED <<cpu, native, kind, phase, tcb, ret, depth, frame, exc, latch, site,
                     defer, irq, own, ended>>
  BY DEF HandlerSwitch
<1>2. Types'
  BY <1>1, SMT
  DEF IndInv, Types, CpuType, TcbType, SwitchType, FrameType, EscapeType, FlagType
<1>3. ~InThread'  BY <1>1, HandlerDepths DEF InThread
<1>4. HandlerOK'  BY <1>1 DEF IndInv, HandlerOK, Outer, Coherent, KindFits
<1>5. QED
  BY <1>1, <1>2, <1>3, <1>4 DEF IndInv, Depths, OwnOK, ThreadOK, DeferOK, ReturnOK, Outer

(* A handler that enables interrupts keeps it.                             *)
LEMMA EnableNestedKeeps ==
    ASSUME IndInv, EnableNested
    PROVE  IndInv'
<1>1. /\ phase = "handler" /\ cpu' = [cpu EXCEPT !.ie = TRUE]
      /\ UNCHANGED <<native, kind, phase, tcb, pcb, ret, depth, frame, exc, latch, site,
                     defer, irq, own, ended>>
  BY DEF EnableNested
<1>2. cpu' \in Contexts  BY <1>1 DEF IndInv, Types, CpuType, Contexts
<1>3. Types'
  BY <1>1, <1>2, SMT
  DEF IndInv, Types, CpuType, TcbType, SwitchType, FrameType, EscapeType, FlagType
<1>4. ~InThread'  BY <1>1, HandlerDepths DEF InThread
<1>5. HandlerOK'  BY <1>1 DEF IndInv, HandlerOK, Outer, Coherent, KindFits
<1>6. QED
  BY <1>1, <1>3, <1>4, <1>5 DEF IndInv, Depths, OwnOK, ThreadOK, DeferOK, ReturnOK, Outer

(* The delivery of a nested interrupt keeps it.                            *)
LEMMA DeliverNestedKeeps ==
    ASSUME IndInv, DeliverNested
    PROVE  IndInv'
<1>1. /\ phase \in {"handler", "returning"} /\ depth < 2
      /\ UNCHANGED <<native, kind, pcb, ret, site, defer, irq, own, ended>>
  BY DEF DeliverNested
<1>2. PICK pc \in {None, native} : Enter(pc)  BY DEF DeliverNested
<1>3. depth = 1  BY <1>1, HandlerDepths, SMT
<1>4. pc \in Blocks \cup {None}  BY DEF IndInv, Types, CpuType
<1>5. CpuType' /\ TcbType' /\ FrameType' /\ EscapeType' /\ latch' = None
  BY <1>1, <1>2, <1>4, EnterTypes DEF IndInv
<1>6. SwitchType' /\ FlagType'
  BY <1>1, <1>5 DEF IndInv, Types, SwitchType, FlagType
<1>7. depth' = 2 /\ phase' = "handler" /\ exc'.armed = 2
  BY <1>2, <1>3, SMT DEF Enter
<1>8. Depths' /\ ThreadOK' /\ HandlerOK' /\ ~Outer'
  BY <1>7, SMT DEF Depths, ThreadOK, InThread, HandlerOK, Outer
<1>9. OwnOK' /\ ReturnOK'  BY <1>1, <1>7 DEF IndInv, OwnOK, ReturnOK
<1>10. DeferOK'  BY <1>1, <1>7, <1>8 DEF IndInv, DeferOK
<1>11. QED  BY <1>5, <1>6, <1>8, <1>9, <1>10 DEF IndInv, Types

(* ReturnFromException keeps it.                                           *)
LEMMA ReturnFromExceptionKeeps ==
    ASSUME IndInv, ReturnFromException
    PROVE  IndInv'
<1>1. /\ phase = "handler" /\ phase' = "returning" /\ cpu' \in Restored
      /\ exc' = IF exc.reason = "legacy" THEN exc
                ELSE [exc EXCEPT !.rfe = TRUE, !.reason = "rfe"]
      /\ UNCHANGED <<native, kind, tcb, pcb, ret, depth, frame, latch, site, defer, irq,
                     own, ended>>
  BY DEF ReturnFromException
<1>2. tcb[pcb] \in Contexts /\ pcb \in Threads  BY DEF IndInv, Types, TcbType
<1>3. /\ cpu' \in Contexts /\ cpu'.pc = tcb[pcb].pc /\ cpu'.ie = tcb[pcb].ie
      /\ cpu'.regs \in {tcb[pcb].regs, None}
  <2>1. CASE cpu' = tcb[pcb]  BY <1>2, <2>1
  <2>2. CASE cpu' = [tcb[pcb] EXCEPT !.regs = None]
    BY <1>2, <2>2 DEF Contexts, Registers
  <2>3. QED  BY <1>1, <2>1, <2>2 DEF Restored
<1>4. /\ EscapeType' /\ exc'.armed = exc.armed /\ exc'.epc = exc.epc
      /\ (exc'.reason = "legacy" <=> exc.reason = "legacy")
  BY <1>1 DEF IndInv, Types, EscapeType
<1>5. Types'
  BY <1>1, <1>3, <1>4
  DEF IndInv, Types, CpuType, TcbType, SwitchType, FrameType, FlagType
<1>6. Depths'  BY <1>1, <1>4 DEF IndInv, Depths
<1>7. ThreadOK'  BY <1>1 DEF ThreadOK, InThread
<1>8. HandlerOK'
  BY <1>1, <1>3, <1>4 DEF IndInv, HandlerOK, Outer, Coherent, KindFits
<1>9. OwnOK' /\ ReturnOK'  BY <1>1 DEF IndInv, OwnOK, ReturnOK
<1>10. DeferOK'  BY <1>1, <1>4 DEF IndInv, DeferOK, Outer
<1>11. QED  BY <1>5, <1>6, <1>7, <1>8, <1>9, <1>10 DEF IndInv

(* A thread dispatched inside a handler keeps it.                          *)
LEMMA RunInsideKeeps ==
    ASSUME IndInv, RunInside
    PROVE  IndInv'
<1>1. /\ phase = "returning" /\ phase' = "inside"
      /\ UNCHANGED <<cpu, native, kind, tcb, pcb, ret, depth, frame, exc, latch, site,
                     defer, irq, own, ended>>
  BY DEF RunInside
<1>2. Types'
  BY <1>1, SMT
  DEF IndInv, Types, CpuType, TcbType, SwitchType, FrameType, EscapeType, FlagType
<1>3. Depths' /\ ThreadOK'  BY <1>1 DEF IndInv, Depths, ThreadOK, InThread
<1>4. HandlerOK'  BY <1>1 DEF IndInv, HandlerOK, Outer, Coherent, KindFits
<1>5. OwnOK' /\ ReturnOK' /\ DeferOK'
  BY <1>1 DEF IndInv, OwnOK, ReturnOK, DeferOK, Outer
<1>6. QED  BY <1>2, <1>3, <1>4, <1>5 DEF IndInv

-----------------------------------------------------------------------------
(* The way back.                                                           *)

(* The return to a nested delivery, or to a frame that is gone.            *)
LEMMA LongjmpNested ==
    ASSUME IndInv, exc.armed = 2, phase \in {"handler", "returning"},
           NEW c \in Contexts, NEW reason, Longjmp(c, reason)
    PROVE  IndInv'
<1>1. UNCHANGED <<irq, own, ended>>  BY DEF Longjmp
<1>2. depth \in 1..2  BY HandlerDepths
<1>3. CASE depth = 1
  <2>1. /\ phase' = "undefined"
        /\ UNCHANGED <<cpu, native, kind, tcb, pcb, ret, depth, frame, exc, latch,
                       site, defer>>
    BY <1>3, SMT DEF Longjmp
  <2>2. Types'
    BY <1>1, <2>1, SMT
    DEF IndInv, Types, CpuType, TcbType, SwitchType, FrameType, EscapeType, FlagType
  <2>3. Depths' /\ ThreadOK' /\ HandlerOK' /\ ~Outer'
    BY <1>3, <2>1, SMT DEF Depths, ThreadOK, InThread, HandlerOK, Outer
  <2>4. OwnOK' /\ ReturnOK' /\ DeferOK'
    BY <1>1, <2>1, <2>3 DEF IndInv, OwnOK, ReturnOK, DeferOK
  <2>5. QED  BY <2>2, <2>3, <2>4 DEF IndInv
<1>4. CASE depth = 2
  <2> DEFINE f == frame[depth]
             back == [c EXCEPT !.regs = IF SameThread(c, reason) THEN f.regs ELSE @]
  <2>1. /\ depth' = 1 /\ frame' = [frame EXCEPT ![depth] = NoFrame]
        /\ exc' = [exc EXCEPT !.reason = "none", !.rfe = FALSE]
        /\ cpu' = back /\ latch' = f.latch /\ phase' = "handler"
        /\ UNCHANGED <<native, kind, tcb, pcb, ret, site, defer>>
    BY <1>4, SMT DEF Longjmp, Landed
  <2>2. f \in Frames /\ NoFrame \in Frames
    BY <1>4, SMT DEF IndInv, Types, FrameType, NoFrame, Frames, Registers
  <2>3. back \in Contexts /\ latch' \in Blocks \cup {None}
    BY <2>1, <2>2 DEF Frames, Contexts
  <2>4. FrameType'  BY <1>4, <2>1, <2>2, SMT DEF IndInv, Types, FrameType
  <2>5. EscapeType' /\ exc'.armed = 2  BY <2>1 DEF IndInv, Types, EscapeType
  <2>6. CpuType' /\ TcbType' /\ SwitchType' /\ FlagType'
    BY <1>1, <2>1, <2>3 DEF IndInv, Types, CpuType, TcbType, SwitchType, FlagType
  <2>7. Depths' /\ ThreadOK' /\ HandlerOK' /\ ~Outer'
    BY <2>1, <2>5, SMT DEF Depths, ThreadOK, InThread, HandlerOK, Outer
  <2>8. OwnOK' /\ ReturnOK' /\ DeferOK'
    BY <1>1, <2>1, <2>7 DEF IndInv, OwnOK, ReturnOK, DeferOK
  <2>9. QED  BY <2>4, <2>5, <2>6, <2>7, <2>8 DEF IndInv, Types
<1>5. QED  BY <1>2, <1>3, <1>4, SMT

(* What holds of the interrupted thread e when the outer handler returns.  *)
LEMMA OuterFacts ==
    ASSUME IndInv, Outer
    PROVE  LET e == frame[1].entry IN
           /\ e \in Threads /\ pcb \in Threads /\ native \in Blocks
           /\ e \notin ended /\ pcb \notin ended /\ KindFits
           /\ frame[1].regs = own[e].regs /\ native = own[e].pc /\ own[e].ie = TRUE
           /\ frame[1].prev = None /\ frame[1].site = FALSE
           /\ frame[1].latch = IF kind = "pump" THEN native ELSE None
           /\ site = (kind = "pump")
           /\ exc.epc = IF kind \in {"poll", "end"} THEN Sentinel ELSE native
           /\ tcb[e].regs = own[e].regs /\ tcb[e].pc = exc.epc /\ tcb[e].ie = TRUE
           /\ \A t \in Threads \ ({e} \cup ended) : Coherent(t)
BY DEF IndInv, HandlerOK, Types, CpuType, TcbType

(* Back in the interrupted thread, on its own registers.                   *)
LEMMA BackKeepsThread ==
    ASSUME IndInv, Outer, NEW c, BackToThread(frame[1], c),
           pcb' = frame[1].entry, UNCHANGED <<own, ended>>,
           c.pc = exc.epc, c.ie = TRUE, c.regs = frame[1].regs
    PROVE  /\ ThreadOK' /\ phase' = "body" /\ kind' = kind /\ native' = native
           /\ latch' = None /\ site' = FALSE /\ cpu' = c /\ UNCHANGED <<tcb, ret>>
<1> DEFINE e == frame[1].entry
<1>1. /\ e \in Threads /\ e \notin ended /\ native \in Blocks /\ KindFits
      /\ frame[1].regs = own[e].regs /\ native = own[e].pc /\ own[e].ie = TRUE
      /\ frame[1].prev = None /\ frame[1].site = FALSE
      /\ frame[1].latch = IF kind = "pump" THEN native ELSE None
      /\ exc.epc = IF kind \in {"poll", "end"} THEN Sentinel ELSE native
      /\ \A t \in Threads \ ({e} \cup ended) : Coherent(t)
  BY OuterFacts
<1>2. /\ cpu' = c /\ phase' = "body" /\ UNCHANGED <<kind, tcb, ret>>
      /\ native' = IF kind = "pump" /\ c.pc \in Blocks THEN c.pc ELSE native
      /\ latch' \in IF kind = "pump" THEN {frame[1].prev, None} ELSE {frame[1].latch}
      /\ site' = frame[1].site
  BY DEF BackToThread, PutBack
<1>3. native' = native  BY <1>1, <1>2
<1>4. latch' = None /\ site' = FALSE  BY <1>1, <1>2
<1>5. \A t \in Threads \ ({e} \cup ended) : Coherent(t)'
  BY <1>1, <1>2 DEF Coherent
<1>6. KindFits'  BY <1>1, <1>2, <1>3 DEF KindFits
<1>7. ThreadOK'
  BY <1>1, <1>2, <1>3, <1>4, <1>5, <1>6 DEF ThreadOK
<1>8. QED  BY <1>2, <1>3, <1>4, <1>7

(* Unwinding to the scheduler from the outer delivery keeps it.            *)
LEMMA LongjmpOuter ==
    ASSUME ~KernelPumps, IndInv, Outer, phase \in {"handler", "returning"},
           NEW c \in Contexts, NEW reason, Longjmp(c, reason),
           c.pc = tcb[pcb].pc, c.ie = tcb[pcb].ie
    PROVE  IndInv'
<1> DEFINE f == frame[1]
           e == f.entry
           back == [c EXCEPT !.regs = IF SameThread(c, reason) THEN f.regs ELSE @]
<1>1. UNCHANGED <<irq, own, ended>> /\ depth = 1 /\ exc.armed = 1 /\ Landed(c, reason)
  BY DEF Longjmp, Outer
<1>2. /\ depth' = 0 /\ frame' = [frame EXCEPT ![1] = NoFrame]
      /\ exc' = [exc EXCEPT !.reason = "none", !.rfe = FALSE]
      /\ \/ e = pcb /\ BackToThread(f, back) /\ UNCHANGED <<pcb, defer>>
         \/ /\ e # pcb /\ Deferrable
            /\ BackToThread(f, [regs |-> f.regs, pc |-> exc.epc, ie |-> TRUE])
            /\ pcb' = e
            /\ defer' = [pending |-> TRUE, from |-> e, to |-> pcb]
         \/ e # pcb /\ ~Deferrable /\ SwitchNow(f)
  BY <1>1, SMT DEF Landed
<1>3. /\ e \in Threads /\ pcb \in Threads /\ native \in Blocks
      /\ e \notin ended /\ pcb \notin ended /\ KindFits
      /\ f.regs = own[e].regs /\ native = own[e].pc /\ own[e].ie = TRUE
      /\ f.latch = IF kind = "pump" THEN native ELSE None
      /\ site = (kind = "pump")
      /\ exc.epc = IF kind \in {"poll", "end"} THEN Sentinel ELSE native
      /\ tcb[e].regs = own[e].regs /\ tcb[e].pc = exc.epc /\ tcb[e].ie = TRUE
      /\ \A t \in Threads \ ({e} \cup ended) : Coherent(t)
  BY OuterFacts
<1>4. FrameType'
  <2>1. NoFrame \in Frames  BY DEF NoFrame, Frames, Registers
  <2>2. QED  BY <1>2, <2>1, SMT DEF IndInv, Types, FrameType
<1>5. EscapeType' /\ exc'.armed = 1
  BY <1>1, <1>2 DEF IndInv, Types, EscapeType
<1>6. OwnOK'  BY <1>1 DEF IndInv, OwnOK
<1>7. HandlerOK' /\ ~Outer'  BY <1>2, SMT DEF HandlerOK, Outer
<1>8. irq' \in BOOLEAN  BY <1>1 DEF IndInv, Types, FlagType
<1>9. f.regs \in Registers /\ exc.epc \in Blocks \cup {Sentinel}
      /\ kind \in Kinds /\ tcb \in [Threads -> Contexts] /\ own \in [Threads -> Contexts]
      /\ ret \in Threads \cup {None} /\ ended \subseteq Threads
  BY <1>3, SMT DEF IndInv, Types, FrameType, Frames, CpuType, TcbType, SwitchType
<1>10. ASSUME ThreadOK', phase' = "body", kind' = kind, native' = native,
              latch' = None, site' = FALSE, cpu' \in Contexts, UNCHANGED <<tcb, ret>>,
              pcb' = e
       PROVE  CpuType' /\ TcbType' /\ FlagType' /\ Depths' /\ ReturnOK'
  <2>1. CpuType' /\ TcbType'  BY <1>1, <1>3, <1>9, <1>10 DEF CpuType, TcbType
  <2>2. FlagType'  BY <1>8, <1>10 DEF FlagType
  <2>3. Depths'  BY <1>2, <1>5, <1>10, SMT DEF Depths
  <2>4. ReturnOK'  BY <1>1, <1>10 DEF IndInv, ReturnOK
  <2>5. QED  BY <2>1, <2>2, <2>3, <2>4
<1>11. CASE e = pcb /\ BackToThread(f, back) /\ UNCHANGED <<pcb, defer>>
  <2>1. SameThread(c, reason)  BY <1>3, <1>11 DEF SameThread
  <2>2. back.regs = f.regs /\ back.pc = c.pc /\ back.ie = c.ie /\ back \in Contexts
    BY <1>9, <2>1 DEF Contexts
  <2>3. back.pc = exc.epc /\ back.ie = TRUE  BY <1>3, <1>11, <2>2
  <2>4. /\ ThreadOK' /\ phase' = "body" /\ kind' = kind /\ native' = native
        /\ latch' = None /\ site' = FALSE /\ cpu' = back /\ UNCHANGED <<tcb, ret>>
    <3>1. BackToThread(frame[1], back) /\ pcb' = frame[1].entry  BY <1>11
    <3>2. back.regs = frame[1].regs /\ UNCHANGED <<own, ended>>  BY <1>1, <2>2
    <3> HIDE DEF back
    <3>3. QED  BY <2>3, <3>1, <3>2, BackKeepsThread
  <2>5. CpuType' /\ TcbType' /\ FlagType' /\ Depths' /\ ReturnOK'
    BY <1>10, <1>11, <2>2, <2>4
  <2>6. SwitchType'  BY <1>1, <1>11, <2>4 DEF IndInv, Types, SwitchType
  <2>7. DeferOK'  BY <1>1, <1>7, <1>11, <2>4 DEF IndInv, DeferOK
  <2>8. QED
    BY <1>4, <1>5, <1>6, <1>7, <2>4, <2>5, <2>6, <2>7 DEF IndInv, Types
<1>12. CASE /\ e # pcb /\ Deferrable
            /\ BackToThread(f, [regs |-> f.regs, pc |-> exc.epc, ie |-> TRUE])
            /\ pcb' = e
            /\ defer' = [pending |-> TRUE, from |-> e, to |-> pcb]
  <2> DEFINE d == [regs |-> f.regs, pc |-> exc.epc, ie |-> TRUE]
  <2>1. d \in Contexts /\ d.regs = f.regs /\ d.pc = exc.epc /\ d.ie = TRUE
    BY <1>9 DEF Contexts
  <2>2. /\ ThreadOK' /\ phase' = "body" /\ kind' = kind /\ native' = native
        /\ latch' = None /\ site' = FALSE /\ cpu' = d /\ UNCHANGED <<tcb, ret>>
    BY <1>1, <1>12, <2>1, BackKeepsThread
  <2>3. CpuType' /\ TcbType' /\ FlagType' /\ Depths' /\ ReturnOK'
    BY <1>10, <1>12, <2>1, <2>2
  <2>4. defer' \in [pending : BOOLEAN, from : Threads \cup {None},
                    to : Threads \cup {None}]
    BY <1>3, <1>12
  <2>5. SwitchType'  BY <1>1, <1>9, <2>2, <2>4 DEF SwitchType
  <2>6. DeferOK'
    <3>1. defer'.from = e /\ defer'.to = pcb  BY <1>12
    <3>2. kind' # "end"  BY <1>12, <2>2 DEF Deferrable
    <3>3. QED  BY <1>1, <1>3, <1>12, <3>1, <3>2 DEF DeferOK
  <2>7. QED
    BY <1>4, <1>5, <1>6, <1>7, <2>2, <2>3, <2>5, <2>6 DEF IndInv, Types
<1>13. CASE e # pcb /\ ~Deferrable /\ SwitchNow(f)
  <2>1. Run(tcb, pcb) /\ latch' = f.latch /\ UNCHANGED <<site, defer, tcb, ret>>
    BY <1>13 DEF SwitchNow
  <2>2. kind # "pump"
    <3>1. SUFFICES ASSUME kind = "pump" PROVE FALSE
      OBVIOUS
    <3>2. exc.epc = native /\ native \notin Kernel  BY <1>3, <3>1 DEF KindFits
    <3>3. QED  BY <1>3, <1>13, <3>1, <3>2 DEF Deferrable
  <2>3. latch' = None /\ site' = FALSE  BY <1>3, <2>1, <2>2
  <2>4. Run(tcb', pcb)  BY <2>1
  <2>5. pcb' = pcb /\ phase' \in {"leader", "halted"}
    BY <1>3, <1>9, <2>1, RunEffect
  <2>6. TcbType'  BY <1>1, <1>3, <1>9, <2>1, <2>5 DEF TcbType
  <2>7. \A t \in Threads \ ended' : Coherent(t)'
    <3>1. Coherent(e)  BY <1>3, <1>9, SMT DEF Coherent, Contexts
    <3>2. QED  BY <1>1, <1>3, <2>1, <3>1 DEF Coherent
  <2>8. ThreadOK'
    BY <1>1, <1>3, <1>6, <2>3, <2>4, <2>6, <2>7, RunKeepsThreads
  <2>9. CpuType'  BY <1>3, <2>4, <2>6, RunTypes DEF IndInv, Types
  <2>10. SwitchType'  BY <1>1, <2>1, <2>3 DEF IndInv, Types, SwitchType
  <2>11. FlagType'  BY <1>8, <2>3 DEF FlagType
  <2>12. Depths'  BY <1>2, <1>5, <2>5, SMT DEF Depths
  <2>13. ReturnOK'  BY <1>1, <2>1 DEF IndInv, ReturnOK
  <2>14. DeferOK'  BY <1>1, <1>7, <2>1, <2>5 DEF IndInv, DeferOK
  <2>15. QED
    BY <1>4, <1>5, <1>6, <1>7, <2>6, <2>8, <2>9, <2>10, <2>11, <2>12, <2>13, <2>14
    DEF IndInv, Types
<1>14. QED  BY <1>2, <1>11, <1>12, <1>13

(* The longjmp out of a handler keeps it.                                  *)
LEMMA EscapeKeeps ==
    ASSUME ~KernelPumps, IndInv, Escape
    PROVE  IndInv'
<1>1. phase = "returning" /\ Longjmp(cpu, exc.reason) /\ cpu \in Contexts
  BY DEF Escape, IndInv, Types, CpuType
<1>2. exc.armed = 2 \/ Outer  BY <1>1, HandlerDepths
<1>3. CASE exc.armed = 2  BY <1>1, <1>3, LongjmpNested
<1>4. CASE Outer
  <2>1. cpu.pc = tcb[pcb].pc /\ cpu.ie = tcb[pcb].ie
    BY <1>1, <1>4 DEF IndInv, HandlerOK
  <2>2. QED  BY <1>1, <1>4, <2>1, LongjmpOuter
<1>5. QED  BY <1>2, <1>3, <1>4

(* The return from a syscall keeps it.                                     *)
LEMMA SyscallReturnKeeps ==
    ASSUME ~KernelPumps, IndInv, SyscallReturn
    PROVE  IndInv'
<1>1. phase = "handler" /\ Longjmp(tcb[pcb], "syscall") /\ tcb[pcb] \in Contexts
  BY DEF SyscallReturn, IndInv, Types, TcbType
<1>2. exc.armed = 2 \/ Outer  BY <1>1, HandlerDepths
<1>3. CASE exc.armed = 2  BY <1>1, <1>3, LongjmpNested
<1>4. CASE Outer  BY <1>1, <1>4, LongjmpOuter
<1>5. QED  BY <1>2, <1>3, <1>4

(* Every step keeps the invariant.                                         *)
LEMMA IndStep ==
    ASSUME ~KernelPumps, IndInv, [Next]_vars
    PROVE  IndInv'
<1>1. CASE UNCHANGED vars
  BY <1>1, SMT DEF vars, IndInv, Types, CpuType, TcbType, SwitchType, FrameType, EscapeType,
              FlagType, Depths, OwnOK, ThreadOK, HandlerOK, DeferOK, ReturnOK, InThread,
              Outer, Coherent, KindFits
<1>2. CASE Thread  BY <1>2, BodyKeeps, YieldKeeps, FinishKeeps DEF Thread
<1>3. CASE Check  BY <1>3, HonourKeeps, PassByKeeps, DeliverKeeps DEF Check
<1>4. CASE Handler
  BY <1>4, LineKeeps, HandlerSwitchKeeps, EnableNestedKeeps, DeliverNestedKeeps
  DEF Handler
<1>5. CASE Return  BY <1>5, ReturnFromExceptionKeeps, SyscallReturnKeeps DEF Return
<1>6. CASE Escape \/ RunInside \/ Raise
  BY <1>6, EscapeKeeps, RunInsideKeeps, LineKeeps
<1>7. QED  BY <1>1, <1>2, <1>3, <1>4, <1>5, <1>6 DEF Next

-----------------------------------------------------------------------------
(* The inductive invariant, as long as no kernel code is interpreted.      *)
THEOREM Inductive == ~KernelPumps => (Spec => []IndInv)
<1> SUFFICES ASSUME ~KernelPumps PROVE Spec => []IndInv
  OBVIOUS
<1>1. Init => IndInv  BY IndInit
<1>2. IndInv /\ [Next]_vars => IndInv'  BY IndStep
<1>3. QED  BY <1>1, <1>2, PTL DEF Spec

(* Types, whatever interrupts psx_check_interrupts takes.                  *)
THEOREM TypeCorrect == ~KernelPumps => (Spec => []TypeOK)
<1> SUFFICES ASSUME ~KernelPumps PROVE Spec => []TypeOK
  OBVIOUS
<1>1. IndInv => TypeOK
  BY DEF IndInv, Types, CpuType, TcbType, SwitchType, FrameType, EscapeType, FlagType, TypeOK
<1>2. QED  BY <1>1, Inductive, PTL

(* psx_check_interrupts and psx_scheduler_run are transparent to every     *)
(* guest thread: whatever handlers do, thread code goes on as the thread   *)
(* PCB[0] names, where that thread was, on its own registers.              *)
THEOREM ThreadsResumeWhereTheyLeft == ~KernelPumps => (Spec => []ResumesWhereItLeft)
<1> SUFFICES ASSUME ~KernelPumps PROVE Spec => []ResumesWhereItLeft
  OBVIOUS
<1>1. IndInv => ResumesWhereItLeft  BY DEF IndInv, ThreadOK, ResumesWhereItLeft
<1>2. QED  BY <1>1, Inductive, PTL

(* The TCB of a thread that waits holds registers and a PC of one moment,  *)
(* the last that thread reached, whichever of the three savers wrote it:   *)
(* ChangeThread, the guest's handler or the deferred switch.               *)
THEOREM SuspendedContextsCoherent == ~KernelPumps => (Spec => []SuspendedContext)
<1> SUFFICES ASSUME ~KernelPumps PROVE Spec => []SuspendedContext
  OBVIOUS
<1>1. IndInv => SuspendedContext
  <2> SUFFICES ASSUME IndInv, exc.armed < 2, NEW t \in Threads \ (Running \cup ended)
               PROVE  tcb[t] \in {own[t], [own[t] EXCEPT !.pc = Sentinel]}
    BY DEF SuspendedContext
  <2>1. Coherent(t)
    <3>1. CASE InThread  BY <3>1 DEF Running, IndInv, ThreadOK
    <3>2. CASE ~InThread /\ InException
      <4>1. Outer  BY <3>2, SMT DEF IndInv, Depths, InException, Outer, InThread
      <4>2. QED  BY <3>2, <4>1, OuterFacts DEF Running
    <3>3. CASE ~InThread /\ ~InException  BY <3>3 DEF Running
    <3>4. QED  BY <3>1, <3>2, <3>3
  <2>2. tcb[t] \in Contexts /\ own[t] \in Contexts  BY DEF IndInv, Types, TcbType
  <2>3. QED  BY <2>1, <2>2 DEF Coherent, Contexts
<1>2. QED  BY <1>1, Inductive, PTL
=============================================================================
