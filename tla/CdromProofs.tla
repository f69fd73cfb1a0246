---------------------------- MODULE CdromProofs ----------------------------
(***************************************************************************)
(* Proofs about the CD-ROM controller, for every set of commands, every    *)
(* countdown and every handler that is shorter than the presentation       *)
(* delay.  The steps of cdrom_advance, of a command and of an acknowledge  *)
(* are summarised first by what they do to the response on show (Kept or   *)
(* Answered); the invariants are proved from these summaries.              *)
(***************************************************************************)
EXTENDS Cdrom, TLAPS

(* The response on show, its path to I_STAT, and the enables.              *)
Kept(c, e) ==
    /\ e.flag = c.flag /\ e.shown = c.shown /\ e.latched = c.latched
    /\ e.hold = c.hold /\ e.istat = c.istat

(* A new response, held back from the interrupt controller for now.        *)
Answered(c, e) ==
    /\ e.flag # {} /\ e.shown = FALSE /\ e.latched = FALSE
    /\ e.hold = PresentDelay /\ e.istat = c.istat

(* What no later step may strand behind a response that is not there.      *)
Waits(c) ==
    /\ c.queued # None => c.flag # {}
    /\ c.pended = TRUE => c.flag # {}
    /\ c.pended = TRUE => c.reading = TRUE

(* What one stage of cdrom_advance does.                                   *)
Stage(c, e) ==
    /\ e \in Controller /\ e.enable = c.enable
    /\ Kept(c, e) \/ (c.flag = {} /\ Answered(c, e))
    /\ Waits(c) => Waits(e)

(* Leaves are Zenon's; one that needs arithmetic, records or sequences     *)
(* names SMT.                                                              *)
USE Zenon

-----------------------------------------------------------------------------
(* The fields of a controller have their types.                            *)
LEMMA Fields ==
    ASSUME NEW c \in Controller
    PROVE  /\ c.stat \in SUBSET Stat /\ c.flag \in IrqFlags
           /\ c.enable \in SUBSET IrqFlags
           /\ c.latched \in BOOLEAN /\ c.shown \in BOOLEAN
           /\ c.hold \in 0..PresentDelay
           /\ c.queued \in AllCmds \cup {None} /\ c.pcmd \in AllCmds \cup {None}
           /\ c.pdelay \in Nat /\ c.rdelay \in Nat
           /\ c.reading \in BOOLEAN /\ c.pended \in BOOLEAN /\ c.istat \in BOOLEAN
BY DEF Controller

(* A response is never presented by the call that shows it.                *)
LEMMA RespondHolds ==
    ASSUME NEW c \in Controller, NEW type \in IrqFlags
    PROVE  Respond(c, type) = set_irq(c, type)
<1>1. set_irq(c, type).hold = PresentDelay
  BY DEF set_irq, Controller
<1>2. PresentDelay # 0
  BY CdromAssumption
<1> QED  BY <1>1, <1>2 DEF Respond, present_cdrom_irq

(* queue_response leaves an interrupt raised and its response unread.      *)
LEMMA RespondAnswers ==
    ASSUME NEW c \in Controller, NEW type \in IrqFlags, type # {}
    PROVE  LET e == Respond(c, type)
           IN  /\ e \in Controller /\ Answered(c, e)
               /\ e.enable = c.enable /\ e.queued = c.queued
               /\ e.pended = c.pended /\ e.reading = c.reading
<1>1. PresentDelay \in 0..PresentDelay
  BY CdromAssumption, SMT
<1>2. Respond(c, type) = set_irq(c, type)
  BY RespondHolds
<1>3. set_irq(c, type) \in Controller
  BY <1>1 DEF set_irq, Controller
<1>4. Answered(c, set_irq(c, type))
  BY DEF set_irq, Controller, Answered
<1>5. LET e == set_irq(c, type)
      IN  /\ e.enable = c.enable /\ e.queued = c.queued
          /\ e.pended = c.pended /\ e.reading = c.reading
  BY DEF set_irq, Controller
<1> QED  BY <1>2, <1>3, <1>4, <1>5

(* The interrupt codes the controller answers with.                        *)
LEMMA Codes ==
    /\ DataReady \in IrqFlags /\ DataReady # {}
    /\ Complete \in IrqFlags /\ Complete # {}
    /\ Ack \in IrqFlags /\ Ack # {}
    /\ Error \in IrqFlags /\ Error # {}
BY DEF DataReady, Complete, Ack, Error, IrqFlags, AllBits

(* Accepting a command gives up no interrupt that is waiting.              *)
LEMMA AcceptedType ==
    ASSUME NEW c \in Controller, NEW cmd \in AllCmds, NEW d \in Nat
    PROVE  LET e == Accepted(c, cmd, d)
           IN  /\ e \in Controller /\ Kept(c, e)
               /\ e.enable = c.enable /\ e.queued = c.queued
               /\ e.pended = TRUE => c.pended = TRUE
               /\ e.pended = TRUE /\ c.reading = TRUE => e.reading = TRUE
<1> DEFINE st == (c.stat \ Drops(cmd)) \cup Adds(cmd)
           rd == Streaming(c, cmd)
           rl == IF cmd = "Read" THEN d ELSE IF cmd \in Halting THEN 0 ELSE c.rdelay
           pd == c.pended /\ cmd # "Read" /\ cmd \notin Halting
           pc == IF cmd \in TwoPhase THEN cmd ELSE c.pcmd
           pl == IF cmd \in TwoPhase THEN d ELSE c.pdelay
<1>1. Accepted(c, cmd, d) = [c EXCEPT !.stat = st, !.reading = rd, !.rdelay = rl,
                                      !.pended = pd, !.pcmd = pc, !.pdelay = pl]
  BY DEF Accepted
<1>2. st \in SUBSET Stat
  BY Fields DEF Adds, Stat, DriveStat
<1>3. rd \in BOOLEAN /\ pd \in BOOLEAN
  BY Fields DEF Streaming
<1>4. rl \in Nat /\ pl \in Nat /\ pc \in AllCmds \cup {None}
  BY Fields
<1>5. /\ pd = TRUE => c.pended = TRUE
      /\ pd = TRUE /\ c.reading = TRUE => rd = TRUE
  BY Fields DEF Streaming
<1> HIDE DEF st, rd, rl, pd, pc, pl
<1> DEFINE e == [c EXCEPT !.stat = st, !.reading = rd, !.rdelay = rl,
                          !.pended = pd, !.pcmd = pc, !.pdelay = pl]
<1>6. e \in Controller
  BY <1>2, <1>3, <1>4 DEF Controller
<1>7. Kept(c, e) /\ e.enable = c.enable /\ e.queued = c.queued
  BY DEF Controller, Kept
<1>8. e.pended = pd /\ e.reading = rd
  BY DEF Controller
<1> HIDE DEF e
<1> QED  BY <1>1, <1>5, <1>6, <1>7, <1>8 DEF e

(* A command shows a new response and strands nothing.                     *)
LEMMA ExecAnswers ==
    ASSUME NEW c \in Controller, NEW cmd \in AllCmds, NEW d \in Nat
    PROVE  LET e == exec_command(c, cmd, d)
           IN  /\ e \in Controller /\ Answered(c, e)
               /\ e.enable = c.enable /\ e.queued = c.queued
               /\ e.pended = TRUE => c.pended = TRUE
               /\ e.pended = TRUE /\ c.reading = TRUE => e.reading = TRUE
<1>1. CASE Rejected(c, cmd)
  BY <1>1, RespondAnswers, Codes DEF exec_command
<1>2. CASE ~Rejected(c, cmd)
  <2> DEFINE a == Accepted(c, cmd, d)
  <2>1. /\ a \in Controller /\ Kept(c, a)
        /\ a.enable = c.enable /\ a.queued = c.queued
        /\ a.pended = TRUE => c.pended = TRUE
        /\ a.pended = TRUE /\ c.reading = TRUE => a.reading = TRUE
    BY AcceptedType
  <2>2. exec_command(c, cmd, d) = Respond(a, Ack)
    BY <1>2 DEF exec_command
  <2> HIDE DEF a
  <2>3. LET e == Respond(a, Ack)
        IN  /\ e \in Controller /\ Answered(a, e)
            /\ e.enable = a.enable /\ e.queued = a.queued
            /\ e.pended = a.pended /\ e.reading = a.reading
    BY <2>1, RespondAnswers, Codes
  <2> QED  BY <2>1, <2>2, <2>3 DEF Answered, Kept
<1> QED  BY <1>1, <1>2

-----------------------------------------------------------------------------
(* The stages of cdrom_advance.                                            *)

(* A stage of cdrom_advance that has nothing to do.                        *)
LEMMA StageOfNothing ==
    ASSUME NEW c \in Controller
    PROVE  Stage(c, c)
BY DEF Stage, Kept

(* A queued command that is let go.                                        *)
LEMMA QueuedRuns ==
    ASSUME NEW c \in Controller, NEW d \in Nat, c.queued # None, c.flag = {}
    PROVE  LET e == try_execute_queued_command(c, d)
           IN  /\ e \in Controller /\ Answered(c, e)
               /\ e.enable = c.enable /\ e.queued = None
               /\ e.pended = TRUE => c.pended = TRUE
               /\ e.pended = TRUE /\ c.reading = TRUE => e.reading = TRUE
<1> DEFINE q == [c EXCEPT !.queued = None]
           e == exec_command(q, c.queued, d)
<1>1. q \in Controller /\ Kept(c, q) /\ q.enable = c.enable /\ q.queued = None
      /\ q.pended = c.pended /\ q.reading = c.reading
  BY DEF Controller, Kept
<1>2. c.queued \in AllCmds
  BY Fields
<1>3. try_execute_queued_command(c, d) = e
  BY DEF try_execute_queued_command
<1> HIDE DEF q
<1>4. /\ e \in Controller /\ Answered(q, e)
      /\ e.enable = q.enable /\ e.queued = q.queued
      /\ e.pended = TRUE => q.pended = TRUE
      /\ e.pended = TRUE /\ q.reading = TRUE => e.reading = TRUE
  BY <1>1, <1>2, ExecAnswers
<1> HIDE DEF e
<1>5. Answered(c, e)
  BY <1>1, <1>4 DEF Answered, Kept
<1> QED  BY <1>1, <1>3, <1>4, <1>5

(* try_execute_queued_command as a stage of cdrom_advance.                 *)
LEMMA QueuedStage ==
    ASSUME NEW c \in Controller, NEW d \in Nat
    PROVE  Stage(c, try_execute_queued_command(c, d))
<1>1. CASE c.queued = None \/ c.flag # {}
  BY <1>1, StageOfNothing DEF try_execute_queued_command
<1>2. CASE c.queued # None /\ c.flag = {}
  <2> DEFINE e == try_execute_queued_command(c, d)
  <2>1. /\ e \in Controller /\ Answered(c, e)
        /\ e.enable = c.enable /\ e.queued = None
        /\ e.pended = TRUE => c.pended = TRUE
        /\ e.pended = TRUE /\ c.reading = TRUE => e.reading = TRUE
    BY <1>2, QueuedRuns
  <2> HIDE DEF e
  <2>2. Stage(c, e)
    BY <1>2, <2>1 DEF Stage, Waits, Answered
  <2> QED  BY <2>2 DEF e
<1> QED  BY <1>1, <1>2

(* process_pending as a stage.                                             *)
LEMMA PendingStage ==
    ASSUME NEW c \in Controller, NEW n \in Nat
    PROVE  Stage(c, process_pending(c, n))
<1>1. CASE c.pcmd = None \/ c.flag # {}
  BY <1>1, StageOfNothing DEF process_pending
<1>2. CASE ~(c.pcmd = None \/ c.flag # {}) /\ c.pdelay > n
  <2>1. c.pdelay - n \in Nat
    BY <1>2, Fields, SMT
  <2> DEFINE e == [c EXCEPT !.pdelay = c.pdelay - n]
  <2>2. process_pending(c, n) = e
    BY <1>2 DEF process_pending
  <2>3. e \in Controller
    BY <2>1 DEF Controller
  <2>4. Kept(c, e) /\ e.enable = c.enable /\ (Waits(c) => Waits(e))
    BY DEF Controller, Kept, Waits
  <2> QED  BY <2>2, <2>3, <2>4 DEF Stage
<1>3. CASE ~(c.pcmd = None \/ c.flag # {}) /\ ~(c.pdelay > n)
  <2> DEFINE k == Completed(c)
             type == IF c.pcmd = "GetID" /\ ~Disc THEN Error ELSE Complete
             e == Respond(k, type)
  <2>1. process_pending(c, n) = e
    BY <1>3 DEF process_pending, SecondResponse
  <2>2. k \in Controller
    <3> DEFINE st == (c.stat \ Settled(c.pcmd))
                          \cup (IF c.pcmd = "MotorOn" THEN {"MOTOR"} ELSE {})
    <3>1. st \in SUBSET Stat
      BY Fields DEF Stat
    <3> HIDE DEF st
    <3>2. [c EXCEPT !.stat = st, !.pcmd = None, !.pdelay = 0] \in Controller
      BY <3>1 DEF Controller
    <3> QED  BY <3>2 DEF Completed, st
  <2>3. Kept(c, k) /\ k.enable = c.enable /\ k.queued = c.queued
        /\ k.pended = c.pended /\ k.reading = c.reading
    BY DEF Completed, Controller, Kept
  <2>4. type \in IrqFlags /\ type # {}
    BY Codes
  <2> HIDE DEF k, type
  <2>5. /\ e \in Controller /\ Answered(k, e)
        /\ e.enable = k.enable /\ e.queued = k.queued
        /\ e.pended = k.pended /\ e.reading = k.reading
    BY <2>2, <2>4, RespondAnswers
  <2> HIDE DEF e
  <2>6. Answered(c, e)
    BY <2>3, <2>5 DEF Answered, Kept
  <2>7. Waits(c) => Waits(e)
    BY <2>3, <2>5 DEF Waits, Answered
  <2> QED  BY <1>3, <2>1, <2>3, <2>5, <2>6, <2>7 DEF Stage
<1> QED  BY <1>1, <1>2, <1>3

(* The arrival of a sector as a stage.                                     *)
LEMMA SectorStage ==
    ASSUME NEW c \in Controller, NEW data \in BOOLEAN, NEW dma \in BOOLEAN,
           c.reading = TRUE
    PROVE  Stage(c, Sector(c, data, dma))
<1>1. CASE ~data \/ (c.flag # {} /\ dma)
  BY <1>1, StageOfNothing DEF Sector
<1>2. CASE data /\ c.flag = {}
  <2> DEFINE e == Respond(c, DataReady)
  <2>1. Sector(c, data, dma) = e
    BY <1>2 DEF Sector
  <2>2. /\ e \in Controller /\ Answered(c, e)
        /\ e.enable = c.enable /\ e.queued = c.queued
        /\ e.pended = c.pended /\ e.reading = c.reading
    BY RespondAnswers, Codes
  <2> HIDE DEF e
  <2>3. Waits(c) => Waits(e)
    BY <2>2 DEF Waits, Answered
  <2> QED  BY <1>2, <2>1, <2>2, <2>3 DEF Stage
<1>3. CASE data /\ c.flag # {} /\ ~dma
  <2> DEFINE e == [c EXCEPT !.pended = TRUE]
  <2>1. Sector(c, data, dma) = e
    BY <1>3 DEF Sector
  <2>2. e \in Controller /\ Kept(c, e) /\ e.enable = c.enable
        /\ e.queued = c.queued /\ e.reading = c.reading
    BY DEF Controller, Kept
  <2> HIDE DEF e
  <2>3. Waits(c) => Waits(e)
    BY <1>3, <2>2 DEF Waits, Kept
  <2> QED  BY <2>1, <2>2, <2>3 DEF Stage
<1> QED  BY <1>1, <1>2, <1>3

(* process_read_stream as a stage.                                         *)
LEMMA ReadStage ==
    ASSUME NEW c \in Controller, NEW n \in Nat, NEW p \in Nat,
           NEW data \in BOOLEAN, NEW dma \in BOOLEAN
    PROVE  Stage(c, process_read_stream(c, n, p, data, dma))
<1> DEFINE left(x) == [c EXCEPT !.rdelay = x]
<1>1. ASSUME NEW x \in Nat
      PROVE  /\ left(x) \in Controller /\ Kept(c, left(x))
             /\ left(x).enable = c.enable /\ left(x).queued = c.queued
             /\ left(x).pended = c.pended /\ left(x).reading = c.reading
  BY DEF Controller, Kept
<1>2. CASE ~c.reading
  BY <1>2, StageOfNothing DEF process_read_stream
<1>3. CASE c.reading /\ c.rdelay > n
  <2>1. c.rdelay - n \in Nat
    BY <1>3, Fields, SMT
  <2>2. process_read_stream(c, n, p, data, dma) = left(c.rdelay - n)
    BY <1>3 DEF process_read_stream
  <2> HIDE DEF left
  <2> QED  BY <1>1, <2>1, <2>2 DEF Stage, Waits, Kept
<1>4. CASE c.reading /\ ~(c.rdelay > n)
  <2> DEFINE x == IF c.rdelay - n + p > 0 THEN c.rdelay - n + p ELSE p
             l == left(x)
             e == Sector(l, data, dma)
  <2>1. x \in Nat
    BY Fields, SMT
  <2>2. process_read_stream(c, n, p, data, dma) = e
    BY <1>4 DEF process_read_stream, Rearmed
  <2>3. c.reading = TRUE
    BY <1>4, Fields
  <2> HIDE DEF x, left
  <2>4. /\ l \in Controller /\ Kept(c, l)
        /\ l.enable = c.enable /\ l.queued = c.queued
        /\ l.pended = c.pended /\ l.reading = c.reading
    BY <1>1, <2>1
  <2> HIDE DEF l
  <2>5. Stage(l, e)
    BY <2>3, <2>4, SectorStage
  <2> HIDE DEF e
  <2>6. Waits(c) => Waits(e)
    BY <2>4, <2>5 DEF Stage, Waits, Kept
  <2> QED  BY <2>2, <2>4, <2>5, <2>6 DEF Stage, Kept, Answered
<1> QED  BY <1>2, <1>3, <1>4

(* The stages of cdrom_advance follow one another.                         *)
LEMMA StagesCompose ==
    ASSUME NEW a, NEW b, NEW c, Stage(a, b), Stage(b, c)
    PROVE  Stage(a, c)
BY DEF Stage, Kept, Answered

-----------------------------------------------------------------------------
(* cdrom_advance: the response on show ages and may be presented, then the *)
(* stages run; the last present_cdrom_irq finds nothing to do.             *)

Unpresentable(c) ==
    \/ c.hold # 0 \/ c.flag = {} \/ c.flag \notin c.enable \/ c.latched = TRUE

Older(c, a, n) ==
    /\ a.flag = c.flag /\ a.shown = c.shown /\ a.latched = c.latched
    /\ a.istat = c.istat /\ a.hold = Age(c.hold, n)

Presented(c, a, n) ==
    /\ Age(c.hold, n) = 0 /\ c.flag # {} /\ c.flag \in c.enable /\ c.latched = FALSE
    /\ a.flag = c.flag /\ a.shown = TRUE /\ a.latched = TRUE /\ a.istat = TRUE

(* The presentation delay runs down to zero and no further.                *)
LEMMA AgeType ==
    ASSUME NEW t \in 0..PresentDelay, NEW n \in Nat
    PROVE  Age(t, n) \in 0..PresentDelay
BY CdromAssumption, SMT DEF Age

(* What cdrom_advance does first: it ages the delay and presents the       *)
(* interrupt.                                                              *)
LEMMA Ages ==
    ASSUME NEW c \in Controller, NEW n \in Nat
    PROVE  LET a == present_cdrom_irq([c EXCEPT !.hold = Age(c.hold, n)])
           IN  /\ a \in Controller /\ a.enable = c.enable
               /\ Unpresentable(a)
               /\ Older(c, a, n) \/ Presented(c, a, n)
               /\ Waits(c) => Waits(a)
<1> DEFINE o == [c EXCEPT !.hold = Age(c.hold, n)]
           a == present_cdrom_irq(o)
<1>1. Age(c.hold, n) \in 0..PresentDelay
  BY Fields, AgeType
<1>2. o \in Controller
  BY <1>1 DEF Controller
<1>3. /\ Older(c, o, n) /\ o.enable = c.enable /\ o.queued = c.queued
      /\ o.pended = c.pended /\ o.reading = c.reading
  BY DEF Controller, Older
<1> HIDE DEF o
<1>4. o.latched \in BOOLEAN
  BY <1>2, Fields
<1>5. CASE o.hold = 0 /\ o.flag # {} /\ o.flag \in o.enable /\ o.latched = FALSE
  <2> DEFINE t == [o EXCEPT !.istat = TRUE, !.latched = TRUE, !.shown = TRUE]
  <2>1. a = t
    BY <1>5 DEF present_cdrom_irq
  <2>2. t \in Controller
    BY <1>2 DEF Controller
  <2>3. /\ t.flag = o.flag /\ t.istat = TRUE /\ t.latched = TRUE /\ t.shown = TRUE
        /\ t.enable = o.enable /\ t.queued = o.queued
        /\ t.pended = o.pended /\ t.reading = o.reading
    BY <1>2 DEF Controller
  <2> HIDE DEF t
  <2>4. Presented(c, t, n)
    BY <1>3, <1>5, <2>3 DEF Older, Presented
  <2>5. Unpresentable(t) /\ (Waits(c) => Waits(t))
    BY <1>3, <2>3 DEF Older, Unpresentable, Waits
  <2> HIDE DEF a
  <2>6. /\ a \in Controller /\ a.enable = c.enable /\ Unpresentable(a)
        /\ Presented(c, a, n) /\ (Waits(c) => Waits(a))
    BY <1>3, <2>1, <2>2, <2>3, <2>4, <2>5
  <2> QED  BY <2>6 DEF a, o
<1>6. CASE ~(o.hold = 0 /\ o.flag # {} /\ o.flag \in o.enable /\ o.latched = FALSE)
  <2>1. Unpresentable(o)
    BY <1>4, <1>6 DEF Unpresentable
  <2>2. a = o
    BY <2>1 DEF present_cdrom_irq, Unpresentable
  <2>3. Waits(c) => Waits(o)
    BY <1>3 DEF Older, Waits
  <2> HIDE DEF a
  <2>4. /\ a \in Controller /\ a.enable = c.enable /\ Unpresentable(a)
        /\ Older(c, a, n) /\ (Waits(c) => Waits(a))
    BY <1>2, <1>3, <2>1, <2>2, <2>3
  <2> QED  BY <2>4 DEF a, o
<1> QED  BY <1>5, <1>6

(* cdrom_advance: the delay ages or the interrupt is presented, then the   *)
(* stages run.                                                             *)
LEMMA Advances ==
    ASSUME NEW c \in Controller, NEW n \in Nat, NEW d \in Nat, NEW p \in Nat,
           NEW data \in BOOLEAN, NEW dma \in BOOLEAN
    PROVE  LET e == cdrom_advance(c, n, d, p, data, dma)
           IN  \E a \in Controller :
                  /\ Older(c, a, n) \/ Presented(c, a, n)
                  /\ Stage(a, e) /\ (Waits(c) => Waits(e))
<1> DEFINE a == present_cdrom_irq([c EXCEPT !.hold = Age(c.hold, n)])
           q == try_execute_queued_command(a, d)
           s == process_pending(q, n)
           r == process_read_stream(s, n, p, data, dma)
<1>1. cdrom_advance(c, n, d, p, data, dma) = present_cdrom_irq(r)
  BY DEF cdrom_advance
<1>2. /\ a \in Controller /\ a.enable = c.enable /\ Unpresentable(a)
      /\ Older(c, a, n) \/ Presented(c, a, n)
      /\ Waits(c) => Waits(a)
  BY Ages
<1> HIDE DEF a
<1>3. Stage(a, q)
  BY <1>2, QueuedStage
<1> HIDE DEF q
<1>4. Stage(q, s)
  BY <1>3, PendingStage DEF Stage
<1> HIDE DEF s
<1>5. Stage(s, r)
  BY <1>4, ReadStage, SMT DEF Stage
<1> HIDE DEF r
<1>6. Stage(a, r)
  BY <1>3, <1>4, <1>5, StagesCompose
<1>7. Unpresentable(r)
  BY <1>2, <1>6, CdromAssumption DEF Stage, Unpresentable, Kept, Answered
<1>8. present_cdrom_irq(r) = r
  BY <1>7 DEF present_cdrom_irq, Unpresentable
<1> QED  BY <1>1, <1>2, <1>6, <1>8 DEF Stage

-----------------------------------------------------------------------------
(* The acknowledge register.                                               *)

(* A whole acknowledge leaves no response, or the next one freshly shown.  *)
LEMMA WholeAck ==
    ASSUME NEW c \in Controller, NEW bits, NEW d \in Nat, c.flag \subseteq bits,
           Waits(c), c.latched = TRUE => c.flag # {}
    PROVE  LET e == write_ack(c, bits, d)
           IN  /\ e \in Controller /\ Waits(e)
               /\ e.latched = FALSE /\ e.istat = c.istat
               /\ e.flag # {} => Answered(c, e)
<1> DEFINE lt == c.latched /\ ~(c.flag # {} /\ c.flag \subseteq bits)
           m == [c EXCEPT !.flag = c.flag \ bits, !.latched = lt]
           p == present_pending_dataready(m)
           e == try_execute_queued_command(p, d)
<1>1. write_ack(c, bits, d) = e
  BY DEF write_ack, Acknowledged
<1>2. lt = FALSE
  BY Fields
<1>3. c.flag \ bits = {}
  OBVIOUS
<1> HIDE DEF lt
<1>4. /\ m \in Controller /\ m.flag = {} /\ m.latched = FALSE /\ m.istat = c.istat
      /\ m.pended = c.pended /\ m.reading = c.reading
  BY <1>2, <1>3 DEF Controller, IrqFlags
<1> HIDE DEF m
<1>5. CASE c.pended = TRUE
  <2> DEFINE f == [m EXCEPT !.pended = FALSE]
  <2>1. p = Respond(f, DataReady)
    BY <1>4, <1>5 DEF present_pending_dataready
  <2>2. f \in Controller /\ f.pended = FALSE /\ f.istat = c.istat
    BY <1>4 DEF Controller
  <2> HIDE DEF f
  <2>3. p \in Controller /\ Answered(f, p) /\ p.pended = FALSE
    BY <2>1, <2>2, RespondAnswers, Codes, SMT
  <2> HIDE DEF p
  <2>4. e = p
    BY <2>3 DEF try_execute_queued_command, Answered
  <2> HIDE DEF e
  <2>5. e \in Controller /\ Waits(e) /\ Answered(c, e)
    BY <2>2, <2>3, <2>4 DEF Waits, Answered
  <2> QED  BY <1>1, <2>5 DEF Answered
<1>6. CASE c.pended = FALSE
  <2>1. p = m
    BY <1>4, <1>6 DEF present_pending_dataready
  <2>2. CASE m.queued = None
    <3>1. e = m
      BY <2>1, <2>2 DEF try_execute_queued_command
    <3> HIDE DEF e, p
    <3> QED  BY <1>1, <1>4, <1>6, <2>2, <3>1 DEF Waits
  <2>3. CASE m.queued # None
    <3>1. /\ e \in Controller /\ Answered(m, e) /\ e.queued = None
          /\ e.pended = TRUE => m.pended = TRUE
      BY <1>4, <2>1, <2>3, QueuedRuns
    <3> HIDE DEF e, p
    <3>2. e \in Controller /\ Waits(e) /\ Answered(c, e)
      BY <1>4, <1>6, <3>1 DEF Waits, Answered
    <3> QED  BY <1>1, <3>2 DEF Answered
  <2> QED  BY <2>2, <2>3
<1> QED  BY <1>5, <1>6, Fields

(* An acknowledge of some of the bits only leaves the interrupt raised.    *)
LEMMA SomeBitsAck ==
    ASSUME NEW c \in Controller, NEW bits, NEW d \in Nat, ~(c.flag \subseteq bits)
    PROVE  LET e == write_ack(c, bits, d)
           IN  /\ e \in Controller /\ (Waits(c) => Waits(e))
               /\ e.flag # {} /\ c.flag # {}
               /\ e.shown = c.shown /\ e.latched = c.latched
               /\ e.hold = c.hold /\ e.istat = c.istat
<1> DEFINE lt == c.latched /\ ~(c.flag # {} /\ c.flag \subseteq bits)
           m == [c EXCEPT !.flag = c.flag \ bits, !.latched = lt]
<1>1. lt = c.latched
  BY Fields
<1>2. c.flag \ bits # {} /\ c.flag \ bits \in IrqFlags /\ c.flag # {}
  BY Fields DEF IrqFlags
<1> HIDE DEF lt
<1>3. /\ m \in Controller /\ m.flag # {}
      /\ m.shown = c.shown /\ m.latched = c.latched
      /\ m.hold = c.hold /\ m.istat = c.istat /\ m.queued = c.queued
      /\ m.pended = c.pended /\ m.reading = c.reading
  BY <1>1, <1>2 DEF Controller
<1>4. write_ack(c, bits, d) = m
  BY <1>3 DEF write_ack, Acknowledged, present_pending_dataready,
              try_execute_queued_command, lt
<1> HIDE DEF m
<1> QED  BY <1>2, <1>3, <1>4 DEF Waits

-----------------------------------------------------------------------------
(* The inductive invariant.                                                *)

(* The latch belongs to a response, and a response that was shown to the   *)
(* interrupt controller keeps the latch until it is acknowledged.          *)
Latches ==
    /\ cd.latched = TRUE => cd.flag # {}
    /\ cd.flag # {} /\ cd.shown = TRUE => cd.latched = TRUE

(* Between the controller acknowledge and the I_STAT acknowledge of a      *)
(* handler, no response has been held for long enough to be presented.     *)
Teardown ==
    isr = "acked" =>
        /\ waited <= HandlerMax
        /\ cd.flag # {} => cd.latched = FALSE /\ cd.hold + waited >= PresentDelay

Unlost == cd.latched = TRUE => cd.istat = TRUE \/ isr \in {"entered", "cleared"}

IndInv == TypeOK /\ Waits(cd) /\ Latches /\ Unlost /\ Teardown

(* The constants that are amounts of cycles.                               *)
LEMMA Ranges ==
    /\ \A d \in Delays : d \in Nat
    /\ \A p \in Periods : p \in Nat
    /\ \A n \in 1..MaxStep : n \in Nat
    /\ PresentDelay \in Nat /\ HandlerMax \in Nat
BY CdromAssumption, SMT

(* The invariant holds at power-on.                                        *)
LEMMA IndInit == Init => IndInv
<1> SUFFICES ASSUME Init PROVE IndInv
  OBVIOUS
<1>1. cd \in Controller
  <2>1. {DriveStat} \in SUBSET Stat /\ {} \in IrqFlags
        /\ IrqFlags \ {{}} \in SUBSET IrqFlags /\ 0 \in 0..PresentDelay
    BY CdromAssumption, SMT DEF DriveStat, Stat, IrqFlags
  <2> QED  BY <2>1 DEF Init, Controller
<1>2. TypeOK
  BY <1>1 DEF Init, TypeOK
<1>3. Waits(cd) /\ Latches /\ Unlost /\ Teardown
  BY DEF Init, Waits, Latches, Unlost, Teardown
<1> QED  BY <1>2, <1>3 DEF IndInv

(* cdrom_advance keeps the invariant.                                      *)
LEMMA AdvanceKeeps ==
    ASSUME IndInv, Advance
    PROVE  IndInv'
<1>1. PICK n \in 1..MaxStep, d \in Delays, p \in Periods,
           data \in BOOLEAN, dma \in BOOLEAN :
        /\ Busy => waited + n <= IF isr = "acked" THEN HandlerMax ELSE Latency
        /\ cd' = cdrom_advance(cd, n, d, p, data, dma)
        /\ waited' = IF Busy THEN waited + n ELSE 0
        /\ isr' = isr
  BY DEF Advance
<1>2. cd \in Controller /\ waited \in Nat /\ Waits(cd)
  BY DEF IndInv, TypeOK
<1>3. n \in Nat /\ d \in Nat /\ p \in Nat
  BY Ranges
<1>4. PICK a \in Controller :
        /\ Older(cd, a, n) \/ Presented(cd, a, n)
        /\ Stage(a, cd') /\ Waits(cd')
  BY <1>1, <1>2, <1>3, Advances
<1>5. TypeOK'
  <2>1. waited' \in Nat
    BY <1>1, <1>2, <1>3, SMT
  <2> QED  BY <1>1, <1>4, <2>1 DEF IndInv, TypeOK, Stage
<1>6. Latches'
  BY <1>4 DEF IndInv, Latches, Stage, Older, Presented, Kept, Answered
<1>7. Unlost'
  BY <1>1, <1>4 DEF IndInv, Unlost, Stage, Older, Presented, Kept, Answered
<1>8. Teardown'
  <2> SUFFICES ASSUME isr = "acked" PROVE Teardown'
    BY <1>1 DEF Teardown
  <2>1. waited' = waited + n /\ waited' <= HandlerMax
    BY <1>1 DEF Busy
  <2>2. cd.hold \in 0..PresentDelay /\ a.hold \in 0..PresentDelay
    BY <1>2, Fields
  <2>3. ASSUME cd.flag # {}
        PROVE  Age(cd.hold, n) + waited' >= PresentDelay /\ Age(cd.hold, n) # 0
    <3>1. cd.hold + waited >= PresentDelay
      BY <2>3 DEF IndInv, Teardown
    <3> QED  BY <1>2, <1>3, <2>1, <2>2, <3>1, Ranges, TeardownAssumption, SMT DEF Age
  <2>4. Older(cd, a, n)
    BY <1>4, <2>3 DEF Presented
  <2>5. CASE Kept(a, cd')
    BY <2>1, <2>3, <2>4, <2>5 DEF Kept, Older, IndInv, Teardown
  <2>6. CASE Answered(a, cd')
    BY <1>2, <1>3, <2>1, <2>6, Ranges, SMT DEF Answered, Teardown
  <2> QED  BY <1>4, <2>5, <2>6 DEF Stage
<1> QED  BY <1>4, <1>5, <1>6, <1>7, <1>8 DEF IndInv

(* A write of the command register keeps it.                               *)
LEMMA CommandKeeps ==
    ASSUME IndInv, NEW cmd \in Cmds, Command(cmd)
    PROVE  IndInv'
<1>1. PICK d \in Delays : cd' = queue_or_exec_command(cd, cmd, d)
  BY DEF Command
<1>2. cd \in Controller /\ waited \in Nat /\ Waits(cd)
  BY DEF IndInv, TypeOK
<1>3. d \in Nat /\ cmd \in AllCmds /\ cmd # None
  BY Ranges, CdromAssumption
<1>4. isr' = isr /\ waited' = waited
  BY DEF Command
<1>5. CASE cd.flag = {}
  <2>1. cd' = exec_command(cd, cmd, d)
    BY <1>1, <1>5 DEF queue_or_exec_command
  <2>2. /\ cd' \in Controller /\ Answered(cd, cd') /\ cd'.queued = cd.queued
        /\ cd'.pended = TRUE => cd.pended = TRUE
        /\ cd'.pended = TRUE /\ cd.reading = TRUE => cd'.reading = TRUE
    BY <1>2, <1>3, <2>1, ExecAnswers
  <2>3. TypeOK' /\ Waits(cd')
    BY <1>2, <1>4, <2>2 DEF IndInv, TypeOK, Waits, Answered
  <2>4. Latches' /\ Unlost'
    BY <2>2 DEF Latches, Unlost, Answered
  <2>5. Teardown'
    BY <1>2, <1>4, <2>2, Ranges, SMT DEF IndInv, Teardown, Answered
  <2> QED  BY <2>3, <2>4, <2>5 DEF IndInv
<1>6. CASE cd.flag # {}
  <2>1. cd' = [cd EXCEPT !.queued = cmd]
    BY <1>1, <1>6 DEF queue_or_exec_command
  <2>2. /\ cd' \in Controller /\ Kept(cd, cd')
        /\ cd'.pended = cd.pended /\ cd'.reading = cd.reading
    BY <1>2, <1>3, <2>1 DEF Controller, Kept
  <2>3. TypeOK' /\ Waits(cd')
    BY <1>2, <1>4, <1>6, <2>2 DEF IndInv, TypeOK, Waits, Kept
  <2>4. Latches' /\ Unlost' /\ Teardown'
    BY <1>4, <2>2 DEF IndInv, Latches, Unlost, Teardown, Kept
  <2> QED  BY <2>3, <2>4 DEF IndInv
<1> QED  BY <1>5, <1>6

(* A write of the interrupt enable register keeps it.                      *)
LEMMA SetEnableKeeps ==
    ASSUME IndInv, NEW mask \in Enables, SetEnable(mask)
    PROVE  IndInv'
<1>1. cd \in Controller /\ mask \in SUBSET IrqFlags
  BY CdromAssumption DEF IndInv, TypeOK
<1>2. /\ cd' \in Controller /\ Kept(cd, cd') /\ cd'.queued = cd.queued
      /\ cd'.pended = cd.pended /\ cd'.reading = cd.reading
  BY <1>1 DEF SetEnable, Controller, Kept
<1>3. isr' = isr /\ waited' = waited
  BY DEF SetEnable
<1>4. TypeOK' /\ Waits(cd')
  BY <1>2, <1>3 DEF IndInv, TypeOK, Waits, Kept
<1>5. Latches' /\ Unlost' /\ Teardown'
  BY <1>2, <1>3 DEF IndInv, Latches, Unlost, Teardown, Kept
<1> QED  BY <1>4, <1>5 DEF IndInv

(* The entry of the guest's handler keeps it.                              *)
LEMMA EnterHandlerKeeps ==
    ASSUME IndInv, EnterHandler
    PROVE  IndInv'
BY DEF IndInv, EnterHandler, TypeOK, Waits, Latches, Unlost, Teardown

(* An acknowledge of some bits keeps it.                                   *)
LEMMA PartialAckKeeps ==
    ASSUME IndInv, PartialAck
    PROVE  IndInv'
<1>1. PICK bits \in SUBSET AllBits, d \in Delays :
        ~(cd.flag \subseteq bits) /\ cd' = write_ack(cd, bits, d)
  BY DEF PartialAck
<1>2. cd \in Controller /\ d \in Nat /\ Waits(cd)
  BY Ranges DEF IndInv, TypeOK
<1>3. /\ cd' \in Controller /\ Waits(cd') /\ cd'.flag # {} /\ cd.flag # {}
      /\ cd'.shown = cd.shown /\ cd'.latched = cd.latched
      /\ cd'.hold = cd.hold /\ cd'.istat = cd.istat
  BY <1>1, <1>2, SomeBitsAck, SMT
<1>4. isr = "entered" /\ isr' = isr /\ waited' = waited
  BY DEF PartialAck
<1>5. TypeOK' /\ Latches' /\ Unlost' /\ Teardown'
  BY <1>3, <1>4 DEF IndInv, TypeOK, Latches, Unlost, Teardown
<1> QED  BY <1>3, <1>5 DEF IndInv

(* Both acknowledges of everything, by the handler and by a polling guest. *)
LEMMA FullAck ==
    ASSUME IndInv, NEW d \in Delays, cd' = write_ack(cd, AllBits, d)
    PROVE  /\ cd' \in Controller /\ Waits(cd')
           /\ cd'.latched = FALSE /\ cd'.istat = cd.istat
           /\ cd'.flag # {} => cd'.shown = FALSE /\ cd'.hold = PresentDelay
<1>1. cd \in Controller /\ d \in Nat /\ Waits(cd)
  BY Ranges DEF IndInv, TypeOK
<1>2. cd.flag \subseteq AllBits
  BY <1>1, Fields DEF IrqFlags
<1>3. cd.latched = TRUE => cd.flag # {}
  BY DEF IndInv, Latches
<1> QED  BY <1>1, <1>2, <1>3, WholeAck DEF Answered

(* The handler's acknowledge of the controller keeps it.                   *)
LEMMA AckControllerKeeps ==
    ASSUME IndInv, AckController
    PROVE  IndInv'
<1>1. /\ cd' \in Controller /\ Waits(cd')
      /\ cd'.latched = FALSE /\ cd'.istat = cd.istat
      /\ cd'.flag # {} => cd'.shown = FALSE /\ cd'.hold = PresentDelay
  BY FullAck DEF AckController
<1>2. waited' = 0 /\ isr' \in {"acked", "out"}
  BY DEF AckController
<1>3. TypeOK' /\ Latches' /\ Unlost'
  BY <1>1, <1>2 DEF TypeOK, Latches, Unlost
<1>4. Teardown'
  BY <1>1, <1>2, Ranges, SMT DEF Teardown
<1> QED  BY <1>1, <1>3, <1>4 DEF IndInv

(* An acknowledge by a polling guest keeps it.                             *)
LEMMA PollAckKeeps ==
    ASSUME IndInv, PollAck
    PROVE  IndInv'
<1>1. /\ cd' \in Controller /\ Waits(cd')
      /\ cd'.latched = FALSE /\ cd'.istat = cd.istat
      /\ cd'.flag # {} => cd'.shown = FALSE /\ cd'.hold = PresentDelay
  BY FullAck DEF PollAck
<1>2. isr = "out" /\ waited' = waited /\ isr' = isr
  BY DEF PollAck
<1>3. TypeOK' /\ Latches' /\ Unlost' /\ Teardown'
  BY <1>1, <1>2 DEF IndInv, TypeOK, Latches, Unlost, Teardown
<1> QED  BY <1>1, <1>3 DEF IndInv

(* The handler's acknowledge of I_STAT keeps it.                           *)
LEMMA AckIstatKeeps ==
    ASSUME IndInv, AckIstat
    PROVE  IndInv'
<1>1. cd \in Controller /\ cd' = [cd EXCEPT !.istat = FALSE]
  BY DEF IndInv, TypeOK, AckIstat
<1>2. /\ cd' \in Controller /\ cd'.flag = cd.flag /\ cd'.shown = cd.shown
      /\ cd'.latched = cd.latched /\ cd'.queued = cd.queued
      /\ cd'.pended = cd.pended /\ cd'.reading = cd.reading
  BY <1>1 DEF Controller
<1>3. /\ isr \in {"entered", "acked"}
      /\ isr' = IF isr = "entered" THEN "cleared" ELSE "out"
      /\ waited' = IF isr = "entered" THEN waited ELSE 0
  BY DEF AckIstat
<1>4. TypeOK' /\ Waits(cd')
  BY <1>2, <1>3 DEF IndInv, TypeOK, Waits
<1>5. Latches' /\ Teardown'
  BY <1>2, <1>3 DEF IndInv, Latches, Teardown
<1>6. Unlost'
  BY <1>2, <1>3 DEF IndInv, Latches, Teardown, Unlost
<1> QED  BY <1>4, <1>5, <1>6 DEF IndInv

(* Every step keeps the invariant.                                         *)
LEMMA IndStep == IndInv /\ [Next]_vars => IndInv'
<1> SUFFICES ASSUME IndInv, [Next]_vars PROVE IndInv'
  OBVIOUS
<1>1. CASE UNCHANGED vars
  BY <1>1 DEF vars, IndInv, TypeOK, Waits, Latches, Unlost, Teardown
<1>2. CASE Next
  BY <1>2, AdvanceKeeps, CommandKeeps, SetEnableKeeps, EnterHandlerKeeps,
     PartialAckKeeps, AckControllerKeeps, AckIstatKeeps, PollAckKeeps DEF Next
<1> QED  BY <1>1, <1>2

(* The invariant holds for every controller and every driver of the model. *)
THEOREM Inductive == Spec => []IndInv
BY IndInit, IndStep, PTL DEF Spec

-----------------------------------------------------------------------------
(* The controller's fields keep their ranges.                              *)
THEOREM TypeCorrect == Spec => []TypeOK
<1>1. IndInv => TypeOK
  BY DEF IndInv
<1> QED  BY <1>1, Inductive, PTL

(* No handler shorter than CDROM_IRQ_PRESENT_DELAY acknowledges away the   *)
(* I_STAT bit of a response it has not seen (set_irq's delay is enough).   *)
THEOREM InterruptNeverLost == Spec => []NoLostInterrupt
<1>1. IndInv => NoLostInterrupt
  <2> SUFFICES ASSUME IndInv, cd.latched
               PROVE  cd.istat \/ isr \in {"entered", "cleared"}
    BY DEF NoLostInterrupt
  <2>1. cd \in Controller
    BY DEF IndInv, TypeOK
  <2>2. cd.latched = TRUE
    BY <2>1, Fields
  <2> QED  BY <2>2 DEF IndInv, Unlost
<1> QED  BY <1>1, Inductive, PTL

(* A queued command and a pended INT1 always have a response before them,  *)
(* whose acknowledge lets them go, and no INT1 is left of a halted read.   *)
THEOREM NothingIsStranded == Spec => []NothingStranded
<1>1. IndInv => NothingStranded
  <2> SUFFICES ASSUME IndInv PROVE NothingStranded
    OBVIOUS
  <2>1. cd \in Controller /\ Waits(cd)
    BY DEF IndInv, TypeOK
  <2>2. cd.pended \in BOOLEAN /\ cd.reading \in BOOLEAN
    BY <2>1, Fields
  <2> QED  BY <2>1, <2>2 DEF NothingStranded, Waits
<1> QED  BY <1>1, Inductive, PTL

(* cdrom_cycles_to_irq is an under-estimate in every reachable state.      *)
THEOREM SlicesStopShort == Spec => []SliceStopsShort
<1>1. TypeOK => SliceStopsShort
  <2> SUFFICES ASSUME TypeOK,
                      NEW n \in 1..MaxStep, NEW d \in Delays, NEW p \in Periods,
                      NEW data \in BOOLEAN, NEW dma \in BOOLEAN,
                      \A k \in Countdowns(cd) : n < k
               PROVE  cdrom_advance(cd, n, d, p, data, dma).istat = cd.istat
    BY DEF SliceStopsShort
  <2>1. cd \in Controller /\ n \in Nat /\ d \in Nat /\ p \in Nat
    BY Ranges DEF TypeOK
  <2> DEFINE e == cdrom_advance(cd, n, d, p, data, dma)
  <2>2. PICK a \in Controller :
          /\ Older(cd, a, n) \/ Presented(cd, a, n)
          /\ Stage(a, e)
    BY <2>1, Advances
  <2> HIDE DEF e
  <2>3. ASSUME cd.flag # {}, cd.flag \in cd.enable
        PROVE  Age(cd.hold, n) # 0
    <3>1. cd.hold \in Countdowns(cd)
      BY <2>3 DEF Countdowns
    <3>2. cd.hold \in Nat /\ n < cd.hold
      BY <2>1, <3>1, Fields, Ranges, SMT
    <3> QED  BY ONLY <2>1, <3>2, SMT DEF Age
  <2>4. Older(cd, a, n)
    BY <2>2, <2>3 DEF Presented
  <2>5. e.istat = cd.istat
    BY <2>2, <2>4 DEF Stage, Kept, Answered, Older
  <2> QED  BY <2>5 DEF e
<1> QED  BY <1>1, TypeCorrect, PTL

(* Each response reaches the interrupt controller at most once, whatever   *)
(* acknowledges, partial ones included, the guest writes.                  *)
THEOREM PresentedOnlyOnce == Spec => PresentedOnce
<1> DEFINE Once == cd'.latched /\ ~cd.latched => ~cd.shown
<1>1. IndInv /\ IndInv' /\ [Next]_vars => [Once]_vars
  <2> SUFFICES ASSUME IndInv, IndInv', Next, cd'.latched, ~cd.latched
               PROVE  ~cd.shown
    OBVIOUS
  <2>1. cd \in Controller /\ cd' \in Controller
    BY DEF IndInv, TypeOK
  <2>2. cd'.latched = TRUE /\ cd.latched = FALSE
    BY <2>1, Fields
  <2>3. CASE Advance
    <3>1. PICK n \in 1..MaxStep, d \in Delays, p \in Periods,
               data \in BOOLEAN, dma \in BOOLEAN :
            cd' = cdrom_advance(cd, n, d, p, data, dma)
      BY <2>3 DEF Advance
    <3>2. n \in Nat /\ d \in Nat /\ p \in Nat
      BY Ranges
    <3>3. PICK a \in Controller :
            /\ Older(cd, a, n) \/ Presented(cd, a, n)
            /\ Stage(a, cd')
      BY <2>1, <3>1, <3>2, Advances
    <3>4. cd.flag # {}
      BY <2>2, <3>3 DEF Stage, Kept, Answered, Older, Presented
    <3>5. cd.shown # TRUE
      BY <2>2, <3>4 DEF IndInv, Latches
    <3> QED  BY <3>5, <2>1, Fields
  <2>4. ASSUME NEW cmd \in Cmds, Command(cmd) PROVE FALSE
    <3>1. PICK d \in Delays : cd' = queue_or_exec_command(cd, cmd, d)
      BY <2>4 DEF Command
    <3>2. cmd \in AllCmds /\ d \in Nat
      BY CdromAssumption, Ranges
    <3>3. CASE cd.flag = {}
      BY <2>1, <2>2, <3>1, <3>2, <3>3, ExecAnswers
         DEF queue_or_exec_command, Answered
    <3>4. CASE cd.flag # {}
      BY <2>1, <2>2, <3>1, <3>4 DEF queue_or_exec_command, Controller
    <3> QED  BY <3>3, <3>4
  <2>5. ASSUME NEW mask \in Enables, SetEnable(mask) PROVE FALSE
    BY <2>1, <2>2, <2>5 DEF SetEnable, Controller
  <2>6. ASSUME EnterHandler PROVE FALSE
    BY <2>2, <2>6 DEF EnterHandler
  <2>7. ASSUME PartialAck PROVE FALSE
    BY <2>1, <2>2, <2>7, SomeBitsAck, Ranges, SMT DEF PartialAck
  <2>8. ASSUME AckController \/ PollAck PROVE FALSE
    BY <2>2, <2>8, FullAck DEF AckController, PollAck
  <2>9. ASSUME AckIstat PROVE FALSE
    BY <2>1, <2>2, <2>9 DEF AckIstat, Controller
  <2> QED  BY <2>3, <2>4, <2>5, <2>6, <2>7, <2>8, <2>9 DEF Next
<1> QED  BY <1>1, Inductive, PTL DEF Spec, PresentedOnce

(* Only an acknowledge takes an unacknowledged response off the register:  *)
(* sectors, second responses and commands never overwrite it.              *)
THEOREM ResponsesAreKept == Spec => ResponseKept
<1> DEFINE Keeping == cd.flag # {} /\ (cd'.flag # cd.flag \/ (cd.shown /\ ~cd'.shown))
                         => AckController \/ PollAck \/ PartialAck
<1>1. IndInv /\ IndInv' /\ [Next]_vars => [Keeping]_vars
  <2> SUFFICES ASSUME IndInv, IndInv', Next, cd.flag # {},
                      ~(AckController \/ PollAck \/ PartialAck)
               PROVE  cd'.flag = cd.flag /\ (cd'.shown = cd.shown \/ cd'.shown = TRUE)
    BY Zenon
  <2>1. cd \in Controller
    BY DEF IndInv, TypeOK
  <2>2. CASE Advance
    <3>1. PICK n \in 1..MaxStep, d \in Delays, p \in Periods,
               data \in BOOLEAN, dma \in BOOLEAN :
            cd' = cdrom_advance(cd, n, d, p, data, dma)
      BY <2>2 DEF Advance
    <3>2. n \in Nat /\ d \in Nat /\ p \in Nat
      BY Ranges
    <3>3. PICK a \in Controller :
            /\ Older(cd, a, n) \/ Presented(cd, a, n)
            /\ Stage(a, cd')
      BY <2>1, <3>1, <3>2, Advances
    <3> QED  BY <3>3 DEF Stage, Kept, Answered, Older, Presented
  <2>3. ASSUME NEW cmd \in Cmds, Command(cmd)
        PROVE  cd'.flag = cd.flag /\ cd'.shown = cd.shown
    BY <2>1, <2>3 DEF Command, queue_or_exec_command, Controller
  <2>4. ASSUME NEW mask \in Enables, SetEnable(mask)
        PROVE  cd'.flag = cd.flag /\ cd'.shown = cd.shown
    BY <2>1, <2>4 DEF SetEnable, Controller
  <2>5. CASE EnterHandler
    BY <2>5 DEF EnterHandler
  <2>6. CASE AckIstat
    BY <2>1, <2>6 DEF AckIstat, Controller
  <2> QED  BY <2>2, <2>3, <2>4, <2>5, <2>6 DEF Next
<1> QED  BY <1>1, Inductive, PTL DEF Spec, ResponseKept
=============================================================================
