-------------------------------- MODULE Dma --------------------------------
(***************************************************************************)
(* The seven DMA channels of runtime/src/dma.c: the CHCR/DPCR/DICR         *)
(* registers the guest programs, the three ways a transfer is carried out  *)
(* (word by word with the device for MDEC and CD-ROM, payload at once and  *)
(* a delayed completion for GPU and SPU, everything at once for OTC), and  *)
(* the edge on DICR's master flag that latches I_STAT bit 3.               *)
(*                                                                         *)
(* A channel's MADR and the words themselves are left out: no control      *)
(* depends on them.  BCR is read only when a transfer is kicked, so it is  *)
(* a parameter of the kick.                                                *)
(***************************************************************************)
EXTENDS Integers, FiniteSets

CONSTANTS
    Channels,      \* the channels of the instance, a subset of 0..6 without 5
    PerWord,       \* guest cycles per word, DMA_*_CYCLES_PER_WORD
    Masks,         \* channel sets the guest writes to DPCR and DICR
    Bcr,           \* word counts the guest programs; 0 is the wrapped count
    WrapWords,     \* what a count of 0 stands for (0x10000)
    SectorWords,   \* the words of a CD sector, for a CD count of 0
    MaxStep,       \* largest number of cycles one dma_advance is given
    MaxAvail,      \* words a device offers or accepts before it stalls
    MaxWrites,     \* bound on register writes by the guest
    Rekick         \* may the guest start a channel that is still busy?

ASSUME DmaAssumption ==
    /\ Channels \subseteq {0, 1, 2, 3, 4, 6}
    /\ PerWord \in [Channels -> Nat \ {0}]
    /\ Masks \subseteq SUBSET Channels
    /\ Bcr \subseteq Nat
    /\ WrapWords \in Nat \ {0} /\ SectorWords \in Nat
    /\ MaxStep \in Nat /\ MaxAvail \in Nat /\ MaxWrites \in Nat
    /\ Rekick \in BOOLEAN

VARIABLES
    chcr,      \* per channel: start/busy (bit 24) and direction (bit 0)
    dpcr,      \* the channels enabled in DPCR
    dicr,      \* bus-error bit 15, master enable, channel enables, flags
    left,      \* remaining_words of mdec_async / cdrom_async, 0 when inactive
    accum,     \* their cycles_accum
    delay,     \* delayed_complete[].cycles_remaining, 0 when inactive
    istat3,    \* I_STAT bit 3
    avail,     \* words the MDEC or the drive can take or give right now
    writes     \* guest register writes so far

jobs == <<left, accum, delay>>
vars == <<chcr, dpcr, dicr, left, accum, delay, istat3, avail, writes>>

Async   == Channels \cap {0, 1, 3}
Delayed == Channels \cap {2, 4}

Chcr == [busy : BOOLEAN, dir : {0, 1}]
Dicr == [force : BOOLEAN, master : BOOLEAN,
         enable : SUBSET Channels, flags : SUBSET Channels]

Init ==
    /\ chcr  = [ch \in Channels |-> [busy |-> FALSE, dir |-> 0]]
    /\ dpcr  = {}
    /\ dicr  = [force |-> FALSE, master |-> FALSE, enable |-> {}, flags |-> {}]
    /\ left  = [ch \in Channels |-> 0]
    /\ accum = [ch \in Channels |-> 0]
    /\ delay = [ch \in Channels |-> 0]
    /\ istat3 = FALSE
    /\ avail = [ch \in Channels |-> 0]
    /\ writes = 0

-----------------------------------------------------------------------------
(* Completion and the interrupt edge.                                      *)

MasterFlag(d) == d.force \/ (d.master /\ d.flags # {})

Armed(d, ch) == ch \in d.enable /\ d.master

BugRaiseOnEdge(before, after) == istat3' = (istat3 \/ MasterFlag(after))

(* raise_dma_irq_on_master_edge, with dicr already holding the new value.  *)
RaiseOnEdge(before, after) ==
    istat3' = (istat3 \/ (~MasterFlag(before) /\ MasterFlag(after)))

(* complete_transfer for a set of channels: the busy bit goes and the flag *)
(* of an armed channel is latched.                                         *)
Flagged(done) ==
    [dicr EXCEPT !.flags = @ \cup {ch \in done : Armed(dicr, ch)}]

CompleteTransfers(done) ==
    /\ dicr' = Flagged(done)
    /\ RaiseOnEdge(dicr, Flagged(done))

NotBusy(c, done) ==
    [ch \in Channels |-> IF ch \in done THEN [c[ch] EXCEPT !.busy = FALSE] ELSE c[ch]]

-----------------------------------------------------------------------------
(* dma_advance.                                                            *)

WrongWay(ch) ==
    \/ ch = 0 /\ chcr[ch].dir = 0
    \/ ch = 1 /\ chcr[ch].dir = 1

(* The channel's transfer is stepped: active, busy, enabled and, for the   *)
(* drive, towards RAM.                                                     *)
Stepped(ch) ==
    /\ ch \in Async /\ left[ch] > 0
    /\ chcr[ch].busy /\ ch \in dpcr
    /\ ch = 3 => chcr[ch].dir = 0

Least(a, b) == IF a <= b THEN a ELSE b

Transferring(ch) == Stepped(ch) /\ ~WrongWay(ch) /\ avail[ch] > 0

(* Words moved: the cycle budget, the words left, the device's readiness.  *)
Moved(ch, n) ==
    IF Transferring(ch)
    THEN Least((accum[ch] + n) \div PerWord[ch], Least(left[ch], avail[ch]))
    ELSE 0

AsyncDone(n) ==
    {ch \in Async : Stepped(ch) /\ (WrongWay(ch) \/ Moved(ch, n) = left[ch])}

(* Cycles kept for the next word; none accrue while the device stalls.     *)
Unspent(ch, n) ==
    IF Transferring(ch) THEN accum[ch] + n - Moved(ch, n) * PerWord[ch]
    ELSE accum[ch]

BugDelayDone(n) == {ch \in Delayed : delay[ch] > 0 /\ n > delay[ch]}

DelayDone(n) == {ch \in Delayed : delay[ch] > 0 /\ n >= delay[ch]}

Finished(n) == AsyncDone(n) \cup DelayDone(n)

dma_advance(n) ==
    /\ chcr' = NotBusy(chcr, Finished(n))
    /\ left' = [ch \in Channels |->
                  IF ch \in Finished(n) THEN 0 ELSE left[ch] - Moved(ch, n)]
    /\ accum' = [ch \in Channels |->
                   IF ch \in Finished(n) THEN 0 ELSE Unspent(ch, n)]
    /\ delay' = [ch \in Channels |->
                   IF delay[ch] > n THEN delay[ch] - n ELSE 0]
    /\ avail' = [ch \in Channels |-> avail[ch] - Moved(ch, n)]
    /\ CompleteTransfers(Finished(n))
    /\ UNCHANGED <<dpcr, writes>>

Advance == \E n \in 1..MaxStep : dma_advance(n)

-----------------------------------------------------------------------------
(* Guest register writes.                                                  *)

GuestWrite == writes < MaxWrites /\ writes' = writes + 1

WriteDpcr ==
    /\ GuestWrite
    /\ \E enabled \in Masks : dpcr' = enabled
    /\ UNCHANGED <<chcr, dicr, jobs, istat3, avail>>

(* Control bits are stored, flags written with 1 are acknowledged, and the *)
(* master flag may rise.                                                   *)
WriteDicr ==
    /\ GuestWrite
    /\ \E force, master \in BOOLEAN, enable, ack \in Masks :
          dicr' = [force |-> force, master |-> master, enable |-> enable,
                   flags |-> dicr.flags \ ack]
    /\ RaiseOnEdge(dicr, dicr')
    /\ UNCHANGED <<chcr, dpcr, jobs, avail>>

AckIrq ==
    /\ GuestWrite /\ istat3
    /\ istat3' = FALSE
    /\ UNCHANGED <<chcr, dpcr, dicr, jobs, avail>>

transfer_word_count(ch, bcr) ==
    IF bcr = 0 THEN IF ch = 3 THEN SectorWords ELSE WrapWords ELSE bcr

(* execute_ch2_gpu: words moved in block, linked-list and burst mode.  A   *)
(* block count of 0 moves nothing, a list has at least its header, and     *)
(* only block mode reads VRAM back.                                        *)
GpuWords(dir, bcr) ==
    {bcr} \cup (IF dir = 0 THEN {0}
                ELSE {transfer_word_count(2, bcr)} \cup (Bcr \ {0}))

(* execute_ch4_spu moves the programmed count either way.                  *)
Payload(ch, dir, bcr) ==
    IF ch = 2 THEN GpuWords(dir, bcr) ELSE {transfer_word_count(ch, bcr)}

(* CHCR is stored and the channel is now idle, at once.                    *)
Stored(ch, busy, dir) == [chcr EXCEPT ![ch] = [busy |-> busy, dir |-> dir]]

(* Start bit clear: cancel_async_transfer.                                 *)
StopChannel(ch, dir) ==
    /\ GuestWrite
    /\ chcr'  = Stored(ch, FALSE, dir)
    /\ left'  = [left EXCEPT ![ch] = 0]
    /\ accum' = [accum EXCEPT ![ch] = 0]
    /\ delay' = [delay EXCEPT ![ch] = 0]
    /\ UNCHANGED <<dpcr, dicr, istat3, avail>>

(* Start bit set on a channel DPCR does not enable: stored, nothing runs.  *)
StartDisabled(ch, dir) ==
    /\ GuestWrite /\ ch \notin dpcr
    /\ chcr' = Stored(ch, TRUE, dir)
    /\ UNCHANGED <<dpcr, dicr, jobs, istat3, avail>>

BugStartAsync(ch, dir, bcr) ==
    /\ GuestWrite /\ ch \in dpcr /\ ch \in Async
    /\ ch = 3 => dir = 0
    /\ chcr'  = Stored(ch, TRUE, dir)
    /\ left'  = [left EXCEPT ![ch] = bcr]
    /\ accum' = [accum EXCEPT ![ch] = 0]
    /\ UNCHANGED <<dicr, istat3, dpcr, delay, avail>>

(* start_async_mdec_transfer and start_async_cdrom_transfer do nothing     *)
(* when a transfer is active, and a drive transfer of no words is over.    *)
StartAsync(ch, dir, bcr) ==
    /\ GuestWrite /\ ch \in dpcr /\ ch \in Async
    /\ ch = 3 => dir = 0
    /\ LET words == transfer_word_count(ch, bcr)
           empty == left[ch] = 0 /\ words = 0
       IN  /\ chcr'  = Stored(ch, ~empty, dir)
           /\ left'  = IF left[ch] > 0 THEN left ELSE [left EXCEPT ![ch] = words]
           /\ accum' = IF left[ch] > 0 THEN accum ELSE [accum EXCEPT ![ch] = 0]
           /\ CompleteTransfers(IF empty THEN {ch} ELSE {})
    /\ UNCHANGED <<dpcr, delay, avail>>

(* execute_ch3_cdrom towards the drive: busy is dropped and nothing else.  *)
StartCdromWrite(ch) ==
    /\ GuestWrite /\ ch \in dpcr /\ ch = 3
    /\ chcr' = Stored(ch, FALSE, 1)
    /\ UNCHANGED <<dpcr, dicr, jobs, istat3, avail>>

(* GPU and SPU: the payload has moved, schedule_delayed_complete.          *)
StartDelayed(ch, dir, bcr) ==
    /\ GuestWrite /\ ch \in dpcr /\ ch \in Delayed
    /\ \E words \in Payload(ch, dir, bcr) :
          /\ chcr'  = Stored(ch, words # 0, dir)
          /\ delay' = IF words = 0 THEN delay
                      ELSE [delay EXCEPT ![ch] = words * PerWord[ch]]
          /\ CompleteTransfers(IF words = 0 THEN {ch} ELSE {})
    /\ UNCHANGED <<dpcr, left, accum, avail>>

StartOtc(ch, dir) ==
    /\ GuestWrite /\ ch \in dpcr /\ ch = 6
    /\ chcr' = Stored(ch, FALSE, dir)
    /\ CompleteTransfers({ch})
    /\ UNCHANGED <<dpcr, jobs, avail>>

(* A narrow CHCR store that leaves bit 24 alone starts and stops nothing.  *)
WriteDirection(ch, dir) ==
    /\ GuestWrite
    /\ chcr' = [chcr EXCEPT ![ch].dir = dir]
    /\ UNCHANGED <<dpcr, dicr, jobs, istat3, avail>>

Start(ch, dir, bcr) ==
    \/ StartAsync(ch, dir, bcr)
    \/ StartDelayed(ch, dir, bcr)
    \/ dir = 1 /\ StartCdromWrite(ch)
    \/ StartOtc(ch, dir)

Kick == \E ch \in Channels, dir \in {0, 1}, bcr \in Bcr :
    (Rekick \/ ~chcr[ch].busy) /\ Start(ch, dir, bcr)

WriteChcr == \E ch \in Channels, dir \in {0, 1} :
    \/ StopChannel(ch, dir)
    \/ StartDisabled(ch, dir)
    \/ WriteDirection(ch, dir)

-----------------------------------------------------------------------------
(* The device side of an asynchronous channel.  A stalled MDEC or drive    *)
(* may offer words again: the MDEC when the other channel, or the guest,   *)
(* has fed or drained it (mdec_dma_read_ready, mdec_dma_write_ready), the  *)
(* drive when a sector is there and the guest has set BFRD.  A guest that  *)
(* resets the device takes the words away.                                 *)

DeviceReady(ch) ==
    /\ avail[ch] = 0
    /\ \E k \in 1..MaxAvail : avail' = [avail EXCEPT ![ch] = k]
    /\ UNCHANGED <<chcr, dpcr, dicr, jobs, istat3, writes>>

DeviceReset(ch) ==
    /\ GuestWrite /\ avail[ch] > 0
    /\ avail' = [avail EXCEPT ![ch] = 0]
    /\ UNCHANGED <<chcr, dpcr, dicr, jobs, istat3>>

Device == \E ch \in Async : DeviceReady(ch) \/ DeviceReset(ch)

Next == Advance \/ WriteDpcr \/ WriteDicr \/ AckIrq \/ Kick \/ WriteChcr \/ Device

Spec == Init /\ [][Next]_vars

(* Guest cycles always pass; nothing is assumed of the guest, nor of the   *)
(* devices, whose readiness depends on it.                                 *)
FairSpec == Spec /\ WF_vars(Advance)

-----------------------------------------------------------------------------
(* The distance the cycle slicer is told (all interrupts unmasked).        *)

BugWordsFloor(ch) == left[ch] * PerWord[ch]

WordsFloor(ch) == IF left[ch] > accum[ch] THEN left[ch] - accum[ch] ELSE 0

Distances(chs) ==
    {WordsFloor(ch) : ch \in {c \in chs \cap Async : left[c] > 0}}
    \cup {delay[ch] : ch \in {c \in chs : delay[c] > 0}}

(* n cycles stay short of the distance reported for chs; no distance at    *)
(* all is UINT32_MAX.                                                      *)
ShortOf(n, chs) == \A d \in Distances(chs) : n < d

dma_cycles_to_irq(n) == ShortOf(n, Channels)

dma_cycles_to_deliverable_irq(n) == ShortOf(n, {ch \in Channels : Armed(dicr, ch)})

-----------------------------------------------------------------------------
HasJob(ch) == left[ch] > 0 \/ delay[ch] > 0

RegisterType ==
    /\ chcr \in [Channels -> Chcr]
    /\ dpcr \in SUBSET Channels
    /\ dicr \in Dicr
    /\ istat3 \in BOOLEAN

JobType ==
    /\ left  \in [Channels -> Nat]
    /\ accum \in [Channels -> Nat]
    /\ delay \in [Channels -> Nat]
    /\ \A ch \in Channels \ Async : left[ch] = 0
    /\ \A ch \in Channels \ Delayed : delay[ch] = 0

DeviceType == avail \in [Channels -> Nat] /\ writes \in 0..MaxWrites

(* Every register, job and latch has its type, and a job is of the kind its *)
(* channel runs.                                                            *)
TypeOK == RegisterType /\ JobType /\ DeviceType

(* I_STAT bit 3 is latched on the rise of DICR's master flag and on nothing *)
(* else: no rise is missed, whoever causes it (a completion, a register     *)
(* write), and a pending flag never latches it again after the guest has    *)
(* acknowledged it (raise_dma_irq_on_master_edge).                          *)
IrqOnMasterEdge ==
    [][ /\ ~MasterFlag(dicr) /\ MasterFlag(dicr') => istat3'
        /\ istat3' /\ ~istat3 => ~MasterFlag(dicr) /\ MasterFlag(dicr') ]_vars

(* A guest that never starts a busy channel finds no leftover transfer on   *)
(* an idle one: whenever the busy bit is clear no engine still holds words  *)
(* or a pending completion for the channel (cancel_async_transfer and       *)
(* complete_transfer are paired on every path).                             *)
IdleHasNoJob == \A ch \in Channels : HasJob(ch) => chcr[ch].busy

(* For such a guest a kick is for the count just programmed: an MDEC or     *)
(* drive transfer never resumes the words of an earlier one                 *)
(* (start_async_mdec_transfer returns early when it finds one active).      *)
KickIsFresh ==
    [][\A ch \in Async, dir \in {0, 1}, bcr \in Bcr :
          ~chcr[ch].busy /\ StartAsync(ch, dir, bcr) =>
              left'[ch] = transfer_word_count(ch, bcr)]_vars

(* Cycle slicing never runs past a completion: an advance shorter than the  *)
(* distance reported completes nothing, and one shorter than the distance   *)
(* to a deliverable interrupt completes no armed channel, MDEC transfers    *)
(* programmed the wrong way round excepted.                                 *)
SliceStopsInTime ==
    \A n \in 1..MaxStep : \A ch \in Finished(n) :
        \/ WrongWay(ch)
        \/ /\ ~dma_cycles_to_irq(n)
           /\ Armed(dicr, ch) => ~dma_cycles_to_deliverable_irq(n)

(* The distance "always <= the true remaining": the statement of the        *)
(* comment on dma_cycles_to_irq, without the exception.                     *)
AlwaysUnderEstimate ==
    \A n \in 1..MaxStep : dma_cycles_to_irq(n) => Finished(n) = {}

(* "Transfer starts when bit 24 (start/busy) is set AND channel is enabled  *)
(* in DPCR": a busy, enabled channel has its transfer under way.            *)
StartsWhenEnabled ==
    \A ch \in Channels : chcr[ch].busy /\ ch \in dpcr => HasJob(ch)

(* "bit31 = bit15 OR (bit23 AND ((bits16-22 AND bits24-30) != 0))".         *)
MasterFlagFormula ==
    MasterFlag(dicr) <=>
        (dicr.force \/ (dicr.master /\ dicr.enable \cap dicr.flags # {}))

(* A transfer under way on a channel that stays enabled ends: the channel   *)
(* becomes idle, whatever the other channels do, unless the guest disables  *)
(* it or turns a drive transfer around.  A word-by-word transfer needs its  *)
(* device ready again and again, however briefly (advance_mdec_channel      *)
(* keeps its words and cycles over a stall); a delayed completion and a     *)
(* transfer programmed the wrong way round need no device.                  *)
TransferFinishes ==
    \A ch \in Async \cup Delayed :
        (ch \in Delayed \/ []<>(avail[ch] > 0 \/ WrongWay(ch))) =>
            (HasJob(ch) /\ chcr[ch].busy
                ~> (~chcr[ch].busy \/ ch \notin dpcr \/ (ch = 3 /\ chcr[ch].dir = 1)))
=============================================================================
