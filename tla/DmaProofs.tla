----------------------------- MODULE DmaProofs -----------------------------
(***************************************************************************)
(* Theorems about the DMA channels, for every set of channels, every cost  *)
(* per word, every word count and any number of guest writes.              *)
(***************************************************************************)
EXTENDS Dma, TLAPS

(* Leaves are Zenon's; one that needs arithmetic, records or sequences     *)
(* names SMT.                                                              *)
USE Zenon

(* Dividing by a positive cost per word never yields more words than        *)
(* cycles: the 1-cycle-per-word floor of the distance estimate.             *)
LEMMA DivBound ==
    ASSUME NEW a \in Nat, NEW p \in Nat \ {0}
    PROVE  a \div p \in Nat /\ (a \div p) * p <= a /\ a \div p <= a
<1> DEFINE q == a \div p
<1>1. q \in Int /\ a = p * q + (a % p) /\ a % p \in 0..(p - 1)
  BY SMT
<1>2. q >= 0
  <2> SUFFICES ASSUME q <= -1 PROVE FALSE
    BY <1>1, SMT
  <2>1. p * q <= -p
    BY <1>1, SMT
  <2> QED
    BY <1>1, <2>1, SMT
<1>3. q * p = p * q /\ q * p <= a
  BY <1>1, SMT
<1>4. q <= q * p
  BY <1>1, <1>2, SMT
<1> QED
  BY <1>1, <1>2, <1>3, <1>4, SMT

(* Multiplying is monotone: fewer words cost fewer cycles.                  *)
LEMMA MulMono ==
    ASSUME NEW x \in Nat, NEW y \in Nat, NEW p \in Nat, x <= y
    PROVE  x * p \in Nat /\ x * p <= y * p
BY SMT

(* The words one advance moves are words the transfer, the device and the   *)
(* cycle budget all have (the while loop of advance_mdec_channel).          *)
LEMMA MovedBounds ==
    ASSUME TypeOK, NEW ch \in Channels, NEW n \in Nat
    PROVE  /\ Moved(ch, n) \in Nat
           /\ Moved(ch, n) <= left[ch]
           /\ Moved(ch, n) <= avail[ch]
           /\ Transferring(ch) => /\ Moved(ch, n) * PerWord[ch] \in Nat
                                  /\ Moved(ch, n) * PerWord[ch] <= accum[ch] + n
                                  /\ Moved(ch, n) <= accum[ch] + n
<1>1. left[ch] \in Nat /\ avail[ch] \in Nat /\ accum[ch] \in Nat
  BY DEF TypeOK, RegisterType, JobType, DeviceType
<1>2. PerWord[ch] \in Nat \ {0}
  BY DmaAssumption DEF DmaAssumption
<1> DEFINE a == accum[ch] + n
           q == a \div PerWord[ch]
<1>3. a \in Nat
  BY <1>1, SMT
<1>4. q \in Nat /\ q * PerWord[ch] <= a /\ q <= a
  BY <1>2, <1>3, DivBound
<1>5. CASE Transferring(ch)
  <2>1. Moved(ch, n) = Least(q, Least(left[ch], avail[ch]))
    BY <1>5 DEF Moved
  <2> HIDE DEF q
  <2>2. Moved(ch, n) \in Nat /\ Moved(ch, n) <= q
        /\ Moved(ch, n) <= left[ch] /\ Moved(ch, n) <= avail[ch]
    BY <1>1, <1>4, <2>1, SMT DEF Least
  <2>3. Moved(ch, n) * PerWord[ch] \in Nat /\ Moved(ch, n) * PerWord[ch] <= q * PerWord[ch]
    BY <1>2, <1>4, <2>2, MulMono
  <2>4. q * PerWord[ch] \in Nat
    BY <1>2, <1>4, SMT
  <2> HIDE DEF a
  <2> QED
    BY ONLY <1>3, <1>4, <2>2, <2>3, <2>4, SMT DEF a
<1>6. CASE ~Transferring(ch)
  BY <1>1, <1>6, SMT DEF Moved
<1> QED
  BY <1>5, <1>6

-----------------------------------------------------------------------------
(* Cycle slicing never runs past a completion, whatever the channels are    *)
(* doing: the distance is a floor of the real one in every typed state.     *)
LEMMA TypedSlices == ASSUME TypeOK PROVE SliceStopsInTime
<1> SUFFICES ASSUME NEW n \in 1..MaxStep, NEW ch \in Finished(n), ~WrongWay(ch)
             PROVE  /\ ~dma_cycles_to_irq(n)
                    /\ Armed(dicr, ch) => ~dma_cycles_to_deliverable_irq(n)
  BY DEF SliceStopsInTime
<1>1. n \in Nat /\ ch \in Channels
  BY DmaAssumption, SMT DEF DmaAssumption, Finished, AsyncDone, DelayDone, Async, Delayed
<1>2. \E d \in Nat : /\ n >= d
                    /\ \A chs \in SUBSET Channels : ch \in chs => d \in Distances(chs)
  <2>1. CASE ch \in AsyncDone(n)
    <3>1. ch \in Async /\ left[ch] > 0 /\ Moved(ch, n) = left[ch]
      BY <2>1 DEF AsyncDone, Stepped
    <3>2. Transferring(ch)
      BY <1>1, <3>1, SMT DEF Moved, TypeOK, JobType
    <3>3. left[ch] <= accum[ch] + n
      BY <1>1, <3>1, <3>2, MovedBounds
    <3>4. left[ch] \in Nat /\ accum[ch] \in Nat
      BY <1>1 DEF TypeOK, JobType
    <3>5. WordsFloor(ch) \in Nat /\ n >= WordsFloor(ch)
      BY <1>1, <3>3, <3>4, SMT DEF WordsFloor
    <3>6. \A chs \in SUBSET Channels : ch \in chs => WordsFloor(ch) \in Distances(chs)
      BY <3>1 DEF Distances
    <3> QED
      BY <3>5, <3>6
  <2>2. CASE ch \in DelayDone(n)
    <3>1. delay[ch] \in Nat /\ delay[ch] > 0 /\ n >= delay[ch]
      BY <1>1, <2>2 DEF DelayDone, TypeOK, JobType
    <3>2. \A chs \in SUBSET Channels : ch \in chs => delay[ch] \in Distances(chs)
      BY <3>1 DEF Distances
    <3> QED
      BY <3>1, <3>2
  <2> QED
    BY <2>1, <2>2 DEF Finished
<1>3. \A chs \in SUBSET Channels : ch \in chs => ~ShortOf(n, chs)
  BY <1>1, <1>2, SMT DEF ShortOf
<1> QED
  BY <1>1, <1>3 DEF dma_cycles_to_irq, dma_cycles_to_deliverable_irq

-----------------------------------------------------------------------------
(* Completing a set of channels leaves DICR and the latch typed, and latches *)
(* the interrupt exactly on the rise of the master flag.                    *)
LEMMA Completion ==
    ASSUME TypeOK, NEW done \in SUBSET Channels, CompleteTransfers(done)
    PROVE  dicr' \in Dicr /\ istat3' \in BOOLEAN /\ RaiseOnEdge(dicr, dicr')
<1>1. dicr \in Dicr /\ istat3 \in BOOLEAN
  BY DEF TypeOK, RegisterType, JobType, DeviceType
<1>2. dicr' = Flagged(done) /\ RaiseOnEdge(dicr, dicr')
  BY DEF CompleteTransfers
<1>3. Flagged(done) \in Dicr
  BY <1>1 DEF Flagged, Dicr
<1>4. istat3' \in BOOLEAN
  BY <1>2 DEF RaiseOnEdge
<1> QED
  BY <1>2, <1>3, <1>4

(* Word counts are natural numbers.                                         *)
LEMMA WordCounts ==
    ASSUME NEW ch \in Channels, NEW bcr \in Bcr
    PROVE  /\ transfer_word_count(ch, bcr) \in Nat
           /\ \A dir \in {0, 1} : Payload(ch, dir, bcr) \subseteq Nat
<1>1. \A c : transfer_word_count(c, bcr) \in Nat
  BY DmaAssumption DEF DmaAssumption, transfer_word_count
<1>2. ASSUME NEW dir \in {0, 1}, NEW w \in Payload(ch, dir, bcr) PROVE w \in Nat
  <2>1. CASE ch = 2
    <3>1. w \in GpuWords(dir, bcr)
      BY <2>1, <1>2 DEF Payload
    <3>2. w = bcr \/ w = 0 \/ w = transfer_word_count(2, bcr) \/ w \in Bcr
      BY <3>1 DEF GpuWords
    <3>3. Bcr \subseteq Nat
      BY DmaAssumption DEF DmaAssumption
    <3>4. bcr \in Nat /\ 0 \in Nat /\ transfer_word_count(2, bcr) \in Nat
      BY <1>1, <3>3
    <3> QED
      BY ONLY <3>2, <3>3, <3>4, Zenon
  <2>2. CASE ch # 2
    BY <1>1, <1>2, <2>2 DEF Payload
  <2> QED
    BY <2>1, <2>2
<1> QED
  BY <1>1, <1>2

(* dma_advance keeps the types, and completes by the edge rule.             *)
LEMMA AdvanceTypes ==
    ASSUME TypeOK, NEW n \in 1..MaxStep, dma_advance(n)
    PROVE  TypeOK' /\ RaiseOnEdge(dicr, dicr')
<1>0. n \in Nat /\ n > 0
  BY DmaAssumption, SMT DEF DmaAssumption
<1>1. Finished(n) \in SUBSET Channels
  BY DEF Finished, AsyncDone, DelayDone, Async, Delayed
<1>2. dicr' \in Dicr /\ istat3' \in BOOLEAN /\ RaiseOnEdge(dicr, dicr')
  BY <1>1, Completion DEF dma_advance
<1>3. chcr' \in [Channels -> Chcr]
  BY DEF dma_advance, NotBusy, TypeOK, RegisterType, Chcr
<1>4. left' \in [Channels -> Nat] /\ \A ch \in Channels \ Async : left'[ch] = 0
  <2>1. left' = [ch \in Channels |->
                  IF ch \in Finished(n) THEN 0 ELSE left[ch] - Moved(ch, n)]
    BY DEF dma_advance
  <2>2. ASSUME NEW ch \in Channels
        PROVE  left[ch] - Moved(ch, n) \in Nat /\ (ch \notin Async => left[ch] - Moved(ch, n) = 0)
    <3>1. left[ch] \in Nat /\ (ch \notin Async => left[ch] = 0)
      BY DEF TypeOK, RegisterType, JobType, DeviceType
    <3>2. Moved(ch, n) \in Nat /\ Moved(ch, n) <= left[ch]
      BY <1>0, MovedBounds
    <3> QED
      BY ONLY <3>1, <3>2, SMT
  <2> QED
    BY <2>1, <2>2
<1>5. accum' \in [Channels -> Nat]
  <2>1. ASSUME NEW ch \in Channels, Transferring(ch)
        PROVE  accum[ch] + n - Moved(ch, n) * PerWord[ch] \in Nat
    <3>1. accum[ch] \in Nat
      BY DEF TypeOK, RegisterType, JobType, DeviceType
    <3>2. /\ Moved(ch, n) * PerWord[ch] \in Nat
          /\ Moved(ch, n) * PerWord[ch] <= accum[ch] + n
      BY <1>0, <2>1, MovedBounds
    <3> QED
      BY ONLY <1>0, <3>1, <3>2, SMT
  <2>2. ASSUME NEW ch \in Channels PROVE accum'[ch] \in Nat
    <3>1. CASE ch \in Finished(n)
      BY <3>1 DEF dma_advance
    <3>2. CASE ch \notin Finished(n) /\ Transferring(ch)
      BY <2>1, <3>2 DEF dma_advance, Unspent
    <3>3. CASE ch \notin Finished(n) /\ ~Transferring(ch)
      BY <3>3 DEF dma_advance, Unspent, TypeOK, JobType
    <3> QED
      BY <3>1, <3>2, <3>3
  <2>3. accum' = [ch \in Channels |-> accum'[ch]]
    BY DEF dma_advance
  <2> QED
    BY <2>2, <2>3
<1>6. delay' \in [Channels -> Nat] /\ \A ch \in Channels \ Delayed : delay'[ch] = 0
  <2>1. delay \in [Channels -> Nat] /\ \A ch \in Channels \ Delayed : delay[ch] = 0
    BY DEF TypeOK, RegisterType, JobType, DeviceType
  <2> QED
    BY <1>0, <2>1, SMT DEF dma_advance
<1>7. avail' \in [Channels -> Nat]
  <2>1. ASSUME NEW ch \in Channels PROVE avail[ch] - Moved(ch, n) \in Nat
    <3>1. avail[ch] \in Nat
      BY DEF TypeOK, RegisterType, JobType, DeviceType
    <3>2. Moved(ch, n) \in Nat /\ Moved(ch, n) <= avail[ch]
      BY <1>0, MovedBounds
    <3> QED
      BY ONLY <3>1, <3>2, SMT
  <2> QED
    BY <2>1 DEF dma_advance
<1>8. dpcr' \in SUBSET Channels /\ writes' \in 0..MaxWrites
  BY DEF dma_advance, TypeOK, RegisterType, DeviceType
<1> QED
  BY <1>2, <1>3, <1>4, <1>5, <1>6, <1>7, <1>8 DEF TypeOK, RegisterType, JobType, DeviceType, Async, Delayed

-----------------------------------------------------------------------------
(* Steps that leave DICR and the latch alone obey the edge rule.            *)
LEMMA NoEdge ==
    ASSUME TypeOK, UNCHANGED <<dicr, istat3>>
    PROVE  RaiseOnEdge(dicr, dicr')
<1>1. istat3 \in BOOLEAN
  BY DEF TypeOK, RegisterType
<1>2. ~(~MasterFlag(dicr) /\ MasterFlag(dicr'))
  BY DEF MasterFlag
<1>3. (istat3 \/ (~MasterFlag(dicr) /\ MasterFlag(dicr'))) = istat3
  BY <1>1, <1>2
<1> QED
  BY <1>3 DEF RaiseOnEdge

(* A guest write is counted within its bound.                               *)
LEMMA Counted ==
    ASSUME TypeOK, GuestWrite
    PROVE  writes' \in 0..MaxWrites
BY DmaAssumption, SMT DEF DmaAssumption, TypeOK, DeviceType, GuestWrite

(* A guest write or a device step keeps the types, and the latch moves only *)
(* by the edge rule or by an acknowledgement.                               *)
LEMMA GuestTypes ==
    ASSUME TypeOK, WriteDpcr \/ WriteDicr \/ AckIrq \/ WriteChcr \/ Device
    PROVE  TypeOK' /\ (RaiseOnEdge(dicr, dicr') \/ (AckIrq /\ dicr' = dicr))
<1> USE DEF jobs
<1>0. RegisterType /\ JobType /\ DeviceType
  BY DEF TypeOK
<1>j. ASSUME UNCHANGED jobs PROVE JobType'
  BY <1>0, <1>j DEF JobType, Async, Delayed
<1>1. CASE WriteDpcr
  <2>1. UNCHANGED <<chcr, dicr, jobs, istat3, avail>> /\ GuestWrite
        /\ dpcr' \in SUBSET Channels
    BY <1>1, DmaAssumption DEF WriteDpcr, DmaAssumption
  <2>2. RegisterType'
    BY <1>0, <2>1 DEF RegisterType
  <2>3. DeviceType'
    BY <1>0, <2>1, Counted DEF DeviceType
  <2> QED
    BY <1>j, <2>1, <2>2, <2>3, NoEdge DEF TypeOK
<1>2. CASE WriteDicr
  <2>1. dicr' \in Dicr
    <3>1. PICK force, master \in BOOLEAN, enable, ack \in Masks :
            dicr' = [force |-> force, master |-> master, enable |-> enable,
                     flags |-> dicr.flags \ ack]
      BY <1>2 DEF WriteDicr
    <3>2. enable \in SUBSET Channels /\ dicr.flags \ ack \in SUBSET Channels
      BY <1>0, <3>1, DmaAssumption DEF RegisterType, Dicr, DmaAssumption
    <3> QED
      BY <3>1, <3>2 DEF Dicr
  <2>2. RaiseOnEdge(dicr, dicr')
    BY <1>2 DEF WriteDicr
  <2>3. istat3' \in BOOLEAN
    BY <2>2 DEF RaiseOnEdge
  <2>4. UNCHANGED <<chcr, dpcr, jobs, avail>> /\ GuestWrite
    BY <1>2 DEF WriteDicr
  <2>5. RegisterType'
    BY <1>0, <2>1, <2>3, <2>4 DEF RegisterType
  <2>6. DeviceType'
    BY <1>0, <2>4, Counted DEF DeviceType
  <2> QED
    BY <1>j, <2>2, <2>4, <2>5, <2>6 DEF TypeOK
<1>3. CASE AckIrq
  <2>1. UNCHANGED <<chcr, dpcr, dicr, jobs, avail>> /\ GuestWrite /\ istat3' = FALSE
    BY <1>3 DEF AckIrq
  <2>2. RegisterType'
    BY <1>0, <2>1 DEF RegisterType
  <2>3. DeviceType'
    BY <1>0, <2>1, Counted DEF DeviceType
  <2> QED
    BY <1>3, <1>j, <2>1, <2>2, <2>3 DEF TypeOK
<1>4. CASE WriteChcr
  <2>1. PICK ch \in Channels, dir \in {0, 1} :
          StopChannel(ch, dir) \/ StartDisabled(ch, dir) \/ WriteDirection(ch, dir)
    BY <1>4 DEF WriteChcr
  <2>2. UNCHANGED <<dpcr, dicr, istat3, avail>> /\ GuestWrite
    BY <2>1 DEF StopChannel, StartDisabled, WriteDirection
  <2>3. chcr' \in [Channels -> Chcr]
    <3>1. CASE StopChannel(ch, dir)
      BY <1>0, <3>1 DEF StopChannel, Stored, RegisterType, Chcr
    <3>2. CASE StartDisabled(ch, dir)
      BY <1>0, <3>2 DEF StartDisabled, Stored, RegisterType, Chcr
    <3>3. CASE WriteDirection(ch, dir)
      BY <1>0, <3>3 DEF WriteDirection, RegisterType, Chcr
    <3> QED
      BY <2>1, <3>1, <3>2, <3>3
  <2>4. RegisterType'
    BY <1>0, <2>2, <2>3 DEF RegisterType
  <2>5. DeviceType'
    BY <1>0, <2>2, Counted DEF DeviceType
  <2>6. JobType'
    <3>1. CASE StopChannel(ch, dir)
      BY <1>0, <3>1 DEF StopChannel, JobType, Async, Delayed
    <3>2. CASE UNCHANGED jobs
      BY <1>j, <3>2
    <3> QED
      BY <2>1, <3>1, <3>2 DEF StartDisabled, WriteDirection
  <2> QED
    BY <2>2, <2>4, <2>5, <2>6, NoEdge DEF TypeOK
<1>5. CASE Device
  <2>1. PICK ch \in Async : DeviceReady(ch) \/ DeviceReset(ch)
    BY <1>5 DEF Device
  <2>2. ch \in Channels
    BY <2>1 DEF Async
  <2>3. UNCHANGED <<chcr, dpcr, dicr, jobs, istat3>>
    BY <2>1 DEF DeviceReady, DeviceReset
  <2>4. RegisterType'
    BY <1>0, <2>3 DEF RegisterType
  <2>5. avail' \in [Channels -> Nat]
    BY <1>0, <2>1, <2>2, DmaAssumption, SMT
    DEF DeviceReady, DeviceReset, DeviceType, DmaAssumption
  <2>6. writes' \in 0..MaxWrites
    BY <1>0, <2>1, Counted DEF DeviceReady, DeviceReset, DeviceType
  <2> QED
    BY <1>j, <2>3, <2>4, <2>5, <2>6, NoEdge DEF TypeOK, DeviceType
<1> QED
  BY <1>1, <1>2, <1>3, <1>4, <1>5

(* A kick keeps the types, and completes by the edge rule.                  *)
LEMMA KickTypes ==
    ASSUME TypeOK, NEW ch \in Channels, NEW dir \in {0, 1}, NEW bcr \in Bcr,
           Start(ch, dir, bcr)
    PROVE  TypeOK' /\ RaiseOnEdge(dicr, dicr')
<1> USE DEF jobs
<1>0. RegisterType /\ JobType /\ DeviceType
  BY DEF TypeOK
<1>1. GuestWrite /\ UNCHANGED <<dpcr, avail>>
  BY DEF Start, StartAsync, StartDelayed, StartCdromWrite, StartOtc
<1>2. DeviceType'
  BY <1>0, <1>1, Counted DEF DeviceType
<1>r. ASSUME dicr' \in Dicr, istat3' \in BOOLEAN, chcr' \in [Channels -> Chcr]
      PROVE  RegisterType'
  BY <1>0, <1>1, <1>r DEF RegisterType
<1>s. ASSUME NEW busy \in BOOLEAN, NEW d \in {0, 1}
      PROVE  Stored(ch, busy, d) \in [Channels -> Chcr]
  BY <1>0 DEF Stored, RegisterType, Chcr
<1>c. ASSUME NEW done \in {{}, {ch}}, CompleteTransfers(done)
      PROVE  dicr' \in Dicr /\ istat3' \in BOOLEAN /\ RaiseOnEdge(dicr, dicr')
  <2>1. done \in SUBSET Channels
    BY <1>c
  <2> QED
    BY <2>1, <1>c, Completion
<1>3. CASE StartAsync(ch, dir, bcr)
  <2> DEFINE words == transfer_word_count(ch, bcr)
             empty == left[ch] = 0 /\ words = 0
             done  == IF empty THEN {ch} ELSE {}
  <2>1. words \in Nat /\ (~empty) \in BOOLEAN /\ done \in {{}, {ch}}
    BY WordCounts
  <2>2. /\ chcr'  = Stored(ch, ~empty, dir)
        /\ left'  = IF left[ch] > 0 THEN left ELSE [left EXCEPT ![ch] = words]
        /\ accum' = IF left[ch] > 0 THEN accum ELSE [accum EXCEPT ![ch] = 0]
        /\ CompleteTransfers(done)
        /\ UNCHANGED delay /\ ch \in Async
    BY <1>3 DEF StartAsync
  <2> HIDE DEF words, empty, done
  <2>3. dicr' \in Dicr /\ istat3' \in BOOLEAN /\ RaiseOnEdge(dicr, dicr')
    BY <1>c, <2>1, <2>2
  <2>4. chcr' \in [Channels -> Chcr]
    BY <1>s, <2>1, <2>2
  <2>5. JobType'
    BY <1>0, <2>1, <2>2 DEF JobType, Async, Delayed
  <2> QED
    BY <1>2, <1>r, <2>3, <2>4, <2>5 DEF TypeOK
<1>4. CASE StartDelayed(ch, dir, bcr)
  <2>1. PICK words \in Payload(ch, dir, bcr) :
          /\ chcr'  = Stored(ch, words # 0, dir)
          /\ delay' = IF words = 0 THEN delay
                      ELSE [delay EXCEPT ![ch] = words * PerWord[ch]]
          /\ CompleteTransfers(IF words = 0 THEN {ch} ELSE {})
    BY <1>4 DEF StartDelayed
  <2>2. words * PerWord[ch] \in Nat
    BY WordCounts, DmaAssumption, SMT DEF DmaAssumption
  <2>3. dicr' \in Dicr /\ istat3' \in BOOLEAN /\ RaiseOnEdge(dicr, dicr')
    BY <1>c, <2>1
  <2>4. chcr' \in [Channels -> Chcr]
    BY <1>s, <2>1
  <2>5. ch \in Delayed /\ UNCHANGED <<left, accum>>
    BY <1>4 DEF StartDelayed
  <2>6. JobType'
    BY <1>0, <2>1, <2>2, <2>5 DEF JobType, Async, Delayed
  <2> QED
    BY <1>2, <1>r, <2>3, <2>4, <2>6 DEF TypeOK
<1>5. CASE StartCdromWrite(ch)
  <2>1. chcr' \in [Channels -> Chcr]
    BY <1>5, <1>s DEF StartCdromWrite
  <2>2. UNCHANGED <<dicr, istat3, jobs>>
    BY <1>5 DEF StartCdromWrite
  <2>3. JobType'
    BY <1>0, <2>2 DEF JobType, Async, Delayed
  <2>4. RegisterType'
    BY <1>0, <1>1, <2>1, <2>2 DEF RegisterType
  <2> QED
    BY <1>2, <2>2, <2>3, <2>4, NoEdge DEF TypeOK
<1>6. CASE StartOtc(ch, dir)
  <2>1. chcr' \in [Channels -> Chcr]
    BY <1>6, <1>s DEF StartOtc
  <2>2. dicr' \in Dicr /\ istat3' \in BOOLEAN /\ RaiseOnEdge(dicr, dicr')
    BY <1>c, <1>6 DEF StartOtc
  <2>3. JobType'
    BY <1>0, <1>6 DEF StartOtc, JobType, Async, Delayed
  <2> QED
    BY <1>2, <1>r, <2>1, <2>2, <2>3 DEF TypeOK
<1> QED
  BY <1>3, <1>4, <1>5, <1>6 DEF Start

-----------------------------------------------------------------------------
(* Every step keeps the types and moves the latch by the edge rule, or      *)
(* acknowledges it.                                                         *)
LEMMA StepTypes ==
    ASSUME TypeOK, [Next]_vars
    PROVE  TypeOK' /\ (RaiseOnEdge(dicr, dicr') \/ (AckIrq /\ dicr' = dicr))
<1>1. CASE Advance
  BY <1>1, AdvanceTypes DEF Advance
<1>2. CASE Kick
  BY <1>2, KickTypes DEF Kick
<1>3. CASE WriteDpcr \/ WriteDicr \/ AckIrq \/ WriteChcr \/ Device
  BY <1>3, GuestTypes
<1>4. CASE UNCHANGED vars
  <2>1. TypeOK'
    BY <1>4 DEF vars, TypeOK, RegisterType, JobType, DeviceType, Async, Delayed
  <2> QED
    BY <1>4, <2>1, NoEdge DEF vars
<1> QED
  BY <1>1, <1>2, <1>3, <1>4 DEF Next

(* The initial state is typed.                                              *)
LEMMA InitTypes == Init => TypeOK
<1> SUFFICES ASSUME Init PROVE TypeOK
  OBVIOUS
<1>1. RegisterType
  BY DEF Init, RegisterType, Chcr, Dicr
<1>2. JobType
  BY DEF Init, JobType
<1>3. DeviceType
  BY DmaAssumption, SMT DEF DmaAssumption, Init, DeviceType
<1> QED
  BY <1>1, <1>2, <1>3 DEF TypeOK

(* Registers, jobs and the interrupt latch always have their types.         *)
THEOREM TypeCorrect == Spec => []TypeOK
<1>1. TypeOK /\ [Next]_vars => TypeOK'
  BY StepTypes
<1> QED
  BY <1>1, InitTypes, PTL DEF Spec

(* No completion falls inside a slice: for every state the channels can     *)
(* reach, an advance shorter than the reported distance completes nothing   *)
(* (dma_cycles_to_irq and dma_cycles_to_deliverable_irq).                   *)
THEOREM SlicesAreSafe == Spec => []SliceStopsInTime
BY TypeCorrect, TypedSlices, PTL

(* I_STAT bit 3 follows the rise of the master flag and nothing else        *)
(* (raise_dma_irq_on_master_edge).                                          *)
THEOREM EdgeLatches == Spec => IrqOnMasterEdge
<1> DEFINE Rise == ~MasterFlag(dicr) /\ MasterFlag(dicr')
           Edge == (Rise => istat3') /\ (istat3' /\ ~istat3 => Rise)
<1>1. ASSUME TypeOK, [Next]_vars PROVE [Edge]_vars
  <2>1. RaiseOnEdge(dicr, dicr') \/ (AckIrq /\ dicr' = dicr)
    BY <1>1, StepTypes
  <2>2. CASE RaiseOnEdge(dicr, dicr')
    BY <2>2 DEF RaiseOnEdge
  <2>3. CASE AckIrq /\ dicr' = dicr
    <3>1. ~Rise
      BY <2>3 DEF MasterFlag
    <3>2. ~istat3'
      BY <2>3 DEF AckIrq
    <3> QED
      BY <3>1, <3>2
  <2> QED
    BY <2>1, <2>2, <2>3
<1>2. TypeOK /\ [Next]_vars => [Edge]_vars
  BY <1>1
<1>3. Spec => [][Edge]_vars
  BY <1>2, TypeCorrect, PTL DEF Spec
<1> QED
  BY <1>3, PTL DEF IrqOnMasterEdge

-----------------------------------------------------------------------------
(* A channel whose transfer ends in an advance is left without a job.       *)
LEMMA AdvanceIdles ==
    ASSUME TypeOK, IdleHasNoJob, NEW n \in 1..MaxStep, dma_advance(n)
    PROVE  IdleHasNoJob'
<1> SUFFICES ASSUME NEW ch \in Channels, HasJob(ch)' PROVE chcr'[ch].busy
  BY DEF IdleHasNoJob
<1>0. n \in Nat /\ n > 0
  BY DmaAssumption, SMT DEF DmaAssumption
<1>1. /\ left[ch] \in Nat /\ (ch \notin Async => left[ch] = 0)
      /\ delay[ch] \in Nat /\ (ch \notin Delayed => delay[ch] = 0)
  BY DEF TypeOK, JobType
<1>2. Moved(ch, n) \in Nat /\ Moved(ch, n) <= left[ch]
  BY <1>0, MovedBounds
<1>3. /\ left'[ch] = IF ch \in Finished(n) THEN 0 ELSE left[ch] - Moved(ch, n)
      /\ delay'[ch] = IF delay[ch] > n THEN delay[ch] - n ELSE 0
  BY DEF dma_advance
<1>4. ch \notin Finished(n)
  <2> SUFFICES ASSUME ch \in Finished(n) PROVE FALSE
    OBVIOUS
  <2>1. delay[ch] > n
    BY <1>0, <1>1, <1>3, SMT DEF HasJob
  <2>2. ch \in Delayed /\ ch \notin DelayDone(n)
    BY <1>0, <1>1, <2>1, SMT DEF DelayDone
  <2> QED
    BY <2>2, SMT DEF Finished, AsyncDone, Async, Delayed
<1>5. HasJob(ch)
  BY <1>0, <1>1, <1>2, <1>3, <1>4, SMT DEF HasJob
<1> QED
  BY <1>4, <1>5 DEF IdleHasNoJob, dma_advance, NotBusy

(* A kick of an idle channel leaves it busy with its job, or idle without.  *)
LEMMA KickIdles ==
    ASSUME TypeOK, IdleHasNoJob, NEW ch \in Channels, NEW dir \in {0, 1},
           NEW bcr \in Bcr, ~chcr[ch].busy, Start(ch, dir, bcr)
    PROVE  IdleHasNoJob'
<1> SUFFICES ASSUME NEW c \in Channels, HasJob(c)' PROVE chcr'[c].busy
  BY DEF IdleHasNoJob
<1> USE DEF jobs
<1>1. left[ch] = 0 /\ delay[ch] = 0
  BY SMT DEF IdleHasNoJob, HasJob, TypeOK, JobType
<1>2. chcr \in [Channels -> Chcr] /\ left \in [Channels -> Nat]
      /\ delay \in [Channels -> Nat]
  BY DEF TypeOK, RegisterType, JobType
<1>3. CASE c # ch
  <2>1. chcr'[c] = chcr[c]
    BY <1>2, <1>3
    DEF Start, StartAsync, StartDelayed, StartCdromWrite, StartOtc, Stored
  <2>2. left'[c] = left[c] /\ delay'[c] = delay[c]
    BY <1>2, <1>3 DEF Start, StartAsync, StartDelayed, StartCdromWrite, StartOtc
  <2> QED
    BY <2>1, <2>2 DEF IdleHasNoJob, HasJob
<1>4. CASE c = ch
  <2>1. CASE StartAsync(ch, dir, bcr)
    <3> DEFINE words == transfer_word_count(ch, bcr)
    <3>1. words \in Nat
      BY WordCounts
    <3>2. left'[ch] = words /\ delay'[ch] = 0
      BY <1>1, <1>2, <2>1, SMT DEF StartAsync
    <3>3. chcr'[ch].busy = ~(left[ch] = 0 /\ words = 0)
      BY <1>2, <2>1 DEF StartAsync, Stored
    <3> HIDE DEF words
    <3>4. words > 0
      BY <1>4, <3>1, <3>2, SMT DEF HasJob
    <3>5. words # 0
      BY <3>1, <3>4, SMT
    <3> QED
      BY <1>4, <3>3, <3>5
  <2>2. CASE StartDelayed(ch, dir, bcr)
    <3>1. PICK words \in Payload(ch, dir, bcr) :
            /\ chcr'  = Stored(ch, words # 0, dir)
            /\ delay' = IF words = 0 THEN delay
                        ELSE [delay EXCEPT ![ch] = words * PerWord[ch]]
      BY <2>2 DEF StartDelayed
    <3>2. left'[ch] = 0
      BY <1>1, <2>2 DEF StartDelayed
    <3>3. words # 0
      BY <1>1, <1>4, <3>1, <3>2, SMT DEF HasJob
    <3>4. chcr'[ch].busy = (words # 0)
      BY <1>2, <3>1 DEF Stored
    <3> QED
      BY <1>4, <3>3, <3>4
  <2>3. CASE StartCdromWrite(ch) \/ StartOtc(ch, dir)
    <3>1. left'[ch] = 0 /\ delay'[ch] = 0
      BY <1>1, <2>3 DEF StartCdromWrite, StartOtc
    <3> QED
      BY <1>4, <3>1, SMT DEF HasJob
  <2> QED
    BY <2>1, <2>2, <2>3 DEF Start
<1> QED
  BY <1>3, <1>4

(* No other write gives an idle channel a job.                              *)
LEMMA OthersIdle ==
    ASSUME TypeOK, IdleHasNoJob,
           WriteDpcr \/ WriteDicr \/ AckIrq \/ WriteChcr \/ Device \/ UNCHANGED vars
    PROVE  IdleHasNoJob'
<1> USE DEF jobs
<1>1. CASE UNCHANGED <<chcr, jobs>>
  BY <1>1 DEF IdleHasNoJob, HasJob
<1>2. CASE WriteChcr
  <2>1. PICK ch \in Channels, dir \in {0, 1} :
          StopChannel(ch, dir) \/ StartDisabled(ch, dir) \/ WriteDirection(ch, dir)
    BY <1>2 DEF WriteChcr
  <2>2. chcr \in [Channels -> Chcr] /\ left \in [Channels -> Nat]
        /\ delay \in [Channels -> Nat]
    BY DEF TypeOK, RegisterType, JobType
  <2> SUFFICES ASSUME NEW c \in Channels, HasJob(c)' PROVE chcr'[c].busy
    BY DEF IdleHasNoJob
  <2>3. CASE StopChannel(ch, dir)
    <3>1. c # ch
      BY <2>2, <2>3, SMT DEF StopChannel, HasJob
    <3> QED
      BY <2>2, <2>3, <3>1 DEF StopChannel, Stored, HasJob, IdleHasNoJob
  <2>4. CASE StartDisabled(ch, dir)
    BY <2>2, <2>4 DEF StartDisabled, Stored, HasJob, IdleHasNoJob
  <2>5. CASE WriteDirection(ch, dir)
    BY <2>2, <2>5 DEF WriteDirection, HasJob, IdleHasNoJob, Chcr
  <2> QED
    BY <2>1, <2>3, <2>4, <2>5
<1> QED
  BY <1>1, <1>2
  DEF WriteDpcr, WriteDicr, AckIrq, Device, DeviceReady, DeviceReset, vars

(* A guest that never starts a busy channel never leaves a job behind an    *)
(* idle one (cancel_async_transfer, complete_transfer).                     *)
THEOREM IdleChannels == ASSUME ~Rekick PROVE Spec => []IdleHasNoJob
<1>1. Init => IdleHasNoJob
  BY SMT DEF Init, IdleHasNoJob, HasJob
<1>2. ASSUME TypeOK, IdleHasNoJob, [Next]_vars PROVE IdleHasNoJob'
  <2>1. CASE Advance
    BY <1>2, <2>1, AdvanceIdles DEF Advance
  <2>2. CASE Kick
    BY <1>2, <2>2, KickIdles DEF Kick
  <2>3. CASE WriteDpcr \/ WriteDicr \/ AckIrq \/ WriteChcr \/ Device \/ UNCHANGED vars
    BY <1>2, <2>3, OthersIdle
  <2> QED
    BY <1>2, <2>1, <2>2, <2>3 DEF Next
<1>3. TypeOK /\ IdleHasNoJob /\ [Next]_vars => IdleHasNoJob'
  BY <1>2
<1> QED
  BY <1>1, <1>3, TypeCorrect, PTL DEF Spec

(* For such a guest every MDEC or drive kick runs the count just programmed *)
(* (start_async_mdec_transfer, start_async_cdrom_transfer).                 *)
THEOREM KicksAreFresh == ASSUME ~Rekick PROVE Spec => KickIsFresh
<1> DEFINE Fresh == \A ch \in Async, dir \in {0, 1}, bcr \in Bcr :
                        ~chcr[ch].busy /\ StartAsync(ch, dir, bcr) =>
                            left'[ch] = transfer_word_count(ch, bcr)
<1>1. ASSUME TypeOK, IdleHasNoJob PROVE Fresh
  <2> SUFFICES ASSUME NEW ch \in Async, NEW dir \in {0, 1}, NEW bcr \in Bcr,
                      ~chcr[ch].busy, StartAsync(ch, dir, bcr)
               PROVE  left'[ch] = transfer_word_count(ch, bcr)
    OBVIOUS
  <2>1. ch \in Channels
    BY DEF Async
  <2>2. left \in [Channels -> Nat] /\ left[ch] = 0
    BY <1>1, <2>1, SMT DEF TypeOK, JobType, IdleHasNoJob, HasJob
  <2> QED
    BY <2>1, <2>2, SMT DEF StartAsync
<1>2. TypeOK /\ IdleHasNoJob => [Fresh]_vars
  BY <1>1
<1>3. Spec => [][Fresh]_vars
  BY <1>2, TypeCorrect, IdleChannels, PTL
<1> QED
  BY <1>3, PTL DEF KickIsFresh

=============================================================================
