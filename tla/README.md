# A TLA+ model of the PSXRecomp runtime

PSXRecomp (Recompilation Studio) translates a PlayStation program into C and
runs the result inside a runtime that emulates the rest of the machine. This
directory holds TLA+ modules for the parts of the runtime whose correctness
depends on the order of events: caches of decisions, device time, interrupts,
guest threads, byte protocols, and the host threads that compile and load code
in the background. TLC checks small instances of them; TLAPS proves the main
safety properties for every value of the constants.

Paths are relative to the repository. `PROJECT.json` names, for every definition
that models code, the lines it stands for (`map`), for every property the
mutation of the code that breaks it (`mutants`), and what can go wrong where
(`hazards`).

## The system and its modules

A guest instruction runs in one of three tiers: statically recompiled code,
*native overlay* code compiled from captured RAM, or the dirty-RAM interpreter.
All three charge cycles to one clock, from which the devices are serviced; the
devices raise interrupts, which are delivered at block boundaries and may switch
guest threads. Beside the emulation thread there are host threads that write
captures, wait for a compiler, compile fragments and map DLLs.

| part of the runtime (`src/runtime/src/`) | modules |
|---|---|
| native overlay tier: `overlay_loader.c`, the RAM store path of `memory.c` | `OverlayContract`, `OverlayCache`, `MCOverlayCache`, `OverlayCacheProofs` |
| mapping DLLs ahead of use: `overlay_loader.c` | `ImageWarm`, `HostThreadProofs` |
| in-process compile worker: `overlay_compile_worker.c` and its callers | `CompileWorker`, `HostThreadProofs` |
| capture and background compile: `overlay_capture.c`, `autocompile.c` | `CapturePipeline`, `MCCapturePipeline`, `CapturePipelineProofs` |
| device time: `psx_cycles.c`, VBlank in `interrupts.c` | `DeviceClock`, `MCDeviceClock`, `ClockProofs` |
| DMA controller: `dma.c` | `Dma`, `MCDma`, `DmaProofs` |
| root counters: `timers.c` | `Timers`, `ClockProofs` |
| CD-ROM controller: `cdrom.c` | `Cdrom`, `MCCdrom`, `CdromProofs` |
| interrupt delivery and guest threads: `interrupts.c`, `traps.c` | `GuestThreads`, `GuestThreadsProofs` |
| serial port and memory cards: `sio.c`, `memcard.c` | `MemoryCard`, `SerialPort`, `MCSerialPort`, `SerialPortProofs` |

The modules meet where the code meets. `DeviceClock` sees every device as a
countdown that one event re-arms; `Dma`, `Cdrom` and `Timers` show that the
distance each device reports to the clock is safe (`SliceStopsInTime`,
`SliceStopsShort`, `SliceIsExact`), which is what `DeviceClock` assumes of it.
`Cdrom` contains the interrupt controller bit and the guest's handler;
`GuestThreads` takes the handler apart and leaves the devices out. `SerialPort`
is composed of the port, `MemoryCard` (a card's reaction to one byte), the
guest driver, and the files on the host.

In every module an action is a whole function of the code, or one stretch of
it between two points where another thread or the guest may come in. Data are
reduced to what the control depends on. Operators named `Bug...` are the
mutations that `PROJECT.json` lists; nothing else refers to them.

### Native overlay tier

A candidate function was compiled from some bytes of RAM and may run only while
RAM holds them. Hashing at every dispatch is too slow, so the store path counts
the writes to each watched page, and a verdict is reused while the sum of the
counters of its pages is unchanged. `OverlayContract` says what this promises,
without caches: native code is entered on matching bytes only, and an
activation that is overwritten is banned. `OverlayCache` is the code: `Store` is
the chokepoint (dirty page, generation, self-modification check, then the byte),
`Dispatch` and `DispatchStep` are `overlay_loader_dispatch` from the candidate
chain through the lazy load and its retry, `Return` is its epilogue,
`HostUnwind` the longjmp that skips it, `Rescan` the scan of the cache
directory, `LoadState` a save-state load. RAM is a set of cells on pages.

### Background threads

`ImageWarm` has the warming thread and the loader at the grain of the atomic
operations on a slot's state. A load fails, registers functions, or registers
none and keeps its reference all the same (`kept`). `CompileWorker` has the
queue, the dedup map and the flag, each under the lock the code holds, and splits
the publish (write, rename, flag) and the rescan (clear the flag, list the
directory, register) into steps. The directory may not open, a file may not be
read and the candidate table may be full: `passed` holds the shards a scan has
met, or should have met, and left behind. `CapturePipeline` has the frame tick
of the emulation thread, the thread that writes the manifest in place, the
compile processes that read it, and the threads that wait for them. A process
is waited for by its thread, by nobody (the thread did not start), or is *lost*:
there was no memory for its context, and `autocompile.c` returns without any
record of it, so that another may be started beside it. What may fail on the
host, and which of the three debug commands (run, rescan, dump) are used, is
chosen per session.

### Devices

`DeviceClock` keeps the lagging devices beside `ref`, the same devices stepped
one cycle at a time; absolute counters appear as differences. `Dma` has CHCR,
DPCR and DICR, the three ways a transfer is carried out and the edge on the
master flag. `Timers` is one counter with any divider; batches and the predicted
distance are compared with single counts. `Cdrom` has the command, its first and
second responses, the sector stream, the one response register with its
presentation delay and latch, and a guest driver that acknowledges in the
controller and then in I_STAT. Every register access finds the device advanced
to the present cycle, as the memory wrappers do.

### Interrupts and guest threads

All threads of `GuestThreads` run the same loop of blocks, so that two of them
may wait at the same PC, which is what the code's comparison of PCs must survive.
A register file is known by the thread and block it belongs to; `own` records
what each thread should find. `frame` holds the locals of each active
`psx_check_interrupts`, `exc` the one global jump buffer. The model ends in
`undefined` when that buffer is used after its frame has gone.

### Serial port and memory cards

The shifter and its buffer are a queue of two bytes. An acknowledge takes 170
cycles and a byte 1088 (`sio.c:274`), so an acknowledge comes before the next
byte is through; only this order is kept of time. The guest sends whole frames,
and within its slack a stray byte, the select byte again, or any control word
instead. `heard` records the bytes exchanged since the bus was selected, and the
properties compare the protocol with it. The flush of a card is two steps (open,
which truncates, and write), each of which may fail, with a crash in between.

## The runs

Every run is one line of `PROJECT.json`; between them they take every action and
every alternative of the next-state relations. The bounds are the smallest with
which the case a property is about happens: two of what may collide, three where
a collision needs a bystander, capacities of one or two so that tables are full.

| run | instance | states | what it shows |
|---|---|---|---|
| `overlay_cps` | two cells on two pages, three functions in two overlapping DLLs, continuation-passing mode, active stack 3, two nested and one leaked activation | 601,776 | a verdict that would be reused agrees with RAM (`VerdictFresh`), an overwritten activation is demoted (`SelfModCaught`), native code is entered on matching bytes only (`NativeEntrySound`), a live variant is not hidden by stale ones (`NoMissedNative`), and the tier implements `OverlayContract` (`ImplementsContract`) |
| `overlay_states` | one cell of boot text, three DLLs of which the ABI gate rejects one, room for one candidate, save states | 181,488 | every dispatch ends (`DispatchTerminates`) |
| `overlay_savestate` | as `overlay_cps`, with save states | violated | see *Findings* |
| `dma_guest` | MDEC-out, GPU, CD-ROM and OTC channels, counts 0 (wrapped) and 3, four register writes, a device that stalls, perhaps for good | 65,520 | no completion inside a reported slice, I_STAT latched exactly on the rise of the master flag, a kick runs the count just programmed, transfers whose device is ready again and again finish |
| `clock_sessions` | two devices whose events chain and one that fires once, four kinds of session | 316,652 | lagging devices cannot be told from devices stepped every cycle (`LagInvisible`, for the session that plays, wait-loop skip included); no event lies in the unserviced gap (`GapIsQuiet`, serial traffic, diagnostic switch and save states included) |
| `timers_counts` | a counter of four counts, dividers 1 and 3, every reachable state and every batch of up to 14 cycles | 26,176 | jumping equals counting (`BatchEqualsTicks`), the predicted distance is the real one (`SliceIsExact`), a one-shot interrupt fires once |
| `cdrom_driver` | Read, Pause, Stop, MotorOn, issued inside the handler too, three enable masks, partial acknowledges, polling; sectors come at a period that leaves room for their interrupts and at one that does not | 117,618 | a presented response is not lost, shown twice or overwritten; nothing waits behind an empty response register; the slice distance is safe; queued commands run and second responses arrive, unless the shorter period is used again and again |
| `threads_hle` | two threads on a loop of three blocks, one of them low kernel code, nested delivery | 845,124 | a thread goes on where it was with its own registers (`ResumesWhereItLeft`), saved contexts are of one moment (`SuspendedContext`), a deferred switch is not kept for ever (`DeferredRuns`) |
| `worker_threads` | two addresses with two images each, queue, dedup map and candidate table of two, one tried entry; scans and single reads fail | 602,448 | each snapshot in flight once, no published shard is forgotten but by a scan that fails to take it, everything queued is decided, the shutdown returns |
| `pipeline_sessions` | two images, two processes; sessions of a player, on a host where every step fails, with rescans and dumps by hand, and with all debug commands | 938,610 | busy() never denies a compile process that was recorded (`BusyWhileCompiling`); such a process never meets a torn manifest, unless compiles or dumps are asked for by hand (`WholeManifest`); what a compile reported is taken over, unless compiles are asked for by hand (`NoLostCompile`); code that stays hot goes native |
| `warm_race` | three slots, mappings and loads may fail, one load per slot registers nothing | 228,346 | every host reference is accounted for, the speculative ones are findable and end |
| `card_bus` | two cards (one on disk, one to be created), sectors of two bytes, read, write, wrong-address and identify frames, a pad; one selection with one departure from the frame, or two selections on a failing host | 319,696 | a card changes only by whole, correctly summed write frames to it (`WholeWrites`), a read that ends with 'G' has sent the sector asked for (`WholeReads`), a clean card is what its file holds (`CleanIsSaved`), the shifter is not stopped with work to do (`NeverStalls`) |

A counter has four counts in `timers_counts` instead of 2^16: the code uses the
width only as a modulus, which is a constant of the module. `Store`
to a watched page is not taken when its generation has reached `GenLimit`: the
32-bit counters of the code do not come round in a session. Deadlock is not checked where the system may stop:
after a shutdown (`worker_threads`), when nothing is left to warm (`warm_race`),
and when the threads have ended (`threads_hle`).

### Fairness

* Dispatch is one C function: it goes on (`overlay_states`).
* Guest time passes (`dma_guest`). A stalled device is not assumed to become
  ready again: the MDEC waits to be fed or drained by the guest or the other
  channel, the drive for the guest to set BFRD. `TransferFinishes` has this
  readiness as its premise.
* Time passes and a guest that has entered its handler leaves it
  (`cdrom_driver`). That sectors leave room for the acknowledges is not assumed
  either; `CommandRuns` and `CompletionArrives` except a stream that keeps coming
  faster (`Hurried`).
* A running thread reaches its next block boundary, and a check, a return from
  exception and a longjmp go on (`threads_hle`).
* Host threads are scheduled; the emulation thread finishes an operation it has
  begun (`worker_threads`, `warm_race`).
* `pipeline_sessions` needs more: frames go on, the write thread and the compile
  processes that a thread waits for end, and the three steps of the emulation thread that compete with new
  code being loaded (`Fire`, `WriteOpen`, `DispatchNative`) are taken if they are
  possible again and again. That is fairness of a frame loop that visits each of
  them each frame; `GoesNative` is stated for code that stays in place.

Nothing is assumed of the guest beyond this: whether it writes a register,
starts a transfer or sends a byte is its choice.

## What is proved

The theorems hold for every value of the constants allowed by the `ASSUME`s of
the modules, so for any number of functions, pages, channels, threads, slots or
bytes of a sector. Each rests on an inductive invariant, tried with TLC as an
invariant of the instances above and then proved action by action.

* **`OverlayCacheProofs`**, under `StackFits` (no save state is loaded, and
  nested plus leaked activations fit the active stack): `CachedVerdictsFresh`,
  `SelfModificationCaught`, `NativeEntryIsSound`, `NoNativeIsMissed` and
  `TierImplementsContract`. A fresh verdict is not inductive by itself. `IndInv`
  adds that the pages of every registered function are watched, that no
  recorded generation sum is ahead of the present one, that a function is
  registered with its DLL, and that every activation on the host stack has its
  own entry on `s_active_stack`, deep enough that the returns of inner ones never
  remove it. That no native function is missed needs `MissInv` as well:
  registration leaves a verdict on every candidate, and a dispatch that has
  turned to the cache has found no live function at its entry, which no other
  step can change before the dispatch ends. `StackFits` is needed: without it
  verdicts go stale and activations are not tracked (see below).
* **`DmaProofs`**: `SlicesAreSafe` (a slice shorter than the reported distance
  completes nothing, for any cost per word), `EdgeLatches`; for a guest that
  does not start a busy channel, `IdleChannels` and from it `KicksAreFresh`.
  Types are enough for the first two; the third is inductive with them.
* **`CdromProofs`**: `InterruptNeverLost`, `NothingIsStranded`,
  `SlicesStopShort`, `PresentedOnlyOnce`, `ResponsesAreKept`. The argument is
  `Teardown`: while a handler is between its two acknowledges, a response that
  came in meanwhile has not been held for as long as the presentation delay.
  It rests on the assumption `HandlerMax < PresentDelay`, which is what the
  comment at `CDROM_IRQ_PRESENT_DELAY` says the delay is for.
* **`GuestThreadsProofs`**, when the interpreter does not run low kernel code
  (`~KernelPumps`): `ThreadsResumeWhereTheyLeft` and `SuspendedContextsCoherent`.
  `IndInv` says for each phase (thread code, handler, return, deferral pending)
  whose registers are in the CPU, in the frame and in each TCB.
* **`HostThreadProofs`**, on the two threads beside the emulation thread. Compile
  worker: `DedupExact`, `PublishReaches`, `DrainedOnStop`; the invariant ties the
  dedup map to the queue and to the job in the worker's hands, and the flag to
  the files that are neither registered nor passed over by a scan begun after
  their rename. Image warming: `ReferencesCounted`, `NoReferenceForgotten`; the
  invariant gives each slot state its owner and its number of references, to
  which the loads that registered nothing add what they keep.
* **`CapturePipelineProofs`**, for any number of processes and whatever fails:
  `BusyIsReliable` in every session, `ManifestIntact` in those without compiles
  and dumps by hand, `EveryCompileApplied` in those without compiles by hand.
  `IndInv` adds that at most one process is recorded and the state is then
  "running" (`RunningIsKnown`), and, where the command in question is not used,
  that a write and a recorded compile never overlap, except that a finished
  compile may wait for the poll of the same frame (`LeftAlone`). Processes that
  were lost are outside the last two: see `CapturePipeline_watch` below.
* **`SerialPortProofs`**, for a guest that does not turn to the other port
  without releasing the bus (`~SlotFlips`): `WritesAreWhole`, `ReadsAreWhole`,
  `CleanCardsAreSaved`, `ShifterNeverStalls`. What the card has collected
  (command, address, data, checksum) is not in the properties; `Device` says that
  the state of the active card is exactly *along* the bytes heard since it was
  selected, that no other card is in the middle of a frame, and that a
  deselected port has nothing to send. A frame that ends therefore was sent
  whole, whatever else was on the bus before.

* **`ClockProofs`**, root counters: `BatchEqualsTicksHolds` (jumping from event to
  event is counting one by one, for every width, divider, mode and number of
  cycles), `SliceIsExactHolds` (the distance reported to the clock is the first
  cycle at which counting fires), `OneShotHolds`. Device time: `GapIsQuietHolds`
  in every session, and `LagInvisibleHolds` in every session without serial
  traffic, toggles and restores, for any devices, periods, caps and distances.
  The invariants are small: `TimersInv` adds to the types that a one-shot
  interrupt that has fired is disarmed; `ClockInv` adds to `GapIsQuiet` that a
  streak of the wait-loop detector has a positive quantum; `LagInv` says that
  `ref` is the lagging devices with the lag counted off. The work is in the loops.

Two of the arguments deserve a word.

*Induction over loops.* The loops of `timers.c` and `psx_cycles.c` are recursive
functions, and the induction theorems of the library cannot be used because they
take an operator as parameter. `ClockProofs` therefore derives induction for
membership in a set (`Induction`) from the well-foundedness of `<`, shows that a
function can be iterated without end (`OrbitExists`), and that a loop which agrees
with such a sequence in each round agrees with it at its end (`RunFollows`). After
that a proof speaks of sequences `f` with `f[n + 1] = Step(f[n])`. For the counters
one jump is the number of counts it stands for, since none of them but the last
meets the target or the overflow; for the clock one chunk of
`psx_devices_service_to_now` is that many single cycles, since the distance to the
next event shrinks by one in each quiet one, and the chunks of a service add up
to the gap.

*Reusing a miss.* A negative verdict is sound only because verdicts are fresh in
both directions, which is why `VerdictFresh` states both.

Only model-checked: all liveness properties (`DispatchTerminates`,
`TransferFinishes`, `CommandRuns`, `CompletionArrives`, `DeferredRuns`,
`QueuedIsDecided`, `StopReturns`, `GoesNative`, `SpeculationEnds`), because fairness
and ENABLED are outside the proof system's reach. Every safety property of a
passing run has a theorem, under the hypotheses named above.

## Findings

`overlay_savestate`: a save-state load copies RAM with `memcpy`
(`boot_state.c:207`) and moves no page generation. A candidate whose verdict was
recorded before the load is then entered on bytes it was not compiled from,
although `overlay_loader.c:2518` calls them "PROVABLY unchanged". The run finds it
in a few steps; the theorems exclude it with `~SaveStates`.

### Further configurations

Each of these checks one statement of the source, of a header or of a test on
an instance in which the code does not keep it, and TLC shows how. They are not
part of the runs; `tlc -config X.cfg M` with the module named reproduces them
(with `-continue`, or one property at a time, where a file lists several).

| configuration (module) | property | what the source says, and what happens |
|---|---|---|
| `OverlayCache_lazy_memo` (`MCOverlayCache`) | `LazyMemoFresh` | `memory.c:489` "Monotonic: gen only increases, so a sum over an entry's pages is a perfect change detector": the memo of a lazy manifest (`overlay_loader.c:2071`) uses pages that are not watched yet. Harmless, since registration checks again |
| `OverlayCache_deep` | `SelfModCaught` | `overlay_loader.c:2685` "we permanently demote that entry to interp": with a full active stack (`:2622`) an activation is not recorded and not demoted |
| `OverlayCache_unwind` | `OnlyExecutingDemoted` | `memory.c:537` "Self-modification of a currently-executing native entry": an entry left behind by a longjmp is demoted although it is not executing |
| `OverlayCache_exact` | `ExactNotMasked` | `overlay_loader.c:2352` "a broader range owner must not mask their valid cached DLL": an owner that is loaded already keeps an exact entry from being loaded, unless it touches a device (`:2357`) |
| `Dma_said` (`MCDma`) | `StartsWhenEnabled` | `dma.c:796` "Transfer starts when bit 24 (start/busy) is set AND channel is enabled in DPCR": enabling it afterwards starts nothing (`:1013`) |
| `Dma_said` | `MasterFlagFormula` | `dma.c:206` "bit31 = bit15 OR (bit23 AND ((bits16-22 AND bits24-30) != 0))": the code does not look at the channel enables (`:217`), so a flag whose enable was cleared keeps bit 31 |
| `Dma_said` | `AlwaysUnderEstimate` | `dma.c:862` "always <= the true remaining, since per-word cost >= 1": an MDEC transfer in the wrong direction completes at once (`:518`), which `SliceStopsInTime` therefore excepts |
| `DeviceClock_serial` (`MCDeviceClock`) | `NoneLate` | `psx_cycles.c:67` "no event can fire late": `sio_advance` leaves an event on its last cycle for the next call (`sio.c:2076`) |
| `DeviceClock_skip` | `SkipStopsAtEvent` | `psx_cycles.c:241` "the skip lands on exactly that boundary": the distance is taken from devices that lag, so iterations past the event are skipped (`:392`). The skip is off by default |
| `DeviceClock_toggle` | `NoneLate` | `psx_cycles.c:157` "keeps the deadline-path state coherent so the two can interleave": the exact path declares the devices in step without replaying what they lag behind (`:186`) |
| `DeviceClock_savestate` | `InStep` | `savestate.h:14` "complete full-machine serializer": the cycles the devices lag behind are not part of it (`psx_cycles.c:429`) |
| `DeviceClock_distance` | `DistanceUnderEstimates` | `interrupts.c:648` "Every query is a conservative UNDER-estimate": lagging devices report too much (`:650`) |
| `CompileWorker_said` (`CompileWorker`) | `OkIsPublished` | `overlay_compile_worker.h:64` "1 = published a shard": the publish may fail without saying so (`overlay_compile_worker.c:107`) |
| `CompileWorker_said` | `UntrackedMissIsQueued` | `overlay_compile_worker.c:59` "a later re-miss can re-enqueue if ever needed": an address that was tried once is not queued again, for another variant either (`overlay_loader.c:2378`) |
| `CompileWorker_said` | `PublishedIsPickedUp` | `overlay_loader.c:2341` "Pick up shards the background compile worker just published": the flag is taken down before the directory is opened, so a scan that fails (`:1350`), or a shard that cannot be read or does not fit the candidate table (`:570`), leaves it unregistered until the next publish |
| `CapturePipeline_rescan` (`MCCapturePipeline`) | `CompileKept` | `autocompile.h:6` "and on success has the emu thread rescan": a request does not refuse a finished compile that waits for its rescan (`autocompile.c:140`), so a debug command drops it |
| `CapturePipeline_watch` | `BusyExact` | `autocompile.h:37` "1 while a compile process is running.": it stays 1 after the process has ended, and for good when the watch thread could not be started (`autocompile.c:195`); it is 0 while a process runs whose context could not be allocated (`:183`) |
| `CapturePipeline_watch` | `NoTornRead` | `overlay_capture.c:329` "cp->busy defers fires while a compile is in flight": a process without a context defers nothing, and the manifest is rewritten under it |
| `Cdrom_fast` (`MCCdrom`) | `FastPeriodIsEnough` | `cdrom.c:243` "Must be enough for the interrupt handler to save state, check the IRQ flag, process data, and return": the least period of the fast modes (500 cycles, reached with `instant_max_per_frame` above 112, `:279`) is below the presentation delay (5000), so each acknowledge finds the next sector's interrupt waiting, and a queued command is held back (`:1825`) and a second response frozen (`:1495`) as long as the stream goes on |
| `GuestThreads_escape` (`GuestThreads`) | `NestingSafe` | `interrupts.c:873` "The synchronous-handler machinery below is nesting-safe": the jump buffer is one global, armed again by a nested delivery and not restored (`:1184`) |
| `GuestThreads_pump` | `ResumesWhereItLeft`, `DeferredRuns` | `interrupts.c:1419` "rather than inheriting a stale value": an immediate switch from a pump in low kernel code jumps past the place where the pump restores its latch |
| `GuestThreads_escape` | `NeverInside` | `interrupts.c:1374` "unwind to psx_scheduler_run and dispatch whatever PCB[0] now points at": without a return from exception pending, the trampoline runs the thread inside the handler |
| `GuestThreads_escape` | `NeverHalts` | `interrupts.c:1414` "the guest handler's save of the outgoing thread is consistent here": a thread interrupted without a PC is saved with the sentinel, and the scheduler finds no PC when it comes back to it |
| `SerialPort_flag` (`MCSerialPort`) | `FlagUntilWrite` | `tests/test_sio_card_protocol.c:324` "FLAG should still be 0x08 since no successful WRITE has occurred": the command byte clears it (`sio.c:1066`) |
| `SerialPort_ready` | `ReadyAgain` | `sio.c:2165` "This unblocks the BIOS pad polling loop that spins on TX_RDY": the acknowledge of a pad byte does not set TX_RDY (`:1571`) |
| `SerialPort_stale` | `IdleCardsAreSilent` | an acknowledge bit left by a released transfer makes the next byte count as acknowledged, though the card is idle |
| `SerialPort_flip` | `WholeWrites` | with `SlotFlips`, a select byte for the other port sent without releasing the bus goes to the slot latched earlier |

### Observations

Met while modelling; no property is about them, or the properties allow them.

* CD-ROM: Play and Seek do not stop a read stream; the second response of Stop or
  Pause clears the READ bit of a Read begun meanwhile; Pause leaves PLAY set.
* Threads: a deferred switch is honoured with interrupts disabled, too; a thread
  that spins in interpreted code only keeps it pending, which is why
  `DeferredRuns` asks for static code. The comment at `interrupts.c:1261` names
  another default than the code at `:1271`.
* Overlay DLLs: one that maps but registers nothing keeps its reference
  (`overlay_loader.c:1764`), and the loader may try it again (`:2036`): each try
  adds a reference that nothing gives back. `RefsExact` counts them.
* Memory cards: a crash in a flush leaves a torn file, and the slot is empty from
  then on, while `memcard.h` says that an enabled slot "loads its file, or
  formats+creates it if missing". The guest is answered 'G' also when the flush
  fails; the card then stays dirty and is tried again with the next write and at
  exit. The branches of `sio_process_byte` that resume a card in the middle of a
  frame are never taken, which `Device` of `SerialPortProofs` shows. The
  new-card flag is written back only when the bus is released while the card is
  active.
* Pads: a change of mode by the host between the two bytes of the configuration
  command latches the configuration mode of a pad that has none
  (`sio.c:631` says it "can never be in config mode").

## Not modelled

* **Arithmetic and data paths**: GTE, rasterisation and the renderers, sound,
  MDEC decoding, XA audio, disc images. They have no control state worth
  exploring and their correctness is numerical.
* **Instruction semantics**: the interpreter, the recompiler's analyses and code
  generation, the JIT's emitter. Their correctness is an equivalence of
  programs; here a function is something that was compiled from certain bytes.
* **The pads' command machine and the negotiation** of pad modes with game and
  host: a pad acknowledges a byte or does not. The properties of the port do not
  depend on the answers.
* **The format of save states and of the boot snapshot**: sections, key, checks.
  What matters for the other parts, that RAM and counters are replaced, is in
  `OverlayCache` and `DeviceClock`.
* **The legacy fiber bridge** (`PSX_HLE_SCHEDULER=0`) and the resume of a
  delivery from a save state: the first is not the default, and the second
  depends on host stacks that are not restored.
* **The capture table, manifest parsing, shadow-differential mode, mult/div
  stalls, watchdogs**: bookkeeping that does not feed back into modelled
  decisions, or diagnostics.
* **Debug server, traces, co-simulation, host shell, Studio, build tools**:
  observation, user interface and batch tools; only the commands that change
  modelled state appear (`CapturePipeline`, `DeviceClock`).

The tier, the port and the clock are composed with the parts they share state
with; a composition of all of them with the guest would only multiply their
states, since they meet in the few values named above (dirty pages, I_STAT bits,
distances to the next event).
