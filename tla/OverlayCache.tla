---------------------------- MODULE OverlayCache ----------------------------
(***************************************************************************)
(* The native-overlay tier of the PSXRecomp runtime: how a PC that lands   *)
(* in runtime-loaded RAM is resolved to a compiled function, or left to    *)
(* the interpreter.                                                        *)
(*                                                                         *)
(*   runtime/src/overlay_loader.c   candidates, lazy manifest index,       *)
(*                                  dispatch, self-modification check      *)
(*   runtime/src/memory.c           store chokepoint, watched pages, page  *)
(*                                  generations, dirty pages               *)
(*   runtime/src/savestate.c, boot_state.c   wholesale RAM replacement     *)
(*                                                                         *)
(* RAM is a small set of cells, each on a page.  CRC-32 is taken to be     *)
(* collision free: a hash comparison is a comparison of the hashed bytes.  *)
(* The configuration modelled is the shipped default: gcc DLL tier on,     *)
(* sljit tier and shadow diff off.                                         *)
(*                                                                         *)
(* Definitions named Bug... are faulty forms of the one that follows; no   *)
(* definition uses them.  They show that a property can fail.              *)
(***************************************************************************)
EXTENDS Integers, Sequences, FiniteSets

CONSTANTS
    Cells,        \* RAM locations, also the guest PCs
    Bytes,        \* what a cell can hold
    LastPage,     \* pages are 0..LastPage
    KernelEnd,    \* first page past the kernel window
    OverlayFloor, \* first page of the overlay region
    PageOf,       \* [Cells -> page]
    Fns,          \* manifest functions of every cached DLL, in index order
    Dlls,
    Entry,        \* [Fns -> Cells]
    Ranges,       \* [Fns -> code ranges, each a set of cells]
    Code,         \* [Fns -> bytes the function was compiled from]
    DllOf,        \* [Fns -> Dlls]
    Region,       \* [Dlls -> region start page, from the file name]
    BadDlls,      \* cached files the ABI gate rejects
    Blocked,      \* native block list (PSX_NATIVE_BLOCK)
    CpsMode,      \* g_psx_cps_mode
    SaveStates,   \* may the user load save states (HLE scheduler)
    ActiveCap,    \* size of s_active_stack (64)
    CandCap,      \* CAND_CAP
    MaxNest,      \* bound: nested native activations
    MaxLeak,      \* bound: activations abandoned by host unwinds
    GenLimit,     \* bound: page generation (2^32 - 1 in the code)
    None

Pages == 0..LastPage

ASSUME LayoutAssumption ==
    /\ LastPage \in Nat
    /\ KernelEnd \in Int /\ OverlayFloor \in Int
    /\ PageOf \in [Cells -> Pages]
    /\ 0 \in Bytes
    /\ Fns \in SUBSET Nat /\ IsFiniteSet(Fns)
    /\ Entry \in [Fns -> Cells]
    /\ Ranges \in [Fns -> SUBSET SUBSET Cells]
    /\ \A f \in Fns : IsFiniteSet(Ranges[f])
    /\ DllOf \in [Fns -> Dlls]
    /\ Region \in [Dlls -> Pages]
    /\ None \notin Fns

ASSUME CodeAssumption ==
    \A f \in Fns : Code[f] \in [UNION Ranges[f] -> Bytes]

ASSUME BoundAssumption ==
    /\ ActiveCap \in Nat /\ CandCap \in Nat
    /\ MaxNest \in Nat /\ MaxLeak \in Nat /\ GenLimit \in Nat
    /\ CpsMode \in BOOLEAN /\ SaveStates \in BOOLEAN

VARIABLES
    ram,            \* ram[]
    page_gen,       \* overlay_page_gen[]
    watch,          \* overlay_watch_bitmap: watched pages
    dirty,          \* dirty_ram_bitmap: dirty pages
    cand,           \* s_cand[], by function: idx (0 = none), state, val_gen
    cand_n,         \* s_cand_n
    lazy_man,       \* s_lazy_man[] memo: state, val_gen
    cache_idx,      \* DLLs named by s_cache_idx
    loaded,         \* s_loaded_paths
    range_pc,       \* s_range_pc_cache: PC -> cached range owner
    s_native_exec,
    s_active_stack, \* s_active_stack[0..s_active_depth-1]
    calls,          \* native activations really on the host stack
    disp,           \* where overlay_loader_dispatch is
    saved           \* RAM and dirty bits in the save slot

memVars  == <<ram, page_gen, watch, dirty>>
candVars == <<cand, cand_n>>
lazyVars == <<lazy_man, cache_idx, loaded>>
vars == <<ram, page_gen, watch, dirty, cand, cand_n, lazy_man, cache_idx,
          loaded, range_pc, s_native_exec, s_active_stack, calls, disp, saved>>

-----------------------------------------------------------------------------
(* Code ranges, hashes and generations.                                    *)

CodeCells(f) == UNION Ranges[f]
RangePages(r) == {PageOf[a] : a \in r}
CodePages(f) == UNION {RangePages(r) : r \in Ranges[f]}

(* cand_crc(c) == c->crc_code *)
Matches(f) == \A a \in CodeCells(f) : ram[a] = Code[f][a]

(* The generation ticks a function has seen: one per bump of a page, per   *)
(* range on it.  Their number is cand_gensum: the sum, over the ranges, of *)
(* the generations of the pages each range spans.                          *)
Ticks(f, gen) == {t \in (Ranges[f] \X Pages) \X (0..GenLimit) :
                t[1][2] \in RangePages(t[1][1]) /\ t[2] < gen[t[1][2]]}
GenSum(f) == Cardinality(Ticks(f, page_gen))

-----------------------------------------------------------------------------
(* Candidates.                                                             *)

Candidate == [idx : 0..CandCap, val_gen : Nat,
              state : {"NONE", "VALID", "INVALID", "BLACKLIST"}]
NoCand == [idx |-> 0, state |-> "NONE", val_gen |-> 0]

Registered == {f \in Fns : cand[f].idx > 0}
BugCallable == Registered
Callable   == {f \in Registered : cand[f].state # "BLACKLIST"}

(* No watched write since the last verdict on f: it stands without a hash. *)
Settled(f) == cand[f].val_gen = GenSum(f)
BugVerdict(f) == cand[f].state = "VALID"
Verdict(f) == IF Settled(f) THEN cand[f].state = "VALID" ELSE Matches(f)

(* Validation of f: re-hash when the generation moved. *)
Checked(f) ==
    IF Settled(f) THEN cand[f]
    ELSE [cand[f] EXCEPT !.val_gen = GenSum(f),
                         !.state = IF Matches(f) THEN "VALID" ELSE "INVALID"]
CheckedAll(S) == [f \in Fns |-> IF f \in S THEN Checked(f) ELSE cand[f]]

(* The chain of a PC, newest registration first (insertion at the head).   *)
Chain(pc)    == {f \in Registered : Entry[f] = pc}
BugChainHits(pc) == {f \in Chain(pc) \cap Callable : Verdict(f)
                        /\ \A h \in Chain(pc) : cand[h].idx <= cand[f].idx}
ChainHits(pc) == {f \in Chain(pc) \cap Callable : Verdict(f)}
ChainVisited(pc) == {f \in Chain(pc) \cap Callable :
                        \A h \in ChainHits(pc) : cand[h].idx <= cand[f].idx}
ChainFirst(pc) == {f \in ChainHits(pc) :
                        \A h \in ChainHits(pc) : cand[h].idx <= cand[f].idx}

(* Owners of an interior PC, oldest registration first, after the cached   *)
(* owner of that PC.                                                       *)
Owners(pc)    == {f \in Callable : pc \in CodeCells(f)}
OwnerHits(pc) == {f \in Owners(pc) : Verdict(f)}
OwnerFirst(pc) ==
    IF range_pc[pc] \in OwnerHits(pc) THEN {range_pc[pc]}
    ELSE {f \in OwnerHits(pc) : \A h \in OwnerHits(pc) : cand[f].idx <= cand[h].idx}
OwnerVisited(pc) ==
    IF range_pc[pc] \in OwnerHits(pc) THEN {range_pc[pc]}
    ELSE {f \in Owners(pc) : \/ f = range_pc[pc]
                             \/ \A h \in OwnerHits(pc) : cand[f].idx <= cand[h].idx}

-----------------------------------------------------------------------------
(* The stack of executing native entries, and the store chokepoint.        *)

PushActive(st, f) == IF Len(st) < ActiveCap THEN Append(st, f) ELSE st
PopActive(st)     == IF Len(st) > 0 THEN SubSeq(st, 1, Len(st) - 1) ELSE st
Tracked == {s_active_stack[d] : d \in DOMAIN s_active_stack}

BugActiveWriteCheck(a) ==
    [f \in Fns |-> IF /\ Len(s_active_stack) > 0 /\ a \in CodeCells(f)
                      /\ f = s_active_stack[Len(s_active_stack)]
                   THEN [cand[f] EXCEPT !.state = "BLACKLIST"] ELSE cand[f]]

(* Demote every entry on the active stack whose code the write overlaps.   *)
ActiveWriteCheck(a) ==
    [f \in Fns |-> IF f \in Tracked /\ a \in CodeCells(f)
                   THEN [cand[f] EXCEPT !.state = "BLACKLIST"] ELSE cand[f]]

(* psx_write_word/half/byte on RAM: the whole chokepoint.  Writes below    *)
(* the kernel window's end mark their page dirty.                          *)
Store(a, b) ==
    LET p == PageOf[a] IN
    /\ disp.at = "run"
    /\ p \in watch => page_gen[p] < GenLimit
    /\ dirty' = IF p < KernelEnd THEN dirty \cup {p} ELSE dirty
    /\ IF p \in watch
       THEN /\ page_gen' = [page_gen EXCEPT ![p] = @ + 1]
            /\ cand' = ActiveWriteCheck(a)
       ELSE UNCHANGED <<page_gen, cand>>
    /\ ram' = [ram EXCEPT ![a] = b]
    /\ UNCHANGED <<watch, cand_n, lazyVars, range_pc, s_native_exec,
                   s_active_stack, calls, disp, saved>>

(* dirty_ram_mark_executable_range, after a CD DMA wrote code to page p.   *)
MarkExecutable(p) ==
    /\ disp.at = "run"
    /\ dirty' = dirty \cup {p}
    /\ UNCHANGED <<ram, page_gen, watch, candVars, lazyVars, range_pc,
                   s_native_exec, s_active_stack, calls, disp, saved>>

(* dirty_ram_clear_image_baseline: boot text is clean at game start.       *)
ClearImageBaseline ==
    /\ disp.at = "run"
    /\ dirty' = {p \in dirty : p < KernelEnd \/ p >= OverlayFloor}
    /\ UNCHANGED <<ram, page_gen, watch, candVars, lazyVars, range_pc,
                   s_native_exec, s_active_stack, calls, disp, saved>>

-----------------------------------------------------------------------------
(* Lazy loading: which cached DLL a miss at a PC publishes.                *)

Window(pc) == \/ PageOf[pc] < KernelEnd
              \/ PageOf[pc] >= OverlayFloor
              \/ PageOf[pc] \in dirty

(* The walk back over the contiguous dirty pages, down to the floor of the *)
(* window the PC is in.                                                    *)
WindowFloor(pg) == IF pg < KernelEnd THEN 0
                   ELSE IF pg < OverlayFloor THEN KernelEnd ELSE OverlayFloor
RegionStart(pc) ==
    LET pg == PageOf[pc] IN
    CHOOSE p \in Pages :
        /\ WindowFloor(pg) <= p /\ p <= pg
        /\ \A q \in Pages : p <= q /\ q < pg => q \in dirty
        /\ p > WindowFloor(pg) => p - 1 \notin dirty

(* lazy_man_matches: the memo of f, refreshed when its generation moved.   *)
LazyMan == [state : {"unknown", "VALID", "INVALID"}, val_gen : Nat]
NoMemo == [state |-> "unknown", val_gen |-> 0]
LazySettled(f) == lazy_man[f].state # "unknown" /\ lazy_man[f].val_gen = GenSum(f)
LazyVerdict(f) == IF LazySettled(f) THEN lazy_man[f].state = "VALID" ELSE Matches(f)
LazyChecked(f) ==
    IF LazySettled(f) THEN lazy_man[f]
    ELSE [state |-> IF Matches(f) THEN "VALID" ELSE "INVALID", val_gen |-> GenSum(f)]

(* The order of s_lazy_man: by cache index entry, then within a manifest.  *)
IndexedDlls == {cache_idx[i] : i \in DOMAIN cache_idx}
Older(f, g) ==
    \/ DllOf[f] = DllOf[g] /\ f <= g
    \/ \E i, j \in DOMAIN cache_idx :
          cache_idx[i] = DllOf[f] /\ cache_idx[j] = DllOf[g] /\ i < j

FnsOf(d) == {f \in Fns : DllOf[f] = d}
BundleMatches(d) == \A f \in FnsOf(d) : LazyVerdict(f)
BundleVisited(d) == {f \in FnsOf(d) :
                        \A g \in FnsOf(d) : g > f => LazyVerdict(g)}

Eligible(pc) == {f \in Fns :
    /\ DllOf[f] \in IndexedDlls \ loaded
    /\ Region[DllOf[f]] = RegionStart(pc)}
ExactMan(pc) == {f \in Eligible(pc) : Entry[f] = pc}
RangeMan(pc) == {f \in Eligible(pc) : Entry[f] # pc /\ pc \in CodeCells(f)}
ExactHits(pc) == {f \in ExactMan(pc) : LazyVerdict(f)}
RangeHits(pc) == {f \in RangeMan(pc) : LazyVerdict(f)}

(* Exact entries first; enclosing ranges only when there is none.  Exact   *)
(* chains run newest first, range chains oldest first.                     *)
LazyHits(pc) == IF ExactHits(pc) # {} THEN ExactHits(pc) ELSE RangeHits(pc)
Before(pc, f, g) == IF ExactHits(pc) # {} THEN Older(g, f) ELSE Older(f, g)
Fallback(pc) == {DllOf[f] : f \in
    {f \in LazyHits(pc) : \A g \in LazyHits(pc) : Before(pc, f, g)}}

(* The broadest fully coherent bundle, the first of them in chain order.   *)
Coherent(pc) == {f \in LazyHits(pc) : BundleMatches(DllOf[f])}
FuncCount(f) == Cardinality(FnsOf(DllOf[f]))
Best(pc) == {DllOf[f] : f \in
    {f \in Coherent(pc) : \A g \in Coherent(pc) :
        \/ FuncCount(f) > FuncCount(g)
        \/ FuncCount(f) = FuncCount(g) /\ Before(pc, f, g)}}

(* lazy_load_selected(best), else of the fallback; a rejected file fails.  *)
Selected(pc) == IF Best(pc) \ BadDlls # {} THEN Best(pc) \ BadDlls
                ELSE Fallback(pc) \ BadDlls
LazyVisited(pc) ==
    ExactMan(pc) \cup (IF ExactHits(pc) = {} THEN RangeMan(pc) ELSE {})
    \cup UNION {BundleVisited(DllOf[f]) : f \in LazyHits(pc)}
LazyRefreshed(pc) == [f \in Fns |-> IF f \in LazyVisited(pc)
                                    THEN LazyChecked(f) ELSE lazy_man[f]]

(* load_one_dll: cand_register for every function of the DLL, until the    *)
(* candidate table is full.  The code pages are watched before the hash.   *)
Slot(d, f) == cand_n + Cardinality({g \in FnsOf(d) : g <= f})
Fits(d) == {f \in FnsOf(d) : Slot(d, f) <= CandCap}
NewCand(d, f) == [idx |-> Slot(d, f), val_gen |-> GenSum(f),
                  state |-> IF Matches(f) THEN "VALID" ELSE "INVALID"]
BugLoadDll(d) ==
    /\ cand' = [f \in Fns |-> IF f \in Fits(d) THEN NewCand(d, f) ELSE cand[f]]
    /\ cand_n' = cand_n + Cardinality(Fits(d))
    /\ loaded' = loaded \cup {d} /\ UNCHANGED watch
LoadDll(d) ==
    /\ cand' = [f \in Fns |-> IF f \in Fits(d) THEN NewCand(d, f) ELSE cand[f]]
    /\ cand_n' = cand_n + Cardinality(Fits(d))
    /\ watch' = watch \cup UNION {CodePages(f) : f \in Fits(d)}
    /\ loaded' = loaded \cup {d}

-----------------------------------------------------------------------------
(* overlay_loader_dispatch.  It runs to completion on the emulation        *)
(* thread: "lookup" is its retry_candidates label, "load" its call of      *)
(* try_load_region, and "run" is guest code running.                       *)

Idle == [at |-> "run", pc |-> None, lazy_loaded |-> FALSE]

Dispatch(pc) ==
    /\ disp.at = "run"
    /\ Len(calls) < MaxNest
    /\ disp' = [at |-> "lookup", pc |-> pc, lazy_loaded |-> FALSE]
    /\ UNCHANGED <<memVars, candVars, lazyVars, range_pc, s_native_exec,
                   s_active_stack, calls, saved>>

(* No candidate: try the cache, once per dispatch and inside the window,   *)
(* else leave the PC to the interpreter.                                   *)
AfterMiss(pc) ==
    IF ~disp.lazy_loaded /\ Window(pc) THEN [disp EXCEPT !.at = "load"] ELSE Idle

EnterNative(f) ==
    /\ calls' = Append(calls, f)
    /\ s_active_stack' = PushActive(s_active_stack, f)

ChainNative(f) ==
    /\ disp.at = "lookup" /\ f \in ChainFirst(disp.pc)
    /\ s_native_exec /\ Entry[f] \notin Blocked
    /\ cand' = CheckedAll(ChainVisited(disp.pc))
    /\ EnterNative(f)
    /\ disp' = Idle
    /\ UNCHANGED <<memVars, cand_n, lazyVars, range_pc, s_native_exec, saved>>

(* A live match that may not run native goes to the interpreter.           *)
ChainDeclined(f) ==
    /\ disp.at = "lookup" /\ f \in ChainFirst(disp.pc)
    /\ ~s_native_exec \/ Entry[f] \in Blocked
    /\ cand' = CheckedAll(ChainVisited(disp.pc))
    /\ disp' = Idle
    /\ UNCHANGED <<memVars, cand_n, lazyVars, range_pc, s_native_exec,
                   s_active_stack, calls, saved>>

ChainMiss ==
    /\ disp.at = "lookup"
    /\ Chain(disp.pc) # {} /\ ChainHits(disp.pc) = {}
    /\ cand' = CheckedAll(ChainVisited(disp.pc))
    /\ disp' = AfterMiss(disp.pc)
    /\ UNCHANGED <<memVars, cand_n, lazyVars, range_pc, s_native_exec,
                   s_active_stack, calls, saved>>

(* Continuation re-entry: the PC is no entry but lies inside f.            *)
RangeFound(f) ==
    /\ disp.at = "lookup" /\ CpsMode
    /\ Chain(disp.pc) = {} /\ f \in OwnerFirst(disp.pc)
    /\ cand' = CheckedAll(OwnerVisited(disp.pc))
    /\ range_pc' = [range_pc EXCEPT ![disp.pc] = f]
    /\ disp' = Idle
    /\ UNCHANGED <<memVars, cand_n, lazyVars, s_native_exec, saved>>

RangeAllowed(f) == s_native_exec /\ Entry[f] \notin Blocked /\ disp.pc \notin Blocked

RangeNative(f) == RangeFound(f) /\ RangeAllowed(f) /\ EnterNative(f)

RangeDeclined(f) == /\ RangeFound(f) /\ ~RangeAllowed(f)
                    /\ UNCHANGED <<s_active_stack, calls>>

(* psx_native_bad_entry: f has no block at this PC and bounces at once.    *)
RangeBounce(f) ==
    /\ RangeFound(f) /\ RangeAllowed(f)
    /\ s_active_stack' = PopActive(PushActive(s_active_stack, f))
    /\ UNCHANGED calls

RangeMiss ==
    /\ disp.at = "lookup" /\ Chain(disp.pc) = {}
    /\ ~CpsMode \/ OwnerHits(disp.pc) = {}
    /\ cand' = IF CpsMode THEN CheckedAll(OwnerVisited(disp.pc)) ELSE cand
    /\ disp' = AfterMiss(disp.pc)
    /\ UNCHANGED <<memVars, cand_n, lazyVars, range_pc, s_native_exec,
                   s_active_stack, calls, saved>>

BugTryLoadRegion(d) ==
    /\ disp.at = "load" /\ d \in Best(disp.pc)
    /\ IF d \in BadDlls THEN UNCHANGED <<candVars, watch, loaded>> ELSE LoadDll(d)
    /\ lazy_man' = LazyRefreshed(disp.pc)
    /\ disp' = [disp EXCEPT !.at = "lookup", !.lazy_loaded = d \notin BadDlls]
    /\ UNCHANGED <<ram, page_gen, dirty, cache_idx, range_pc, s_native_exec,
                   s_active_stack, calls, saved>>

TryLoadRegion(d) ==
    /\ disp.at = "load" /\ d \in Selected(disp.pc)
    /\ LoadDll(d)
    /\ lazy_man' = LazyRefreshed(disp.pc)
    /\ disp' = [disp EXCEPT !.at = "lookup", !.lazy_loaded = TRUE]
    /\ UNCHANGED <<ram, page_gen, dirty, cache_idx, range_pc, s_native_exec,
                   s_active_stack, calls, saved>>

NothingToLoad ==
    /\ disp.at = "load" /\ Selected(disp.pc) = {}
    /\ lazy_man' = LazyRefreshed(disp.pc)
    /\ disp' = Idle
    /\ UNCHANGED <<memVars, candVars, cache_idx, loaded, range_pc, s_native_exec,
                   s_active_stack, calls, saved>>

-----------------------------------------------------------------------------
(* The end of an activation: a return runs the dispatcher's epilogue, a    *)
(* longjmp over the n innermost activations does not.                      *)

Return ==
    /\ disp.at = "run" /\ Len(calls) > 0
    /\ calls' = SubSeq(calls, 1, Len(calls) - 1)
    /\ s_active_stack' = PopActive(s_active_stack)
    /\ UNCHANGED <<memVars, candVars, lazyVars, range_pc, s_native_exec, disp, saved>>

HostUnwind(n) ==
    /\ disp.at = "run" /\ n \in 1..Len(calls)
    /\ Len(s_active_stack) - Len(calls) + n <= MaxLeak
    /\ calls' = SubSeq(calls, 1, Len(calls) - n)
    /\ UNCHANGED <<memVars, candVars, lazyVars, range_pc, s_native_exec,
                   s_active_stack, disp, saved>>

(* scan_cache_dir, at start and after a background compile: index the new  *)
(* file d if there is one, and rebuild the manifest index from nothing.    *)
Rescan(d) ==
    /\ disp.at = "run"
    /\ cache_idx' = IF d \in IndexedDlls THEN cache_idx ELSE Append(cache_idx, d)
    /\ lazy_man' = [f \in Fns |-> NoMemo]
    /\ UNCHANGED <<memVars, candVars, loaded, range_pc, s_native_exec,
                   s_active_stack, calls, disp, saved>>

SetNativeExec(on) ==
    /\ disp.at = "run" /\ s_native_exec' = on
    /\ UNCHANGED <<memVars, candVars, lazyVars, range_pc, s_active_stack,
                   calls, disp, saved>>

(* savestate_poll: RAM and dirty bits are copied out, and copied back past *)
(* the store chokepoint; the load resumes by longjmp to the scheduler.     *)
SaveState ==
    /\ SaveStates /\ disp.at = "run"
    /\ saved' = [ram |-> ram, dirty |-> dirty]
    /\ UNCHANGED <<memVars, candVars, lazyVars, range_pc, s_native_exec,
                   s_active_stack, calls, disp>>

LoadState ==
    /\ SaveStates /\ disp.at = "run" /\ saved # None
    /\ Len(s_active_stack) <= MaxLeak
    /\ ram' = saved.ram /\ dirty' = saved.dirty
    /\ calls' = <<>>
    /\ UNCHANGED <<page_gen, watch, candVars, lazyVars, range_pc, s_native_exec,
                   s_active_stack, disp, saved>>

-----------------------------------------------------------------------------
Init ==
    /\ ram = [a \in Cells |-> 0]
    /\ page_gen = [p \in Pages |-> 0]
    /\ watch = {} /\ dirty = {}
    /\ cand = [f \in Fns |-> NoCand] /\ cand_n = 0
    /\ lazy_man = [f \in Fns |-> NoMemo]
    /\ cache_idx = <<>> /\ loaded = {}
    /\ range_pc = [a \in Cells |-> None]
    /\ s_native_exec = TRUE
    /\ s_active_stack = <<>> /\ calls = <<>>
    /\ disp = Idle
    /\ saved = None

(* The steps of one overlay_loader_dispatch call after its start.          *)
DispatchStep ==
    \/ \E f \in Fns : \/ ChainNative(f) \/ ChainDeclined(f)
                      \/ RangeNative(f) \/ RangeDeclined(f) \/ RangeBounce(f)
    \/ ChainMiss \/ RangeMiss
    \/ \E d \in Dlls : TryLoadRegion(d)
    \/ NothingToLoad

Next ==
    \/ \E a \in Cells, b \in Bytes : Store(a, b)
    \/ \E p \in Pages : MarkExecutable(p)
    \/ ClearImageBaseline
    \/ \E pc \in Cells : Dispatch(pc)
    \/ DispatchStep
    \/ Return
    \/ \E n \in 1..MaxNest : HostUnwind(n)
    \/ \E d \in Dlls : Rescan(d)
    \/ \E on \in BOOLEAN : SetNativeExec(on)
    \/ SaveState
    \/ LoadState

Spec == Init /\ [][Next]_vars

(* overlay_loader_dispatch is a plain function call: it does not stop half *)
(* way.  Nothing is assumed of the guest program.                          *)
FairSpec == Spec /\ WF_vars(DispatchStep)

-----------------------------------------------------------------------------
MemType ==
    /\ ram \in [Cells -> Bytes]
    /\ page_gen \in [Pages -> 0..GenLimit]
    /\ watch \subseteq Pages /\ dirty \subseteq Pages
CandType ==
    /\ cand \in [Fns -> Candidate]
    /\ cand_n \in Nat
    /\ range_pc \in [Cells -> Fns \cup {None}]
LazyType ==
    /\ lazy_man \in [Fns -> LazyMan]
    /\ cache_idx \in Seq(Dlls) /\ loaded \subseteq Dlls
StackType ==
    /\ s_active_stack \in Seq(Fns) /\ Len(s_active_stack) <= ActiveCap
    /\ calls \in Seq(Fns)
DispType ==
    /\ s_native_exec \in BOOLEAN
    /\ disp \in [at : {"run", "lookup", "load"}, pc : Cells \cup {None},
                 lazy_loaded : BOOLEAN]
    /\ disp.at # "run" => disp.pc \in Cells
    /\ saved \in [ram : [Cells -> Bytes], dirty : SUBSET Pages] \cup {None}
TypeOK == MemType /\ CandType /\ LazyType /\ StackType /\ DispType

(* A verdict whose generation still equals the page-generation sum agrees  *)
(* with the bytes in RAM, whatever was stored since it was reached: the    *)
(* fast path of overlay_loader_dispatch may skip the hash.                 *)
VerdictFresh ==
    \A f \in Registered : Settled(f) =>
        /\ cand[f].state = "VALID" => Matches(f)
        /\ cand[f].state = "INVALID" => ~Matches(f)

(* Native code still on the host stack whose source bytes were overwritten *)
(* is blacklisted (overlay_loader_active_write_check sees every one).      *)
SelfModCaught ==
    \A k \in DOMAIN calls : Matches(calls[k]) \/ cand[calls[k]].state = "BLACKLIST"

(* Dispatch enters native code only when the bytes it was compiled from    *)
(* are in RAM at that moment and it was never blacklisted.                 *)
Entering == Len(calls') > Len(calls)
NativeEntrySound ==
    [][Entering => LET f == calls'[Len(calls')] IN
                   Matches(f) /\ cand[f].state # "BLACKLIST"]_vars

(* Dispatch leaves a PC to the interpreter only when no registered         *)
(* function at that entry could have run: a stale variant in the chain     *)
(* never hides a live one, nor does a load that fails.                     *)
ToInterpreter == disp.at # "run" /\ disp'.at = "run" /\ calls' = calls
NoMissedNative ==
    [][ToInterpreter /\ s_native_exec /\ disp.pc \notin Blocked =>
         \A f \in Chain(disp.pc) \cap Callable : ~Matches(f)]_vars

(* Every dispatch ends, in native code or at the interpreter: the retry    *)
(* after a lazy load happens at most once, however many DLLs match.        *)
DispatchTerminates == (disp.at # "run") ~> (disp.at = "run")

(* Why these hold: the pages of a registered function are watched, so a    *)
(* store to its code moves its generation sum past every recorded one; and *)
(* every activation on the host stack has its own place on s_active_stack, *)
(* deep enough that the returns of inner activations never pop it, as long *)
(* as that stack is never full.                                            *)
WatchCovers  == \A f \in Registered : CodePages(f) \subseteq watch
GenBehind    == \A f \in Registered : cand[f].val_gen <= GenSum(f)
LoadedOnce   == /\ \A f \in Registered : DllOf[f] \in loaded
                /\ \A f \in Fns \ Registered : cand[f].state # "BLACKLIST"
ActiveCovers == \A k \in DOMAIN calls :
                   \E d \in 1..(Len(s_active_stack) - (Len(calls) - k)) :
                       s_active_stack[d] = calls[k]
CallsTracked == /\ Tracked \subseteq Registered
                /\ \A k \in DOMAIN calls : calls[k] \in Registered
                /\ ActiveCovers
                /\ Len(s_active_stack) - Len(calls) \in 0..MaxLeak
                /\ Len(calls) <= MaxNest
                /\ disp.at # "run" => Len(calls) < MaxNest
IndInv == /\ TypeOK /\ WatchCovers /\ GenBehind /\ LoadedOnce /\ VerdictFresh
          /\ CallsTracked /\ SelfModCaught

-----------------------------------------------------------------------------
(* Statements the source makes that the code does not keep.                *)

(* memory.c calls the generation sum "a perfect change detector": a lazy   *)
(* manifest verdict reached at the present sum agrees with RAM.            *)
LazyMemoFresh ==
    \A f \in Fns : LazySettled(f) => (lazy_man[f].state = "VALID" <=> Matches(f))

(* Only "a currently-executing native entry" is blacklisted by a store;    *)
(* any other candidate survives being overwritten and reloaded.            *)
OnlyExecutingDemoted ==
    [][\A f \in Fns : cand'[f].state = "BLACKLIST" /\ cand[f].state # "BLACKLIST"
          => \E k \in DOMAIN calls : calls[k] = f]_vars

(* "a broader range owner must not mask" the cached DLL of an exact entry: *)
(* a PC is run inside another function only when no cached function with   *)
(* that very entry could be loaded.                                        *)
ExactNotMasked ==
    [][Entering /\ Entry[calls'[Len(calls')]] # disp.pc
          /\ ~disp.lazy_loaded /\ Window(disp.pc)
       => \A f \in ExactHits(disp.pc) : DllOf[f] \in BadDlls]_vars

-----------------------------------------------------------------------------
(* The tier implements its contract.                                       *)
Banned == {f \in Fns : cand[f].state = "BLACKLIST"}
C == INSTANCE OverlayContract WITH banned <- Banned
ImplementsContract == C!Contract
=============================================================================
