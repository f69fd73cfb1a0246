------------------------- MODULE OverlayCacheProofs -------------------------
(***************************************************************************)
(* Proofs about OverlayCache for every set of functions, DLLs, pages and   *)
(* bounds: cached verdicts are never stale, overwritten running code is    *)
(* caught, native entry is sound and never missed, and the tier implements *)
(* OverlayContract.                                                        *)
(* Two hypotheses are stated in the theorems, not assumed of the code: no  *)
(* save state is loaded, and the active stack is never full.               *)
(***************************************************************************)
EXTENDS OverlayCache, FiniteSetTheorems, SequenceTheorems, TLAPS

-----------------------------------------------------------------------------
(* Generation sums.                                                        *)

(* Leaves are Zenon's; one that needs arithmetic, records or sequences     *)
(* names SMT.                                                              *)
USE Zenon

(* A function has finitely many ticks, whatever the generations.        *)
LEMMA TicksFinite ==
    ASSUME NEW f \in Fns, NEW gen
    PROVE  IsFiniteSet(Ticks(f, gen)) /\ Cardinality(Ticks(f, gen)) \in Nat
<1> DEFINE Box == (Ranges[f] \X Pages) \X (0..GenLimit)
<1>1. IsFiniteSet(Ranges[f]) /\ LastPage \in Nat /\ GenLimit \in Nat
  BY LayoutAssumption, BoundAssumption
<1>2. IsFiniteSet(Pages) /\ IsFiniteSet(0..GenLimit)
  BY <1>1, FS_Interval, SMT DEF Pages
<1>3. IsFiniteSet(Ranges[f] \X Pages)
  BY <1>1, <1>2, FS_Product
<1>4. IsFiniteSet(Box)
  BY <1>2, <1>3, FS_Product
<1>5. Ticks(f, gen) \in SUBSET Box
  BY DEF Ticks
<1>6. IsFiniteSet(Ticks(f, gen))
  BY <1>4, <1>5, FS_Subset
<1> QED
  BY <1>6, FS_CardinalityType

(* GenSum (cand_gensum) is a number, now and after any step.               *)
LEMMA GenSumNat ==
    ASSUME NEW f \in Fns
    PROVE  GenSum(f) \in Nat /\ GenSum(f)' \in Nat
BY TicksFinite DEF GenSum

(* A watched store to page p never lowers a generation sum, and raises     *)
(* that of every function with code on p (overlay_watch_note_write).       *)
LEMMA BumpMoves ==
    ASSUME NEW f \in Fns, NEW p \in Pages,
           page_gen \in [Pages -> 0..GenLimit],
           page_gen[p] < GenLimit,
           page_gen' = [page_gen EXCEPT ![p] = @ + 1]
    PROVE  /\ GenSum(f) <= GenSum(f)'
           /\ p \in CodePages(f) => GenSum(f) < GenSum(f)'
<1>1. Ticks(f, page_gen) \subseteq Ticks(f, page_gen')
  BY BoundAssumption, SMT DEF Ticks
<1>2. IsFiniteSet(Ticks(f, page_gen')) /\ GenSum(f)' \in Nat /\ GenSum(f) \in Nat
  BY TicksFinite DEF GenSum
<1>3. GenSum(f) <= GenSum(f)'
  BY <1>1, <1>2, FS_Subset DEF GenSum
<1>4. ASSUME p \in CodePages(f) PROVE GenSum(f) < GenSum(f)'
  <2>1. PICK r \in Ranges[f] : p \in RangePages(r)
    BY <1>4 DEF CodePages
  <2> DEFINE t == <<<<r, p>>, page_gen[p]>>
  <2>2. t \in Ticks(f, page_gen')
    <3>1. page_gen'[p] = page_gen[p] + 1 /\ page_gen[p] \in 0..GenLimit
      OBVIOUS
    <3>2. t \in (Ranges[f] \X Pages) \X (0..GenLimit)
      BY <2>1, <3>1
    <3>3. page_gen[p] < page_gen'[p]
      BY <3>1, BoundAssumption, SMT
    <3> QED BY <2>1, <3>2, <3>3 DEF Ticks
  <2>3. t \notin Ticks(f, page_gen)
    BY BoundAssumption, SMT DEF Ticks
  <2>4. GenSum(f) # GenSum(f)'
    BY <1>1, <1>2, <2>2, <2>3, FS_Subset DEF GenSum
  <2> QED BY <1>2, <1>3, <2>4, SMT
<1> QED BY <1>3, <1>4

-----------------------------------------------------------------------------
(* The hypotheses: no save state is loaded, and s_active_stack has room    *)
(* for every nested and every abandoned activation.                        *)
StackFits == ~SaveStates /\ MaxNest + MaxLeak <= ActiveCap

-----------------------------------------------------------------------------
(* What validation does to the candidates of a lookup: nothing but refresh *)
(* verdicts.  Every dispatch step changes cand in this way or not at all.  *)
LEMMA CheckFrame ==
    ASSUME IndInv, NEW S \in SUBSET Callable, cand' = CheckedAll(S),
           UNCHANGED <<ram, page_gen, watch, loaded>>
    PROVE  /\ cand' \in [Fns -> Candidate]
           /\ Registered' = Registered
           /\ WatchCovers' /\ GenBehind' /\ LoadedOnce' /\ VerdictFresh'
           /\ \A f \in Fns : cand'[f].state = "BLACKLIST" <=> cand[f].state = "BLACKLIST"
<1> USE DEF IndInv, TypeOK, CandType, Candidate
<1>1. \A f \in Fns : cand'[f] = IF f \in S THEN Checked(f) ELSE cand[f]
  BY DEF CheckedAll
<1>2. \A f \in Fns : GenSum(f) \in Nat /\ GenSum(f)' = GenSum(f) /\ Matches(f)' = Matches(f)
  BY GenSumNat DEF GenSum, Matches
<1>3. \A f \in Fns : /\ cand'[f] \in Candidate
                     /\ cand'[f].idx = cand[f].idx
                     /\ \/ cand'[f] = cand[f]
                        \/ /\ f \in S /\ cand'[f].val_gen = GenSum(f)
                           /\ cand'[f].state = IF Matches(f) THEN "VALID" ELSE "INVALID"
  <2> SUFFICES ASSUME NEW f \in Fns
               PROVE  /\ Checked(f) \in Candidate
                      /\ Checked(f).idx = cand[f].idx
                      /\ \/ Checked(f) = cand[f]
                         \/ /\ Checked(f).val_gen = GenSum(f)
                            /\ Checked(f).state = IF Matches(f) THEN "VALID" ELSE "INVALID"
    BY <1>1
  <2>1. CASE Settled(f)
    BY <2>1 DEF Checked
  <2>2. CASE ~Settled(f)
    <3> DEFINE st == IF Matches(f) THEN "VALID" ELSE "INVALID"
    <3>1. Checked(f) = [cand[f] EXCEPT !.val_gen = GenSum(f), !.state = st]
      BY <2>2 DEF Checked
    <3>2. cand[f] \in Candidate /\ st \in {"VALID", "INVALID"}
      OBVIOUS
    <3> HIDE DEF st
    <3>3. /\ Checked(f) \in Candidate /\ Checked(f).idx = cand[f].idx
          /\ Checked(f).val_gen = GenSum(f) /\ Checked(f).state = st
      BY <3>1, <3>2, <1>2
    <3> QED BY <3>3 DEF st
  <2> QED BY <2>1, <2>2
<1>4. cand' \in [Fns -> Candidate]
  BY <1>3 DEF CheckedAll
<1>5. Registered' = Registered
  BY <1>3 DEF Registered
<1>6. WatchCovers' /\ LoadedOnce'
  BY <1>3, <1>5 DEF WatchCovers, LoadedOnce, CodePages, RangePages, Callable
<1>7. GenBehind'
  <2> SUFFICES ASSUME NEW f \in Registered PROVE cand'[f].val_gen <= GenSum(f)
    BY <1>2, <1>5 DEF GenBehind, Registered
  <2>1. f \in Fns /\ cand[f].val_gen <= GenSum(f)
    BY DEF GenBehind, Registered
  <2>2. GenSum(f) \in Nat
    BY <2>1, GenSumNat
  <2>3. cand'[f] = cand[f] \/ cand'[f].val_gen = GenSum(f)
    BY <2>1, <1>3
  <2> QED BY ONLY <2>1, <2>2, <2>3, SMT
<1>8. VerdictFresh'
  BY <1>2, <1>3, <1>5 DEF VerdictFresh, Settled, Registered
<1>9. \A f \in Fns : cand'[f].state = "BLACKLIST" <=> cand[f].state = "BLACKLIST"
  BY <1>3 DEF Callable
<1> QED BY <1>4, <1>5, <1>6, <1>7, <1>8, <1>9

(* A positive verdict means that the bytes are there: by VerdictFresh when *)
(* it is a cached one, by the hash when it is not.                         *)
LEMMA VerdictSound ==
    ASSUME IndInv, NEW f \in Registered, Verdict(f)
    PROVE  Matches(f)
BY DEF IndInv, VerdictFresh, Verdict

(* What the invariant says of the two stacks.                              *)
LEMMA Stacks ==
    ASSUME IndInv
    PROVE  /\ calls \in Seq(Fns) /\ Len(calls) \in Nat /\ DOMAIN calls = 1..Len(calls)
           /\ \A k \in DOMAIN calls : calls[k] \in Fns /\ calls[k] \in Registered
           /\ s_active_stack \in Seq(Fns) /\ Len(s_active_stack) \in Nat
           /\ DOMAIN s_active_stack = 1..Len(s_active_stack)
           /\ Len(s_active_stack) <= ActiveCap
           /\ Len(calls) <= Len(s_active_stack)
           /\ Len(s_active_stack) - Len(calls) \in 0..MaxLeak
           /\ Len(calls) <= MaxNest
           /\ disp.at # "run" => Len(calls) < MaxNest
<1>1. calls \in Seq(Fns) /\ s_active_stack \in Seq(Fns) /\ Len(s_active_stack) <= ActiveCap
  BY DEF IndInv, TypeOK, StackType
<1>2. /\ Len(calls) \in Nat /\ DOMAIN calls = 1..Len(calls)
      /\ \A k \in DOMAIN calls : calls[k] \in Fns
      /\ Len(s_active_stack) \in Nat /\ DOMAIN s_active_stack = 1..Len(s_active_stack)
  BY ONLY <1>1, SMT
<1>3. /\ \A k \in DOMAIN calls : calls[k] \in Registered
      /\ Len(s_active_stack) - Len(calls) \in 0..MaxLeak
      /\ Len(calls) <= MaxNest
      /\ disp.at # "run" => Len(calls) < MaxNest
  BY DEF IndInv, CallsTracked
<1>4. Len(calls) <= Len(s_active_stack)
  BY ONLY <1>2, <1>3, BoundAssumption, SMT DEF BoundAssumption
<1> QED BY ONLY <1>1, <1>2, <1>3, <1>4

(* The stacks are left alone.                                              *)
LEMMA CallsFrame ==
    ASSUME CallsTracked, calls' = calls, s_active_stack' = s_active_stack,
           Registered \subseteq Registered', disp'.at # "run" => Len(calls) < MaxNest
    PROVE  CallsTracked'
<1>1. Tracked' = Tracked
  BY DEF Tracked
<1>2. ActiveCovers' = ActiveCovers
  BY DEF ActiveCovers
<1> QED BY <1>1, <1>2 DEF CallsTracked

(* No store, no activation, and no change of the blacklist.                *)
LEMMA SelfModFrame ==
    ASSUME IndInv, ram' = ram, calls' = calls,
           \A f \in Fns : cand'[f].state = "BLACKLIST" <=> cand[f].state = "BLACKLIST"
    PROVE  SelfModCaught'
<1>1. \A k \in DOMAIN calls : calls[k] \in Fns
  BY Stacks
<1>2. SelfModCaught
  BY DEF IndInv
<1> QED BY ONLY <1>1, <1>2, ram' = ram, calls' = calls,
        \A f \in Fns : cand'[f].state = "BLACKLIST" <=> cand[f].state = "BLACKLIST"
        DEF SelfModCaught, Matches

(* Entering a function pushes it on both stacks.                           *)
LEMMA EnterTracked ==
    ASSUME IndInv, StackFits, disp.at = "lookup", disp' = Idle,
           NEW f \in Registered, EnterNative(f), Registered' = Registered
    PROVE  /\ CallsTracked'
           /\ s_active_stack' \in Seq(Fns) /\ Len(s_active_stack') <= ActiveCap
           /\ calls' \in Seq(Fns)
           /\ Len(calls') = Len(calls) + 1 /\ calls'[Len(calls')] = f
           /\ \A k \in DOMAIN calls : calls'[k] = calls[k]
<1>1. /\ f \in Fns /\ Len(calls) \in Nat /\ Len(s_active_stack) \in Nat
      /\ calls \in Seq(Fns) /\ s_active_stack \in Seq(Fns)
      /\ Len(s_active_stack) - Len(calls) \in 0..MaxLeak /\ CallsTracked
  BY Stacks DEF Registered, IndInv
<1>2. Len(calls) < MaxNest /\ Len(s_active_stack) < ActiveCap
  <2>1. Len(calls) < MaxNest /\ MaxNest + MaxLeak <= ActiveCap
    BY Stacks DEF StackFits
  <2> QED BY ONLY <1>1, <2>1, BoundAssumption, SMT DEF BoundAssumption
<1>3. calls' = Append(calls, f) /\ s_active_stack' = Append(s_active_stack, f)
  BY <1>2 DEF EnterNative, PushActive
<1>4. /\ Len(calls') = Len(calls) + 1
      /\ Len(s_active_stack') = Len(s_active_stack) + 1
      /\ calls' \in Seq(Fns) /\ s_active_stack' \in Seq(Fns)
      /\ calls'[Len(calls) + 1] = f
      /\ s_active_stack'[Len(s_active_stack) + 1] = f
      /\ \A k \in 1..Len(calls) : calls'[k] = calls[k]
      /\ \A k \in 1..Len(s_active_stack) : s_active_stack'[k] = s_active_stack[k]
      /\ DOMAIN calls = 1..Len(calls) /\ DOMAIN calls' = 1..(Len(calls) + 1)
  BY <1>1, <1>3, SMT
<1>5. ActiveCovers'
  <2> SUFFICES ASSUME NEW k \in 1..(Len(calls) + 1)
               PROVE  \E d \in 1..(Len(s_active_stack') - (Len(calls') - k)) :
                          s_active_stack'[d] = calls'[k]
    BY <1>4 DEF ActiveCovers
  <2>1. CASE k = Len(calls) + 1
    BY <2>1, <1>1, <1>4, SMT
  <2>2. CASE k \in 1..Len(calls)
    <3>1. PICK d \in 1..(Len(s_active_stack) - (Len(calls) - k)) : s_active_stack[d] = calls[k]
      BY <2>2, <1>1, <1>4 DEF CallsTracked, ActiveCovers
    <3>2. d \in 1..Len(s_active_stack)
      BY <3>1, <2>2, <1>1, SMT
    <3>3. d \in 1..(Len(s_active_stack') - (Len(calls') - k))
      BY <3>1, <2>2, <1>1, <1>4, SMT
    <3> QED BY <3>1, <3>2, <3>3, <2>2, <1>4
  <2>3. k = Len(calls) + 1 \/ k \in 1..Len(calls)
    BY <1>1, SMT
  <2> QED BY ONLY <2>1, <2>2, <2>3
<1>6. \A k \in DOMAIN calls' : calls'[k] \in Registered'
  <2> SUFFICES ASSUME NEW k \in 1..(Len(calls) + 1) PROVE calls'[k] \in Registered
    BY <1>4
  <2>1. k \in 1..Len(calls) \/ k = Len(calls) + 1
    BY <1>1, SMT
  <2>2. \A j \in 1..Len(calls) : calls[j] \in Registered
    BY Stacks
  <2> QED BY <1>4, <2>1, <2>2
<1>9. Tracked' \subseteq Registered'
  <2>1. DOMAIN s_active_stack' = 1..(Len(s_active_stack) + 1)
    BY <1>4, SMT
  <2>2. \A j \in 1..Len(s_active_stack) : s_active_stack[j] \in Registered
    BY <1>1, Stacks DEF CallsTracked, Tracked
  <2>3. \A j \in 1..(Len(s_active_stack) + 1) :
            j \in 1..Len(s_active_stack) \/ j = Len(s_active_stack) + 1
    BY <1>1, SMT
  <2>4. \A j \in 1..(Len(s_active_stack) + 1) : s_active_stack'[j] \in Registered
    BY <1>4, <2>2, <2>3
  <2> QED BY <2>1, <2>4 DEF Tracked
<1>7. /\ Len(s_active_stack') - Len(calls') \in 0..MaxLeak
      /\ Len(calls') <= MaxNest
      /\ disp'.at = "run"
  <2>1. disp'.at = "run"
    BY DEF Idle
  <2> QED BY ONLY <1>1, <1>2, <1>4, <2>1, BoundAssumption, SMT DEF BoundAssumption
<1>8. CallsTracked'
  BY <1>5, <1>6, <1>7, <1>9 DEF CallsTracked
<1> QED BY <1>1, <1>2, <1>4, <1>8, BoundAssumption, SMT

-----------------------------------------------------------------------------
(* One lemma per operation: it preserves the inductive invariant.          *)

(* overlay_loader_init: no candidate, no activation, nothing watched.      *)
LEMMA InitInv ==
    Init => IndInv
<1> SUFFICES ASSUME Init PROVE IndInv
  OBVIOUS
<1> USE DEF Init
<1>1. NoCand \in Candidate /\ NoMemo \in LazyMan
  BY BoundAssumption, SMT DEF NoCand, NoMemo, Candidate, LazyMan
<1>2. TypeOK
  <2>1. MemType
    BY LayoutAssumption, BoundAssumption, SMT DEF MemType
  <2>2. CandType /\ LazyType
    BY <1>1, SMT DEF CandType, LazyType
  <2>3. StackType
    BY BoundAssumption, SMT DEF StackType
  <2>4. DispType
    BY DEF DispType, Idle
  <2> QED BY <2>1, <2>2, <2>3, <2>4 DEF TypeOK
<1>3. Registered = {} /\ \A f \in Fns : cand[f].state = "NONE"
  BY SMT DEF Registered, NoCand
<1>4. CallsTracked
  BY BoundAssumption, SMT DEF CallsTracked, ActiveCovers, Tracked, Idle
<1>5. SelfModCaught
  BY SMT DEF SelfModCaught
<1> QED BY <1>2, <1>3, <1>4, <1>5
        DEF IndInv, WatchCovers, GenBehind, LoadedOnce, VerdictFresh

(* The state that the safety argument is about is left alone.              *)
LEMMA QuietFrame ==
    ASSUME IndInv, UNCHANGED <<ram, page_gen, watch, cand, loaded, calls, s_active_stack>>,
           TypeOK', disp'.at # "run" => Len(calls) < MaxNest
    PROVE  IndInv'
<1> USE DEF IndInv
<1>1. Registered' = Registered
  BY DEF Registered
<1>2. WatchCovers' /\ LoadedOnce'
  BY <1>1 DEF WatchCovers, LoadedOnce, CodePages, RangePages
<1>3. GenBehind'
  BY <1>1 DEF GenBehind, GenSum
<1>4. VerdictFresh'
  BY <1>1 DEF VerdictFresh, Settled, GenSum, Matches
<1>5. CallsTracked'
  BY <1>1, CallsFrame
<1>6. SelfModCaught'
  BY SelfModFrame
<1> QED BY <1>2, <1>3, <1>4, <1>5, <1>6

(* Marking pages dirty or clean, starting a dispatch, a cache rescan, the  *)
(* native-execution switch: no store, no verdict, no activation.           *)
LEMMA QuietInv ==
    ASSUME IndInv,
           \/ \E p \in Pages : MarkExecutable(p)
           \/ ClearImageBaseline
           \/ \E pc \in Cells : Dispatch(pc)
           \/ \E d \in Dlls : Rescan(d)
           \/ \E on \in BOOLEAN : SetNativeExec(on)
    PROVE  IndInv'
<1> USE DEF memVars, candVars, lazyVars
<1>0. TypeOK /\ MemType /\ CandType /\ LazyType /\ StackType /\ DispType
  BY DEF IndInv, TypeOK
<1>1. ASSUME NEW p \in Pages, MarkExecutable(p) PROVE IndInv'
  <2>1. MemType' /\ DispType' /\ disp' = disp
    BY <1>0, <1>1 DEF MarkExecutable, MemType, DispType
  <2>2. TypeOK'
    BY <1>0, <1>1, <2>1 DEF MarkExecutable, TypeOK, CandType, LazyType, StackType
  <2> QED BY <1>1, <2>1, <2>2, Stacks, QuietFrame DEF MarkExecutable
<1>2. ASSUME ClearImageBaseline PROVE IndInv'
  <2>1. MemType' /\ DispType' /\ disp' = disp
    BY <1>0, <1>2 DEF ClearImageBaseline, MemType, DispType
  <2>2. TypeOK'
    BY <1>0, <1>2, <2>1 DEF ClearImageBaseline, TypeOK, CandType, LazyType, StackType
  <2> QED BY <1>2, <2>1, <2>2, Stacks, QuietFrame DEF ClearImageBaseline
<1>3. ASSUME NEW pc \in Cells, Dispatch(pc) PROVE IndInv'
  <2>1. DispType' /\ Len(calls) < MaxNest
    BY <1>0, <1>3 DEF Dispatch, DispType
  <2>2. TypeOK'
    BY <1>0, <1>3, <2>1 DEF Dispatch, TypeOK, MemType, CandType, LazyType, StackType
  <2> QED BY <1>3, <2>1, <2>2, QuietFrame DEF Dispatch
<1>4. ASSUME NEW d \in Dlls, Rescan(d) PROVE IndInv'
  <2>1. [f \in Fns |-> NoMemo] \in [Fns -> LazyMan]
    BY DEF NoMemo, LazyMan
  <2>2. cache_idx \in Seq(Dlls) /\ (cache_idx' = cache_idx \/ cache_idx' = Append(cache_idx, d))
    BY <1>0, <1>4 DEF Rescan, LazyType
  <2>3. cache_idx' \in Seq(Dlls)
    BY ONLY <2>2, d \in Dlls, SMT
  <2>4. LazyType' /\ disp' = disp
    BY <1>0, <1>4, <2>1, <2>3 DEF Rescan, LazyType
  <2>5. TypeOK'
    BY <1>0, <1>4, <2>4 DEF Rescan, TypeOK, MemType, CandType, StackType, DispType
  <2> QED BY <1>4, <2>4, <2>5, Stacks, QuietFrame DEF Rescan
<1>5. ASSUME NEW on \in BOOLEAN, SetNativeExec(on) PROVE IndInv'
  <2>1. DispType' /\ disp' = disp
    BY <1>0, <1>5 DEF SetNativeExec, DispType
  <2>2. TypeOK'
    BY <1>0, <1>5, <2>1 DEF SetNativeExec, TypeOK, MemType, CandType, LazyType, StackType
  <2> QED BY <1>5, <2>1, <2>2, Stacks, QuietFrame DEF SetNativeExec
<1> QED BY <1>1, <1>2, <1>3, <1>4, <1>5

(* A lookup that ends without native code: verdicts are refreshed only.    *)
LEMMA LookupFrame ==
    ASSUME IndInv, NEW S \in SUBSET Callable, cand' = CheckedAll(S),
           UNCHANGED <<memVars, cand_n, lazyVars, s_native_exec, s_active_stack,
                       calls, saved>>,
           range_pc' \in [Cells -> Fns \cup {None}],
           disp.at = "lookup", disp' = Idle \/ disp' = AfterMiss(disp.pc)
    PROVE  IndInv'
<1> USE DEF IndInv, memVars, lazyVars
<1>1. /\ cand' \in [Fns -> Candidate] /\ Registered' = Registered
      /\ WatchCovers' /\ GenBehind' /\ LoadedOnce' /\ VerdictFresh'
      /\ \A f \in Fns : cand'[f].state = "BLACKLIST" <=> cand[f].state = "BLACKLIST"
  BY CheckFrame
<1>2. disp' = Idle \/ disp' = [disp EXCEPT !.at = "load"]
  BY DEF AfterMiss
<1>3. TypeOK'
  <2> DEFINE D == [at : {"run", "lookup", "load"}, pc : Cells \cup {None},
                   lazy_loaded : BOOLEAN]
  <2>1. disp \in D /\ disp.pc \in Cells
    BY DEF TypeOK, DispType
  <2>2. disp' \in D /\ (disp'.at # "run" => disp'.pc \in Cells)
    <3>1. CASE disp' = Idle
      BY <3>1 DEF Idle
    <3>2. CASE disp' = [disp EXCEPT !.at = "load"]
      BY <3>2, <2>1
    <3> QED BY <1>2, <3>1, <3>2
  <2>3. DispType'
    BY <2>2 DEF TypeOK, DispType
  <2> QED BY <1>1, <2>3 DEF TypeOK, MemType, CandType, LazyType, StackType
<1>4. CallsTracked'
  BY <1>1, Stacks, CallsFrame
<1>7. SelfModCaught'
  BY <1>1, SelfModFrame
<1> QED BY <1>1, <1>3, <1>4, <1>7

(* Every lookup that declines or misses only refreshes verdicts.           *)
LEMMA LookupInv ==
    ASSUME IndInv, StackFits,
           \/ \E f \in Fns : ChainDeclined(f) \/ RangeDeclined(f) \/ RangeBounce(f)
           \/ ChainMiss \/ RangeMiss
    PROVE  IndInv'
<1>0. /\ range_pc \in [Cells -> Fns \cup {None}]
      /\ s_active_stack \in Seq(Fns)
      /\ \A pc : ChainVisited(pc) \in SUBSET Callable
      /\ disp.at = "lookup" => /\ disp.pc \in Cells
                               /\ OwnerVisited(disp.pc) \in SUBSET Callable
  BY DEF IndInv, TypeOK, CandType, StackType, DispType, ChainVisited, OwnerVisited,
         OwnerHits, Owners
<1>1. ASSUME NEW f \in Fns, ChainDeclined(f) PROVE IndInv'
  BY <1>0, <1>1, LookupFrame DEF ChainDeclined
<1>2. ASSUME NEW f \in Fns, RangeDeclined(f) PROVE IndInv'
  BY <1>0, <1>2, LookupFrame DEF RangeDeclined, RangeFound
<1>3. ASSUME NEW f \in Fns, RangeBounce(f) PROVE IndInv'
  <2>1. Len(s_active_stack) < ActiveCap /\ Len(s_active_stack) \in Nat
    <3>1. disp.at = "lookup" /\ MaxNest + MaxLeak <= ActiveCap
      BY <1>3 DEF RangeBounce, RangeFound, StackFits
    <3>2. /\ Len(calls) < MaxNest /\ Len(calls) \in Nat /\ Len(s_active_stack) \in Nat
          /\ Len(s_active_stack) - Len(calls) \in 0..MaxLeak
      BY <3>1, Stacks
    <3> QED BY ONLY <3>1, <3>2, BoundAssumption, SMT DEF BoundAssumption
  <2>2. s_active_stack' = SubSeq(Append(s_active_stack, f), 1, Len(s_active_stack))
    BY <1>0, <1>3, <2>1, SMT DEF RangeBounce, PushActive, PopActive
  <2>3. s_active_stack' = s_active_stack
    BY <1>0, <2>1, <2>2, SMT
  <2> QED BY <1>0, <1>3, <2>3, LookupFrame DEF RangeBounce, RangeFound
<1>4. ASSUME ChainMiss PROVE IndInv'
  BY <1>0, <1>4, LookupFrame DEF ChainMiss
<1>5. ASSUME RangeMiss PROVE IndInv'
  <2>1. CASE CpsMode
    BY <1>0, <1>5, <2>1, LookupFrame DEF RangeMiss
  <2>2. CASE ~CpsMode
    <3>1. cand' = cand /\ cand = CheckedAll({})
      BY <1>5, <2>2 DEF RangeMiss, CheckedAll, IndInv, TypeOK, CandType
    <3> QED BY <1>0, <1>5, <3>1, LookupFrame DEF RangeMiss
  <2> QED BY <2>1, <2>2
<1> QED BY <1>1, <1>2, <1>3, <1>4, <1>5

(* Native entry: the function chosen is registered, live and callable.     *)
LEMMA EnterInv ==
    ASSUME IndInv, StackFits, NEW f \in Fns, ChainNative(f) \/ RangeNative(f)
    PROVE  /\ IndInv'
           /\ f \in Callable /\ Matches(f)
           /\ calls' = Append(calls, f)
           /\ \A g \in Fns : cand'[g].state = "BLACKLIST" <=> cand[g].state = "BLACKLIST"
<1>1. /\ disp.at = "lookup" /\ disp' = Idle /\ EnterNative(f)
      /\ UNCHANGED <<memVars, cand_n, lazyVars, s_native_exec, saved>>
  BY DEF ChainNative, RangeNative, RangeFound
<1>2. f \in Callable /\ Verdict(f)
  BY DEF ChainNative, ChainFirst, ChainHits,
         RangeNative, RangeFound, OwnerFirst, OwnerHits, Owners
<1>3. \E S \in SUBSET Callable : cand' = CheckedAll(S)
  <2>1. CASE ChainNative(f)
    <3>1. ChainVisited(disp.pc) \in SUBSET Callable
      BY DEF ChainVisited
    <3> QED BY <2>1, <3>1 DEF ChainNative
  <2>2. CASE RangeNative(f)
    <3>1. OwnerVisited(disp.pc) \in SUBSET Callable
      BY DEF OwnerVisited, OwnerHits, Owners
    <3> QED BY <2>2, <3>1 DEF RangeNative, RangeFound
  <2> QED BY <2>1, <2>2
<1>4. range_pc' \in [Cells -> Fns \cup {None}]
  BY <1>1 DEF ChainNative, RangeNative, RangeFound, IndInv, TypeOK, CandType, DispType
<1>5. f \in Registered /\ Matches(f)
  BY <1>2, VerdictSound DEF Callable
<1>6. /\ cand' \in [Fns -> Candidate] /\ Registered' = Registered
      /\ WatchCovers' /\ GenBehind' /\ LoadedOnce' /\ VerdictFresh'
      /\ \A g \in Fns : cand'[g].state = "BLACKLIST" <=> cand[g].state = "BLACKLIST"
  BY <1>1, <1>3, CheckFrame DEF memVars, lazyVars
<1>7. /\ CallsTracked'
      /\ s_active_stack' \in Seq(Fns) /\ Len(s_active_stack') <= ActiveCap
      /\ calls' \in Seq(Fns)
      /\ Len(calls') = Len(calls) + 1 /\ calls'[Len(calls')] = f
      /\ \A k \in DOMAIN calls : calls'[k] = calls[k]
  BY <1>1, <1>5, <1>6, EnterTracked
<1>8. TypeOK'
  <2>0. MemType /\ CandType /\ LazyType /\ DispType
    BY DEF IndInv, TypeOK
  <2>1. MemType' /\ LazyType' /\ DispType'
    BY <1>1, <2>0 DEF MemType, LazyType, DispType, Idle, memVars, lazyVars
  <2>2. CandType'
    BY <1>1, <1>4, <1>6, <2>0 DEF CandType
  <2>3. StackType'
    BY <1>7 DEF StackType
  <2> QED BY <2>1, <2>2, <2>3 DEF TypeOK
<1>9. SelfModCaught'
  <2> SUFFICES ASSUME NEW k \in DOMAIN calls'
               PROVE  Matches(calls'[k]) \/ cand'[calls'[k]].state = "BLACKLIST"
    BY <1>1 DEF SelfModCaught, Matches, CodeCells, memVars
  <2>1. calls \in Seq(Fns) /\ k \in 1..(Len(calls) + 1)
    <3>1. calls \in Seq(Fns) /\ Len(calls') = Len(calls) + 1 /\ calls' \in Seq(Fns)
      BY <1>7, Stacks
    <3> QED BY ONLY <3>1, k \in DOMAIN calls', SMT
  <2>2. CASE k = Len(calls')
    BY <2>2, <1>5, <1>7
  <2>3. CASE k \in DOMAIN calls
    <3>1. calls'[k] = calls[k] /\ calls[k] \in Fns
      BY <2>1, <2>3, <1>7, SMT
    <3>2. Matches(calls[k]) \/ cand[calls[k]].state = "BLACKLIST"
      BY <2>3 DEF IndInv, SelfModCaught
    <3> QED BY <3>1, <3>2, <1>6
  <2>4. k = Len(calls') \/ k \in DOMAIN calls
    BY <2>1, <1>7, SMT
  <2> QED BY ONLY <2>2, <2>3, <2>4
<1>10. calls' = Append(calls, f)
  BY <1>1 DEF EnterNative
<1> QED BY <1>2, <1>5, <1>6, <1>7, <1>8, <1>9, <1>10 DEF IndInv

(* Refreshing the lazy manifest memo keeps its type.                       *)
LEMMA LazyTyped ==
    ASSUME TypeOK, NEW pc
    PROVE  LazyRefreshed(pc) \in [Fns -> LazyMan]
<1>1. \A f \in Fns : LazyChecked(f) \in LazyMan /\ lazy_man[f] \in LazyMan
  BY GenSumNat DEF TypeOK, LazyType, LazyChecked, LazyMan
<1> QED BY <1>1 DEF LazyRefreshed

(* load_one_dll: new candidates get a fresh verdict and watched pages; the *)
(* candidates already there, running ones included, are not touched.       *)
LEMMA LoadInv ==
    ASSUME IndInv, NEW d \in Dlls, TryLoadRegion(d)
    PROVE  /\ IndInv'
           /\ \A f \in Fns : cand'[f].state = "BLACKLIST" <=> cand[f].state = "BLACKLIST"
<1> USE DEF IndInv
<1>1. /\ disp.at = "load" /\ d \notin loaded
      /\ cand' = [f \in Fns |-> IF f \in Fits(d) THEN NewCand(d, f) ELSE cand[f]]
      /\ cand_n' = cand_n + Cardinality(Fits(d))
      /\ watch' = watch \cup UNION {CodePages(f) : f \in Fits(d)}
      /\ loaded' = loaded \cup {d}
      /\ lazy_man' = LazyRefreshed(disp.pc)
      /\ disp' = [disp EXCEPT !.at = "lookup", !.lazy_loaded = TRUE]
      /\ UNCHANGED <<ram, page_gen, dirty, cache_idx, range_pc, s_native_exec,
                     s_active_stack, calls, saved>>
  BY DEF TryLoadRegion, LoadDll, Selected, Best, Fallback, Coherent, LazyHits,
         ExactHits, RangeHits, ExactMan, RangeMan, Eligible
<1>2. Fits(d) \subseteq FnsOf(d) /\ FnsOf(d) \subseteq Fns
  BY DEF Fits, FnsOf
<1>3. /\ IsFiniteSet(Fits(d)) /\ Cardinality(Fits(d)) \in Nat
      /\ \A f \in Fits(d) : Slot(d, f) \in 0..CandCap
  <2>1. IsFiniteSet(Fns) /\ cand_n \in Nat /\ CandCap \in Nat
    BY LayoutAssumption, BoundAssumption DEF TypeOK, CandType
  <2>2. \A S \in SUBSET Fns : IsFiniteSet(S) /\ Cardinality(S) \in Nat
    BY <2>1, FS_Subset, FS_CardinalityType
  <2>3. \A f : {g \in FnsOf(d) : g <= f} \in SUBSET Fns
    BY <1>2
  <2>4. \A f : Slot(d, f) \in Nat
    BY <2>1, <2>2, <2>3, SMT DEF Slot
  <2> QED BY <1>2, <2>1, <2>2, <2>4, SMT DEF Fits
<1>4. \A f \in Fits(d) : f \notin Registered
  BY <1>1, <1>2 DEF LoadedOnce, FnsOf
<1>5. \A f \in Fns : GenSum(f) \in Nat /\ GenSum(f)' = GenSum(f)
  BY <1>1, GenSumNat DEF GenSum
<1>6. \A f \in Fits(d) : /\ cand'[f] = NewCand(d, f)
                         /\ NewCand(d, f) \in Candidate
                         /\ cand'[f].val_gen = GenSum(f)
                         /\ cand'[f].state = IF Matches(f) THEN "VALID" ELSE "INVALID"
  BY <1>1, <1>2, <1>3, <1>5 DEF NewCand, Candidate
<1>7. \A f \in Fns \ Fits(d) : cand'[f] = cand[f]
  BY <1>1
<1>8. cand' \in [Fns -> Candidate]
  BY <1>1, <1>6, <1>7 DEF TypeOK, CandType
<1>9. Registered \subseteq Registered' /\ Registered' \subseteq Registered \cup Fits(d)
  BY <1>4, <1>7 DEF Registered
<1>10. \A f \in Registered' : f \in Fits(d) \/ (f \in Registered /\ cand'[f] = cand[f])
  BY <1>7, <1>9 DEF Registered
<1>11. TypeOK'
  <2>1. watch' \subseteq Pages
    <3>1. \A f \in Fns : CodePages(f) \subseteq Pages
      BY LayoutAssumption, SMT DEF CodePages, RangePages
    <3> QED BY <1>1, <1>2, <3>1 DEF TypeOK, MemType
  <2>2. disp' \in [at : {"run", "lookup", "load"}, pc : Cells \cup {None},
                   lazy_loaded : BOOLEAN] /\ disp'.pc \in Cells
    BY <1>1 DEF TypeOK, DispType
  <2>3. cand_n' \in Nat /\ lazy_man' \in [Fns -> LazyMan]
    <3>1. cand_n \in Nat
      BY DEF TypeOK, CandType
    <3> QED BY <1>1, <1>3, <3>1, LazyTyped, SMT
  <2>4. MemType' /\ StackType'
    BY <1>1, <2>1 DEF TypeOK, MemType, StackType
  <2>5. CandType' /\ LazyType'
    BY <1>1, <1>8, <2>3 DEF TypeOK, CandType, LazyType
  <2>6. DispType'
    BY <1>1, <2>2 DEF TypeOK, DispType
  <2> QED BY <2>4, <2>5, <2>6 DEF TypeOK
<1>12. WatchCovers' /\ LoadedOnce'
  <2>1. WatchCovers'
    BY <1>1, <1>2, <1>10 DEF WatchCovers, CodePages, RangePages
  <2>2. \A f \in Registered' : DllOf[f] \in loaded'
    BY <1>1, <1>2, <1>10 DEF LoadedOnce, FnsOf
  <2>3. \A f \in Fns \ Registered' : cand'[f].state # "BLACKLIST"
    BY <1>6, <1>7, <1>9 DEF LoadedOnce
  <2> QED BY <2>1, <2>2, <2>3 DEF LoadedOnce
<1>13. GenBehind'
  <2> SUFFICES ASSUME NEW f \in Registered' PROVE cand'[f].val_gen <= GenSum(f)
    BY <1>5 DEF GenBehind, Registered
  <2>1. GenSum(f) \in Nat
    BY <1>5 DEF Registered
  <2> QED BY <2>1, <1>6, <1>10, SMT DEF GenBehind
<1>14. VerdictFresh'
  <2> SUFFICES ASSUME NEW f \in Registered', cand'[f].val_gen = GenSum(f)
               PROVE  /\ cand'[f].state = "VALID" => Matches(f)
                      /\ cand'[f].state = "INVALID" => ~Matches(f)
    BY <1>1, <1>5 DEF VerdictFresh, Settled, Registered, Matches, CodeCells
  <2> QED BY <1>6, <1>10 DEF VerdictFresh, Settled
<1>15. CallsTracked'
  <2>1. Len(calls) < MaxNest
    BY <1>1, Stacks
  <2> QED BY <1>1, <1>9, <2>1, CallsFrame
<1>16. \A f \in Fns : cand'[f].state = "BLACKLIST" <=> cand[f].state = "BLACKLIST"
  BY <1>4, <1>6, <1>7 DEF LoadedOnce
<1>18. SelfModCaught'
  BY <1>1, <1>16, SelfModFrame
<1> QED BY <1>11, <1>12, <1>13, <1>14, <1>15, <1>16, <1>18

(* A miss in the cache refreshes the manifest memo and nothing else.       *)
LEMMA NothingToLoadInv ==
    ASSUME IndInv, NothingToLoad
    PROVE  IndInv'
<1> USE DEF NothingToLoad, memVars, candVars
<1>0. TypeOK /\ MemType /\ CandType /\ LazyType /\ StackType /\ DispType
  BY DEF IndInv, TypeOK
<1>1. TypeOK'
  <2>1. LazyType'
    BY <1>0, LazyTyped DEF LazyType
  <2>2. DispType'
    BY <1>0 DEF DispType, Idle
  <2> QED BY <1>0, <2>1, <2>2 DEF TypeOK, MemType, CandType, StackType
<1> QED BY <1>1, QuietFrame DEF Idle

(* The store chokepoint.  A store into registered code moves the sum of    *)
(* that code past its recorded generation; a store into running code finds *)
(* it on the active stack.                                                 *)
LEMMA StoreInv ==
    ASSUME IndInv, NEW a \in Cells, NEW b \in Bytes, Store(a, b)
    PROVE  /\ IndInv'
           /\ \A f \in Fns : cand[f].state = "BLACKLIST" => cand'[f].state = "BLACKLIST"
           /\ \A f \in Fns : cand'[f].state = "BLACKLIST" =>
                 cand[f].state = "BLACKLIST" \/ a \in CodeCells(f)
           /\ \A k \in DOMAIN calls : a \in CodeCells(calls[k]) =>
                 cand'[calls[k]].state = "BLACKLIST"
<1> DEFINE p == PageOf[a]
           Moved(f) == Cardinality(Ticks(f, page_gen'))
<1> USE DEF IndInv
<1>1. /\ p \in Pages
      /\ ram' = [ram EXCEPT ![a] = b]
      /\ dirty' \subseteq Pages
      /\ UNCHANGED <<watch, cand_n, lazyVars, range_pc, s_native_exec,
                     s_active_stack, calls, disp, saved>>
  BY LayoutAssumption DEF Store, TypeOK, MemType
<1>2. page_gen' \in [Pages -> 0..GenLimit]
  <2>1. page_gen \in [Pages -> 0..GenLimit]
    BY DEF TypeOK, MemType
  <2>2. \/ page_gen' = page_gen
        \/ page_gen[p] < GenLimit /\ page_gen' = [page_gen EXCEPT ![p] = @ + 1]
    BY DEF Store
  <2> HIDE DEF p
  <2> QED BY <1>1, <2>1, <2>2, BoundAssumption, SMT
<1>2a. ASSUME NEW f \in Fns
       PROVE  /\ GenSum(f) \in Nat /\ Moved(f) \in Nat /\ GenSum(f) <= Moved(f)
              /\ p \in watch /\ p \in CodePages(f) => GenSum(f) < Moved(f)
  <2>1. CASE p \in watch
    <3>1. page_gen[p] < GenLimit /\ page_gen' = [page_gen EXCEPT ![p] = @ + 1]
      BY <2>1 DEF Store
    <3>2. page_gen \in [Pages -> 0..GenLimit]
      BY DEF TypeOK, MemType
    <3> HIDE DEF p
    <3> QED BY <1>1, <3>1, <3>2, BumpMoves, TicksFinite DEF GenSum
  <2>2. CASE p \notin watch
    <3>1. page_gen' = page_gen
      BY <2>2 DEF Store
    <3> QED BY <2>2, <3>1, TicksFinite, SMT DEF GenSum
  <2> QED BY <2>1, <2>2
<1>3. \A f \in Fns : /\ cand'[f].idx = cand[f].idx /\ cand'[f].val_gen = cand[f].val_gen
                     /\ cand'[f] \in Candidate
                     /\ \/ cand'[f] = cand[f]
                        \/ f \in Tracked /\ a \in CodeCells(f) /\ cand'[f].state = "BLACKLIST"
                     /\ p \in watch /\ f \in Tracked /\ a \in CodeCells(f)
                           => cand'[f].state = "BLACKLIST"
  <2> SUFFICES ASSUME NEW f \in Fns
               PROVE  /\ cand'[f].idx = cand[f].idx /\ cand'[f].val_gen = cand[f].val_gen
                      /\ cand'[f] \in Candidate
                      /\ \/ cand'[f] = cand[f]
                         \/ f \in Tracked /\ a \in CodeCells(f) /\ cand'[f].state = "BLACKLIST"
                      /\ p \in watch /\ f \in Tracked /\ a \in CodeCells(f)
                            => cand'[f].state = "BLACKLIST"
    OBVIOUS
  <2>0. cand[f] \in Candidate
    BY DEF TypeOK, CandType
  <2>1. CASE p \in watch /\ f \in Tracked /\ a \in CodeCells(f)
    <3>1. cand'[f] = [cand[f] EXCEPT !.state = "BLACKLIST"]
      BY <2>1 DEF Store, ActiveWriteCheck
    <3> QED BY <2>0, <2>1, <3>1 DEF Candidate
  <2>2. CASE ~(p \in watch /\ f \in Tracked /\ a \in CodeCells(f))
    <3>1. cand'[f] = cand[f]
      BY <2>2 DEF Store, ActiveWriteCheck
    <3> QED BY <2>0, <2>2, <3>1
  <2> QED BY <2>1, <2>2
<1>4. cand' \in [Fns -> Candidate]
  BY <1>3 DEF Store, ActiveWriteCheck, TypeOK, CandType
<1>5. Registered' = Registered
  BY <1>3 DEF Registered
<1>6. TypeOK'
  <2>1. MemType'
    BY <1>1, <1>2 DEF TypeOK, MemType
  <2>2. CandType' /\ LazyType'
    BY <1>1, <1>4 DEF TypeOK, CandType, LazyType, lazyVars
  <2>3. StackType' /\ DispType'
    BY <1>1 DEF TypeOK, StackType, DispType
  <2> QED BY <2>1, <2>2, <2>3 DEF TypeOK
<1>7. WatchCovers' /\ LoadedOnce'
  BY <1>1, <1>3, <1>5
     DEF WatchCovers, LoadedOnce, CallsTracked, CodePages, RangePages, lazyVars
<1>8. GenBehind'
  <2> SUFFICES ASSUME NEW f \in Fns, f \in Registered PROVE cand'[f].val_gen <= Moved(f)
    BY <1>5 DEF GenBehind, Registered, GenSum
  <2>1. f \in Fns /\ cand[f].val_gen <= GenSum(f) /\ cand[f].val_gen \in Nat
    BY DEF GenBehind, Registered, TypeOK, CandType, Candidate
  <2>2. GenSum(f) \in Nat /\ Moved(f) \in Nat /\ GenSum(f) <= Moved(f)
    BY <1>2a
  <2>3. cand'[f].val_gen = cand[f].val_gen
    BY <1>3, <2>1
  <2> QED BY ONLY <2>1, <2>2, <2>3, SMT
<1>9. \A f \in Registered : a \in CodeCells(f) => p \in watch /\ p \in CodePages(f)
  BY SMT DEF WatchCovers, CodeCells, CodePages, RangePages
<1>10. VerdictFresh'
  <2> SUFFICES ASSUME NEW f \in Fns, f \in Registered, cand'[f].val_gen = Moved(f)
               PROVE  /\ cand'[f].state = "VALID" => Matches(f)'
                      /\ cand'[f].state = "INVALID" => ~Matches(f)'
    BY <1>5 DEF VerdictFresh, Settled, Registered, GenSum
  <2>1. /\ f \in Fns /\ cand[f].val_gen <= GenSum(f) /\ cand[f].val_gen \in Nat
        /\ cand'[f].val_gen = cand[f].val_gen
    BY <1>3 DEF GenBehind, Registered, TypeOK, CandType, Candidate
  <2>2. cand[f].val_gen = GenSum(f) /\ a \notin CodeCells(f)
    <3>1. /\ GenSum(f) \in Nat /\ Moved(f) \in Nat /\ GenSum(f) <= Moved(f)
          /\ a \in CodeCells(f) => GenSum(f) < Moved(f)
      BY <1>2a, <1>9
    <3>2. cand'[f].val_gen = Moved(f)
      OBVIOUS
    <3> HIDE DEF Moved
    <3> QED BY ONLY <2>1, <3>1, <3>2, SMT
  <2>3. cand'[f] = cand[f]
    BY <1>3, <2>1, <2>2
  <2>4. Matches(f)' <=> Matches(f)
    BY <1>1, <2>1, <2>2, LayoutAssumption DEF Matches, CodeCells, TypeOK, MemType
  <2>5. /\ cand[f].state = "VALID" => Matches(f)
        /\ cand[f].state = "INVALID" => ~Matches(f)
    BY <2>2 DEF VerdictFresh, Settled
  <2> QED BY <2>3, <2>4, <2>5
<1>11. CallsTracked'
  BY <1>1, <1>5, Stacks, CallsFrame
<1>12. \A k \in DOMAIN calls : calls[k] \in Tracked /\ calls[k] \in Registered
  <2> SUFFICES ASSUME NEW k \in DOMAIN calls PROVE calls[k] \in Tracked
    BY Stacks
  <2>1. k \in 1..Len(calls) /\ Len(calls) \in Nat /\ Len(s_active_stack) \in Nat
    BY Stacks
  <2>2. PICK d \in 1..(Len(s_active_stack) - (Len(calls) - k)) : s_active_stack[d] = calls[k]
    BY DEF CallsTracked, ActiveCovers
  <2>3. d \in 1..Len(s_active_stack)
    BY <2>1, <2>2, SMT
  <2>4. DOMAIN s_active_stack = 1..Len(s_active_stack)
    BY Stacks
  <2> QED BY <2>2, <2>3, <2>4 DEF Tracked
<1>13. \A k \in DOMAIN calls : a \in CodeCells(calls[k]) => cand'[calls[k]].state = "BLACKLIST"
  BY <1>3, <1>9, <1>12 DEF Registered
<1>14. SelfModCaught'
  <2> SUFFICES ASSUME NEW k \in DOMAIN calls, a \notin CodeCells(calls[k])
               PROVE  Matches(calls[k])' \/ cand'[calls[k]].state = "BLACKLIST"
    BY <1>1, <1>13 DEF SelfModCaught
  <2>1. calls[k] \in Fns
    BY <1>12 DEF Registered
  <2>2. Matches(calls[k]) \/ cand[calls[k]].state = "BLACKLIST"
    BY DEF SelfModCaught
  <2>3. Matches(calls[k]) => Matches(calls[k])'
    <3>1. \A x \in CodeCells(calls[k]) : ram'[x] = ram[x]
      BY <1>1, <2>1, LayoutAssumption DEF CodeCells, TypeOK, MemType
    <3> QED BY <1>1, <3>1 DEF Matches, CodeCells
  <2> QED BY <1>3, <2>1, <2>2, <2>3
<1>15. \A f \in Fns : cand[f].state = "BLACKLIST" => cand'[f].state = "BLACKLIST"
  BY <1>3
<1>16. \A f \in Fns : cand'[f].state = "BLACKLIST" =>
                          cand[f].state = "BLACKLIST" \/ a \in CodeCells(f)
  BY <1>3
<1> QED BY <1>6, <1>7, <1>8, <1>10, <1>11, <1>13, <1>14, <1>15, <1>16

(* A return pops the same activation from both stacks; a host unwind drops *)
(* activations from the host stack alone, which leaves the others deeper.  *)
LEMMA UnwindTracked ==
    ASSUME IndInv, disp.at = "run", NEW n \in 1..Len(calls), NEW m \in {0, 1}, m <= n,
           m = 0 => Len(s_active_stack) - Len(calls) + n <= MaxLeak,
           m = 1 => n = 1,
           calls' = SubSeq(calls, 1, Len(calls) - n),
           s_active_stack' = IF m = 0 THEN s_active_stack
                             ELSE SubSeq(s_active_stack, 1, Len(s_active_stack) - 1),
           UNCHANGED <<memVars, candVars, lazyVars, range_pc, s_native_exec, disp, saved>>
    PROVE  IndInv'
<1> USE DEF IndInv, memVars, candVars, lazyVars
<1>1. /\ calls \in Seq(Fns) /\ s_active_stack \in Seq(Fns)
      /\ Len(calls) \in Nat /\ Len(s_active_stack) \in Nat /\ n \in Nat
      /\ Len(s_active_stack) >= Len(calls) /\ n >= 1 /\ n <= Len(calls)
  BY Stacks, SMT
<1>2. /\ calls' \in Seq(Fns) /\ Len(calls') = Len(calls) - n
      /\ DOMAIN calls' = 1..(Len(calls) - n)
      /\ \A k \in 1..(Len(calls) - n) : calls'[k] = calls[k] /\ k \in DOMAIN calls
  BY <1>1, SMT
<1>3. /\ s_active_stack' \in Seq(Fns) /\ Len(s_active_stack') = Len(s_active_stack) - m
      /\ DOMAIN s_active_stack' = 1..(Len(s_active_stack) - m)
      /\ \A k \in 1..(Len(s_active_stack) - m) :
            s_active_stack'[k] = s_active_stack[k] /\ k \in DOMAIN s_active_stack
  BY <1>1, SMT
<1>4. Registered' = Registered
  BY DEF Registered
<1>5. TypeOK'
  <2>1. Len(s_active_stack) <= ActiveCap /\ ActiveCap \in Nat
    BY Stacks, BoundAssumption
  <2>2. Len(s_active_stack') <= ActiveCap
    BY ONLY <1>1, <1>3, <2>1, m \in {0, 1}, SMT
  <2>3. StackType'
    BY <1>2, <1>3, <2>2 DEF StackType
  <2> QED BY <2>3 DEF TypeOK, MemType, CandType, LazyType, DispType
<1>6. WatchCovers' /\ LoadedOnce' /\ GenBehind' /\ VerdictFresh'
  BY <1>4 DEF WatchCovers, LoadedOnce, CodePages, RangePages, GenBehind, GenSum,
              VerdictFresh, Settled, Matches
<1>7. ActiveCovers'
  <2> SUFFICES ASSUME NEW k \in 1..(Len(calls) - n)
               PROVE  \E d \in 1..(Len(s_active_stack') - (Len(calls') - k)) :
                          s_active_stack'[d] = calls'[k]
    BY <1>2 DEF ActiveCovers
  <2>1. PICK d \in 1..(Len(s_active_stack) - (Len(calls) - k)) : s_active_stack[d] = calls[k]
    BY <1>2 DEF CallsTracked, ActiveCovers
  <2>2. /\ d \in 1..(Len(s_active_stack') - (Len(calls') - k))
        /\ d \in 1..(Len(s_active_stack) - m)
    <3>1. m \in Nat /\ m <= n /\ k \in 1..(Len(calls) - n)
      BY SMT
    <3>2. d \in Nat /\ 1 <= d /\ d <= Len(s_active_stack) - (Len(calls) - k)
      BY <1>1, <2>1, <3>1, SMT
    <3> QED BY ONLY <1>1, <1>2, <1>3, <3>1, <3>2, SMT
  <2> QED BY <1>2, <1>3, <2>1, <2>2
<1>8. Tracked' \subseteq Registered' /\ \A k \in DOMAIN calls' : calls'[k] \in Registered'
  BY <1>2, <1>3, <1>4 DEF CallsTracked, Tracked
<1>9. /\ Len(s_active_stack') - Len(calls') \in 0..MaxLeak
      /\ Len(calls') <= MaxNest
      /\ disp'.at = "run"
  <2>1. /\ m = 0 \/ m = 1
        /\ m = 0 => Len(s_active_stack) - Len(calls) + n <= MaxLeak
        /\ m = 1 => n = 1
        /\ Len(s_active_stack) - Len(calls) \in 0..MaxLeak /\ Len(calls) <= MaxNest
        /\ MaxLeak \in Nat /\ MaxNest \in Nat
    BY BoundAssumption, Stacks
  <2>2. disp'.at = "run"
    OBVIOUS
  <2> QED BY ONLY <1>1, <1>2, <1>3, <2>1, <2>2, SMT
<1>10. CallsTracked'
  BY <1>7, <1>8, <1>9 DEF CallsTracked
<1>11. SelfModCaught'
  <2> SUFFICES ASSUME NEW k \in DOMAIN calls'
               PROVE  Matches(calls[k]) \/ cand[calls[k]].state = "BLACKLIST"
    BY <1>2, SMT DEF SelfModCaught, Matches
  <2>1. k \in DOMAIN calls
    BY ONLY <1>2, k \in DOMAIN calls'
  <2> QED BY <2>1 DEF SelfModCaught
<1> QED BY <1>5, <1>6, <1>10, <1>11

(* The end of an activation, by the epilogue or past it.                   *)
LEMMA LeaveInv ==
    ASSUME IndInv, Return \/ \E n \in 1..MaxNest : HostUnwind(n)
    PROVE  IndInv'
<1>0. /\ Len(calls) \in Nat /\ Len(s_active_stack) \in Nat
      /\ Len(calls) <= Len(s_active_stack)
  BY Stacks
<1>1. ASSUME Return PROVE IndInv'
  <2>1. s_active_stack' = SubSeq(s_active_stack, 1, Len(s_active_stack) - 1)
    BY <1>0, <1>1, SMT DEF Return, PopActive
  <2>2. 1 \in 1..Len(calls)
    BY <1>0, <1>1, SMT DEF Return
  <2> QED BY <1>1, <2>1, <2>2, UnwindTracked, SMT DEF Return
<1>2. ASSUME NEW n \in 1..MaxNest, HostUnwind(n) PROVE IndInv'
  BY <1>2, UnwindTracked, SMT DEF HostUnwind
<1> QED BY <1>1, <1>2

(* A step that changes no variable.                                        *)
LEMMA StutterInv ==
    ASSUME IndInv, UNCHANGED vars
    PROVE  IndInv'
<1>1. TypeOK'
  BY DEF IndInv, TypeOK, MemType, CandType, LazyType, StackType, DispType, vars
<1>2. disp'.at # "run" => Len(calls) < MaxNest
  BY Stacks DEF vars
<1> QED BY <1>1, <1>2, QuietFrame DEF vars

(* Every step of the tier preserves the inductive invariant.               *)
LEMMA NextInv ==
    ASSUME StackFits, IndInv, [Next]_vars
    PROVE  IndInv'
<1>1. ASSUME NEW a \in Cells, NEW b \in Bytes, Store(a, b) PROVE IndInv'
  BY <1>1, StoreInv
<1>2. ASSUME DispatchStep PROVE IndInv'
  BY <1>2, LookupInv, EnterInv, LoadInv, NothingToLoadInv DEF DispatchStep
<1>3. ASSUME Return \/ \E n \in 1..MaxNest : HostUnwind(n) PROVE IndInv'
  BY <1>3, LeaveInv
<1>4. ~SaveState /\ ~LoadState
  BY DEF StackFits, SaveState, LoadState
<1> QED BY <1>1, <1>2, <1>3, <1>4, QuietInv, StutterInv DEF Next

-----------------------------------------------------------------------------
(* The inductive invariant holds in every reachable state of the tier:     *)
(* watched pages cover the registered code, verdicts are fresh, and every  *)
(* activation on the host stack has its place on s_active_stack.           *)
THEOREM InvariantHolds ==
    ASSUME StackFits PROVE Spec => []IndInv
<1> QED BY InitInv, NextInv, PTL DEF Spec

(* For every overlay cache and every schedule of stores, dispatches,       *)
(* returns, unwinds, loads and rescans: a cached verdict that dispatch     *)
(* would trust without hashing agrees with RAM.                            *)
THEOREM CachedVerdictsFresh ==
    ASSUME StackFits PROVE Spec => []VerdictFresh
<1>1. IndInv => VerdictFresh
  BY DEF IndInv
<1> QED BY InitInv, NextInv, <1>1, PTL DEF Spec

(* Compiled code overwritten while it is on the host stack is always       *)
(* blacklisted: overlay_loader_active_write_check misses no activation,    *)
(* even after host unwinds left extra entries on s_active_stack.           *)
THEOREM SelfModificationCaught ==
    ASSUME StackFits PROVE Spec => []SelfModCaught
<1>1. IndInv => SelfModCaught
  BY DEF IndInv
<1> QED BY InitInv, NextInv, <1>1, PTL DEF Spec

(* The type invariant.                                                     *)
THEOREM TypeCorrect ==
    ASSUME StackFits PROVE Spec => []TypeOK
<1>1. IndInv => TypeOK
  BY DEF IndInv
<1> QED BY InitInv, NextInv, <1>1, PTL DEF Spec

(* Every step that starts native code starts a function whose bytes are in *)
(* RAM and which was never blacklisted.                                    *)
THEOREM NativeEntryIsSound ==
    ASSUME StackFits PROVE Spec => NativeEntrySound
<1> DEFINE Sound == Entering => LET f == calls'[Len(calls')] IN
                                Matches(f) /\ cand[f].state # "BLACKLIST"
<1>1. ASSUME IndInv, [Next]_vars PROVE [Sound]_vars
  <2>0. calls \in Seq(Fns) /\ Len(calls) \in Nat
    BY <1>1, Stacks
  <2>1. ASSUME NEW f \in Fns, ChainNative(f) \/ RangeNative(f) PROVE Sound
    <3>1. f \in Callable /\ Matches(f) /\ calls' = Append(calls, f)
      BY <1>1, <2>1, EnterInv
    <3>2. calls'[Len(calls')] = f
      BY <2>0, <3>1, SMT
    <3> QED BY <3>1, <3>2 DEF Callable
  <2>2. ASSUME calls' = calls \/ \E n \in 0..Len(calls) : calls' = SubSeq(calls, 1, n)
        PROVE Sound
    BY <2>0, <2>2, SMT DEF Entering
  <2>3. \/ UNCHANGED vars
        \/ \E f \in Fns : ChainNative(f) \/ RangeNative(f)
        \/ calls' = calls
        \/ \E n \in 0..Len(calls) : calls' = SubSeq(calls, 1, n)
    <3>1. ASSUME DispatchStep
          PROVE  calls' = calls \/ \E f \in Fns : ChainNative(f) \/ RangeNative(f)
      BY <3>1 DEF DispatchStep, ChainDeclined, ChainMiss, RangeDeclined, RangeBounce,
                  RangeMiss, TryLoadRegion, NothingToLoad
    <3>2. ASSUME Return PROVE \E n \in 0..Len(calls) : calls' = SubSeq(calls, 1, n)
      BY <2>0, <3>2, SMT DEF Return
    <3>3. ASSUME NEW n \in 1..MaxNest, HostUnwind(n)
          PROVE  \E k \in 0..Len(calls) : calls' = SubSeq(calls, 1, k)
      BY <2>0, <3>3, SMT DEF HostUnwind
    <3>4. ~SaveState /\ ~LoadState
      BY DEF StackFits, SaveState, LoadState
    <3> QED BY <1>1, <3>1, <3>2, <3>3, <3>4
            DEF Next, Store, MarkExecutable, ClearImageBaseline, Dispatch, Rescan,
                SetNativeExec
  <2> HIDE DEF Sound
  <2> QED BY <2>1, <2>2, <2>3
<1> QED BY InitInv, NextInv, <1>1, PTL DEF Spec, NativeEntrySound

-----------------------------------------------------------------------------
(* What a dispatch knows when it turns to the cache: registration left a   *)
(* verdict on every candidate, and the chain it walked holds no live one.  *)
NoLiveEntry(pc) == \A f \in Chain(pc) \cap Callable : ~Matches(f)
Judged  == \A f \in Registered : cand[f].state # "NONE"
MissInv == Judged /\ (disp.at = "load" => NoLiveEntry(disp.pc))

(* A chain walk without a hit has seen every callable candidate of the PC, *)
(* and none has its bytes in RAM: a negative verdict is as sound as a      *)
(* positive one.                                                           *)
LEMMA MissIsSound ==
    ASSUME IndInv, MissInv, NEW pc, ChainHits(pc) = {}
    PROVE  NoLiveEntry(pc)
<1> SUFFICES ASSUME NEW f \in Chain(pc) \cap Callable PROVE ~Matches(f)
  BY DEF NoLiveEntry
<1>1. f \in Registered /\ f \in Fns /\ cand[f].state # "BLACKLIST" /\ ~Verdict(f)
  BY DEF ChainHits, Chain, Callable, Registered
<1>2. cand[f].state \in {"NONE", "VALID", "INVALID", "BLACKLIST"}
  BY <1>1, SMT DEF IndInv, TypeOK, CandType, Candidate
<1>3. CASE Settled(f)
  BY <1>1, <1>2, <1>3 DEF Verdict, MissInv, Judged, IndInv, VerdictFresh
<1>4. CASE ~Settled(f)
  BY <1>1, <1>4 DEF Verdict
<1> QED BY <1>3, <1>4

(* Validation leaves a verdict, and makes no candidate callable.           *)
LEMMA CheckJudged ==
    ASSUME IndInv, MissInv, NEW S \in SUBSET Callable, cand' = CheckedAll(S),
           UNCHANGED <<ram, page_gen, watch, loaded>>
    PROVE  Judged' /\ \A pc : NoLiveEntry(pc) => NoLiveEntry(pc)'
<1>1. /\ Registered' = Registered
      /\ \A f \in Fns : cand'[f].state = "BLACKLIST" <=> cand[f].state = "BLACKLIST"
  BY CheckFrame
<1>2. Callable' = Callable /\ \A pc : Chain(pc)' = Chain(pc)
  BY <1>1 DEF Callable, Registered, Chain
<1>3. \A f \in Fns : Matches(f)' = Matches(f)
  BY DEF Matches
<1>4. \A pc : NoLiveEntry(pc) => NoLiveEntry(pc)'
  BY <1>2, <1>3 DEF NoLiveEntry, Callable, Registered
<1>5. ASSUME NEW f \in Registered PROVE cand'[f].state # "NONE"
  <2>1. f \in Fns /\ cand[f] \in Candidate /\ cand[f].state # "NONE"
    BY DEF Registered, IndInv, TypeOK, CandType, MissInv, Judged
  <2>2. cand'[f] = IF f \in S THEN Checked(f) ELSE cand[f]
    BY <2>1 DEF CheckedAll
  <2>3. Checked(f).state # "NONE"
    BY <2>1, SMT DEF Checked, Candidate
  <2> QED BY <2>1, <2>2, <2>3
<1> QED BY <1>1, <1>4, <1>5 DEF Judged

(* Every step keeps it: only a dispatch that found no live entry goes on   *)
(* to the cache, and nothing else runs until it is done.                   *)
LEMMA NextMiss ==
    ASSUME StackFits, IndInv, MissInv, [Next]_vars
    PROVE  MissInv'
<1>1. ASSUME cand' = cand, disp'.at # "load" PROVE MissInv'
  BY <1>1 DEF MissInv, Judged, Registered
<1>2. ASSUME NEW S \in SUBSET Callable, cand' = CheckedAll(S),
             UNCHANGED <<ram, page_gen, watch, loaded>>, disp'.at # "load"
      PROVE  MissInv'
  BY <1>2, CheckJudged DEF MissInv
<1>3. ASSUME NEW S \in SUBSET Callable, cand' = CheckedAll(S),
             UNCHANGED <<ram, page_gen, watch, loaded>>,
             ChainHits(disp.pc) = {}, disp' = AfterMiss(disp.pc)
      PROVE  MissInv'
  <2>1. PICK pc : pc = disp.pc
    OBVIOUS
  <2>2. disp'.at = "load" => disp'.pc = pc
    BY <1>3, <2>1, SMT DEF AfterMiss, Idle, IndInv, TypeOK, DispType
  <2>3. NoLiveEntry(pc)
    BY <1>3, <2>1, MissIsSound
  <2>4. Judged' /\ NoLiveEntry(pc)'
    BY <1>3, <2>3, CheckJudged
  <2> QED BY <2>2, <2>4 DEF MissInv, NoLiveEntry, Chain
<1>4. ASSUME NEW a \in Cells, NEW b \in Bytes, Store(a, b) PROVE MissInv'
  <2>1. disp'.at # "load"
    BY <1>4 DEF Store
  <2>2. cand' = cand \/ cand' = ActiveWriteCheck(a)
    BY <1>4 DEF Store
  <2>3. ASSUME cand' = ActiveWriteCheck(a), NEW f \in Registered' PROVE cand'[f].state # "NONE"
    <3>1. f \in Fns /\ cand[f] \in Candidate
      BY DEF Registered, IndInv, TypeOK, CandType
    <3>2. /\ cand'[f].idx = cand[f].idx
          /\ cand'[f].state = cand[f].state \/ cand'[f].state = "BLACKLIST"
      BY <2>3, <3>1, SMT DEF ActiveWriteCheck, Candidate
    <3>3. f \in Registered
      BY <3>1, <3>2 DEF Registered
    <3> QED BY <3>2, <3>3 DEF MissInv, Judged
  <2> QED BY <1>1, <2>1, <2>2, <2>3 DEF MissInv, Judged
<1>5. ASSUME NEW d \in Dlls, TryLoadRegion(d) PROVE MissInv'
  <2>1. disp'.at # "load"
    BY <1>5, SMT DEF TryLoadRegion, IndInv, TypeOK, DispType
  <2>2. cand' = [f \in Fns |-> IF f \in Fits(d) THEN NewCand(d, f) ELSE cand[f]]
    BY <1>5 DEF TryLoadRegion, LoadDll
  <2>3. ASSUME NEW f \in Registered' PROVE cand'[f].state # "NONE"
    <3>1. f \in Fns
      BY DEF Registered
    <3>2. CASE f \in Fits(d)
      BY <2>2, <3>1, <3>2 DEF NewCand
    <3>3. CASE f \notin Fits(d)
      BY <2>2, <3>1, <3>3 DEF Registered, MissInv, Judged
    <3> QED BY <3>2, <3>3
  <2> QED BY <2>1, <2>3 DEF MissInv, Judged
<1>6. /\ \A pc : ChainVisited(pc) \in SUBSET Callable
      /\ OwnerVisited(disp.pc) \in SUBSET Callable
  BY DEF ChainVisited, OwnerVisited, OwnerHits, Owners
<1>7. Idle.at # "load"
  BY DEF Idle
<1>8. ASSUME NEW f \in Fns, ChainNative(f) \/ ChainDeclined(f) PROVE MissInv'
  BY <1>2, <1>6, <1>7, <1>8 DEF ChainNative, ChainDeclined, memVars, lazyVars
<1>9. ASSUME NEW f \in Fns, RangeFound(f) PROVE MissInv'
  BY <1>2, <1>6, <1>7, <1>9 DEF RangeFound, memVars, lazyVars
<1>10. ASSUME ChainMiss PROVE MissInv'
  BY <1>3, <1>6, <1>10 DEF ChainMiss, memVars, lazyVars
<1>11. ASSUME RangeMiss PROVE MissInv'
  <2>1. ChainHits(disp.pc) = {} /\ \E S \in SUBSET Callable : cand' = CheckedAll(S)
    <3>1. CASE CpsMode
      BY <1>6, <1>11, <3>1 DEF RangeMiss, ChainHits
    <3>2. CASE ~CpsMode
      <4>1. cand' = cand /\ cand = CheckedAll({})
        BY <1>11, <3>2 DEF RangeMiss, CheckedAll, IndInv, TypeOK, CandType
      <4> QED BY <1>11, <4>1 DEF RangeMiss, ChainHits
    <3> QED BY <3>1, <3>2
  <2> QED BY <1>3, <1>11, <2>1 DEF RangeMiss, memVars, lazyVars
<1>12. ASSUME DispatchStep PROVE MissInv'
  <2>1. ASSUME NothingToLoad PROVE MissInv'
    BY <1>1, <1>7, <2>1 DEF NothingToLoad, candVars
  <2> QED BY <1>5, <1>8, <1>9, <1>10, <1>11, <1>12, <2>1
          DEF DispatchStep, RangeNative, RangeDeclined, RangeBounce
<1>13. ASSUME NEW pc \in Cells, Dispatch(pc) PROVE MissInv'
  BY <1>1, <1>13 DEF Dispatch, candVars
<1>14. ASSUME UNCHANGED <<cand, disp>>, disp.at = "run" PROVE MissInv'
  BY <1>1, <1>14
<1>15. ASSUME UNCHANGED vars PROVE MissInv'
  BY <1>15 DEF vars, MissInv, Judged, NoLiveEntry, Chain, Callable, Registered, Matches
<1>16. ~SaveState /\ ~LoadState
  BY DEF StackFits, SaveState, LoadState
<1>17. ASSUME \/ \E p \in Pages : MarkExecutable(p)
              \/ ClearImageBaseline \/ Return
              \/ \E n \in 1..MaxNest : HostUnwind(n)
              \/ \E d \in Dlls : Rescan(d)
              \/ \E on \in BOOLEAN : SetNativeExec(on)
       PROVE  MissInv'
  BY <1>14, <1>17 DEF MarkExecutable, ClearImageBaseline, Return, HostUnwind, Rescan,
                      SetNativeExec, candVars
<1> QED BY <1>4, <1>12, <1>13, <1>15, <1>16, <1>17 DEF Next

(* Dispatch never leaves to the interpreter a PC for which a registered,   *)
(* callable function has its bytes in RAM: the chain walk passes stale     *)
(* variants by, and a failed or empty load comes after a sound miss.       *)
THEOREM NoNativeIsMissed ==
    ASSUME StackFits PROVE Spec => NoMissedNative
<1> DEFINE Missed == ToInterpreter /\ s_native_exec /\ disp.pc \notin Blocked =>
                        \A f \in Chain(disp.pc) \cap Callable : ~Matches(f)
<1>1. Init => MissInv
  BY SMT DEF Init, Idle, NoCand, MissInv, Judged, Registered
<1>2. ASSUME IndInv, MissInv, [Next]_vars PROVE [Missed]_vars
  <2> SUFFICES ASSUME ToInterpreter, s_native_exec, disp.pc \notin Blocked
               PROVE  NoLiveEntry(disp.pc)
    BY DEF NoLiveEntry
  <2>1. disp.at # "run" /\ disp'.at = "run" /\ calls' = calls /\ calls \in Seq(Fns)
    BY <1>2, Stacks DEF ToInterpreter
  <2>2. DispatchStep
    BY <1>2, <2>1 DEF Next, Store, MarkExecutable, ClearImageBaseline, Dispatch, Return,
                      HostUnwind, Rescan, SetNativeExec, SaveState, LoadState, vars
  <2>3. ASSUME NEW f \in Fns, ChainNative(f) \/ RangeNative(f) PROVE FALSE
    <3>1. calls' = Append(calls, f)
      BY <2>3 DEF ChainNative, RangeNative, EnterNative
    <3> QED BY <2>1, <3>1, SMT
  <2>4. ASSUME NEW f \in Fns, ChainDeclined(f) PROVE FALSE
    BY <2>4 DEF ChainDeclined, ChainFirst, ChainHits, Chain
  <2>5. ASSUME NEW f \in Fns, RangeDeclined(f) \/ RangeBounce(f) PROVE NoLiveEntry(disp.pc)
    BY <2>5 DEF RangeDeclined, RangeBounce, RangeFound, NoLiveEntry
  <2>6. ASSUME ChainMiss \/ RangeMiss PROVE NoLiveEntry(disp.pc)
    <3>1. ChainHits(disp.pc) = {}
      BY <2>6 DEF ChainMiss, RangeMiss, ChainHits
    <3> QED BY <1>2, <3>1, MissIsSound
  <2>7. ASSUME NEW d \in Dlls, TryLoadRegion(d) PROVE FALSE
    BY <1>2, <2>1, <2>7, SMT DEF TryLoadRegion, IndInv, TypeOK, DispType
  <2>8. ASSUME NothingToLoad PROVE NoLiveEntry(disp.pc)
    BY <1>2, <2>8 DEF NothingToLoad, MissInv
  <2> QED BY <2>2, <2>3, <2>4, <2>5, <2>6, <2>7, <2>8 DEF DispatchStep
<1> QED BY InitInv, NextInv, NextMiss, <1>1, <1>2, PTL DEF Spec, NoMissedNative

-----------------------------------------------------------------------------
(* A step that keeps RAM, the host stack and the blacklist is a stutter of *)
(* the contract.                                                           *)
LEMMA ContractStutter ==
    ASSUME ram' = ram, calls' = calls,
           \A f \in Fns : cand'[f].state = "BLACKLIST" <=> cand[f].state = "BLACKLIST"
    PROVE  UNCHANGED C!cvars
<1>1. Banned' = Banned
  BY DEF Banned
<1> QED BY <1>1 DEF C!cvars

(* The native-overlay tier implements its contract: compiled code is       *)
(* entered only while intact and never after it was overwritten in         *)
(* execution.                                                              *)
THEOREM TierImplementsContract ==
    ASSUME StackFits PROVE Spec => ImplementsContract
<1>1. Init => C!CInit
  <2> SUFFICES ASSUME Init PROVE C!CInit
    OBVIOUS
  <2>1. \A f \in Fns : cand[f].state = "NONE"
    BY DEF Init, NoCand
  <2>2. Banned = {}
    BY <2>1 DEF Banned
  <2> QED BY <2>2, LayoutAssumption DEF Init, C!CInit
<1>2. ASSUME IndInv, [Next]_vars PROVE [C!CNext]_(C!cvars)
  <2>0. /\ calls \in Seq(Fns) /\ Len(calls) \in Nat
        /\ \A k \in DOMAIN calls : calls[k] \in Fns
    BY <1>2, Stacks
  <2>1. ASSUME NEW a \in Cells, NEW b \in Bytes, Store(a, b) PROVE C!CNext
    <3>1. /\ \A f \in Fns : cand[f].state = "BLACKLIST" => cand'[f].state = "BLACKLIST"
          /\ \A f \in Fns : cand'[f].state = "BLACKLIST" =>
                cand[f].state = "BLACKLIST" \/ a \in CodeCells(f)
          /\ \A k \in DOMAIN calls : a \in CodeCells(calls[k]) =>
                cand'[calls[k]].state = "BLACKLIST"
      BY <1>2, <2>1, StoreInv
    <3>2. {f \in C!Running : a \in CodeCells(f)} \subseteq Banned'
      BY <2>0, <3>1 DEF C!Running, Banned
    <3>3. Banned \subseteq Banned' /\ \A f \in Banned' \ Banned : f \in Fns /\ a \in CodeCells(f)
      BY <3>1 DEF Banned
    <3>4. ram' = [ram EXCEPT ![a] = b] /\ calls' = calls
      BY <2>1 DEF Store
    <3>5. C!Write
      BY <3>2, <3>3, <3>4 DEF C!Write
    <3> QED BY <3>5 DEF C!CNext
  <2>2. ASSUME NEW f \in Fns, ChainNative(f) \/ RangeNative(f) PROVE C!CNext
    <3>1. /\ f \in Callable /\ Matches(f) /\ calls' = Append(calls, f)
          /\ \A g \in Fns : cand'[g].state = "BLACKLIST" <=> cand[g].state = "BLACKLIST"
      BY <1>2, <2>2, EnterInv
    <3>2. Banned' = Banned /\ f \in Fns \ Banned
      BY <3>1 DEF Banned, Callable
    <3>3. ram' = ram
      BY <2>2 DEF ChainNative, RangeNative, RangeFound, memVars
    <3>4. C!Intact(f)
      BY <3>1 DEF Matches, C!Intact
    <3>5. C!Enter
      BY <3>1, <3>2, <3>3, <3>4 DEF C!Enter
    <3> QED BY <3>5 DEF C!CNext
  <2>3. ASSUME Return \/ \E n \in 1..MaxNest : HostUnwind(n) PROVE C!CNext
    <3>1. /\ \E n \in 0..Len(calls) : calls' = SubSeq(calls, 1, n)
          /\ ram' = ram /\ cand' = cand
      BY <2>0, <2>3, SMT DEF Return, HostUnwind, memVars, candVars
    <3>2. C!Leave
      BY <3>1 DEF C!Leave, Banned
    <3> QED BY <3>2 DEF C!CNext
  <2>4. ASSUME \/ \E f \in Fns : ChainDeclined(f) \/ RangeDeclined(f) \/ RangeBounce(f)
               \/ ChainMiss \/ RangeMiss
        PROVE  UNCHANGED C!cvars
    <3>1. /\ ram' = ram /\ calls' = calls
          /\ UNCHANGED <<ram, page_gen, watch, loaded>>
          /\ cand' = cand \/ \E S \in SUBSET Callable : cand' = CheckedAll(S)
      <4>1. /\ ChainVisited(disp.pc) \in SUBSET Callable
            /\ OwnerVisited(disp.pc) \in SUBSET Callable
               \/ ~(disp.at = "lookup")
        BY <1>2 DEF ChainVisited, OwnerVisited, OwnerHits, Owners
      <4> QED BY <2>4, <4>1 DEF ChainDeclined, RangeDeclined, RangeBounce, RangeFound,
                                ChainMiss, RangeMiss, memVars, lazyVars
    <3>2. \A f \in Fns : cand'[f].state = "BLACKLIST" <=> cand[f].state = "BLACKLIST"
      BY <1>2, <3>1, CheckFrame
    <3> QED BY <3>1, <3>2, ContractStutter
  <2>5. ASSUME NEW d \in Dlls, TryLoadRegion(d) PROVE UNCHANGED C!cvars
    BY <1>2, <2>5, LoadInv, ContractStutter DEF TryLoadRegion
  <2>6. ASSUME cand' = cand, ram' = ram, calls' = calls PROVE UNCHANGED C!cvars
    BY <2>6, ContractStutter
  <2>7. ~SaveState /\ ~LoadState
    BY DEF StackFits, SaveState, LoadState
  <2>8. ASSUME \/ \E p \in Pages : MarkExecutable(p)
               \/ ClearImageBaseline
               \/ \E pc \in Cells : Dispatch(pc)
               \/ \E d \in Dlls : Rescan(d)
               \/ \E on \in BOOLEAN : SetNativeExec(on)
               \/ NothingToLoad
               \/ UNCHANGED vars
        PROVE  UNCHANGED C!cvars
    BY <2>6, <2>8 DEF MarkExecutable, ClearImageBaseline, Dispatch, Rescan,
                      SetNativeExec, NothingToLoad, memVars, candVars, vars
  <2> QED BY <1>2, <2>1, <2>2, <2>3, <2>4, <2>5, <2>7, <2>8 DEF Next, DispatchStep
<1> QED BY <1>1, <1>2, InitInv, NextInv, PTL DEF Spec, ImplementsContract, C!Contract
=============================================================================
