---------------------------- MODULE ClockProofs ----------------------------
(***************************************************************************)
(* Proofs about time: the root counters (Timers) and the devices serviced  *)
(* at event deadlines (DeviceClock).  Both replace a loop over cycles by a *)
(* loop over events, and both are shown to reach what the loop over cycles *)
(* reaches, for every width, period and distance.                          *)
(*                                                                         *)
(* The loops of the two modules are recursive functions.  The first part   *)
(* gives induction over Nat for a set, the sequence of iterates of a       *)
(* function, and that a loop follows such a sequence; after it a proof     *)
(* speaks of sequences f with f[n + 1] = Step(f[n]) only.                  *)
(***************************************************************************)
EXTENDS DeviceClock, Timers, WellFoundedInduction, TLAPS

(* Leaves are Zenon's; one that needs arithmetic, records or sequences     *)
(* names SMT.                                                              *)
USE Zenon

-----------------------------------------------------------------------------
(* Every set of naturals has a least element.                              *)
LEMMA LeastElement ==
    ASSUME NEW S \in SUBSET Nat, S # {}
    PROVE  \E n \in S : \A m \in S : n <= m
<1> DEFINE R == OpToRel(<, Nat)
<1>1. IsWellFoundedOn(R, Nat)
  BY NatLessThanWellFounded
<1>2. ASSUME NEW m \in S, NEW n \in S, m < n PROVE <<m, n>> \in R
  BY <1>2 DEF OpToRel
<1> HIDE DEF R
<1>3. PICK n \in S : \A m \in S : ~(<<m, n>> \in R)
  BY <1>1, WFMin
<1>4. \A m \in S : ~(m < n)
  BY <1>2, <1>3
<1> QED BY <1>4, SMT

(* Induction over Nat, for membership in a set.                            *)
LEMMA Induction ==
    ASSUME NEW S, 0 \in S, \A n \in Nat : n \in S => n + 1 \in S
    PROVE  \A n \in Nat : n \in S
<1> SUFFICES ASSUME Nat \ S # {} PROVE FALSE
  OBVIOUS
<1>1. PICK n \in Nat \ S : \A m \in Nat \ S : n <= m
  BY LeastElement
<1>2. n - 1 \in Nat /\ n - 1 \notin Nat \ S
  BY <1>1, SMT
<1> QED BY <1>1, <1>2, SMT

(* The first n + 1 iterates of g from b.                                   *)
Iterates(f, S, g, b, n) ==
    /\ f \in [0..n -> S]
    /\ f[0] = b
    /\ \A k \in 0..(n - 1) : f[k + 1] = g[f[k]]

(* A function can be iterated any number of times.                         *)
LEMMA IteratesExist ==
    ASSUME NEW S, NEW g \in [S -> S], NEW b \in S
    PROVE  \A n \in Nat : \E f : Iterates(f, S, g, b, n)
<1> DEFINE P == {n \in Nat : \E f : Iterates(f, S, g, b, n)}
<1>1. 0 \in P
  <2>1. Iterates([k \in 0..0 |-> b], S, g, b, 0)
    BY SMT DEF Iterates
  <2> QED BY <2>1
<1>2. ASSUME NEW n \in Nat, n \in P PROVE n + 1 \in P
  <2>1. PICK f : Iterates(f, S, g, b, n)
    BY <1>2
  <2> DEFINE h == [k \in 0..(n + 1) |-> IF k = n + 1 THEN g[f[n]] ELSE f[k]]
  <2>2. Iterates(h, S, g, b, n + 1)
    BY <2>1, SMT DEF Iterates
  <2> QED BY <2>2, SMT
<1> HIDE DEF P
<1>3. \A n \in Nat : n \in P
  BY <1>1, <1>2, Induction
<1> QED BY <1>3 DEF P

(* Its iterates do not depend on how many are taken.                       *)
LEMMA IteratesAgree ==
    ASSUME NEW S, NEW g \in [S -> S], NEW b \in S, NEW n \in Nat, NEW m \in Nat,
           NEW f, NEW h, Iterates(f, S, g, b, n), Iterates(h, S, g, b, m)
    PROVE  \A k \in Nat : k <= n /\ k <= m => f[k] = h[k]
<1> DEFINE P == {k \in Nat : k <= n /\ k <= m => f[k] = h[k]}
<1>1. 0 \in P
  BY DEF Iterates
<1>2. ASSUME NEW k \in Nat, k \in P PROVE k + 1 \in P
  BY <1>2, SMT DEF Iterates
<1> HIDE DEF P
<1>3. \A k \in Nat : k \in P
  BY <1>1, <1>2, Induction
<1> QED BY <1>3 DEF P

(* All of them.                                                            *)
Orbit(f, S, g, b) ==
    f \in [Nat -> S] /\ f[0] = b /\ \A n \in Nat : f[n + 1] = g[f[n]]

(* A function has an infinite sequence of iterates.                        *)
LEMMA OrbitExists ==
    ASSUME NEW S, NEW g \in [S -> S], NEW b \in S
    PROVE  \E f : Orbit(f, S, g, b)
<1> DEFINE r(n) == CHOOSE f : Iterates(f, S, g, b, n)
           f == [n \in Nat |-> r(n)[n]]
<1>1. \A n \in Nat : Iterates(r(n), S, g, b, n)
  BY IteratesExist
<1> HIDE DEF r
<1>2. f \in [Nat -> S]
  BY <1>1, SMT DEF Iterates
<1>3. f[0] = b
  BY <1>1, SMT DEF Iterates
<1>4. ASSUME NEW n \in Nat PROVE f[n + 1] = g[f[n]]
  <2>1. n + 1 \in Nat /\ n <= n /\ n <= n + 1 /\ n \in 0..((n + 1) - 1)
    BY SMT
  <2>2. r(n + 1)[n] = r(n)[n]
    <3>1. Iterates(r(n + 1), S, g, b, n + 1) /\ Iterates(r(n), S, g, b, n)
      BY <1>1, <2>1
    <3>2. \A k \in Nat : k <= n + 1 /\ k <= n => r(n + 1)[k] = r(n)[k]
      BY <2>1, <3>1, IteratesAgree, SMT
    <3> QED BY <2>1, <3>2
  <2>3. r(n + 1)[n + 1] = g[r(n + 1)[n]]
    BY <1>1, <2>1 DEF Iterates
  <2> QED BY <2>1, <2>2, <2>3
<1>5. Orbit(f, S, g, b)
  BY <1>2, <1>3, <1>4 DEF Orbit
<1> QED BY <1>5

(* A loop that follows f for its first n rounds.                           *)
LEMMA RunFollows ==
    ASSUME NEW n \in Nat, NEW run, NEW f, run[0] = f[0],
           \A k \in Nat : k < n /\ run[k] = f[k] => run[k + 1] = f[k + 1]
    PROVE  run[n] = f[n]
<1> DEFINE P == {k \in Nat : k <= n => run[k] = f[k]}
<1>1. 0 \in P
  OBVIOUS
<1>2. ASSUME NEW k \in Nat, k \in P PROVE k + 1 \in P
  <2>1. k + 1 \in Nat /\ (k + 1 <= n => k <= n /\ k < n)
    BY SMT
  <2> QED BY <1>2, <2>1
<1> HIDE DEF P
<1>3. \A k \in Nat : k \in P
  BY <1>1, <1>2, Induction
<1>4. n <= n
  BY SMT
<1> QED BY <1>3, <1>4 DEF P

-----------------------------------------------------------------------------
(* A counter whose prescaler has not wrapped.                              *)
Counter == {t \in Timer : t.frac < t.div}

(* Firing, and the two events, leave alone what says when they happen.     *)
Kept(t, u) == /\ u.target = t.target /\ u.frac = t.frac /\ u.div = t.div
              /\ u.repeat = t.repeat /\ u.reset_target = t.reset_target

(* timer_fire_irq moves no count.                                          *)
LEMMA FireIrqType ==
    ASSUME NEW t \in Timer
    PROVE  FireIrq(t) \in Timer /\ Kept(t, FireIrq(t)) /\ FireIrq(t).counter = t.counter
<1> DEFINE line     == IF t.toggle THEN ~t.irq_line ELSE t.irq_line
           request  == IF t.toggle THEN ~line ELSE TRUE
           istat    == t.istat \/ ~t.toggle \/ line
           target   == t.irq_target /\ t.repeat
           overflow == t.irq_overflow /\ t.repeat
           fires    == Smaller(t.fires + 1, 2)
<1>1. /\ line \in BOOLEAN /\ request \in BOOLEAN /\ istat \in BOOLEAN
      /\ target \in BOOLEAN /\ overflow \in BOOLEAN
  BY DEF Timer
<1>2. fires \in 0..2
  BY SMT DEF Timer, Smaller
<1>3. FireIrq(t) = [t EXCEPT !.irq_line = line, !.request = request, !.istat = istat,
                             !.irq_target = target, !.irq_overflow = overflow,
                             !.fires = fires]
  BY DEF FireIrq
<1> HIDE DEF line, request, istat, target, overflow, fires
<1> QED BY <1>1, <1>2, <1>3 DEF Timer, Kept

(* Meeting the target moves the count only to reset it.                    *)
LEMMA OnTargetType ==
    ASSUME NEW t \in Timer
    PROVE  /\ OnTarget(t) \in Timer /\ Kept(t, OnTarget(t))
           /\ OnTarget(t).counter = IF t.reset_target THEN 0 ELSE t.counter
<1> DEFINE fired == IF t.irq_target THEN FireIrq(t) ELSE t
           count == IF t.reset_target THEN 0 ELSE fired.counter
<1>1. fired \in Timer /\ Kept(t, fired) /\ fired.counter = t.counter
  BY FireIrqType DEF Kept
<1>2. OnTarget(t) = [fired EXCEPT !.target_flag = TRUE, !.counter = count]
  BY DEF OnTarget
<1> HIDE DEF fired
<1>3. 0 \in 0..Width - 1
  BY TimersAssumption, SMT
<1>4. count \in 0..Width - 1 /\ count = IF t.reset_target THEN 0 ELSE t.counter
  BY <1>1, <1>3 DEF Timer
<1> HIDE DEF count
<1> QED BY <1>1, <1>2, <1>4 DEF Timer, Kept

(* Meeting the overflow moves no count.                                    *)
LEMMA OnOverflowType ==
    ASSUME NEW t \in Timer
    PROVE  /\ OnOverflow(t) \in Timer /\ Kept(t, OnOverflow(t))
           /\ OnOverflow(t).counter = t.counter
<1> DEFINE fired == IF t.irq_overflow THEN FireIrq(t) ELSE t
<1>1. fired \in Timer /\ Kept(t, fired) /\ fired.counter = t.counter
  BY FireIrqType DEF Kept
<1>2. OnOverflow(t) = [fired EXCEPT !.overflow_flag = TRUE]
  BY DEF OnOverflow
<1> HIDE DEF fired
<1> QED BY <1>1, <1>2 DEF Timer, Kept

(* timer_tick_one keeps the type, and what the mode register sets.         *)
LEMMA TickOneType ==
    ASSUME NEW t \in Timer
    PROVE  TickOne(t) \in Timer /\ Kept(t, TickOne(t))
<1> DEFINE moved == [t EXCEPT !.counter = (@ + 1) % Width]
           hit   == IF moved.counter = t.target THEN OnTarget(moved) ELSE moved
<1>0. (t.counter + 1) % Width \in 0..Width - 1
  BY TimersAssumption, SMT DEF Timer
<1>1. moved \in Timer /\ Kept(t, moved)
  BY <1>0 DEF Timer, Kept
<1> HIDE DEF moved
<1>2. hit \in Timer /\ Kept(t, hit)
  BY <1>1, OnTargetType DEF Kept
<1> HIDE DEF hit
<1>3. OnOverflow(hit) \in Timer /\ Kept(t, OnOverflow(hit))
  BY <1>2, OnOverflowType DEF Kept
<1>4. TickOne(t) = IF t.counter = Width - 1 THEN OnOverflow(hit) ELSE hit
  BY DEF TickOne, hit, moved
<1> QED BY <1>2, <1>3, <1>4

(* A counter that has moved, with the events it has met.                   *)
Landed(t, on_target, on_overflow) ==
    LET hit == IF on_target THEN OnTarget(t) ELSE t
    IN  IF on_overflow THEN OnOverflow(hit) ELSE hit

(* timer_tick_one moves the counter by one and lands on its events.        *)
LEMMA TickOneLands ==
    ASSUME NEW t \in Timer
    PROVE  TickOne(t) = Landed([t EXCEPT !.counter = (t.counter + 1) % Width],
                               (t.counter + 1) % Width = t.target, t.counter = Width - 1)
<1> DEFINE next  == (t.counter + 1) % Width
           moved == [t EXCEPT !.counter = next]
<1>1. TickOne(t) = Landed(moved, moved.counter = t.target, t.counter = Width - 1)
  BY DEF TickOne, Landed
<1>2. moved.counter = next
  BY DEF Timer
<1> QED BY <1>1, <1>2

(* The distances are at least one count, and the target lies exactly at    *)
(* the first of them.                                                      *)
LEMMA Distances ==
    ASSUME NEW t \in Timer
    PROVE  /\ TargetDist(t) \in 1..Width /\ OverflowDist(t) \in 1..Width
           /\ (t.counter + TargetDist(t)) % Width = t.target
           /\ \A j \in 1..(TargetDist(t) - 1) : (t.counter + j) % Width # t.target
<1> DEFINE c == t.counter g == t.target W == Width
<1>1. c \in 0..W - 1 /\ g \in 0..W - 1 /\ W \in Nat \ {0, 1}
  BY TimersAssumption DEF Timer
<1> HIDE DEF c, g, W
<1>2. /\ TargetDist(t) = IF g = c THEN W ELSE (g - c) % W
      /\ OverflowDist(t) = W - c
  BY DEF TargetDist, OverflowDist, c, g, W
<1>3. (g - c) % W = IF g >= c THEN g - c ELSE g - c + W
  BY <1>1, SMT
<1>4. \A j \in 0..W : (c + j) % W = IF c + j < W THEN c + j ELSE c + j - W
  BY <1>1, SMT
<1>5. TargetDist(t) \in 1..W /\ OverflowDist(t) \in 1..W
  BY <1>1, <1>2, <1>3, SMT
<1>6. (c + TargetDist(t)) % W = g
  BY <1>1, <1>2, <1>3, <1>4, <1>5, SMT
<1>7. \A j \in 1..(TargetDist(t) - 1) : (c + j) % W # g
  BY <1>1, <1>2, <1>3, <1>4, <1>5, SMT
<1> QED BY <1>5, <1>6, <1>7 DEF c, g, W

(* The state on the count before the one a jump of `step` lands on.        *)
Before(t, step) == [t EXCEPT !.counter = t.counter + (step - 1)]

(* A jump that ends no later than the nearer event does what the tick onto *)
(* its last count does.                                                    *)
LEMMA StepLands ==
    ASSUME NEW t \in Timer, NEW step \in Nat \ {0},
           step <= TargetDist(t), step <= OverflowDist(t)
    PROVE  /\ Before(t, step) \in Timer
           /\ TickOne(Before(t, step)) =
                Landed([t EXCEPT !.counter = (t.counter + step) % Width],
                       step = TargetDist(t), step = OverflowDist(t))
<1> DEFINE c == t.counter n == c + (step - 1) u == Before(t, step)
<1>1. /\ n \in 0..Width - 1 /\ n + 1 = c + step
      /\ (n = Width - 1) <=> (step = OverflowDist(t))
  BY TimersAssumption, SMT DEF Timer, OverflowDist
<1>2. ((c + step) % Width = t.target) <=> (step = TargetDist(t))
  BY Distances, SMT
<1> HIDE DEF n
<1>3. /\ u \in Timer /\ u.counter = n /\ u.target = t.target
      /\ \A x : [u EXCEPT !.counter = x] = [t EXCEPT !.counter = x]
  BY <1>1 DEF Timer, Before, n
<1> HIDE DEF u
<1>4. TickOne(u) = Landed([u EXCEPT !.counter = (n + 1) % Width],
                          (n + 1) % Width = t.target, n = Width - 1)
  BY <1>3, TickOneLands
<1>5. TickOne(u) = Landed([t EXCEPT !.counter = (c + step) % Width],
                          (c + step) % Width = t.target, n = Width - 1)
  BY <1>1, <1>3, <1>4
<1>6. TickOne(u) = Landed([t EXCEPT !.counter = (c + step) % Width],
                          step = TargetDist(t), step = OverflowDist(t))
  BY <1>1, <1>2, <1>5 DEF Landed
<1> QED BY <1>3, <1>6 DEF u

(* The stretch of the loop in timer_advance_counts.                        *)
Stretch(r) == Smaller(r.rest, Smaller(TargetDist(r.t), OverflowDist(r.t)))

(* Its state: the counter, and the counts still to go.                     *)
Progress == [t : Timer, rest : Nat]

(* One turn of the loop in timer_advance_counts is such a jump.            *)
LEMMA JumpTicks ==
    ASSUME NEW r \in Progress, r.rest # 0
    PROVE  /\ Stretch(r) \in 1..r.rest
           /\ Stretch(r) <= TargetDist(r.t) /\ Stretch(r) <= OverflowDist(r.t)
           /\ Jump(r) = [t    |-> TickOne(Before(r.t, Stretch(r))),
                         rest |-> r.rest - Stretch(r)]
<1> DEFINE step == Stretch(r) t == r.t
<1>1. t \in Timer /\ r.rest \in Nat
  BY DEF Progress
<1>2. /\ step \in 1..r.rest /\ step \in Nat \ {0}
      /\ step <= TargetDist(t) /\ step <= OverflowDist(t)
  BY <1>1, Distances, SMT DEF Stretch, Smaller
<1>3. Jump(r) = [t    |-> Landed([t EXCEPT !.counter = (t.counter + step) % Width],
                                 step = TargetDist(t), step = OverflowDist(t)),
                 rest |-> r.rest - step]
  BY DEF Jump, Landed, Stretch
<1> HIDE DEF step, t
<1>4. Jump(r) = [t |-> TickOne(Before(t, step)), rest |-> r.rest - step]
  BY <1>1, <1>2, <1>3, StepLands
<1> QED BY <1>2, <1>4 DEF step, t

-----------------------------------------------------------------------------
(* The states of a counter, count after count.                             *)
Counts(e) == e \in [Nat -> Timer] /\ \A n \in Nat : e[n + 1] = TickOne(e[n])

(* Every counter has such a sequence.                                      *)
LEMMA CountsExist ==
    ASSUME NEW t \in Timer
    PROVE  \E e : Counts(e) /\ e[0] = t
<1> DEFINE g == [u \in Timer |-> TickOne(u)]
<1>1. g \in [Timer -> Timer]
  BY TickOneType
<1>2. \A u \in Timer : g[u] = TickOne(u)
  OBVIOUS
<1> HIDE DEF g
<1>3. PICK e : Orbit(e, Timer, g, t)
  BY <1>1, OrbitExists
<1> QED BY <1>2, <1>3 DEF Counts, Orbit

(* Short of both events, counting only adds to the counter.                *)
LEMMA QuietCounts ==
    ASSUME NEW e, Counts(e), NEW m \in Nat
    PROVE  \A j \in Nat : j < TargetDist(e[m]) /\ j < OverflowDist(e[m])
                              => e[m + j] = Before(e[m], j + 1)
<1> DEFINE t == e[m]
           P == {j \in Nat : j < TargetDist(t) /\ j < OverflowDist(t)
                                => e[m + j] = Before(t, j + 1)}
<1>1. t \in Timer
  BY DEF Counts
<1> HIDE DEF t
<1>2. 0 \in P
  <2>1. m + 0 = m /\ t.counter + ((0 + 1) - 1) = t.counter
    BY <1>1, SMT DEF Timer
  <2>2. Before(t, 0 + 1) = t
    BY <1>1, <2>1 DEF Before, Timer
  <2> QED BY <2>1, <2>2 DEF t
<1>3. ASSUME NEW j \in Nat, j \in P PROVE j + 1 \in P
  <2> SUFFICES ASSUME j + 1 < TargetDist(t), j + 1 < OverflowDist(t)
               PROVE  e[m + (j + 1)] = Before(t, (j + 1) + 1)
    BY SMT
  <2> DEFINE s == j + 1
  <2>1. /\ s \in Nat \ {0} /\ s <= TargetDist(t) /\ s <= OverflowDist(t)
        /\ s # TargetDist(t) /\ s # OverflowDist(t)
        /\ j < TargetDist(t) /\ j < OverflowDist(t)
        /\ m + s = (m + j) + 1 /\ m + j \in Nat
    BY <1>1, Distances, SMT
  <2>2. (t.counter + s) % Width = t.counter + ((s + 1) - 1)
    <3> DEFINE c == t.counter W == Width
    <3>1. c \in 0..W - 1 /\ W \in Nat \ {0, 1} /\ s < W - c
      BY <1>1, TimersAssumption DEF Timer, OverflowDist
    <3> HIDE DEF c, W
    <3>2. (c + s) % W = c + ((s + 1) - 1)
      BY <3>1, SMT
    <3> QED BY <3>2 DEF c, W
  <2>3. e[m + s] = TickOne(Before(t, s))
    BY <1>3, <2>1 DEF Counts
  <2> HIDE DEF s
  <2>4. TickOne(Before(t, s)) = [t EXCEPT !.counter = (t.counter + s) % Width]
    BY <1>1, <2>1, StepLands DEF Landed
  <2>5. e[m + s] = Before(t, s + 1)
    BY <2>2, <2>3, <2>4 DEF Before
  <2> QED BY <2>5 DEF s
<1> HIDE DEF P
<1>4. \A j \in Nat : j \in P
  BY <1>2, <1>3, Induction
<1> QED BY <1>4 DEF P, t

(* A jump arrives where as many counts arrive.                             *)
LEMMA Arrival ==
    ASSUME NEW e, Counts(e), NEW m \in Nat, NEW step \in Nat \ {0},
           step <= TargetDist(e[m]), step <= OverflowDist(e[m])
    PROVE  e[m + step] = TickOne(Before(e[m], step))
<1> DEFINE j == step - 1
<1>0. e[m] \in Timer
  BY DEF Counts
<1>1. /\ j \in Nat /\ j + 1 = step /\ m + step = (m + j) + 1 /\ m + j \in Nat
      /\ j < TargetDist(e[m]) /\ j < OverflowDist(e[m])
  BY <1>0, Distances, SMT
<1> HIDE DEF j
<1>2. e[m + j] = Before(e[m], j + 1)
  BY <1>1, QuietCounts
<1> QED BY <1>1, <1>2 DEF Counts

(* timer_advance_counts is as many timer_tick_one: after k turns the       *)
(* counts that remain are at most ticks - k, and the counter is where the  *)
(* counts done bring it.                                                   *)
LEMMA JumpsCount ==
    ASSUME NEW e, Counts(e), NEW ticks \in Nat
    PROVE  AdvanceCounts(e[0], ticks) = e[ticks]
<1> DEFINE b == [t |-> e[0], rest |-> ticks]
           g == [r \in Progress |-> Jump(r)]
<1>1. b \in Progress /\ b.t = e[0] /\ b.rest = ticks
  BY DEF Counts, Progress
<1>2. ASSUME NEW r \in Progress PROVE Jump(r) \in Progress
  <2>1. CASE r.rest = 0
    BY <2>1 DEF Jump
  <2>2. CASE r.rest # 0
    <3>1. r.t \in Timer /\ r.rest \in Nat
      BY DEF Progress
    <3>2. Stretch(r) \in Nat \ {0} /\ r.rest - Stretch(r) \in Nat
      BY <2>2, <3>1, JumpTicks, SMT
    <3>3. TickOne(Before(r.t, Stretch(r))) \in Timer
      BY <2>2, <3>1, <3>2, JumpTicks, StepLands, TickOneType
    <3>4. Jump(r) = [t |-> TickOne(Before(r.t, Stretch(r))), rest |-> r.rest - Stretch(r)]
      BY <2>2, JumpTicks
    <3> QED BY <3>2, <3>3, <3>4, SMT DEF Progress
  <2> QED BY <2>1, <2>2
<1>3. g \in [Progress -> Progress] /\ \A r \in Progress : g[r] = Jump(r)
  BY <1>2
<1> HIDE DEF g
<1>0. PICK f : Orbit(f, Progress, g, b)
  BY <1>1, <1>3, OrbitExists
<1>4. f \in [Nat -> Progress] /\ f[0] = b
  BY <1>0 DEF Orbit
<1>5. \A n \in Nat : f[n + 1] = Jump(f[n])
  BY <1>0, <1>3 DEF Orbit
<1> HIDE DEF b
<1> DEFINE P == {k \in Nat : /\ f[k].rest <= ticks
                             /\ f[k].t = e[ticks - f[k].rest]
                             /\ f[k].rest = 0 \/ f[k].rest + k <= ticks}
<1>6. 0 \in P
  <2>1. ticks <= ticks /\ ticks - ticks = 0 /\ ticks + 0 <= ticks
    BY SMT
  <2> QED BY <1>1, <1>4, <2>1
<1>7. ASSUME NEW k \in Nat, k \in P PROVE k + 1 \in P
  <2> DEFINE r == f[k] step == Stretch(r) u == f[k + 1]
  <2>1. r \in Progress /\ u = Jump(r) /\ r.t \in Timer /\ r.rest \in Nat /\ k + 1 \in Nat
    <3>1. k + 1 \in Nat
      BY SMT
    <3> QED BY <1>4, <1>5, <3>1 DEF Progress
  <2>2. r.rest <= ticks /\ r.t = e[ticks - r.rest] /\ (r.rest = 0 \/ r.rest + k <= ticks)
    BY <1>7
  <2> HIDE DEF r, u
  <2> SUFFICES /\ u.rest <= ticks /\ u.t = e[ticks - u.rest]
               /\ u.rest = 0 \/ u.rest + (k + 1) <= ticks
    BY <2>1 DEF u
  <2>3. CASE r.rest = 0
    BY <2>1, <2>2, <2>3 DEF Jump
  <2>4. CASE r.rest # 0
    <3>1. /\ step \in 1..r.rest /\ step <= TargetDist(r.t) /\ step <= OverflowDist(r.t)
          /\ u.t = TickOne(Before(r.t, step)) /\ u.rest = r.rest - step
      <4>1. r.rest # 0 /\ r \in Progress
        BY <2>1, <2>4
      <4>2. u = [t |-> TickOne(Before(r.t, step)), rest |-> r.rest - step]
        BY <2>1, <4>1, JumpTicks
      <4> QED BY <4>1, <4>2, JumpTicks
    <3> HIDE DEF step
    <3>2. /\ step \in Nat \ {0} /\ ticks - r.rest \in Nat
          /\ ticks - u.rest = (ticks - r.rest) + step
          /\ u.rest <= ticks /\ u.rest + (k + 1) <= ticks
      BY <2>1, <2>2, <2>4, <3>1, SMT
    <3> DEFINE m == ticks - r.rest
    <3>3. m \in Nat /\ r.t = e[m] /\ ticks - u.rest = m + step
      BY <2>2, <3>2
    <3> HIDE DEF m
    <3>4. e[m + step] = TickOne(Before(e[m], step))
      BY <3>1, <3>2, <3>3, Arrival
    <3> QED BY <3>1, <3>2, <3>3, <3>4
  <2> QED BY <2>3, <2>4
<1> HIDE DEF P
<1>8. \A k \in Nat : k \in P
  BY <1>6, <1>7, Induction
<1>9. f[ticks].t = e[ticks]
  <2>1. f[ticks].rest = 0
    <3>1. f[ticks].rest \in Nat /\ (f[ticks].rest = 0 \/ f[ticks].rest + ticks <= ticks)
      BY <1>4, <1>8 DEF P, Progress
    <3> QED BY <3>1, SMT
  <2>2. ticks - 0 = ticks
    BY SMT
  <2> QED BY <1>8, <2>1, <2>2 DEF P
<1>10. AdvanceCounts(e[0], ticks) = f[ticks].t
  <2> DEFINE Loop(h) == h = [k \in 0..ticks |-> IF k = 0 THEN b ELSE Jump(h[k - 1])]
             run == CHOOSE h : Loop(h)
  <2>1. AdvanceCounts(e[0], ticks) = run[ticks].t
    BY DEF AdvanceCounts, b
  <2>2. Loop([k \in 0..ticks |-> f[k]])
    <3>1. ASSUME NEW k \in 0..ticks, k # 0
          PROVE  k - 1 \in 0..ticks /\ f[k] = Jump(f[k - 1])
      <4>1. k - 1 \in Nat /\ k - 1 \in 0..ticks /\ (k - 1) + 1 = k
        BY <3>1, SMT
      <4> QED BY <1>5, <4>1
    <3> QED BY <1>4, <3>1
  <2>3. Loop(run)
    BY <2>2
  <2> HIDE DEF run
  <2>4. 0 \in 0..ticks
    BY SMT
  <2>5. run[0] = f[0]
    BY <1>4, <2>3, <2>4
  <2>6. ASSUME NEW k \in Nat, k < ticks, run[k] = f[k] PROVE run[k + 1] = f[k + 1]
    <3>1. k + 1 \in 0..ticks /\ k + 1 # 0 /\ (k + 1) - 1 = k
      BY <2>6, SMT
    <3> QED BY <1>5, <2>3, <2>6, <3>1
  <2>7. run[ticks] = f[ticks]
    BY <2>5, <2>6, RunFollows
  <2> QED BY <2>1, <2>7
<1> QED BY <1>9, <1>10

-----------------------------------------------------------------------------
(* A counter with another prescaler.  The two do not read each other.      *)
WithFrac(t, x) == [t EXCEPT !.frac = x]

(* Firing does not read the prescaler.                                     *)
LEMMA FracFireIrq ==
    ASSUME NEW t \in Timer, NEW x
    PROVE  FireIrq([t EXCEPT !.frac = x]) = [FireIrq(t) EXCEPT !.frac = x]
<1> DEFINE u == [t EXCEPT !.frac = x]
<1>1. /\ u.toggle = t.toggle /\ u.irq_line = t.irq_line /\ u.istat = t.istat
      /\ u.irq_target = t.irq_target /\ u.irq_overflow = t.irq_overflow
      /\ u.repeat = t.repeat /\ u.fires = t.fires
  BY DEF Timer
<1>2. ASSUME NEW a, NEW b, NEW c, NEW d, NEW f, NEW g
      PROVE  [u EXCEPT !.irq_line = a, !.request = b, !.istat = c,
                       !.irq_target = d, !.irq_overflow = f, !.fires = g] =
             [[t EXCEPT !.irq_line = a, !.request = b, !.istat = c,
                        !.irq_target = d, !.irq_overflow = f, !.fires = g]
                EXCEPT !.frac = x]
  BY ZenonT(40) DEF Timer
<1> HIDE DEF u
<1>3. FireIrq(u) = [FireIrq(t) EXCEPT !.frac = x]
  BY <1>1, <1>2, ZenonT(40) DEF FireIrq
<1> QED BY <1>3 DEF u

(* Nor do the two events.                                                  *)
LEMMA FracLanded ==
    ASSUME NEW t \in Timer, NEW x, NEW a, NEW b
    PROVE  Landed(WithFrac(t, x), a, b) = WithFrac(Landed(t, a, b), x)
<1>1. ASSUME NEW v \in Timer
      PROVE  OnTarget([v EXCEPT !.frac = x]) = [OnTarget(v) EXCEPT !.frac = x]
  <2> DEFINE u == [v EXCEPT !.frac = x]
             fired(w) == IF w.irq_target THEN FireIrq(w) ELSE w
             count(w) == IF w.reset_target THEN 0 ELSE fired(w).counter
  <2>1. u.irq_target = v.irq_target /\ u.reset_target = v.reset_target
    BY DEF Timer
  <2>2. fired(u) = [fired(v) EXCEPT !.frac = x] /\ fired(v) \in Timer
    BY <2>1, FracFireIrq, FireIrqType
  <2>3. \A w : OnTarget(w) = [fired(w) EXCEPT !.target_flag = TRUE, !.counter = count(w)]
    BY DEF OnTarget
  <2> HIDE DEF u, fired
  <2>4. count(u) = count(v)
    BY <2>1, <2>2 DEF Timer
  <2> HIDE DEF count
  <2>5. OnTarget(u) = [OnTarget(v) EXCEPT !.frac = x]
    <3> DEFINE p == fired(v) c == count(v)
    <3>1. p \in Timer
      BY <2>2
    <3> HIDE DEF p, c
    <3>2. [[p EXCEPT !.frac = x] EXCEPT !.target_flag = TRUE, !.counter = c] =
          [[p EXCEPT !.target_flag = TRUE, !.counter = c] EXCEPT !.frac = x]
      BY <3>1 DEF Timer
    <3>3. OnTarget(u) = [[p EXCEPT !.frac = x] EXCEPT !.target_flag = TRUE, !.counter = c]
      BY <2>2, <2>3, <2>4 DEF p, c
    <3> QED BY <2>3, <3>2, <3>3 DEF p, c
  <2> QED BY <2>5 DEF u
<1>2. ASSUME NEW v \in Timer
      PROVE  OnOverflow([v EXCEPT !.frac = x]) = [OnOverflow(v) EXCEPT !.frac = x]
  <2> DEFINE u == [v EXCEPT !.frac = x]
             fired(w) == IF w.irq_overflow THEN FireIrq(w) ELSE w
  <2>1. u.irq_overflow = v.irq_overflow
    BY DEF Timer
  <2>2. fired(u) = [fired(v) EXCEPT !.frac = x] /\ fired(v) \in Timer
    BY <2>1, FracFireIrq, FireIrqType
  <2>3. OnOverflow(v) = [fired(v) EXCEPT !.overflow_flag = TRUE]
    BY DEF OnOverflow
  <2>4. OnOverflow(u) = [fired(u) EXCEPT !.overflow_flag = TRUE]
    BY DEF OnOverflow
  <2> HIDE DEF u, fired
  <2>5. OnOverflow(u) = [OnOverflow(v) EXCEPT !.frac = x]
    <3> DEFINE p == fired(v)
    <3>1. p \in Timer
      BY <2>2
    <3> HIDE DEF p
    <3>2. [[p EXCEPT !.frac = x] EXCEPT !.overflow_flag = TRUE] =
          [[p EXCEPT !.overflow_flag = TRUE] EXCEPT !.frac = x]
      BY <3>1 DEF Timer
    <3> QED BY <2>2, <2>3, <2>4, <3>2 DEF p
  <2> QED BY <2>5 DEF u
<1> DEFINE hit(v) == IF a THEN OnTarget(v) ELSE v
           u == [t EXCEPT !.frac = x]
<1>3. hit(u) = [hit(t) EXCEPT !.frac = x] /\ hit(t) \in Timer
  BY <1>1, OnTargetType
<1>4. /\ Landed(t, a, b) = IF b THEN OnOverflow(hit(t)) ELSE hit(t)
      /\ Landed(u, a, b) = IF b THEN OnOverflow(hit(u)) ELSE hit(u)
  BY DEF Landed
<1> HIDE DEF hit, u
<1>5. Landed(u, a, b) = [Landed(t, a, b) EXCEPT !.frac = x]
  BY <1>2, <1>3, <1>4
<1> QED BY <1>5 DEF u, WithFrac

(* Nor does a count.                                                       *)
LEMMA FracCommutes ==
    ASSUME NEW t \in Timer, NEW x \in Nat
    PROVE  /\ WithFrac(t, x) \in Timer /\ WithFrac(t, x).frac = x
           /\ TickOne(WithFrac(t, x)) = WithFrac(TickOne(t), x)
<1> DEFINE u == WithFrac(t, x)
           n == (t.counter + 1) % Width
           v == [t EXCEPT !.counter = n]
<1>1. n \in 0..Width - 1
  BY TimersAssumption, SMT DEF Timer
<1>2. u \in Timer /\ u.counter = t.counter /\ u.target = t.target /\ u.frac = x
  BY DEF Timer, WithFrac
<1> DEFINE a == n = t.target b == t.counter = Width - 1
<1>5. TickOne(t) = Landed(v, a, b)
  BY TickOneLands
<1>6. TickOne(u) = Landed([u EXCEPT !.counter = n], a, b)
  BY <1>2, TickOneLands
<1> HIDE DEF n
<1>3. v \in Timer /\ [u EXCEPT !.counter = n] = WithFrac(v, x)
  BY <1>1 DEF Timer, WithFrac
<1> HIDE DEF v, u, a, b
<1>7. Landed(WithFrac(v, x), a, b) = WithFrac(Landed(v, a, b), x)
  BY <1>3, FracLanded, SMT
<1>8. TickOne(u) = WithFrac(TickOne(t), x)
  BY <1>3, <1>5, <1>6, <1>7
<1> QED BY <1>2, <1>8 DEF u

(* Quotient and remainder.                                                 *)
LEMMA Division ==
    ASSUME NEW d \in Nat \ {0}, NEW n \in Nat
    PROVE  n \div d \in Nat /\ n % d \in 0..(d - 1) /\ n = (d * (n \div d)) + (n % d)
<1> DEFINE q == n \div d r == n % d
<1>1. q \in Int /\ r \in 0..(d - 1) /\ n = d * q + r
  BY SMT
<1> HIDE DEF q, r
<1>2. q >= 0
  BY <1>1, SMT
<1> QED BY <1>1, <1>2, SMT DEF q, r

(* They are unique.                                                        *)
LEMMA DivisionUnique ==
    ASSUME NEW d \in Nat \ {0}, NEW q \in Nat, NEW r \in 0..(d - 1),
           NEW n \in Nat, n = d * q + r
    PROVE  n \div d = q /\ n % d = r
BY SMT

(* How they change from n to n + 1.                                        *)
LEMMA DivisionStep ==
    ASSUME NEW d \in Nat \ {0}, NEW n \in Nat
    PROVE  IF (n % d) + 1 < d
             THEN (n + 1) \div d = n \div d /\ (n + 1) % d = (n % d) + 1
             ELSE (n + 1) \div d = (n \div d) + 1 /\ (n + 1) % d = 0
<1> DEFINE q == n \div d r == n % d
<1>1. q \in Nat /\ r \in 0..(d - 1) /\ n = d * q + r
  BY Division
<1> HIDE DEF q, r
<1>2. CASE r + 1 < d
  <2>1. n + 1 \in Nat /\ r + 1 \in 0..(d - 1) /\ n + 1 = d * q + (r + 1)
    BY <1>1, <1>2, SMT
  <2>2. (n + 1) \div d = q /\ (n + 1) % d = r + 1
    BY <1>1, <2>1, DivisionUnique, SMT
  <2> QED BY <1>2, <2>2 DEF q, r
<1>3. CASE ~(r + 1 < d)
  <2>1. n + 1 \in Nat /\ 0 \in 0..(d - 1) /\ q + 1 \in Nat /\ n + 1 = d * (q + 1) + 0
    <3>1. r + 1 = d
      BY <1>1, <1>3, SMT
    <3>2. d * (q + 1) = d * q + d
      BY <1>1, SMT
    <3> QED BY <1>1, <3>1, <3>2, SMT
  <2>2. (n + 1) \div d = q + 1 /\ (n + 1) % d = 0
    <3> DEFINE m == n + 1 p == q + 1 z == 0
    <3>1. m \in Nat /\ z \in 0..(d - 1) /\ p \in Nat /\ m = d * p + z
      BY <2>1
    <3> HIDE DEF m, p, z
    <3>2. m \div d = p /\ m % d = z
      BY <3>1, DivisionUnique, SMT
    <3> QED BY <3>2 DEF m, p, z
  <2> QED BY <1>3, <2>2 DEF q, r
<1> QED BY <1>2, <1>3

(* The divider is positive.                                                *)
LEMMA Divider ==
    ASSUME NEW t \in Timer
    PROVE  t.div \in Nat \ {0} /\ t.frac \in Nat
BY TimersAssumption DEF Timer

(* A cycle keeps the prescaler below the divider.                          *)
LEMMA CycleType ==
    ASSUME NEW t \in Counter
    PROVE  Cycle(t) \in Counter
<1>1. t \in Timer /\ t.div \in Nat \ {0} /\ t.frac \in Nat
  BY Divider DEF Counter
<1>2. CASE t.frac + 1 < t.div
  <2> DEFINE x == t.frac + 1
  <2>1. x \in Nat /\ Cycle(t) = [t EXCEPT !.frac = x]
    BY <1>1, <1>2, SMT DEF Cycle
  <2>2. x < t.div
    BY <1>2
  <2> HIDE DEF x
  <2> QED BY <1>1, <2>1, <2>2 DEF Counter, Timer
<1>3. CASE ~(t.frac + 1 < t.div)
  <2>1. 0 \in Nat /\ 0 < t.div
    BY <1>1, SMT
  <2>2. Cycle(t) = WithFrac(TickOne(t), 0) /\ TickOne(t) \in Timer
    BY <1>1, <1>3, <2>1, FracCommutes, TickOneType DEF Cycle, WithFrac
  <2>3. TickOne(t).div = t.div
    BY <1>1, TickOneType DEF Kept
  <2> QED BY <2>1, <2>2, <2>3 DEF Counter, Timer, WithFrac
<1> QED BY <1>2, <1>3

(* Ticked is the sequence of cycles.                                       *)
LEMMA TickedStep ==
    ASSUME NEW t \in Counter
    PROVE  /\ Ticked(t, 0) = t
           /\ \A n \in Nat : Ticked(t, n) \in Counter /\ Ticked(t, n + 1) = Cycle(Ticked(t, n))
<1> DEFINE g == [u \in Counter |-> Cycle(u)]
<1>1. g \in [Counter -> Counter] /\ \A u \in Counter : g[u] = Cycle(u)
  BY CycleType
<1> HIDE DEF g
<1>2. PICK f : Orbit(f, Counter, g, t)
  BY <1>1, OrbitExists
<1>3. f \in [Nat -> Counter] /\ f[0] = t /\ \A n \in Nat : f[n + 1] = Cycle(f[n])
  BY <1>1, <1>2 DEF Orbit
<1>4. ASSUME NEW c \in Nat PROVE Ticked(t, c) = f[c]
  <2> DEFINE Loop(h) == h = [k \in 0..c |-> IF k = 0 THEN t ELSE Cycle(h[k - 1])]
             run == CHOOSE h : Loop(h)
  <2>1. Ticked(t, c) = run[c]
    BY DEF Ticked
  <2>2. Loop([k \in 0..c |-> f[k]])
    <3>1. ASSUME NEW k \in 0..c, k # 0
          PROVE  k - 1 \in 0..c /\ f[k] = Cycle(f[k - 1])
      <4>1. k - 1 \in Nat /\ k - 1 \in 0..c /\ (k - 1) + 1 = k
        BY <3>1, SMT
      <4> QED BY <1>3, <4>1
    <3> QED BY <1>3, <3>1
  <2>3. Loop(run)
    BY <2>2
  <2> HIDE DEF run
  <2>4. 0 \in 0..c
    BY SMT
  <2>5. run[0] = f[0]
    BY <1>3, <2>3, <2>4
  <2>6. ASSUME NEW k \in Nat, k < c, run[k] = f[k] PROVE run[k + 1] = f[k + 1]
    <3>1. k + 1 \in 0..c /\ k + 1 # 0 /\ (k + 1) - 1 = k
      BY <2>6, SMT
    <3> QED BY <1>3, <2>3, <2>6, <3>1
  <2>7. run[c] = f[c]
    BY <2>5, <2>6, RunFollows
  <2> QED BY <2>1, <2>7
<1>5. \A n \in Nat : n + 1 \in Nat
  BY SMT
<1> QED BY <1>3, <1>4, <1>5

-----------------------------------------------------------------------------
(* Cycle by cycle, a counter takes one count every `div` cycles.           *)
LEMMA CyclesCount ==
    ASSUME NEW e, Counts(e), e[0] \in Counter
    PROVE  \A n \in Nat : /\ (e[0].frac + n) \div e[0].div \in Nat
                          /\ Ticked(e[0], n) =
                               WithFrac(e[(e[0].frac + n) \div e[0].div],
                                        (e[0].frac + n) % e[0].div)
<1> DEFINE t == e[0] d == t.div
           q(n) == (t.frac + n) \div d
           x(n) == (t.frac + n) % d
           h(n) == Ticked(t, n)
           P == {n \in Nat : h(n) = WithFrac(e[q(n)], x(n))}
<1>1. /\ t \in Counter /\ t \in Timer /\ d \in Nat \ {0} /\ t.frac \in Nat
      /\ t.frac < d
  BY Divider DEF Counter
<1>2. \A n \in Nat : e[n] \in Timer /\ e[n + 1] = TickOne(e[n]) /\ n + 1 \in Nat
  BY SMT DEF Counts
<1>3. \A n \in Nat : e[n].div = d
  <2> DEFINE D == {n \in Nat : e[n].div = d}
  <2>1. 0 \in D
    OBVIOUS
  <2>2. ASSUME NEW n \in Nat, n \in D PROVE n + 1 \in D
    <3>1. e[n] \in Timer /\ e[n + 1] = TickOne(e[n]) /\ n + 1 \in Nat /\ e[n].div = d
      BY <1>2, <2>2
    <3>2. e[n + 1].div = e[n].div
      BY <3>1, TickOneType DEF Kept
    <3> QED BY <3>1, <3>2
  <2> HIDE DEF D
  <2>3. \A n \in Nat : n \in D
    BY <2>1, <2>2, Induction
  <2> QED BY <2>3 DEF D
<1>4. h(0) = t /\ \A n \in Nat : h(n) \in Counter /\ h(n + 1) = Cycle(h(n))
  BY <1>1, TickedStep
<1>5. ASSUME NEW n \in Nat
      PROVE  q(n) \in Nat /\ x(n) \in Nat /\ t.frac + n \in Nat
  <2>1. t.frac + n \in Nat
    BY <1>1, SMT
  <2>2. q(n) \in Nat /\ x(n) \in 0..(d - 1)
    BY <1>1, <2>1, Division
  <2> QED BY <1>1, <2>1, <2>2, SMT
<1>6. q(0) = 0 /\ x(0) = t.frac
  <2> DEFINE f == t.frac
  <2>1. f + 0 = f /\ f \in 0..(d - 1)
    BY <1>1, SMT
  <2> HIDE DEF f
  <2>2. f \div d = 0 /\ f % d = f
    BY <1>1, <2>1, SMT
  <2> QED BY <2>1, <2>2 DEF f
<1>7. ASSUME NEW n \in Nat
      PROVE  IF x(n) + 1 < d THEN q(n + 1) = q(n) /\ x(n + 1) = x(n) + 1
                             ELSE q(n + 1) = q(n) + 1 /\ x(n + 1) = 0
  <2>1. t.frac + (n + 1) = (t.frac + n) + 1
    BY <1>1, SMT
  <2> QED BY <1>1, <1>5, <2>1, DivisionStep
<1> HIDE DEF t, d, q, x, h
<1>8. 0 \in P
  <2>1. WithFrac(t, t.frac) = t
    BY <1>1 DEF WithFrac, Timer
  <2> QED BY <1>4, <1>6, <2>1 DEF t
<1>9. ASSUME NEW n \in Nat, n \in P PROVE n + 1 \in P
  <2> DEFINE u == e[q(n)] y == x(n)
  <2>1. /\ u \in Timer /\ u.div = d /\ e[q(n) + 1] = TickOne(u) /\ y \in Nat
        /\ h(n) = WithFrac(u, y) /\ h(n + 1) = Cycle(h(n)) /\ n + 1 \in Nat
    BY <1>2, <1>3, <1>4, <1>5, <1>9
  <2> HIDE DEF u
  <2>2. h(n).frac = y /\ h(n).div = d
    BY <2>1 DEF WithFrac, Timer
  <2>3. \A z \in Nat : [h(n) EXCEPT !.frac = z] = WithFrac(u, z)
    BY <2>1 DEF WithFrac, Timer
  <2>4. CASE y + 1 < d
    <3>1. y + 1 \in Nat
      BY <2>1, SMT
    <3>2. h(n + 1) = WithFrac(u, y + 1)
      BY <2>1, <2>2, <2>3, <2>4, <3>1 DEF Cycle
    <3> QED BY <1>7, <2>1, <2>4, <3>2 DEF u
  <2>5. CASE ~(y + 1 < d)
    <3>1. 0 \in Nat
      BY SMT
    <3>2. h(n + 1) = TickOne(WithFrac(u, 0))
      BY <2>1, <2>2, <2>3, <2>5, <3>1 DEF Cycle
    <3>3. h(n + 1) = WithFrac(e[q(n) + 1], 0)
      BY <2>1, <3>1, <3>2, FracCommutes
    <3> QED BY <1>7, <2>1, <2>5, <3>3
  <2> QED BY <2>4, <2>5
<1> HIDE DEF P
<1>10. \A n \in Nat : n \in P
  BY <1>8, <1>9, Induction
<1>11. ASSUME NEW n \in Nat PROVE q(n) \in Nat /\ h(n) = WithFrac(e[q(n)], x(n))
  BY <1>5, <1>10 DEF P
<1> QED BY <1>11 DEF t, d, q, x, h

(* timer_advance_divided is one timer_tick_one per count.                  *)
LEMMA AdvancedIsTicked ==
    ASSUME NEW t \in Counter, NEW c \in Nat
    PROVE  TimersAdvanced(t, c) = Ticked(t, c)
<1>1. t \in Timer /\ t.div \in Nat \ {0} /\ t.frac \in Nat
  BY Divider DEF Counter
<1>2. PICK e : Counts(e) /\ e[0] = t
  BY <1>1, CountsExist
<1> DEFINE q == (t.frac + c) \div t.div
           x == (t.frac + c) % t.div
           s == [n \in Nat |-> WithFrac(e[n], x)]
<1>3. q \in Nat /\ x \in Nat
  <2>1. t.frac + c \in Nat
    BY <1>1, SMT
  <2>2. q \in Nat /\ x \in 0..(t.div - 1)
    BY <1>1, <2>1, Division
  <2> QED BY <1>1, <2>2, SMT
<1>4. Ticked(t, c) = WithFrac(e[q], x)
  BY <1>2, CyclesCount
<1>5. TimersAdvanced(t, c) = AdvanceCounts(WithFrac(t, x), q)
  BY DEF TimersAdvanced, WithFrac
<1> HIDE DEF q, x
<1>6. Counts(s) /\ s[0] = WithFrac(t, x)
  <2>1. \A n \in Nat : n + 1 \in Nat
    BY SMT
  <2>2. ASSUME NEW n \in Nat
        PROVE  /\ WithFrac(e[n], x) \in Timer
               /\ WithFrac(e[n + 1], x) = TickOne(WithFrac(e[n], x))
    <3>1. e[n] \in Timer /\ e[n + 1] = TickOne(e[n])
      BY <1>2 DEF Counts
    <3> DEFINE u == e[n]
    <3> HIDE DEF u
    <3>2. u \in Timer /\ e[n + 1] = TickOne(u)
      BY <3>1 DEF u
    <3>3. WithFrac(u, x) \in Timer
      BY <1>3, <3>2, FracCommutes
    <3>4. TickOne(WithFrac(u, x)) = WithFrac(TickOne(u), x)
      BY <1>3, <3>2, FracCommutes
    <3> QED BY <3>2, <3>3, <3>4 DEF u
  <2> QED BY <1>2, <2>1, <2>2 DEF Counts
<1>7. s[q] = WithFrac(e[q], x)
  BY <1>3
<1> HIDE DEF s
<1> QED BY <1>3, <1>4, <1>5, <1>6, <1>7, JumpsCount

-----------------------------------------------------------------------------
(* A one-shot interrupt that has fired is disarmed.                        *)
Spent(t) == t.repeat \/ t.fires = 0 \/ (t.fires = 1 /\ ~t.irq_target /\ ~t.irq_overflow)

(* What every operation of timers.c keeps.                                 *)
TimersInv == tm \in Counter /\ Spent(tm)

(* Firing disarms a one-shot interrupt.                                    *)
LEMMA FireSpends ==
    ASSUME NEW t \in Timer, Spent(t), t.irq_target \/ t.irq_overflow
    PROVE  Spent(FireIrq(t))
<1> DEFINE u == FireIrq(t)
<1>1. /\ u.repeat = t.repeat /\ u.fires = Smaller(t.fires + 1, 2)
      /\ u.irq_target = (t.irq_target /\ t.repeat)
      /\ u.irq_overflow = (t.irq_overflow /\ t.repeat)
  BY DEF FireIrq, Timer
<1>2. t.fires = 0 => Smaller(t.fires + 1, 2) = 1
  BY SMT DEF Smaller
<1> HIDE DEF u
<1>3. Spent(u)
  BY <1>1, <1>2 DEF Spent
<1> QED BY <1>3 DEF u

(* A count never fires a one-shot interrupt that has fired.                *)
LEMMA TickSpends ==
    ASSUME NEW t \in Timer, Spent(t)
    PROVE  Spent(TickOne(t))
<1> DEFINE n == (t.counter + 1) % Width
           m == [t EXCEPT !.counter = n]
           a == n = t.target
           b == t.counter = Width - 1
           hit == IF a THEN OnTarget(m) ELSE m
<1>0. n \in 0..Width - 1
  BY TimersAssumption, SMT DEF Timer
<1>1. TickOne(t) = IF b THEN OnOverflow(hit) ELSE hit
  BY TickOneLands DEF Landed
<1> HIDE DEF n
<1>2. m \in Timer /\ Spent(m)
  BY <1>0 DEF Timer, Spent
<1>3. ASSUME NEW v \in Timer, Spent(v) PROVE Spent(OnTarget(v))
  <2> DEFINE fired == IF v.irq_target THEN FireIrq(v) ELSE v
  <2>1. fired \in Timer /\ Spent(fired)
    BY <1>3, FireSpends, FireIrqType
  <2>2. OnTarget(v) = [fired EXCEPT !.target_flag = TRUE,
                         !.counter = IF v.reset_target THEN 0 ELSE fired.counter]
    BY DEF OnTarget
  <2> HIDE DEF fired
  <2> QED BY <2>1, <2>2 DEF Spent, Timer
<1>4. ASSUME NEW v \in Timer, Spent(v) PROVE Spent(OnOverflow(v))
  <2> DEFINE fired == IF v.irq_overflow THEN FireIrq(v) ELSE v
  <2>1. fired \in Timer /\ Spent(fired)
    BY <1>4, FireSpends, FireIrqType
  <2>2. OnOverflow(v) = [fired EXCEPT !.overflow_flag = TRUE]
    BY DEF OnOverflow
  <2> HIDE DEF fired
  <2> QED BY <2>1, <2>2 DEF Spent, Timer
<1> HIDE DEF m, a, b
<1>5. hit \in Timer /\ Spent(hit)
  BY <1>2, <1>3, OnTargetType
<1> HIDE DEF hit
<1> QED BY <1>1, <1>4, <1>5

(* Nor do any number of cycles.                                            *)
LEMMA TickedSpends ==
    ASSUME NEW t \in Counter, Spent(t)
    PROVE  \A n \in Nat : Spent(Ticked(t, n))
<1> DEFINE P == {n \in Nat : Spent(Ticked(t, n))}
<1>1. 0 \in P
  BY TickedStep
<1>2. ASSUME NEW n \in Nat, n \in P PROVE n + 1 \in P
  <2> DEFINE u == Ticked(t, n)
  <2>1. u \in Timer /\ Spent(u) /\ Ticked(t, n + 1) = Cycle(u)
    BY <1>2, TickedStep DEF Counter
  <2>2. n + 1 \in Nat /\ 0 \in Nat
    BY SMT
  <2> HIDE DEF u
  <2>3. \A x : Spent([u EXCEPT !.frac = x])
    BY <2>1 DEF Spent, Timer
  <2>4. [u EXCEPT !.frac = 0] \in Timer
    BY <2>1, <2>2 DEF Timer
  <2>5. Spent(Cycle(u))
    BY <2>3, <2>4, TickSpends DEF Cycle
  <2> QED BY <2>1, <2>2, <2>5
<1> HIDE DEF P
<1>3. \A n \in Nat : n \in P
  BY <1>1, <1>2, Induction
<1> QED BY <1>3 DEF P

(* The invariant holds: an advance is cycles, a mode write starts the      *)
(* one-shot anew, the other operations touch neither.                      *)
LEMMA TimersInvHolds == TimersSpec => []TimersInv
<1>1. TimersInit => TimersInv
  <2>1. 0 \in Nat /\ 0 \in 0..Width - 1 /\ 0 < 1 /\ 0 \in 0..2 /\ 1 \in Dividers
    BY TimersAssumption, SMT
  <2> SUFFICES ASSUME TimersInit PROVE TimersInv
    OBVIOUS
  <2>2. tm \in Timer
    BY <2>1 DEF TimersInit, Timer
  <2>3. tm.frac = 0 /\ tm.div = 1 /\ tm.fires = 0
    BY DEF TimersInit
  <2> QED BY <2>1, <2>2, <2>3 DEF TimersInv, Counter, Spent
<1>2. TimersInv /\ [TimersNext]_tm => TimersInv'
  <2> SUFFICES ASSUME TimersInv, [TimersNext]_tm PROVE TimersInv'
    OBVIOUS
  <2>0. tm \in Timer /\ tm \in Counter /\ tm.frac < tm.div /\ Spent(tm)
    BY DEF TimersInv, Counter
  <2>1. CASE Advance
    <3>1. PICK c \in 1..MaxAdvance : tm' = TimersAdvanced(tm, c)
      BY <2>1 DEF Advance
    <3>2. c \in Nat
      BY TimersAssumption, SMT
    <3>3. tm' = Ticked(tm, c)
      BY <2>0, <3>1, <3>2, AdvancedIsTicked
    <3> QED BY <2>0, <3>2, <3>3, TickedStep, TickedSpends DEF TimersInv
  <2>2. CASE WriteMode
    <3>1. PICK mode \in Mode : tm' = ModeWritten(tm, mode)
      BY <2>2 DEF WriteMode
    <3>2. 0 \in 0..Width - 1 /\ 0 \in Nat /\ 0 \in 0..2
      BY TimersAssumption, SMT
    <3>3. mode.div \in Nat \ {0} /\ 0 < mode.div
      <4>1. mode.div \in Nat \ {0}
        BY TimersAssumption DEF Mode
      <4> QED BY <4>1, SMT
    <3>4. tm' \in Timer
      <4> DEFINE t == [tm EXCEPT !.irq_target = mode.irq_target,
                          !.irq_overflow = mode.irq_overflow, !.repeat = mode.repeat,
                          !.toggle = mode.toggle, !.reset_target = mode.reset_target,
                          !.div = mode.div]
      <4>1. t \in Timer
        BY <2>0 DEF Timer, Mode
      <4>2. tm' = [t EXCEPT !.counter = 0, !.frac = 0, !.fires = 0, !.request = TRUE,
                            !.irq_line = FALSE, !.target_flag = FALSE,
                            !.overflow_flag = FALSE]
        BY <3>1 DEF ModeWritten
      <4> HIDE DEF t
      <4> QED BY <3>2, <4>1, <4>2 DEF Timer
    <3>5. tm'.frac = 0 /\ tm'.div = mode.div /\ tm'.fires = 0
      BY <2>0, <3>1 DEF Timer, ModeWritten
    <3> QED BY <3>3, <3>4, <3>5 DEF TimersInv, Counter, Spent
  <2>3. CASE WriteCounter
    BY <2>0, <2>3 DEF WriteCounter, TimersInv, Counter, Timer, Spent
  <2>4. CASE WriteTarget
    BY <2>0, <2>4 DEF WriteTarget, TimersInv, Counter, Timer, Spent
  <2>5. CASE ReadMode
    BY <2>0, <2>5 DEF ReadMode, TimersInv, Counter, Timer, Spent
  <2>6. CASE AckIrq
    BY <2>0, <2>6 DEF AckIrq, TimersInv, Counter, Timer, Spent
  <2>7. CASE UNCHANGED tm
    BY <2>7 DEF TimersInv
  <2> QED BY <2>1, <2>2, <2>3, <2>4, <2>5, <2>6, <2>7 DEF TimersNext
<1> QED BY <1>1, <1>2, PTL DEF TimersSpec

(* The counter of timers.c keeps its type and its prescaler stays below    *)
(* the divider.                                                            *)
THEOREM TimersTypeCorrect == TimersSpec => []TimerOK
<1>1. TimersInv => TimerOK
  BY DEF TimersInv, Counter, TimerOK
<1> QED BY <1>1, TimersInvHolds, PTL

(* timer_advance_divided reaches, from every reachable counter and for     *)
(* every number of cycles, the state that ticking cycle by cycle reaches.  *)
THEOREM BatchEqualsTicksHolds == TimersSpec => []BatchEqualsTicks
<1>1. TimersInv => BatchEqualsTicks
  <2>1. \A c \in 0..MaxAdvance : c \in Nat
    BY TimersAssumption, SMT
  <2> QED BY <2>1, AdvancedIsTicked DEF TimersInv, BatchEqualsTicks
<1> QED BY <1>1, TimersInvHolds, PTL

(* A one-shot interrupt of timer_fire_irq fires once between two mode      *)
(* writes, however the counter is advanced.                                *)
THEOREM OneShotHolds == TimersSpec => []OneShotFiresOnce
<1>1. TimersInv => OneShotFiresOnce
  BY SMT DEF TimersInv, Spent, OneShotFiresOnce
<1> QED BY <1>1, TimersInvHolds, PTL

-----------------------------------------------------------------------------
(* What a count does to the interrupt.                                     *)
AtTarget(t)   == (t.counter + 1) % Width = t.target
AtOverflow(t) == t.counter = Width - 1

(* The interrupt enables of t, in u, which has fired nothing.              *)
Undisturbed(t, u) == /\ u.fires = 0 /\ u.target = t.target /\ u.reset_target = t.reset_target
               /\ u.irq_target = t.irq_target /\ u.irq_overflow = t.irq_overflow

(* A count that meets no enabled event fires nothing.                      *)
LEMMA QuietTick ==
    ASSUME NEW t \in Timer, t.fires = 0,
           AtTarget(t) => ~t.irq_target, AtOverflow(t) => ~t.irq_overflow
    PROVE  /\ Undisturbed(t, TickOne(t))
           /\ TickOne(t).counter = IF AtTarget(t) /\ t.reset_target
                                     THEN 0 ELSE (t.counter + 1) % Width
<1> DEFINE n == (t.counter + 1) % Width
           m == [t EXCEPT !.counter = n]
           hit == IF AtTarget(t) THEN OnTarget(m) ELSE m
<1>0. n \in 0..Width - 1
  BY TimersAssumption, SMT DEF Timer
<1>1. TickOne(t) = IF AtOverflow(t) THEN OnOverflow(hit) ELSE hit
  BY TickOneLands DEF Landed, AtTarget, AtOverflow
<1> HIDE DEF n
<1>2. m \in Timer /\ Undisturbed(t, m) /\ m.counter = n
  BY <1>0 DEF Timer, Undisturbed
<1> HIDE DEF m
<1>3. ~t.irq_target => OnTarget(m) = [m EXCEPT !.target_flag = TRUE,
                                        !.counter = IF t.reset_target THEN 0 ELSE n]
  BY <1>2 DEF OnTarget, Undisturbed
<1>4. hit \in Timer
  BY <1>2, OnTargetType
<1>5. Undisturbed(t, hit) /\ hit.counter = IF AtTarget(t) /\ t.reset_target THEN 0 ELSE n
  <2>1. CASE AtTarget(t)
    <3>1. hit = [m EXCEPT !.target_flag = TRUE, !.counter = IF t.reset_target THEN 0 ELSE n]
      BY <1>3, <2>1
    <3> QED BY <1>2, <2>1, <3>1 DEF Undisturbed, Timer
  <2>2. CASE ~AtTarget(t)
    BY <1>2, <2>2
  <2> QED BY <2>1, <2>2
<1> HIDE DEF hit
<1>6. ~t.irq_overflow => OnOverflow(hit) = [hit EXCEPT !.overflow_flag = TRUE]
  BY <1>5 DEF OnOverflow, Undisturbed
<1>7. CASE AtOverflow(t)
  <2>1. TickOne(t) = [hit EXCEPT !.overflow_flag = TRUE]
    BY <1>1, <1>6, <1>7
  <2> QED BY <1>4, <1>5, <2>1 DEF Undisturbed, Timer, n
<1>8. CASE ~AtOverflow(t)
  BY <1>1, <1>5, <1>8 DEF n
<1> QED BY <1>7, <1>8

(* A count that meets an enabled one fires.                                *)
LEMMA FiringTick ==
    ASSUME NEW t \in Timer,
           (AtTarget(t) /\ t.irq_target) \/ (AtOverflow(t) /\ t.irq_overflow)
    PROVE  TickOne(t).fires > 0
<1> DEFINE n == (t.counter + 1) % Width
           m == [t EXCEPT !.counter = n]
           hit == IF AtTarget(t) THEN OnTarget(m) ELSE m
<1>0. n \in 0..Width - 1
  BY TimersAssumption, SMT DEF Timer
<1>1. TickOne(t) = IF AtOverflow(t) THEN OnOverflow(hit) ELSE hit
  BY TickOneLands DEF Landed, AtTarget, AtOverflow
<1> HIDE DEF n
<1>2. m \in Timer /\ m.irq_target = t.irq_target /\ m.irq_overflow = t.irq_overflow
  BY <1>0 DEF Timer
<1> HIDE DEF m
<1>3. ASSUME NEW v \in Timer PROVE FireIrq(v).fires > 0
  <2>1. FireIrq(v).fires = Smaller(v.fires + 1, 2)
    BY DEF FireIrq, Timer
  <2>2. v.fires \in 0..2
    BY DEF Timer
  <2> QED BY <2>1, <2>2, SMT DEF Smaller
<1>4. ASSUME NEW v \in Timer
      PROVE  /\ v.irq_target => OnTarget(v).fires > 0
             /\ ~v.irq_target => OnTarget(v).irq_overflow = v.irq_overflow
  <2> DEFINE fired == IF v.irq_target THEN FireIrq(v) ELSE v
  <2>1. fired \in Timer
    BY FireIrqType
  <2>2. OnTarget(v) = [fired EXCEPT !.target_flag = TRUE,
                         !.counter = IF v.reset_target THEN 0 ELSE fired.counter]
    BY DEF OnTarget
  <2> HIDE DEF fired
  <2>3. OnTarget(v).fires = fired.fires /\ OnTarget(v).irq_overflow = fired.irq_overflow
    BY <2>1, <2>2 DEF Timer
  <2> QED BY <1>3, <2>3 DEF fired
<1>5. ASSUME NEW v \in Timer
      PROVE  (v.irq_overflow \/ v.fires > 0) => OnOverflow(v).fires > 0
  <2> DEFINE fired == IF v.irq_overflow THEN FireIrq(v) ELSE v
  <2>1. fired \in Timer
    BY FireIrqType
  <2>2. OnOverflow(v) = [fired EXCEPT !.overflow_flag = TRUE]
    BY DEF OnOverflow
  <2> HIDE DEF fired
  <2>3. OnOverflow(v).fires = fired.fires
    BY <2>1, <2>2 DEF Timer
  <2> QED BY <1>3, <2>3 DEF fired
<1>6. hit \in Timer
  BY <1>2, OnTargetType
<1>7. CASE AtTarget(t) /\ t.irq_target
  <2>1. hit.fires > 0
    BY <1>2, <1>4, <1>7
  <2> HIDE DEF hit
  <2> QED BY <1>1, <1>5, <1>6, <2>1
<1>8. CASE ~(AtTarget(t) /\ t.irq_target) /\ AtOverflow(t) /\ t.irq_overflow
  <2>1. hit.irq_overflow
    BY <1>2, <1>4, <1>8
  <2> HIDE DEF hit
  <2> QED BY <1>1, <1>5, <1>6, <1>8, <2>1
<1> QED BY <1>7, <1>8

(* The counts timers_cycles_to_irq finds.                                  *)
TicksToIrq(t) ==
    IF ~t.irq_overflow THEN TargetDist(t)
    ELSE IF ~t.irq_target THEN OverflowDist(t)
    ELSE Smaller(TargetDist(t), OverflowDist(t))

(* Only the target is enabled: the counter may pass its overflow.          *)
LEMMA TargetSlice ==
    ASSUME NEW e, Counts(e), e[0].fires = 0, e[0].irq_target, ~e[0].irq_overflow
    PROVE  /\ \A j \in Nat : j < TargetDist(e[0]) => e[j].fires = 0
           /\ e[TargetDist(e[0])].fires > 0
<1> DEFINE t == e[0] c == t.counter D == TargetDist(t)
           P == {j \in Nat : j < D => Undisturbed(t, e[j]) /\ e[j].counter = (c + j) % Width}
<1>1. t \in Timer /\ \A n \in Nat : e[n] \in Timer /\ e[n + 1] = TickOne(e[n])
  BY DEF Counts
<1>2. D \in 1..Width /\ c \in 0..Width - 1 /\ Width \in Nat \ {0, 1}
  BY <1>1, Distances, TimersAssumption DEF Timer
<1>3. /\ (c + D) % Width = t.target
      /\ \A j \in 1..(D - 1) : (c + j) % Width # t.target
  BY <1>1, Distances
<1>4. t.fires = 0 /\ t.irq_target /\ ~t.irq_overflow
  OBVIOUS
<1> HIDE DEF t, c, D
<1>5. \A j \in Nat : (((c + j) % Width) + 1) % Width = (c + (j + 1)) % Width
  <2> SUFFICES ASSUME NEW j \in Nat
               PROVE  (((c + j) % Width) + 1) % Width = (c + (j + 1)) % Width
    OBVIOUS
  <2> DEFINE n == c + j W == Width q == n \div W r == n % W
  <2>1. n \in Nat /\ n + 1 = c + (j + 1) /\ W \in Nat \ {0} /\ 1 < W
    BY <1>2, SMT
  <2>2. r \in 0..(W - 1) /\ IF r + 1 < W THEN (n + 1) % W = r + 1 ELSE (n + 1) % W = 0
    BY <2>1, Division, DivisionStep
  <2> HIDE DEF n, W, r
  <2>3. (r + 1) % W = IF r + 1 < W THEN r + 1 ELSE 0
    BY <2>1, <2>2, SMT
  <2>4. (r + 1) % W = (n + 1) % W
    <3>1. CASE r + 1 < W
      BY <2>2, <2>3, <3>1
    <3>2. CASE ~(r + 1 < W)
      BY <2>2, <2>3, <3>2
    <3> QED BY <3>1, <3>2
  <2>5. (r + 1) % W = (c + (j + 1)) % W
    BY <2>1, <2>4
  <2> QED BY <2>5 DEF n, W, r
<1>6. 0 \in P
  <2>1. (c + 0) % Width = c
    BY <1>2, SMT
  <2> QED BY <1>4, <2>1 DEF Undisturbed, t, c
<1>7. ASSUME NEW j \in Nat, j \in P PROVE j + 1 \in P
  <2> SUFFICES ASSUME j + 1 < D
               PROVE  Undisturbed(t, e[j + 1]) /\ e[j + 1].counter = (c + (j + 1)) % Width
    BY SMT
  <2>1. j < D /\ j + 1 \in 1..(D - 1)
    BY <1>2, SMT
  <2> DEFINE u == e[j]
  <2>2. u \in Timer /\ e[j + 1] = TickOne(u) /\ Undisturbed(t, u) /\ u.counter = (c + j) % Width
    BY <1>1, <1>7, <2>1
  <2>3. (u.counter + 1) % Width = (c + (j + 1)) % Width
    BY <1>5, <2>2
  <2> HIDE DEF u
  <2>4. ~AtTarget(u) /\ u.fires = 0 /\ ~u.irq_overflow
    BY <1>3, <1>4, <2>1, <2>2, <2>3 DEF AtTarget, Undisturbed
  <2>5. Undisturbed(u, TickOne(u)) /\ TickOne(u).counter = (u.counter + 1) % Width
    BY <2>2, <2>4, QuietTick
  <2> QED BY <2>2, <2>3, <2>5 DEF Undisturbed
<1> HIDE DEF P
<1>8. \A j \in Nat : j \in P
  BY <1>6, <1>7, Induction
<1>9. e[D].fires > 0
  <2> DEFINE j == D - 1 u == e[j]
  <2>1. j \in Nat /\ j < D /\ j + 1 = D
    BY <1>2, SMT
  <2> HIDE DEF j
  <2>2. u \in Timer /\ e[D] = TickOne(u) /\ Undisturbed(t, u) /\ u.counter = (c + j) % Width
    BY <1>1, <1>8, <2>1 DEF P
  <2>3. (u.counter + 1) % Width = (c + D) % Width
    BY <1>5, <2>1, <2>2
  <2> HIDE DEF u
  <2>4. AtTarget(u) /\ u.irq_target
    BY <1>3, <1>4, <2>2, <2>3 DEF AtTarget, Undisturbed
  <2> QED BY <2>2, <2>4, FiringTick
<1>10. \A j \in Nat : j < D => e[j].fires = 0
  BY <1>8 DEF P, Undisturbed
<1> QED BY <1>9, <1>10 DEF t, D

(* Only the overflow is enabled: the target may set the counter back.      *)
LEMMA OverflowSlice ==
    ASSUME NEW e, Counts(e), e[0].fires = 0, ~e[0].irq_target, e[0].irq_overflow
    PROVE  /\ \A j \in Nat : j < OverflowDist(e[0]) => e[j].fires = 0
           /\ ~e[0].reset_target => e[OverflowDist(e[0])].fires > 0
<1> DEFINE t == e[0] c == t.counter D == OverflowDist(t)
           P == {j \in Nat : j < D => /\ Undisturbed(t, e[j]) /\ e[j].counter <= c + j
                                      /\ ~t.reset_target => e[j].counter = c + j}
<1>1. t \in Timer /\ \A n \in Nat : e[n] \in Timer /\ e[n + 1] = TickOne(e[n])
  BY DEF Counts
<1>2. D = Width - c /\ c \in 0..Width - 1 /\ Width \in Nat \ {0, 1}
  BY <1>1, TimersAssumption DEF Timer, OverflowDist
<1>4. t.fires = 0 /\ ~t.irq_target /\ t.irq_overflow
  OBVIOUS
<1> HIDE DEF t, c, D
<1>6. 0 \in P
  <2>1. c <= c + 0 /\ c = c + 0
    BY <1>2, SMT
  <2> QED BY <1>4, <2>1 DEF Undisturbed, t, c
<1>7. ASSUME NEW j \in Nat, j \in P PROVE j + 1 \in P
  <2> SUFFICES ASSUME j + 1 < D
               PROVE  /\ Undisturbed(t, e[j + 1]) /\ e[j + 1].counter <= c + (j + 1)
                      /\ ~t.reset_target => e[j + 1].counter = c + (j + 1)
    BY SMT
  <2>1. j < D
    BY <1>2, SMT
  <2> DEFINE u == e[j] n == u.counter
  <2>2. /\ u \in Timer /\ e[j + 1] = TickOne(u) /\ Undisturbed(t, u)
        /\ n <= c + j
        /\ ~t.reset_target => n = c + j
    BY <1>1, <1>7, <2>1
  <2>a. n \in 0..Width - 1
    BY <2>2 DEF Timer
  <2> HIDE DEF n
  <2>3. /\ n # Width - 1 /\ (n + 1) % Width = n + 1
        /\ n + 1 <= c + (j + 1) /\ 0 <= c + (j + 1)
        /\ ~t.reset_target => n + 1 = c + (j + 1)
    BY <1>2, <2>2, <2>a, SMT
  <2> HIDE DEF u
  <2>4. ~AtOverflow(u) /\ u.fires = 0 /\ ~u.irq_target
    BY <1>4, <2>2, <2>3 DEF AtOverflow, Undisturbed, n
  <2>5. /\ Undisturbed(u, TickOne(u))
        /\ TickOne(u).counter = IF AtTarget(u) /\ u.reset_target THEN 0 ELSE n + 1
    BY <2>2, <2>3, <2>4, QuietTick DEF n
  <2> QED BY <2>2, <2>3, <2>5 DEF Undisturbed
<1> HIDE DEF P
<1>8. \A j \in Nat : j \in P
  BY <1>6, <1>7, Induction
<1>9. ASSUME ~t.reset_target PROVE e[D].fires > 0
  <2> DEFINE j == D - 1 u == e[j]
  <2>1. j \in Nat /\ j < D /\ j + 1 = D /\ c + j = Width - 1
    BY <1>2, SMT
  <2> HIDE DEF j
  <2>2. u \in Timer /\ e[D] = TickOne(u) /\ Undisturbed(t, u) /\ u.counter = c + j
    BY <1>1, <1>8, <1>9, <2>1 DEF P
  <2> HIDE DEF u
  <2>4. AtOverflow(u) /\ u.irq_overflow
    BY <1>4, <2>1, <2>2 DEF AtOverflow, Undisturbed
  <2> QED BY <2>2, <2>4, FiringTick
<1>10. \A j \in Nat : j < D => e[j].fires = 0
  BY <1>8 DEF P, Undisturbed
<1> QED BY <1>9, <1>10 DEF t, D

(* Both are: the nearer one is met first.                                  *)
LEMMA NearerSlice ==
    ASSUME NEW e, Counts(e), e[0].fires = 0, e[0].irq_target, e[0].irq_overflow
    PROVE  /\ \A j \in Nat : j < Smaller(TargetDist(e[0]), OverflowDist(e[0]))
                                => e[j].fires = 0
           /\ e[Smaller(TargetDist(e[0]), OverflowDist(e[0]))].fires > 0
<1> DEFINE t == e[0] D == Smaller(TargetDist(t), OverflowDist(t)) u == Before(t, D)
<1>1. t \in Timer /\ 0 \in Nat
  BY SMT DEF Counts
<1>2. /\ D \in Nat \ {0} /\ D <= TargetDist(t) /\ D <= OverflowDist(t)
      /\ D = TargetDist(t) \/ D = OverflowDist(t)
      /\ \A j \in Nat : j < D => j < TargetDist(t) /\ j < OverflowDist(t)
  BY <1>1, Distances, SMT DEF Smaller
<1> HIDE DEF D
<1>3. ASSUME NEW j \in Nat, j < D PROVE e[j].fires = 0
  <2>1. 0 + j = j
    BY SMT
  <2>2. e[0 + j] = Before(t, j + 1)
    <3>1. j < TargetDist(t) /\ j < OverflowDist(t)
      BY <1>2, <1>3
    <3> QED BY <1>1, <3>1, QuietCounts
  <2>3. e[j] = Before(t, j + 1)
    BY <2>1, <2>2
  <2> QED BY <1>1, <2>3 DEF Before, Timer
<1>4. e[D] = TickOne(u) /\ u \in Timer
  <2>1. 0 + D = D
    BY <1>2, SMT
  <2>2. e[0 + D] = TickOne(Before(e[0], D))
    BY <1>1, <1>2, Arrival
  <2>3. Before(t, D) \in Timer
    BY <1>1, <1>2, StepLands
  <2> QED BY <2>1, <2>2, <2>3
<1>5. AtTarget(u) \/ AtOverflow(u)
  <2> DEFINE n == t.counter + (D - 1)
  <2>1. u.counter = n /\ u.target = t.target
    BY <1>1 DEF Before, Timer
  <2>2. n + 1 = t.counter + D /\ (D = OverflowDist(t) => n = Width - 1)
    BY <1>1, <1>2, TimersAssumption, SMT DEF Timer, OverflowDist
  <2> HIDE DEF n, u
  <2>3. D = TargetDist(t) => (n + 1) % Width = t.target
    BY <1>1, <2>2, Distances
  <2> QED BY <1>2, <2>1, <2>2, <2>3 DEF AtTarget, AtOverflow
<1>6. u.irq_target /\ u.irq_overflow
  BY <1>1 DEF Before, Timer
<1> HIDE DEF u
<1>7. e[D].fires > 0
  BY <1>4, <1>5, <1>6, FiringTick
<1> QED BY <1>3, <1>7 DEF t, D

(* timers_cycles_to_irq is the first cycle an interrupt is due.            *)
LEMMA SliceExact ==
    ASSUME NEW t \in Counter, IrqEnabled(t), t.fires = 0
    PROVE  /\ CyclesToIrq(t) - 1 \in Nat
           /\ Ticked(t, CyclesToIrq(t) - 1).fires = 0
           /\ t.irq_target \/ ~t.reset_target => Ticked(t, CyclesToIrq(t)).fires > 0
<1> DEFINE d == t.div f == t.frac D == TicksToIrq(t) C == CyclesToIrq(t)
<1>1. t \in Timer /\ d \in Nat \ {0} /\ f \in Nat /\ f < d
  BY Divider DEF Counter
<1>2. PICK e : Counts(e) /\ e[0] = t
  BY <1>1, CountsExist
<1>3. D \in Nat \ {0}
  BY <1>1, Distances, SMT DEF TicksToIrq, Smaller
<1>4. C = IF D * d > f THEN (D * d) - f ELSE 0
  BY DEF CyclesToIrq, TicksToIrq
<1>5. /\ \A j \in Nat : j < D => e[j].fires = 0
      /\ t.irq_target \/ ~t.reset_target => e[D].fires > 0
  <2>1. CASE ~t.irq_overflow
    BY <1>2, <2>1, TargetSlice DEF IrqEnabled, TicksToIrq
  <2>2. CASE t.irq_overflow /\ ~t.irq_target
    BY <1>2, <2>2, OverflowSlice DEF TicksToIrq
  <2>3. CASE t.irq_overflow /\ t.irq_target
    BY <1>2, <2>3, NearerSlice DEF TicksToIrq
  <2> QED BY <2>1, <2>2, <2>3
<1>6. \A n \in Nat : (f + n) \div d \in Nat
                     /\ Ticked(t, n).fires = e[(f + n) \div d].fires
  <2> SUFFICES ASSUME NEW n \in Nat
               PROVE  (f + n) \div d \in Nat
                      /\ Ticked(t, n).fires = e[(f + n) \div d].fires
    OBVIOUS
  <2> DEFINE q == (f + n) \div d x == (f + n) % d
  <2>1. q \in Nat /\ Ticked(t, n) = WithFrac(e[q], x)
    <3>1. Counts(e) /\ e[0] \in Counter
      BY <1>2
    <3>2. \A i \in Nat : /\ (e[0].frac + i) \div e[0].div \in Nat
                         /\ Ticked(e[0], i) = WithFrac(e[(e[0].frac + i) \div e[0].div],
                                                       (e[0].frac + i) % e[0].div)
      BY <3>1, CyclesCount
    <3> QED BY <1>2, <3>2
  <2> HIDE DEF q, x
  <2>2. e[q] \in Timer
    BY <1>2, <2>1 DEF Counts
  <2>3. Ticked(t, n).fires = e[q].fires
    BY <2>1, <2>2 DEF WithFrac, Timer
  <2> QED BY <2>1, <2>3 DEF q
<1> HIDE DEF d, f, D, C
<1>7. /\ d * D = D * d /\ d * (D - 1) = (D * d) - d /\ D * d \in Nat /\ D * d >= d
  BY <1>1, <1>3, SMT
<1>8. C \in Nat /\ C - 1 \in Nat /\ f + C = (d * D) + 0
      /\ f + (C - 1) = (d * (D - 1)) + (d - 1)
  <2> DEFINE p == D * d p1 == d * (D - 1) p2 == d * D
  <2>1. p2 = p /\ p1 = p - d /\ p \in Nat /\ p >= d /\ C = IF p > f THEN p - f ELSE 0
    BY <1>4, <1>7
  <2> HIDE DEF p, p1, p2
  <2>2. C \in Nat /\ C - 1 \in Nat /\ f + C = p2 + 0 /\ f + (C - 1) = p1 + (d - 1)
    BY <1>1, <2>1, SMT
  <2> QED BY <2>2 DEF p1, p2
<1>9. (f + C) \div d = D
  <2> DEFINE n == f + C z == 0
  <2>1. n \in Nat /\ z \in 0..(d - 1) /\ n = (d * D) + z
    BY <1>1, <1>8, SMT
  <2> HIDE DEF n, z
  <2>2. n \div d = D
    BY <1>1, <1>3, <2>1, DivisionUnique, SMT
  <2> QED BY <2>2 DEF n
<1>10. (f + (C - 1)) \div d = D - 1
  <2> DEFINE n == f + (C - 1) r == d - 1 q == D - 1
  <2>1. n \in Nat /\ r \in 0..(d - 1) /\ n = (d * q) + r /\ q \in Nat
    BY <1>1, <1>3, <1>8, SMT
  <2> HIDE DEF n, r, q
  <2>2. n \div d = q
    BY <1>1, <1>3, <2>1, DivisionUnique, SMT
  <2> QED BY <2>2 DEF n, q
<1>11. D - 1 \in Nat /\ D - 1 < D
  BY <1>3, SMT
<1>12. Ticked(t, C - 1).fires = 0
  BY <1>5, <1>6, <1>8, <1>10, <1>11
<1>13. t.irq_target \/ ~t.reset_target => Ticked(t, C).fires > 0
  BY <1>5, <1>6, <1>8, <1>9
<1> QED BY <1>8, <1>12, <1>13 DEF C

(* The distance timers_cycles_to_irq reports is the first cycle at which   *)
(* ticking would fire: nothing fires before it and, unless the target      *)
(* keeps resetting an overflow-only counter, something fires on it.        *)
THEOREM SliceIsExactHolds == TimersSpec => []SliceIsExact
<1>1. TimersInv => SliceIsExact
  <2> SUFFICES ASSUME TimersInv, IrqEnabled(tm) 
               PROVE  /\ CyclesToIrq(tm) > 0
                      /\ ~Fires(CyclesToIrq(tm) - 1)
                      /\ tm.irq_target \/ ~tm.reset_target => Fires(CyclesToIrq(tm))
    BY DEF SliceIsExact
  <2> DEFINE t == [tm EXCEPT !.fires = 0]
  <2>1. 0 \in 0..2
    BY SMT
  <2>2. tm \in Timer /\ tm.frac < tm.div
    BY DEF TimersInv, Counter
  <2>3. /\ t \in Counter /\ t.fires = 0 /\ t.div = tm.div /\ t.frac = tm.frac
        /\ t.irq_target = tm.irq_target /\ t.irq_overflow = tm.irq_overflow
        /\ t.reset_target = tm.reset_target
        /\ t.counter = tm.counter /\ t.target = tm.target
    BY <2>1, <2>2 DEF Timer, Counter
  <2>4. \A n : Fires(n) <=> Ticked(t, n).fires > 0
    BY DEF Fires
  <2> HIDE DEF t
  <2>5. IrqEnabled(t) /\ CyclesToIrq(t) = CyclesToIrq(tm)
    BY <2>3 DEF IrqEnabled, CyclesToIrq, TargetDist, OverflowDist
  <2>6. /\ CyclesToIrq(t) - 1 \in Nat
        /\ Ticked(t, CyclesToIrq(t) - 1).fires = 0
        /\ t.irq_target \/ ~t.reset_target => Ticked(t, CyclesToIrq(t)).fires > 0
    BY <2>3, <2>5, SliceExact
  <2>7. CyclesToIrq(tm) > 0 /\ ~(0 > 0)
    <3> DEFINE C == CyclesToIrq(tm)
    <3>1. C = CyclesToIrq(t) /\ C \in Int
      <4>1. C = IF (TicksToIrq(tm) * tm.div) > tm.frac
                  THEN (TicksToIrq(tm) * tm.div) - tm.frac ELSE 0
        BY DEF CyclesToIrq, TicksToIrq
      <4>2. TicksToIrq(tm) \in Nat /\ tm.div \in Nat /\ tm.frac \in Nat
        BY <2>2, Distances, Divider, SMT DEF TicksToIrq, Smaller
      <4> HIDE DEF C
      <4> QED BY <2>5, <4>1, <4>2, SMT DEF C
    <3>2. C - 1 \in Nat
      BY <2>5, <2>6
    <3> HIDE DEF C
    <3>3. C > 0 /\ ~(0 > 0)
      BY <3>1, <3>2, SMT
    <3> QED BY <3>3 DEF C
  <2> QED BY <2>3, <2>4, <2>5, <2>6, <2>7
<1> QED BY <1>1, TimersInvHolds, PTL

-----------------------------------------------------------------------------
(* Min is the least element.                                               *)
LEMMA LeastOfNats ==
    ASSUME NEW S \in SUBSET Nat, S # {}
    PROVE  Min(S) \in S /\ \A y \in S : Min(S) <= y
<1>1. \E x \in S : \A y \in S : x <= y
  BY LeastElement
<1> QED BY <1>1 DEF Min

(* The constants one by one.                                               *)
LEMMA Constants ==
    /\ Period \in Nat \ {0} /\ Stale \in Nat \ {0} /\ Cap \in Nat \ {0}
    /\ MaxCharge \in Nat \ {0} /\ StreakMin \in Nat \ {0}
    /\ QuantumMax \in Nat \ {0} /\ Transitions \in Nat \ {0}
    /\ Reload \in [Dev -> Nat] /\ Serial \subseteq Dev /\ VBlank \notin Dev
    /\ Delays \subseteq Nat /\ Sessions \subseteq SessionKinds
BY ClockAssumption

(* The distance is at most that of VBlank and of every device that reports *)
(* one.                                                                    *)
LEMMA DistanceFacts ==
    ASSUME NEW m \in Machine, NEW devices \in SUBSET Dev
    PROVE  /\ Distance(m, devices) \in Nat
           /\ Distance(m, devices) <= interrupts_cycles_to_vblank(m)
           /\ \A d \in devices : Remaining(m, d) # 0 => Distance(m, devices) <= Remaining(m, d)
<1> DEFINE S == {interrupts_cycles_to_vblank(m)} \cup ({Remaining(m, d) : d \in devices} \ {0})
<1>1. interrupts_cycles_to_vblank(m) \in Nat
  <2>1. m.since \in Nat /\ Period \in Nat
    BY Constants DEF Machine
  <2> QED BY <2>1, SMT DEF interrupts_cycles_to_vblank
<1>2. \A d \in devices : Remaining(m, d) \in Nat
  <2> SUFFICES ASSUME NEW d \in devices PROVE Remaining(m, d) \in Nat
    OBVIOUS
  <2>1. m.left[d] \in Nat
    BY DEF Machine
  <2> QED BY <2>1, SMT DEF Remaining
<1>3. S \in SUBSET Nat /\ S # {}
  BY <1>1, <1>2
<1>4. Distance(m, devices) = Min(S)
  BY DEF Distance
<1>5. /\ interrupts_cycles_to_vblank(m) \in S
      /\ \A d \in devices : Remaining(m, d) # 0 => Remaining(m, d) \in S
  OBVIOUS
<1> HIDE DEF S
<1>6. Min(S) \in Nat /\ \A y \in S : Min(S) <= y
  BY <1>3, LeastOfNats
<1> QED BY <1>4, <1>5, <1>6

(* The next event is at least a cycle away, and the deadline is no later.  *)
LEMMA NextEventFacts ==
    ASSUME NEW m \in Machine
    PROVE  /\ ToNextEvent(m) \in Nat \ {0}
           /\ Deadline(m) \in Nat \ {0} /\ Deadline(m) <= ToNextEvent(m)
<1>1. Distance(m, Dev) \in Nat
  BY DistanceFacts
<1>2. ToNextEvent(m) \in Nat \ {0}
  BY <1>1, SMT DEF ToNextEvent, AtLeastOne
<1>3. Cap \in Nat \ {0}
  BY Constants
<1> QED BY <1>2, <1>3, SMT DEF Deadline, Least

(* Retiring VBlank periods keeps the type.                                 *)
LEMMA ScheduledType ==
    ASSUME NEW m \in Machine
    PROVE  Scheduled(m) \in Machine
<1>1. m.since % Period \in Nat
  <2>1. m.since \in Nat /\ Period \in Nat \ {0}
    BY Constants DEF Machine
  <2> QED BY <2>1, SMT
<1> QED BY <1>1 DEF Scheduled, Machine

(* What one round of sio_advance starts from.                              *)
SioProgress == [left : Nat, rest : Nat]

(* sio_advance leaves a countdown.                                         *)
LEMMA SioAdvanceType ==
    ASSUME NEW d \in Dev, NEW left \in Nat, NEW c \in Nat
    PROVE  SioAdvance(d, left, c) \in Nat
<1> DEFINE b == [left |-> left, rest |-> c]
           g == [r \in SioProgress |-> SioRound(d, r)]
<1>1. b \in SioProgress
  BY DEF SioProgress
<1>2. Armed(d, Reload[d]) \in Nat
  <2>1. Reload[d] \in Nat
    BY Constants
  <2> QED BY <2>1, SMT DEF Armed
<1>3. ASSUME NEW r \in SioProgress PROVE SioRound(d, r) \in SioProgress
  <2>1. r.left \in Nat /\ r.rest \in Nat
    BY DEF SioProgress
  <2>2. ~(r.left = 0 \/ r.rest < r.left) => r.rest - (r.left - 1) \in Nat
    BY <2>1, SMT
  <2> QED BY <1>2, <2>2 DEF SioRound, SioProgress
<1>4. g \in [SioProgress -> SioProgress] /\ \A r \in SioProgress : g[r] = SioRound(d, r)
  BY <1>3
<1> HIDE DEF g, b
<1>5. PICK f : Orbit(f, SioProgress, g, b)
  BY <1>1, <1>4, OrbitExists
<1>6. f \in [Nat -> SioProgress] /\ f[0] = b /\ \A n \in Nat : f[n + 1] = SioRound(d, f[n])
  BY <1>4, <1>5 DEF Orbit
<1> DEFINE Loop(h) == h = [k \in 0..Transitions |->
                             IF k = 0 THEN b ELSE SioRound(d, h[k - 1])]
           run == CHOOSE h : Loop(h)
           end == run[Transitions]
<1>7. SioAdvance(d, left, c) = IF end.left = 0 \/ end.rest >= end.left THEN end.left
                               ELSE end.left - end.rest
  BY DEF SioAdvance, b
<1>8. Transitions \in Nat
  BY Constants
<1>9. Loop([k \in 0..Transitions |-> f[k]])
  <2>1. ASSUME NEW k \in 0..Transitions, k # 0
        PROVE  k - 1 \in 0..Transitions /\ f[k] = SioRound(d, f[k - 1])
    <3>1. k - 1 \in Nat /\ k - 1 \in 0..Transitions /\ (k - 1) + 1 = k
      BY <1>8, <2>1, SMT
    <3> QED BY <1>6, <3>1
  <2> QED BY <1>6, <2>1
<1>10. Loop(run)
  BY <1>9
<1> HIDE DEF run
<1>11. end = f[Transitions]
  <2>1. 0 \in 0..Transitions
    BY <1>8, SMT
  <2>2. run[0] = f[0]
    BY <1>6, <1>10, <2>1
  <2>3. ASSUME NEW k \in Nat, k < Transitions, run[k] = f[k] PROVE run[k + 1] = f[k + 1]
    <3>1. k + 1 \in 0..Transitions /\ k + 1 # 0 /\ (k + 1) - 1 = k
      BY <1>8, <2>3, SMT
    <3> QED BY <1>6, <1>10, <2>3, <3>1
  <2> QED BY <1>8, <2>2, <2>3, RunFollows
<1>12. end.left \in Nat /\ end.rest \in Nat
  BY <1>6, <1>8, <1>11 DEF SioProgress
<1> HIDE DEF end
<1> QED BY <1>7, <1>12, SMT

(* advance_devices before it retires VBlank periods.                       *)
Moved(m, c) ==
    [m EXCEPT
       !.left   = [d \in Dev |-> IF d \in Serial THEN SioAdvance(d, m.left[d], c)
                                 ELSE IF d \in Expires(m, c) THEN Reload[d]
                                 ELSE IF m.left[d] = 0 THEN 0 ELSE m.left[d] - c],
       !.since  = m.since + c,
       !.stat   = m.stat \cup Expires(m, c),
       !.recent = IF Expires(m, c) \cap Serial # {} THEN Stale
                  ELSE IF m.recent > c THEN m.recent - c ELSE 0]

(* What follows it.                                                        *)
LEMMA AdvancedMoves ==
    ASSUME NEW m, NEW c
    PROVE  Advanced(m, c) = Scheduled(Moved(m, c))
BY DEF Advanced, Moved

(* advance_devices keeps the type.                                         *)
LEMMA AdvancedType ==
    ASSUME NEW m \in Machine, NEW c \in Nat
    PROVE  Moved(m, c) \in Machine /\ Advanced(m, c) \in Machine
<1> DEFINE F == Expires(m, c)
           L == [d \in Dev |-> IF d \in Serial THEN SioAdvance(d, m.left[d], c)
                               ELSE IF d \in F THEN Reload[d]
                               ELSE IF m.left[d] = 0 THEN 0 ELSE m.left[d] - c]
           r == IF F \cap Serial # {} THEN Stale ELSE IF m.recent > c THEN m.recent - c ELSE 0
           s == m.since + c
<1>1. F \subseteq Dev
  BY DEF Expires
<1>2. ASSUME NEW d \in Dev PROVE L[d] \in Nat
  <2>1. m.left[d] \in Nat /\ Reload[d] \in Nat
    BY Constants DEF Machine
  <2>2. d \notin F /\ m.left[d] # 0 => m.left[d] - c \in Nat
    BY <2>1, SMT DEF Expires
  <2>3. SioAdvance(d, m.left[d], c) \in Nat
    BY <2>1, SioAdvanceType
  <2>4. 0 \in Nat
    BY SMT
  <2> HIDE DEF F
  <2> QED BY <2>1, <2>2, <2>3, <2>4
<1>3. L \in [Dev -> Nat]
  BY <1>2
<1>4. r \in 0..Stale /\ s \in Nat
  <2>1. m.recent \in 0..Stale /\ m.since \in Nat /\ Stale \in Nat
    BY Constants DEF Machine
  <2> DEFINE q == F \cap Serial # {}
  <2> HIDE DEF q
  <2>2. (IF q THEN Stale ELSE IF m.recent > c THEN m.recent - c ELSE 0) \in 0..Stale
    BY <2>1, SMT
  <2>3. s \in Nat
    BY <2>1, SMT
  <2> QED BY <2>2, <2>3 DEF q
<1>5. Moved(m, c) = [m EXCEPT !.left = L, !.since = s, !.stat = m.stat \cup F, !.recent = r]
  BY DEF Moved
<1> HIDE DEF F, L, r, s
<1>6. Moved(m, c) \in Machine
  BY <1>1, <1>3, <1>4, <1>5 DEF Machine
<1> QED BY <1>6, ScheduledType, AdvancedMoves

(* Exactly is the sequence of single steps.                                *)
LEMMA ExactlySteps ==
    ASSUME NEW m \in Machine
    PROVE  /\ Exactly(m, 0) = Scheduled(m)
           /\ \A n \in Nat : /\ Exactly(m, n) \in Machine
                             /\ Exactly(m, n + 1) = Advanced(Exactly(m, n), 1)
<1> DEFINE g == [u \in Machine |-> Advanced(u, 1)]
           b == Scheduled(m)
<1>1. g \in [Machine -> Machine] /\ \A u \in Machine : g[u] = Advanced(u, 1)
  <2>1. 1 \in Nat
    BY SMT
  <2> QED BY <2>1, AdvancedType
<1>2. b \in Machine
  BY ScheduledType
<1> HIDE DEF g
<1>3. PICK f : Orbit(f, Machine, g, b)
  BY <1>1, <1>2, OrbitExists
<1>4. f \in [Nat -> Machine] /\ f[0] = b /\ \A n \in Nat : f[n + 1] = Advanced(f[n], 1)
  BY <1>1, <1>3 DEF Orbit
<1> HIDE DEF b
<1>5. ASSUME NEW c \in Nat PROVE Exactly(m, c) = f[c]
  <2> DEFINE Loop(h) == h = [k \in 0..c |-> IF k = 0 THEN b ELSE Advanced(h[k - 1], 1)]
             run == CHOOSE h : Loop(h)
  <2>1. Exactly(m, c) = run[c]
    BY DEF Exactly, b
  <2>2. Loop([k \in 0..c |-> f[k]])
    <3>1. ASSUME NEW k \in 0..c, k # 0
          PROVE  k - 1 \in 0..c /\ f[k] = Advanced(f[k - 1], 1)
      <4>1. k - 1 \in Nat /\ k - 1 \in 0..c /\ (k - 1) + 1 = k
        BY <3>1, SMT
      <4> QED BY <1>4, <4>1
    <3> QED BY <1>4, <3>1
  <2>3. Loop(run)
    BY <2>2
  <2> HIDE DEF run
  <2>4. 0 \in 0..c
    BY SMT
  <2>5. run[0] = f[0]
    BY <1>4, <2>3, <2>4
  <2>6. ASSUME NEW k \in Nat, k < c, run[k] = f[k] PROVE run[k + 1] = f[k + 1]
    <3>1. k + 1 \in 0..c /\ k + 1 # 0 /\ (k + 1) - 1 = k
      BY <2>6, SMT
    <3> QED BY <1>4, <2>3, <2>6, <3>1
  <2>7. run[c] = f[c]
    BY <2>5, <2>6, RunFollows
  <2> QED BY <2>1, <2>7
<1>6. \A n \in Nat : n + 1 \in Nat
  BY SMT
<1>7. 0 \in Nat
  BY SMT
<1> QED BY <1>4, <1>5, <1>6, <1>7 DEF b

(* What a round of psx_devices_service_to_now starts from.                 *)
Replay == [m : Machine, rest : Nat]

(* A chunk keeps the type.                                                 *)
LEMMA ChunkType ==
    ASSUME NEW r \in Replay
    PROVE  Chunk(r) \in Replay
<1> DEFINE step == Least(r.rest, ToNextEvent(r.m))
<1>1. r.m \in Machine /\ r.rest \in Nat
  BY DEF Replay
<1>2. ToNextEvent(r.m) \in Nat
  BY <1>1, NextEventFacts
<1>3. step \in Nat /\ r.rest - step \in Nat
  BY <1>1, <1>2, SMT DEF Least
<1>4. Chunk(r) = IF r.rest = 0 THEN r ELSE [m |-> Advanced(r.m, step), rest |-> r.rest - step]
  BY DEF Chunk
<1> HIDE DEF step
<1>5. Advanced(r.m, step) \in Machine
  BY <1>1, <1>3, AdvancedType
<1>6. [m |-> Advanced(r.m, step), rest |-> r.rest - step] \in Replay
  BY <1>3, <1>5 DEF Replay
<1> QED BY <1>4, <1>6

(* f[k] is where psx_devices_service_to_now is after k chunks of c cycles. *)
Chunks(f, m, c) ==
    /\ f \in [Nat -> Replay]
    /\ f[0] = [m |-> Scheduled(m), rest |-> c]
    /\ \A n \in Nat : f[n + 1] = Chunk(f[n])
    /\ ServiceToNow(m, c) = f[c].m

(* The loop of psx_devices_service_to_now is such a sequence.              *)
LEMMA ServiceRuns ==
    ASSUME NEW m \in Machine, NEW c \in Nat \ {0}
    PROVE  \E f : Chunks(f, m, c)
<1> DEFINE g == [r \in Replay |-> Chunk(r)]
           b == [m |-> Scheduled(m), rest |-> c]
<1>1. g \in [Replay -> Replay] /\ \A r \in Replay : g[r] = Chunk(r)
  BY ChunkType
<1>2. b \in Replay
  BY ScheduledType DEF Replay
<1> HIDE DEF g, b
<1>3. PICK f : Orbit(f, Replay, g, b)
  BY <1>1, <1>2, OrbitExists
<1>4. f \in [Nat -> Replay] /\ f[0] = b /\ \A n \in Nat : f[n + 1] = Chunk(f[n])
  BY <1>1, <1>3 DEF Orbit
<1> DEFINE Loop(h) == h = [k \in 0..c |-> IF k = 0 THEN b ELSE Chunk(h[k - 1])]
           run == CHOOSE h : Loop(h)
<1>5. ServiceToNow(m, c) = run[c].m
  BY DEF ServiceToNow, b
<1>6. Loop([k \in 0..c |-> f[k]])
  <2>1. ASSUME NEW k \in 0..c, k # 0
        PROVE  k - 1 \in 0..c /\ f[k] = Chunk(f[k - 1])
    <3>1. k - 1 \in Nat /\ k - 1 \in 0..c /\ (k - 1) + 1 = k
      BY <2>1, SMT
    <3> QED BY <1>4, <3>1
  <2> QED BY <1>4, <2>1
<1>7. Loop(run)
  BY <1>6
<1> HIDE DEF run
<1>8. 0 \in 0..c
  BY SMT
<1>9. run[0] = f[0]
  BY <1>4, <1>7, <1>8
<1>10. ASSUME NEW k \in Nat, k < c, run[k] = f[k] PROVE run[k + 1] = f[k + 1]
  <2>1. k + 1 \in 0..c /\ k + 1 # 0 /\ (k + 1) - 1 = k
    BY <1>10, SMT
  <2> QED BY <1>4, <1>7, <1>10, <2>1
<1>11. run[c] = f[c]
  BY <1>9, <1>10, RunFollows
<1>12. Chunks(f, m, c)
  BY <1>4, <1>5, <1>11 DEF b, Chunks
<1> QED BY <1>12

(* psx_devices_service_to_now keeps the type.                              *)
LEMMA ServiceType ==
    ASSUME NEW m \in Machine, NEW c \in Nat
    PROVE  ServiceToNow(m, c) \in Machine
<1>1. CASE c = 0
  BY <1>1 DEF ServiceToNow
<1>2. CASE c # 0
  <2>0. c \in Nat \ {0}
    BY <1>2
  <2>1. PICK f : Chunks(f, m, c)
    BY <2>0, ServiceRuns
  <2>2. f[c] \in Replay /\ ServiceToNow(m, c) = f[c].m
    BY <2>1 DEF Chunks
  <2> QED BY <2>2 DEF Replay
<1> QED BY <1>1, <1>2

-----------------------------------------------------------------------------
(* The clocks, and those that GapIsQuiet allows.                           *)
Clock == [m : Machine, gap : Nat, due : Nat]

QuietGap(c) ==
    /\ c.gap < ToNextEvent(c.m)
    /\ c.due # 0 => c.gap < c.due /\ c.due <= ToNextEvent(c.m)

(* Devices in step have an empty gap, with the deadline dirty or just      *)
(* computed.                                                               *)
LEMMA InStepIsQuiet ==
    ASSUME NEW m \in Machine
    PROVE  /\ [m |-> m, gap |-> 0, due |-> 0] \in Clock
           /\ QuietGap([m |-> m, gap |-> 0, due |-> 0])
           /\ [m |-> m, gap |-> 0, due |-> Deadline(m)] \in Clock
           /\ QuietGap([m |-> m, gap |-> 0, due |-> Deadline(m)])
<1> DEFINE a == [m |-> m, gap |-> 0, due |-> 0]
           b == [m |-> m, gap |-> 0, due |-> Deadline(m)]
<1>1. /\ ToNextEvent(m) \in Nat \ {0}
      /\ Deadline(m) \in Nat \ {0} /\ Deadline(m) <= ToNextEvent(m)
  BY NextEventFacts
<1>2. 0 \in Nat /\ 0 < ToNextEvent(m) /\ 0 < Deadline(m)
  BY <1>1, SMT
<1>3. a.m = m /\ a.gap = 0 /\ a.due = 0 /\ b.m = m /\ b.gap = 0 /\ b.due = Deadline(m)
  OBVIOUS
<1>4. a \in Clock /\ b \in Clock
  BY <1>1, <1>2 DEF Clock
<1> HIDE DEF a, b
<1>5. QuietGap(a) /\ QuietGap(b)
  BY <1>1, <1>2, <1>3 DEF QuietGap
<1> QED BY <1>4, <1>5 DEF a, b

(* psx_advance_cycles services before the gap reaches the deadline.        *)
LEMMA ChargedIsQuiet ==
    ASSUME NEW c \in Clock, QuietGap(c), NEW n \in Nat
    PROVE  Charged(c, n) \in Clock /\ QuietGap(Charged(c, n))
<1>1. c.m \in Machine /\ c.gap \in Nat /\ c.due \in Nat /\ c.gap + n \in Nat
  <2>1. c.m \in Machine /\ c.gap \in Nat /\ c.due \in Nat
    BY DEF Clock
  <2> QED BY <2>1, SMT
<1>2. CASE exact
  <2>1. Charged(c, n) = [m |-> Exactly(c.m, n), gap |-> 0, due |-> 0]
    BY <1>2 DEF Charged
  <2>2. Exactly(c.m, n) \in Machine
    BY <1>1, ExactlySteps
  <2> QED BY <2>1, <2>2, InStepIsQuiet
<1>3. CASE ~exact /\ (c.due = 0 \/ c.gap + n >= c.due)
  <2> DEFINE now == ServiceToNow(c.m, c.gap + n)
  <2>1. Charged(c, n) = [m |-> now, gap |-> 0, due |-> Deadline(now)]
    BY <1>3 DEF Charged
  <2>2. now \in Machine
    BY <1>1, ServiceType
  <2> HIDE DEF now
  <2> QED BY <2>1, <2>2, InStepIsQuiet
<1>4. CASE ~exact /\ ~(c.due = 0 \/ c.gap + n >= c.due)
  <2> DEFINE e == [c EXCEPT !.gap = c.gap + n]
  <2>1. Charged(c, n) = e
    BY <1>4 DEF Charged
  <2>2. e \in Clock /\ e.m = c.m /\ e.gap = c.gap + n /\ e.due = c.due
    BY <1>1 DEF Clock
  <2>3. ToNextEvent(c.m) \in Nat
    BY <1>1, NextEventFacts
  <2>4. c.due # 0 /\ c.due <= ToNextEvent(c.m) /\ c.gap + n < c.due /\ c.gap + n < ToNextEvent(c.m)
    BY <1>1, <1>4, <2>3, SMT DEF QuietGap
  <2> HIDE DEF e
  <2> QED BY <2>1, <2>2, <2>4 DEF QuietGap
<1> QED BY <1>2, <1>3, <1>4

(* A VBlank that is due lies at the end of an empty gap.                   *)
LEMMA ScheduledIsQuiet ==
    ASSUME NEW c \in Clock, QuietGap(c)
    PROVE  [c EXCEPT !.m = Scheduled(c.m)] \in Clock /\ QuietGap([c EXCEPT !.m = Scheduled(c.m)])
<1> DEFINE e == [c EXCEPT !.m = Scheduled(c.m)]
<1>1. c.m \in Machine /\ c.gap \in Nat /\ c.due \in Nat
  BY DEF Clock
<1>2. Scheduled(c.m) \in Machine
  BY <1>1, ScheduledType
<1>3. e \in Clock /\ e.m = Scheduled(c.m) /\ e.gap = c.gap /\ e.due = c.due
  BY <1>2 DEF Clock
<1>4. CASE Held(c.m) \/ c.m.since < Period
  <2>1. Scheduled(c.m) = c.m
    BY <1>4 DEF Scheduled
  <2> HIDE DEF e
  <2> QED BY <1>3, <2>1 DEF QuietGap, e
<1>5. CASE ~(Held(c.m) \/ c.m.since < Period)
  <2>1. ToNextEvent(c.m) = 1
    <3>1. c.m.since \in Nat /\ Period \in Nat
      BY <1>1, Constants DEF Machine
    <3>2. interrupts_cycles_to_vblank(c.m) = 0
      BY <1>5, <3>1, SMT DEF interrupts_cycles_to_vblank
    <3>3. Distance(c.m, Dev) \in Nat /\ Distance(c.m, Dev) <= 0
      BY <1>1, <3>2, DistanceFacts
    <3> QED BY <3>3, SMT DEF ToNextEvent, AtLeastOne
  <2>2. c.gap = 0 /\ (c.due # 0 => c.due = 1)
    BY <1>1, <2>1, SMT DEF QuietGap
  <2>3. ToNextEvent(Scheduled(c.m)) \in Nat \ {0}
    BY <1>2, NextEventFacts
  <2>4. /\ c.gap < ToNextEvent(Scheduled(c.m))
        /\ c.due # 0 => c.gap < c.due /\ c.due <= ToNextEvent(Scheduled(c.m))
    BY <2>2, <2>3, SMT
  <2> HIDE DEF e
  <2> QED BY <1>3, <2>4 DEF QuietGap, e
<1> QED BY <1>4, <1>5

(* The inductive invariant of GapIsQuiet.                                  *)
ClockInv == TypeOK /\ QuietGap(clk) /\ (idle.streak > 0 => idle.quantum > 0)

(* The states of the wait-loop detector.                                   *)
Detector == [quantum : Nat, streak : 0..StreakMin, elapsed : Nat, pure : BOOLEAN]

(* A streak of the wait-loop detector has a positive quantum.              *)
LEMMA NotedType ==
    ASSUME idle \in Detector, NEW same \in BOOLEAN
    PROVE  Noted(same) \in Detector /\ (Noted(same).streak > 0 => Noted(same).quantum > 0)
<1> DEFINE stable == same /\ idle.pure /\ idle.elapsed \in 1..QuantumMax
           q == IF stable THEN idle.elapsed ELSE 0
           s == IF ~stable THEN 0
                ELSE IF idle.elapsed # idle.quantum THEN 1
                ELSE Least(idle.streak + 1, StreakMin)
<1>1. Noted(same) = [quantum |-> q, streak |-> s, elapsed |-> 0, pure |-> TRUE]
  BY DEF Noted
<1>2. idle.elapsed \in Nat /\ idle.streak \in 0..StreakMin /\ StreakMin \in Nat \ {0}
      /\ QuantumMax \in Nat
  BY Constants DEF Detector
<1>3. stable => idle.elapsed > 0
  BY <1>2, SMT
<1> HIDE DEF stable
<1>4. q \in Nat /\ s \in 0..StreakMin /\ (s > 0 => q > 0) /\ 0 \in Nat
  BY <1>2, <1>3, SMT DEF Least
<1> HIDE DEF q, s
<1>5. Noted(same).streak = s /\ Noted(same).quantum = q
  BY <1>1, SMT
<1>6. Noted(same) \in Detector
  BY <1>1, <1>4, SMT DEF Detector
<1> QED BY <1>4, <1>5, <1>6

(* It holds initially.                                                     *)
LEMMA InitialClock == Init => ClockInv
<1> SUFFICES ASSUME Init PROVE ClockInv
  OBVIOUS
<1>1. Quiet \in Machine
  <2>1. 0 \in Nat /\ Stale \in 0..Stale
    BY Constants, SMT
  <2> QED BY <2>1 DEF Quiet, Machine
<1>2. clk \in Clock /\ QuietGap(clk)
  BY <1>1, InStepIsQuiet DEF Init
<1>3. idle \in Detector /\ idle.streak = 0
  <2>1. 0 \in Nat /\ 0 \in 0..StreakMin
    BY Constants, SMT
  <2> QED BY <2>1 DEF Init, NoLoop, Detector
<1>4. ~(idle.streak > 0)
  BY <1>3, SMT
<1> QED BY <1>1, <1>2, <1>3, <1>4 DEF Init, ClockInv, TypeOK, Clock, Detector

(* A charge keeps it.                                                      *)
LEMMA ChargeKeeps ==
    ASSUME ClockInv, Charge
    PROVE  ClockInv'
<1>1. PICK n \in 1..MaxCharge :
          /\ clk' = Charged(clk, n)
          /\ ref' = Exactly(ref, n)
          /\ idle' = IF session.idleSkip
                     THEN [idle EXCEPT !.elapsed = Least(idle.elapsed + n, QuantumMax + 1)]
                     ELSE idle
          /\ UNCHANGED <<in_exception, exact, saved, session>>
  BY DEF Charge
<1>2. n \in Nat /\ QuantumMax \in Nat /\ MaxCharge \in Nat
  BY Constants, SMT
<1>3. clk' \in Clock /\ QuietGap(clk')
  <2>1. clk \in Clock /\ QuietGap(clk)
    BY DEF ClockInv, TypeOK, Clock
  <2> QED BY <1>1, <1>2, <2>1, ChargedIsQuiet
<1>4. ref' \in Machine
  BY <1>1, <1>2, ExactlySteps DEF ClockInv, TypeOK
<1>5. idle' \in Detector /\ idle'.streak = idle.streak /\ idle'.quantum = idle.quantum
  <2>1. idle \in Detector
    BY DEF ClockInv, TypeOK, Detector
  <2>2. Least(idle.elapsed + n, QuantumMax + 1) \in Nat
    <3>1. idle.elapsed \in Nat
      BY <2>1 DEF Detector
    <3> QED BY <1>2, <3>1, SMT DEF Least
  <2> QED BY <1>1, <2>1, <2>2 DEF Detector
<1> QED BY <1>1, <1>3, <1>4, <1>5 DEF ClockInv, TypeOK, Clock, Detector, QuietGap

(* A register access brings the devices in step.                           *)
LEMMA AccessKeeps ==
    ASSUME ClockInv, MmioAccess
    PROVE  ClockInv'
<1> DEFINE now == ServiceToNow(clk.m, clk.gap)
<1>1. now \in Machine
  <2>1. clk.m \in Machine /\ clk.gap \in Nat
    BY DEF ClockInv, TypeOK
  <2> QED BY <2>1, ServiceType
<1>2. Synced(clk).m = now
      /\ \A u \in Machine : [Synced(clk) EXCEPT !.m = u] = [m |-> u, gap |-> 0, due |-> 0]
  <2>1. Synced(clk) = [m |-> now, gap |-> 0, due |-> 0]
    BY DEF Synced
  <2> HIDE DEF now
  <2>2. Synced(clk).m = now
    BY <2>1, SMT
  <2>3. ASSUME NEW u \in Machine
        PROVE  [Synced(clk) EXCEPT !.m = u] = [m |-> u, gap |-> 0, due |-> 0]
    BY <2>1, SMT
  <2> QED BY <2>2, <2>3
<1> HIDE DEF now
<1>3. ref \in Machine /\ idle \in Detector
  BY DEF ClockInv, TypeOK, Detector
<1>4. \E a \in Machine, b \in Machine : clk' = [m |-> a, gap |-> 0, due |-> 0] /\ ref' = b
  <2>1. CASE \E d \in session.uses, k \in Delays :
               /\ clk' = [Synced(clk) EXCEPT !.m = Programmed(Synced(clk).m, d, k)]
               /\ ref' = Programmed(ref, d, k)
    <3>1. PICK d \in session.uses, k \in Delays :
               /\ clk' = [Synced(clk) EXCEPT !.m = Programmed(Synced(clk).m, d, k)]
               /\ ref' = Programmed(ref, d, k)
      BY <2>1
    <3>2. Armed(d, k) \in Nat
      <4>1. k \in Nat
        BY Constants
      <4> QED BY <4>1, SMT DEF Armed
    <3>3. ASSUME NEW u \in Machine PROVE Programmed(u, d, k) \in Machine
      BY <3>2 DEF Programmed, Machine
    <3> QED BY <1>1, <1>2, <1>3, <3>1, <3>3
  <2>2. CASE \E stat \in SUBSET (session.uses \cup {VBlank}) :
               /\ clk' = [Synced(clk) EXCEPT !.m = Acknowledged(Synced(clk).m, stat)]
               /\ ref' = Acknowledged(ref, stat)
    <3>1. PICK stat \in SUBSET (session.uses \cup {VBlank}) :
               /\ clk' = [Synced(clk) EXCEPT !.m = Acknowledged(Synced(clk).m, stat)]
               /\ ref' = Acknowledged(ref, stat)
      BY <2>2
    <3>2. ASSUME NEW u \in Machine PROVE Acknowledged(u, stat) \in Machine
      BY DEF Acknowledged, Machine
    <3> QED BY <1>1, <1>2, <1>3, <3>1, <3>2
  <2>3. CASE \E b \in BOOLEAN :
               /\ clk' = [Synced(clk) EXCEPT !.m = CardSelected(Synced(clk).m, b)]
               /\ ref' = CardSelected(ref, b)
    <3>1. PICK b \in BOOLEAN :
               /\ clk' = [Synced(clk) EXCEPT !.m = CardSelected(Synced(clk).m, b)]
               /\ ref' = CardSelected(ref, b)
      BY <2>3
    <3>2. ASSUME NEW u \in Machine PROVE CardSelected(u, b) \in Machine
      BY DEF CardSelected, Machine
    <3> QED BY <1>1, <1>2, <1>3, <3>1, <3>2
  <2> QED BY <2>1, <2>2, <2>3 DEF MmioAccess
<1>5. clk' \in Clock /\ QuietGap(clk') /\ ref' \in Machine
  BY <1>4, InStepIsQuiet
<1>6. idle' \in Detector /\ idle'.streak = idle.streak /\ idle'.quantum = idle.quantum
  BY <1>3 DEF MmioAccess, Detector
<1> QED BY <1>5, <1>6 DEF MmioAccess, ClockInv, TypeOK, Clock, Detector, QuietGap

(* The interrupt check keeps it, with and without a skip.                  *)
LEMMA CheckKeeps ==
    ASSUME ClockInv, CheckInterrupts
    PROVE  ClockInv'
<1>1. PICK same \in BOOLEAN, mask \in SUBSET session.uses, k \in 0..MaxSince : Check(same, mask, k)
  BY DEF CheckInterrupts
<1> DEFINE c == [clk EXCEPT !.m = Scheduled(clk.m)]
           loop == IF session.idleSkip THEN Noted(same) ELSE idle
           skip == k * loop.quantum
           after == IF k = 0 THEN c ELSE Charged(c, skip)
<1>2. /\ clk' = after
      /\ ref' = IF k = 0 THEN Scheduled(ref) ELSE Exactly(Scheduled(ref), skip)
      /\ idle' = IF k = 0 THEN loop ELSE [loop EXCEPT !.streak = 0]
      /\ in_exception' \in {FALSE, after.m.stat # {}}
      /\ UNCHANGED <<exact, saved, session>>
  BY <1>1 DEF Check
<1>3. clk \in Clock /\ QuietGap(clk) /\ ref \in Machine /\ idle \in Detector
      /\ (idle.streak > 0 => idle.quantum > 0)
  BY DEF ClockInv, TypeOK, Clock, Detector
<1>4. c \in Clock /\ QuietGap(c)
  BY <1>3, ScheduledIsQuiet
<1>5. loop \in Detector /\ (loop.streak > 0 => loop.quantum > 0)
  BY <1>3, NotedType
<1> HIDE DEF c, loop
<1>6. skip \in Nat
  <2>1. k \in Nat /\ loop.quantum \in Nat
    BY <1>5, Constants, SMT DEF Detector
  <2> QED BY <2>1, SMT
<1> HIDE DEF skip
<1>7. clk' \in Clock /\ QuietGap(clk')
  BY <1>2, <1>4, <1>6, ChargedIsQuiet
<1>8. ref' \in Machine
  <2>1. Scheduled(ref) \in Machine
    BY <1>3, ScheduledType
  <2>2. Exactly(Scheduled(ref), skip) \in Machine
    BY <1>6, <2>1, ExactlySteps
  <2> QED BY <1>2, <2>1, <2>2
<1>9. idle' \in Detector /\ (idle'.streak > 0 => idle'.quantum > 0)
  <2>1. 0 \in 0..StreakMin /\ ~(0 > 0)
    BY Constants, SMT
  <2>2. [loop EXCEPT !.streak = 0] \in Detector /\ [loop EXCEPT !.streak = 0].streak = 0
    BY <1>5, <2>1 DEF Detector
  <2> QED BY <1>2, <1>5, <2>1, <2>2
<1>10. in_exception' \in BOOLEAN
  <2> DEFINE p == after.m.stat # {}
  <2>1. p \in BOOLEAN
    OBVIOUS
  <2> HIDE DEF p
  <2> QED BY <1>2, <2>1 DEF p
<1> QED BY <1>2, <1>7, <1>8, <1>9, <1>10 DEF ClockInv, TypeOK, Clock, Detector, QuietGap

(* So do the other actions.                                                *)
LEMMA RestoreKeeps ==
    ASSUME ClockInv, SaveState \/ LoadState \/ ToggleExact \/ LeaveException
    PROVE  ClockInv'
<1>1. CASE SaveState
  <2>1. clk.m \in Machine /\ ref \in Machine
    BY DEF ClockInv, TypeOK
  <2> QED BY <1>1, <2>1 DEF SaveState, ClockInv, TypeOK, QuietGap
<1>2. CASE LoadState
  <2>1. PICK r \in Recency :
          /\ clk' = [m |-> [saved.m EXCEPT !.since = clk.m.since, !.recent = r],
                     gap |-> 0, due |-> 0]
          /\ ref' = [saved.ref EXCEPT !.since = clk.m.since, !.recent = r]
    BY <1>2 DEF LoadState
  <2>2. r \in 0..Stale
    BY Constants, SMT DEF Recency
  <2>3. clk.m.since \in Nat /\ saved.m \in Machine /\ saved.ref \in Machine
    BY DEF ClockInv, TypeOK, Machine
  <2>4. ASSUME NEW u \in Machine PROVE [u EXCEPT !.since = clk.m.since, !.recent = r] \in Machine
    BY <2>2, <2>3 DEF Machine
  <2>5. clk' \in Clock /\ QuietGap(clk') /\ ref' \in Machine
    BY <2>1, <2>3, <2>4, InStepIsQuiet
  <2> QED BY <1>2, <2>5 DEF LoadState, ClockInv, TypeOK, Clock, QuietGap
<1>3. CASE ToggleExact
  BY <1>3 DEF ToggleExact, ClockInv, TypeOK, QuietGap
<1>4. CASE LeaveException
  BY <1>4 DEF LeaveException, ClockInv, TypeOK, QuietGap
<1> QED BY <1>1, <1>2, <1>3, <1>4

(* The invariant holds.                                                    *)
THEOREM ClockInvHolds == Spec => []ClockInv
<1>1. ClockInv /\ [Next]_vars => ClockInv'
  <2>1. CASE UNCHANGED vars
    BY <2>1 DEF vars, ClockInv, TypeOK, QuietGap
  <2> QED BY <2>1, ChargeKeeps, AccessKeeps, CheckKeeps, RestoreKeeps DEF Next
<1> QED BY <1>1, InitialClock, PTL DEF Spec

(* The devices, the clock and the wait-loop detector of psx_cycles.c keep  *)
(* their types in every session, serial, debugging and restoring ones      *)
(* included.                                                               *)
THEOREM ClockTypeCorrect == Spec => []TypeOK
<1>1. ClockInv => TypeOK
  BY DEF ClockInv
<1> QED BY <1>1, ClockInvHolds, PTL

(* In every session the cycles psx_advance_cycles has charged and not      *)
(* serviced contain no event, and the deadline of                          *)
(* psx_devices_recompute_deadline is never beyond the next one.            *)
THEOREM GapIsQuietHolds == Spec => []GapIsQuiet
<1>1. ClockInv => GapIsQuiet
  BY DEF ClockInv, QuietGap, GapIsQuiet
<1> QED BY <1>1, ClockInvHolds, PTL

-----------------------------------------------------------------------------
(* A machine without serial traffic.                                       *)
NoSerial(m) == m.card = FALSE /\ \A d \in Serial : m.left[d] = 0

(* m after g cycles in which nothing happens.                              *)
Later(m, g) ==
    [m EXCEPT !.left   = [d \in Dev |-> IF m.left[d] = 0 THEN 0 ELSE m.left[d] - g],
              !.since  = m.since + g,
              !.recent = IF m.recent > g THEN m.recent - g ELSE 0]

(* No device has an event within g cycles.                                 *)
Clear(m, g) == \A d \in Dev : m.left[d] # 0 => g < m.left[d]

(* Two machines with the same fields are the same.                         *)
LEMMA SameMachine ==
    ASSUME NEW a \in Machine, NEW b \in Machine,
           \A d \in Dev : a.left[d] = b.left[d],
           a.since = b.since, a.stat = b.stat, a.card = b.card, a.recent = b.recent
    PROVE  a = b
<1>1. a.left = b.left
  <2>1. a.left \in [Dev -> Nat] /\ b.left \in [Dev -> Nat]
    BY DEF Machine
  <2> QED BY <2>1, SMT
<1> QED BY <1>1, SMT DEF Machine

(* The fields of a machine.                                                *)
LEMMA MachineFields ==
    ASSUME NEW m \in Machine
    PROVE  /\ \A d \in Dev : m.left[d] \in Nat
           /\ m.since \in Nat /\ m.recent \in Nat /\ m.recent <= Stale
           /\ m.card \in BOOLEAN
<1>1. m.recent \in 0..Stale /\ Stale \in Nat
  BY Constants DEF Machine
<1>2. m.recent \in Nat /\ m.recent <= Stale
  BY <1>1, SMT
<1> QED BY <1>2 DEF Machine

(* The fields of Later(m, g).                                              *)
LaterBy(u, m, g) ==
    /\ u \in Machine
    /\ \A d \in Dev : u.left[d] = IF m.left[d] = 0 THEN 0 ELSE m.left[d] - g
    /\ u.since = m.since + g
    /\ u.stat = m.stat /\ u.card = m.card
    /\ u.recent = IF m.recent > g THEN m.recent - g ELSE 0

(* When nothing happens, Later is what its fields say.                     *)
LEMMA LaterFields ==
    ASSUME NEW m \in Machine, NEW g \in Nat, Clear(m, g)
    PROVE  LaterBy(Later(m, g), m, g)
<1> DEFINE L == [d \in Dev |-> IF m.left[d] = 0 THEN 0 ELSE m.left[d] - g]
           s == m.since + g
           r == IF m.recent > g THEN m.recent - g ELSE 0
<1>1. m.since \in Nat /\ m.recent \in Nat /\ m.recent <= Stale /\ Stale \in Nat
  BY MachineFields, Constants
<1>2. s \in Nat /\ r \in 0..Stale
  BY <1>1, SMT
<1>3. L \in [Dev -> Nat]
  <2> SUFFICES ASSUME NEW d \in Dev PROVE (IF m.left[d] = 0 THEN 0 ELSE m.left[d] - g) \in Nat
    OBVIOUS
  <2>1. m.left[d] \in Nat /\ (m.left[d] # 0 => g < m.left[d])
    BY MachineFields DEF Clear
  <2> QED BY <2>1, SMT
<1>4. Later(m, g) = [m EXCEPT !.left = L, !.since = s, !.recent = r]
  BY DEF Later
<1>5. \A d \in Dev : L[d] = IF m.left[d] = 0 THEN 0 ELSE m.left[d] - g
  OBVIOUS
<1> HIDE DEF L, s, r
<1> DEFINE e == [m EXCEPT !.left = L, !.since = s, !.recent = r]
<1>6. e \in Machine
  BY <1>2, <1>3 DEF Machine
<1>7. e.left = L /\ e.since = s /\ e.stat = m.stat /\ e.card = m.card /\ e.recent = r
  BY DEF Machine
<1> HIDE DEF e
<1> QED BY <1>4, <1>5, <1>6, <1>7 DEF e, s, r, LaterBy

(* Nothing changes in no time.                                             *)
LEMMA LaterZero ==
    ASSUME NEW m \in Machine
    PROVE  Later(m, 0) = m
<1>1. Clear(m, 0)
  <2> SUFFICES ASSUME NEW d \in Dev, m.left[d] # 0 PROVE 0 < m.left[d]
    BY DEF Clear
  <2>1. m.left[d] \in Nat
    BY MachineFields
  <2> QED BY <2>1, SMT
<1>2. /\ Later(m, 0) \in Machine
      /\ \A d \in Dev : Later(m, 0).left[d] = IF m.left[d] = 0 THEN 0 ELSE m.left[d] - 0
      /\ Later(m, 0).since = m.since + 0
      /\ Later(m, 0).stat = m.stat /\ Later(m, 0).card = m.card
      /\ Later(m, 0).recent = IF m.recent > 0 THEN m.recent - 0 ELSE 0
  <2>1. LaterBy(Later(m, 0), m, 0)
    BY <1>1, LaterFields
  <2> QED BY <2>1 DEF LaterBy
<1>3. \A d \in Dev : m.left[d] \in Nat
  BY MachineFields
<1>4. m.since \in Nat /\ m.recent \in Nat
  BY MachineFields
<1>5. \A x \in Nat : x + 0 = x /\ x - 0 = x /\ (~(x > 0) => x = 0)
  BY SMT
<1>6. \A d \in Dev : Later(m, 0).left[d] = m.left[d]
  BY <1>2, <1>3, <1>5
<1>7. Later(m, 0).since = m.since /\ Later(m, 0).recent = m.recent
  BY <1>2, <1>4, <1>5
<1> QED BY <1>2, <1>6, <1>7, SameMachine

(* sio_advance does nothing to an idle port.                               *)
LEMMA SioIdle ==
    ASSUME NEW d \in Dev, NEW c \in Nat
    PROVE  SioAdvance(d, 0, c) = 0
<1> DEFINE b == [left |-> 0, rest |-> c]
           Loop(h) == h = [k \in 0..Transitions |->
                             IF k = 0 THEN b ELSE SioRound(d, h[k - 1])]
           run == CHOOSE h : Loop(h)
           f == [k \in Nat |-> b]
<1>1. SioAdvance(d, 0, c) =
        LET end == run[Transitions]
        IN  IF end.left = 0 \/ end.rest >= end.left THEN end.left ELSE end.left - end.rest
  BY DEF SioAdvance
<1>2. SioRound(d, b) = b /\ b.left = 0
  BY DEF SioRound
<1> HIDE DEF b
<1>3. Transitions \in Nat /\ 0 \in 0..Transitions
  BY Constants, SMT
<1>4. Loop([k \in 0..Transitions |-> b])
  <2>1. \A k \in 0..Transitions : k # 0 => k - 1 \in 0..Transitions
    BY <1>3, SMT
  <2> QED BY <1>2, <2>1
<1>5. Loop(run)
  BY <1>4
<1> HIDE DEF run
<1>6. run[0] = f[0]
  BY <1>3, <1>5
<1>7. ASSUME NEW k \in Nat, k < Transitions, run[k] = f[k] PROVE run[k + 1] = f[k + 1]
  <2>1. k + 1 \in 0..Transitions /\ k + 1 \in Nat /\ k + 1 # 0 /\ (k + 1) - 1 = k
    BY <1>3, <1>7, SMT
  <2>2. run[k + 1] = SioRound(d, run[k])
    BY <1>5, <2>1
  <2>3. f[k] = b /\ f[k + 1] = b
    BY <2>1
  <2> QED BY <1>2, <1>7, <2>2, <2>3
<1>8. run[Transitions] = f[Transitions]
  BY <1>3, <1>6, <1>7, RunFollows
<1> QED BY <1>1, <1>2, <1>3, <1>8

(* The fields of Moved(m, c), without serial traffic.                      *)
MovedTo(u, m, c) ==
    /\ u \in Machine
    /\ \A d \in Dev : u.left[d] = IF d \in Expires(m, c) THEN Reload[d]
                                  ELSE IF m.left[d] = 0 THEN 0 ELSE m.left[d] - c
    /\ u.since = m.since + c
    /\ u.stat = m.stat \cup Expires(m, c)
    /\ u.card = m.card
    /\ u.recent = IF m.recent > c THEN m.recent - c ELSE 0
    /\ Expires(m, c) \cap Serial = {}

(* Without serial traffic a move treats every device alike.                *)
LEMMA MovedFields ==
    ASSUME NEW m \in Machine, NoSerial(m), NEW c \in Nat
    PROVE  MovedTo(Moved(m, c), m, c)
<1> DEFINE F == Expires(m, c)
           L == [d \in Dev |-> IF d \in Serial THEN SioAdvance(d, m.left[d], c)
                               ELSE IF d \in F THEN Reload[d]
                               ELSE IF m.left[d] = 0 THEN 0 ELSE m.left[d] - c]
           r == IF F \cap Serial # {} THEN Stale ELSE IF m.recent > c THEN m.recent - c ELSE 0
           e == [m EXCEPT !.left = L, !.since = m.since + c, !.stat = m.stat \cup F, !.recent = r]
<1>1. ASSUME NEW d \in Serial PROVE d \in Dev /\ m.left[d] = 0 /\ d \notin F
  <2>1. d \in Dev /\ m.left[d] = 0
    BY Constants DEF NoSerial
  <2>2. ~(m.left[d] > 0)
    BY <2>1, SMT
  <2> QED BY <2>1, <2>2 DEF Expires
<1>2. F \cap Serial = {}
  BY <1>1
<1>3. Moved(m, c) = e /\ e \in Machine
  BY AdvancedType DEF Moved
<1> HIDE DEF F
<1>4. /\ e.left = L /\ e.since = m.since + c /\ e.stat = m.stat \cup F
      /\ e.card = m.card /\ e.recent = r
  <2> HIDE DEF L, r
  <2> QED BY DEF Machine
<1>5. r = IF m.recent > c THEN m.recent - c ELSE 0
  BY <1>2
<1>6. \A d \in Dev : L[d] = IF d \in F THEN Reload[d]
                             ELSE IF m.left[d] = 0 THEN 0 ELSE m.left[d] - c
  BY <1>1, SioIdle
<1> HIDE DEF L, r, e
<1> QED BY <1>2, <1>3, <1>4, <1>5, <1>6 DEF F, MovedTo

(* Nothing but a register access starts serial traffic.                    *)
LEMMA StaysPlain ==
    ASSUME NEW m \in Machine, NoSerial(m)
    PROVE  /\ NoSerial(Scheduled(m))
           /\ \A c \in Nat : NoSerial(Moved(m, c)) /\ NoSerial(Advanced(m, c))
           /\ \A g \in Nat : Clear(m, g) => NoSerial(Later(m, g))
<1>1. ASSUME NEW u \in Machine, NoSerial(u) PROVE NoSerial(Scheduled(u))
  <2>1. Scheduled(u).left = u.left /\ Scheduled(u).card = u.card
    BY DEF Scheduled, Machine
  <2> QED BY <1>1, <2>1 DEF NoSerial
<1>2. ASSUME NEW c \in Nat PROVE NoSerial(Moved(m, c)) /\ NoSerial(Advanced(m, c))
  <2>1. NoSerial(Moved(m, c))
    <3>0. MovedTo(Moved(m, c), m, c)
      BY MovedFields
    <3>1. ASSUME NEW d \in Serial PROVE Moved(m, c).left[d] = 0
      <4>1. d \in Dev /\ d \notin Expires(m, c) /\ m.left[d] = 0
        BY <3>0, Constants DEF NoSerial, MovedTo
      <4> QED BY <3>0, <4>1 DEF MovedTo
    <3>2. Moved(m, c).card = FALSE
      BY <3>0 DEF NoSerial, MovedTo
    <3> QED BY <3>1, <3>2 DEF NoSerial
  <2>2. Moved(m, c) \in Machine
    BY AdvancedType
  <2> QED BY <1>1, <2>1, <2>2, AdvancedMoves
<1>3. ASSUME NEW g \in Nat, Clear(m, g) PROVE NoSerial(Later(m, g))
  <2>0. LaterBy(Later(m, g), m, g)
    BY <1>3, LaterFields
  <2>1. ASSUME NEW d \in Serial PROVE Later(m, g).left[d] = 0
    <3>1. d \in Dev /\ m.left[d] = 0
      BY Constants DEF NoSerial
    <3> QED BY <2>0, <3>1 DEF LaterBy
  <2>2. Later(m, g).card = FALSE
    BY <2>0 DEF NoSerial, LaterBy
  <2> QED BY <2>1, <2>2 DEF NoSerial
<1> QED BY <1>1, <1>2, <1>3

(* Fewer cycles than to the next event bring none.                         *)
LEMMA BeforeEvent ==
    ASSUME NEW m \in Machine, NoSerial(m), NEW g \in Nat, g < ToNextEvent(m)
    PROVE  Clear(m, g) /\ (g > 0 => m.since + g < Period)
<1>1. Distance(m, Dev) \in Nat /\ Distance(m, Dev) <= interrupts_cycles_to_vblank(m)
  BY DistanceFacts
<1>2. g = 0 \/ g < Distance(m, Dev)
  BY <1>1, SMT DEF ToNextEvent, AtLeastOne
<1>3. m.since \in Nat /\ Period \in Nat
  BY MachineFields, Constants
<1>4. g > 0 => m.since + g < Period
  BY <1>1, <1>2, <1>3, SMT DEF interrupts_cycles_to_vblank
<1>5. ASSUME NEW d \in Dev, m.left[d] # 0 PROVE g < m.left[d]
  <2>1. m.left[d] \in Nat
    BY MachineFields
  <2>2. Remaining(m, d) = m.left[d]
    <3>1. d \notin Serial
      BY <1>5 DEF NoSerial
    <3> QED BY <3>1 DEF Remaining
  <2>3. Distance(m, Dev) <= m.left[d]
    BY <1>5, <2>2, DistanceFacts
  <2> QED BY <1>1, <1>2, <1>5, <2>1, <2>3, SMT
<1> QED BY <1>4, <1>5 DEF Clear

(* A move that meets no event only lets time pass.                         *)
LEMMA MovedQuietly ==
    ASSUME NEW m \in Machine, NoSerial(m), NEW g \in Nat, Clear(m, g)
    PROVE  Moved(m, g) = Later(m, g)
<1>1. Expires(m, g) = {}
  <2> SUFFICES ASSUME NEW d \in Dev, m.left[d] > 0, g >= m.left[d] PROVE FALSE
    BY DEF Expires
  <2>1. m.left[d] \in Nat
    BY MachineFields
  <2>2. m.left[d] # 0 /\ ~(g < m.left[d])
    BY <2>1, SMT
  <2> QED BY <2>2 DEF Clear
<1>2. MovedTo(Moved(m, g), m, g) /\ LaterBy(Later(m, g), m, g)
  BY MovedFields, LaterFields
<1> DEFINE a == Moved(m, g)
           b == Later(m, g)
<1> HIDE DEF a, b
<1>3. \A d \in Dev : a.left[d] = b.left[d]
  BY <1>1, <1>2 DEF MovedTo, LaterBy, a, b
<1>4. a.stat = b.stat
  BY <1>1, <1>2 DEF MovedTo, LaterBy, a, b
<1>5. a \in Machine /\ b \in Machine /\ a.since = b.since /\ a.card = b.card /\ a.recent = b.recent
  BY <1>2 DEF MovedTo, LaterBy, a, b
<1>6. a = b
  BY <1>3, <1>4, <1>5, SameMachine
<1> QED BY <1>6 DEF a, b

(* A cycle after a quiet stretch is the move over both.                    *)
LEMMA MovedOnce ==
    ASSUME NEW m \in Machine, NoSerial(m), NEW g \in Nat, Clear(m, g)
    PROVE  Moved(Later(m, g), 1) = Moved(m, g + 1)
<1> DEFINE e == Later(m, g)
           a == Moved(e, 1)
           b == Moved(m, g + 1)
<1>1. LaterBy(e, m, g)
  BY LaterFields
<1>2. NoSerial(e)
  BY StaysPlain
<1>3. 1 \in Nat /\ g + 1 \in Nat
  BY SMT
<1> HIDE DEF e
<1>4. MovedTo(a, e, 1)
  BY <1>1, <1>2, <1>3, MovedFields DEF LaterBy
<1>5. MovedTo(b, m, g + 1)
  BY <1>3, MovedFields
<1> HIDE DEF a, b
<1>6. ASSUME NEW d \in Dev
      PROVE  /\ (e.left[d] > 0 /\ 1 >= e.left[d]) <=> (m.left[d] > 0 /\ g + 1 >= m.left[d])
             /\ e.left[d] = 0 <=> m.left[d] = 0
             /\ e.left[d] # 0 => e.left[d] - 1 = m.left[d] - (g + 1)
  <2>1. m.left[d] \in Nat /\ (m.left[d] # 0 => g < m.left[d])
        /\ e.left[d] = IF m.left[d] = 0 THEN 0 ELSE m.left[d] - g
    BY <1>1, MachineFields DEF Clear, LaterBy
  <2> QED BY <2>1, SMT
<1>7. Expires(e, 1) = Expires(m, g + 1)
  BY <1>6 DEF Expires
<1>8. ASSUME NEW d \in Dev PROVE a.left[d] = b.left[d]
  <2>1. /\ a.left[d] = IF d \in Expires(m, g + 1) THEN Reload[d]
                       ELSE IF e.left[d] = 0 THEN 0 ELSE e.left[d] - 1
        /\ b.left[d] = IF d \in Expires(m, g + 1) THEN Reload[d]
                       ELSE IF m.left[d] = 0 THEN 0 ELSE m.left[d] - (g + 1)
    BY <1>4, <1>5, <1>7 DEF MovedTo
  <2> QED BY <1>6, <2>1
<1>9. m.since \in Nat /\ m.recent \in Nat
  BY MachineFields
<1>10. a.since = b.since
  <2>1. a.since = m.since + g + 1 /\ b.since = m.since + (g + 1)
    BY <1>1, <1>4, <1>5 DEF MovedTo, LaterBy
  <2> QED BY <1>9, <2>1, SMT
<1>11. a.recent = b.recent
  <2>1. /\ a.recent = IF e.recent > 1 THEN e.recent - 1 ELSE 0
        /\ b.recent = IF m.recent > g + 1 THEN m.recent - (g + 1) ELSE 0
        /\ e.recent = IF m.recent > g THEN m.recent - g ELSE 0
    BY <1>1, <1>4, <1>5 DEF MovedTo, LaterBy
  <2> QED BY <1>9, <2>1, SMT
<1>12. a \in Machine /\ b \in Machine /\ a.stat = b.stat /\ a.card = b.card
  BY <1>1, <1>4, <1>5, <1>7 DEF MovedTo, LaterBy
<1>13. a = b
  BY <1>8, <1>10, <1>11, <1>12, SameMachine
<1> QED BY <1>13 DEF a, b, e

(* Before the next event no VBlank is due.                                 *)
LEMMA ScheduledQuietly ==
    ASSUME NEW m \in Machine, NoSerial(m), NEW g \in Nat \ {0}, g < ToNextEvent(m)
    PROVE  /\ Scheduled(m) = m
           /\ Scheduled(Later(m, g)) = Later(m, g)
<1>1. Clear(m, g) /\ m.since + g < Period
  <2>1. g \in Nat /\ g > 0
    BY SMT
  <2> QED BY <2>1, BeforeEvent
<1>2. m.since \in Nat /\ Period \in Nat
  BY MachineFields, Constants
<1>3. m.since < Period
  BY <1>1, <1>2, SMT
<1>4. Later(m, g).since = m.since + g
  BY <1>1, LaterFields DEF LaterBy
<1> QED BY <1>1, <1>3, <1>4 DEF Scheduled

(* A cycle at a time and a stretch at once agree up to the next event.     *)
LEMMA AdvancedOnce ==
    ASSUME NEW m \in Machine, NoSerial(m), NEW g \in Nat, g < ToNextEvent(m)
    PROVE  Advanced(Later(m, g), 1) = Advanced(m, g + 1)
<1>1. Clear(m, g)
  BY BeforeEvent
<1>2. Moved(Later(m, g), 1) = Moved(m, g + 1)
  BY <1>1, MovedOnce
<1> QED BY <1>2, AdvancedMoves

(* An advance that ends before the next event only lets time pass.         *)
LEMMA AdvancedQuietly ==
    ASSUME NEW m \in Machine, NoSerial(m), NEW g \in Nat \ {0}, g < ToNextEvent(m)
    PROVE  Advanced(m, g) = Later(m, g)
<1>0. g \in Nat
  OBVIOUS
<1>1. Clear(m, g)
  BY <1>0, BeforeEvent
<1>2. Moved(m, g) = Later(m, g)
  BY <1>0, <1>1, MovedQuietly
<1> QED BY <1>2, AdvancedMoves, ScheduledQuietly

(* e follows single stepping.                                              *)
Stepping(e) == e \in [Nat -> Machine] /\ \A n \in Nat : e[n + 1] = Advanced(e[n], 1)

(* Single stepping is on the way to the next event what time passing says, *)
(* and on it what one advance says.                                        *)
LEMMA Straight ==
    ASSUME NEW e, Stepping(e), NEW a \in Nat, NoSerial(e[a])
    PROVE  /\ \A j \in Nat : j < ToNextEvent(e[a]) => e[a + j] = Later(e[a], j)
           /\ \A s \in Nat \ {0} : s <= ToNextEvent(e[a]) => e[a + s] = Advanced(e[a], s)
<1> DEFINE m == e[a]
           P == {j \in Nat : j < ToNextEvent(m) => e[a + j] = Later(m, j)}
<1>1. m \in Machine /\ NoSerial(m)
  BY DEF Stepping
<1>2. ToNextEvent(m) \in Nat
  BY <1>1, NextEventFacts
<1>3. a + 0 = a
  BY SMT
<1>4. e[a + 0] = m
  BY <1>3
<1> HIDE DEF m
<1>5. 0 \in P
  BY <1>1, <1>4, LaterZero
<1>6. ASSUME NEW j \in Nat, e[a + j] = Later(m, j), j < ToNextEvent(m)
      PROVE  e[a + (j + 1)] = Advanced(m, j + 1)
  <2>1. a + j \in Nat /\ a + (j + 1) = (a + j) + 1
    BY SMT
  <2>2. e[(a + j) + 1] = Advanced(e[a + j], 1)
    BY <2>1 DEF Stepping
  <2>3. Advanced(Later(m, j), 1) = Advanced(m, j + 1)
    BY <1>1, <1>6, AdvancedOnce
  <2> QED BY <1>6, <2>1, <2>2, <2>3
<1>7. ASSUME NEW j \in Nat, j \in P PROVE j + 1 \in P
  <2> SUFFICES ASSUME j + 1 < ToNextEvent(m) PROVE e[a + (j + 1)] = Later(m, j + 1)
    BY SMT
  <2>1. j < ToNextEvent(m) /\ j + 1 \in Nat \ {0}
    BY <1>2, SMT
  <2>2. e[a + (j + 1)] = Advanced(m, j + 1)
    BY <1>6, <1>7, <2>1
  <2>3. Advanced(m, j + 1) = Later(m, j + 1)
    BY <1>1, <2>1, AdvancedQuietly
  <2> QED BY <2>2, <2>3
<1> HIDE DEF P
<1>8. \A j \in Nat : j \in P
  BY <1>5, <1>7, Induction
<1>9. ASSUME NEW s \in Nat \ {0}, s <= ToNextEvent(m) PROVE e[a + s] = Advanced(m, s)
  <2>1. s - 1 \in Nat /\ s - 1 < ToNextEvent(m) /\ (s - 1) + 1 = s
    BY <1>2, <1>9, SMT
  <2>2. e[a + (s - 1)] = Later(m, s - 1)
    BY <1>8, <2>1 DEF P
  <2>3. e[a + ((s - 1) + 1)] = Advanced(m, (s - 1) + 1)
    BY <1>6, <2>1, <2>2
  <2> QED BY <2>1, <2>3
<1> QED BY <1>8, <1>9 DEF P, m

(* Exactly is single stepping.                                             *)
LEMMA ExactSteps ==
    ASSUME NEW m \in Machine
    PROVE  /\ Stepping([n \in Nat |-> Exactly(m, n)])
           /\ Exactly(m, 0) = Scheduled(m)
<1>1. \A n \in Nat : n + 1 \in Nat
  BY SMT
<1> QED BY <1>1, ExactlySteps DEF Stepping

(* Single stepping is determined by where it starts.                       *)
LEMMA SteppingAgrees ==
    ASSUME NEW e, NEW f, Stepping(e), Stepping(f), NEW a \in Nat, e[a] = f[0]
    PROVE  \A n \in Nat : e[a + n] = f[n]
<1> DEFINE P == {n \in Nat : e[a + n] = f[n]}
<1>1. 0 \in P
  <2>1. a + 0 = a /\ 0 \in Nat
    BY SMT
  <2> QED BY <2>1
<1>2. ASSUME NEW n \in Nat, n \in P PROVE n + 1 \in P
  <2>1. a + n \in Nat /\ a + (n + 1) = (a + n) + 1 /\ n + 1 \in Nat
    BY SMT
  <2>2. e[(a + n) + 1] = Advanced(e[a + n], 1) /\ f[n + 1] = Advanced(f[n], 1)
    BY <2>1 DEF Stepping
  <2> QED BY <1>2, <2>1, <2>2
<1> HIDE DEF P
<1>3. \A n \in Nat : n \in P
  BY <1>1, <1>2, Induction
<1> QED BY <1>3 DEF P

(* It starts no serial traffic.                                            *)
LEMMA ExactlyPlain ==
    ASSUME NEW m \in Machine, NoSerial(m)
    PROVE  \A n \in Nat : NoSerial(Exactly(m, n))
<1> DEFINE P == {n \in Nat : NoSerial(Exactly(m, n))}
<1>1. 0 \in P
  <2>1. 0 \in Nat
    BY SMT
  <2> QED BY <2>1, ExactlySteps, StaysPlain
<1>2. ASSUME NEW n \in Nat, n \in P PROVE n + 1 \in P
  <2>1. 1 \in Nat /\ n + 1 \in Nat
    BY SMT
  <2>2. Exactly(m, n) \in Machine /\ Exactly(m, n + 1) = Advanced(Exactly(m, n), 1)
    BY ExactlySteps
  <2> QED BY <1>2, <2>1, <2>2, StaysPlain
<1> HIDE DEF P
<1>3. \A n \in Nat : n \in P
  BY <1>1, <1>2, Induction
<1> QED BY <1>3 DEF P

(* Before the next event it only lets time pass.                           *)
LEMMA ExactlyQuiet ==
    ASSUME NEW m \in Machine, NoSerial(m), NEW g \in Nat \ {0}, g < ToNextEvent(m)
    PROVE  Exactly(m, g) = Later(m, g)
<1> DEFINE e == [n \in Nat |-> Exactly(m, n)]
<1>1. Stepping(e) /\ 0 \in Nat /\ g \in Nat /\ 0 + g = g
  BY ExactSteps, SMT
<1>2. e[0] = m
  BY <1>1, ExactSteps, ScheduledQuietly
<1>3. e[g] = Exactly(m, g)
  BY <1>1
<1> HIDE DEF e
<1>4. \A j \in Nat : j < ToNextEvent(e[0]) => e[0 + j] = Later(e[0], j)
  BY <1>1, <1>2, Straight
<1> QED BY <1>1, <1>2, <1>3, <1>4

(* Stepping from within the gap continues stepping from its start.         *)
LEMMA ExactlyAhead ==
    ASSUME NEW m \in Machine, NoSerial(m), NEW g \in Nat, g < ToNextEvent(m), NEW n \in Nat
    PROVE  Exactly(Later(m, g), n) = Exactly(m, g + n)
<1>1. CASE g = 0
  <2>1. 0 + n = n
    BY SMT
  <2> QED BY <1>1, <2>1, LaterZero
<1>2. CASE g # 0
  <2> DEFINE u == Later(m, g)
             e == [k \in Nat |-> Exactly(m, k)]
             f == [k \in Nat |-> Exactly(u, k)]
  <2>1. g \in Nat \ {0}
    BY <1>2
  <2>2. u \in Machine /\ Scheduled(u) = u
    <3>1. Clear(m, g)
      BY BeforeEvent
    <3>2. LaterBy(u, m, g)
      BY <3>1, LaterFields
    <3>3. Scheduled(u) = u
      BY <2>1, ScheduledQuietly
    <3> QED BY <3>2, <3>3 DEF LaterBy
  <2>3. e[g] = u
    BY <2>1, ExactlyQuiet
  <2> HIDE DEF u
  <2>4. Stepping(e)
    BY ExactSteps
  <2>5. Stepping(f)
    BY <2>2, ExactSteps
  <2>6. f[0] = u
    <3>1. 0 \in Nat
      BY SMT
    <3> QED BY <2>2, <3>1, ExactSteps
  <2>7. g + n \in Nat
    BY SMT
  <2>8. e[g + n] = Exactly(m, g + n) /\ f[n] = Exactly(u, n)
    BY <2>7
  <2> HIDE DEF e, f
  <2>9. e[g + n] = f[n]
    <3>1. e[g] = f[0]
      BY <2>3, <2>6
    <3>2. \A k \in Nat : e[g + k] = f[k]
      BY <2>4, <2>5, <3>1, SteppingAgrees, SMT
    <3> QED BY <3>2
  <2> QED BY <2>8, <2>9 DEF u
<1> QED BY <1>1, <1>2

(* psx_devices_service_to_now and single stepping agree.                   *)
LEMMA ServiceIsExact ==
    ASSUME NEW m \in Machine, NoSerial(m), NEW N \in Nat \ {0}
    PROVE  ServiceToNow(m, N) = Exactly(m, N)
<1> DEFINE e == [n \in Nat |-> Exactly(m, n)]
<1>1. N \in Nat /\ 0 \in Nat /\ N + 0 <= N /\ N <= N /\ N - N = 0 /\ N - 0 = N
  BY SMT
<1>2. Stepping(e)
  BY ExactSteps
<1>3. e[0] = Scheduled(m) /\ e[N] = Exactly(m, N)
  BY <1>1, ExactSteps
<1> HIDE DEF e
<1>4. PICK f : Chunks(f, m, N)
  BY ServiceRuns
<1>5. /\ f \in [Nat -> Replay]
      /\ f[0] = [m |-> Scheduled(m), rest |-> N]
      /\ \A n \in Nat : f[n + 1] = Chunk(f[n])
      /\ ServiceToNow(m, N) = f[N].m
  BY <1>4 DEF Chunks
<1> DEFINE P == {k \in Nat : /\ f[k].rest <= N
                             /\ f[k].rest + k <= N \/ f[k].rest = 0
                             /\ NoSerial(f[k].m)
                             /\ f[k].m = e[N - f[k].rest]}
<1>6. 0 \in P
  <2>1. f[0].m = Scheduled(m) /\ f[0].rest = N
    BY <1>5, SMT
  <2>2. NoSerial(Scheduled(m))
    BY StaysPlain
  <2> QED BY <1>1, <1>3, <2>1, <2>2
<1>7. ASSUME NEW k \in Nat, k \in P PROVE k + 1 \in P
  <2> DEFINE r == f[k]
             x == f[k].m
             q == f[k].rest
  <2>1. x \in Machine /\ q \in Nat
    BY <1>5 DEF Replay
  <2>2. q <= N /\ (q + k <= N \/ q = 0) /\ NoSerial(x) /\ x = e[N - q]
    BY <1>7
  <2>3. f[k + 1] = Chunk(r) /\ k + 1 \in Nat
    BY <1>5, SMT
  <2>4. CASE q = 0
    <3>1. f[k + 1] = f[k]
      BY <2>3, <2>4 DEF Chunk
    <3> QED BY <2>2, <2>3, <2>4, <3>1
  <2>5. CASE q # 0
    <3> DEFINE s == Least(q, ToNextEvent(x))
    <3>1. ToNextEvent(x) \in Nat \ {0}
      BY <2>1, NextEventFacts
    <3>2. s \in Nat \ {0} /\ s <= q /\ s <= ToNextEvent(x)
      BY <2>1, <2>5, <3>1, SMT DEF Least
    <3>3. f[k + 1] = [m |-> Advanced(x, s), rest |-> q - s]
      BY <2>3, <2>5 DEF Chunk
    <3> HIDE DEF s, x, q
    <3>4. f[k + 1].m = Advanced(x, s) /\ f[k + 1].rest = q - s
      BY <3>3, SMT
    <3>5. /\ q - s <= N /\ (q - s) + (k + 1) <= N
          /\ N - q \in Nat /\ (N - q) + s = N - (q - s)
      BY <2>1, <2>2, <2>5, <3>2, SMT
    <3>6. NoSerial(Advanced(x, s))
      BY <2>1, <2>2, <3>2, StaysPlain
    <3>7. e[(N - q) + s] = Advanced(x, s)
      BY <1>2, <2>2, <3>2, <3>5, Straight
    <3> QED BY <2>3, <3>4, <3>5, <3>6, <3>7
  <2> QED BY <2>4, <2>5
<1> HIDE DEF P
<1>8. N \in P
  <2>1. \A k \in Nat : k \in P
    BY <1>6, <1>7, Induction
  <2> QED BY <2>1
<1>9. f[N].rest = 0 /\ f[N].m = e[N - f[N].rest]
  <2>1. f[N].rest \in Nat
    BY <1>5 DEF Replay
  <2>2. f[N].rest + N <= N \/ f[N].rest = 0
    BY <1>8 DEF P
  <2>3. f[N].rest = 0
    BY <2>1, <2>2, SMT
  <2> QED BY <1>8, <2>3 DEF P
<1> QED BY <1>1, <1>3, <1>5, <1>9

(* A clock c that lags behind the machine u and hides it.                  *)
Lags(c, u) == NoSerial(c.m) /\ u = Later(c.m, c.gap)

(* Devices in step hide nothing.                                           *)
LEMMA InStepLags ==
    ASSUME NEW m \in Machine, NoSerial(m), NEW due
    PROVE  Lags([m |-> m, gap |-> 0, due |-> due], m)
<1> DEFINE c == [m |-> m, gap |-> 0, due |-> due]
<1>1. c.m = m /\ c.gap = 0
  OBVIOUS
<1> HIDE DEF c
<1>2. Lags(c, m)
  BY <1>1, LaterZero DEF Lags
<1> QED BY <1>2 DEF c

(* A charge keeps the lag hidden, whether it services or not.              *)
LEMMA ChargedLags ==
    ASSUME NEW c \in Clock, QuietGap(c), exact = FALSE, NEW u, Lags(c, u), NEW n \in Nat \ {0}
    PROVE  Lags(Charged(c, n), Exactly(u, n))
<1> DEFINE N == c.gap + n
<1>1. c.m \in Machine /\ c.gap \in Nat /\ c.due \in Nat
  BY DEF Clock
<1>2. N \in Nat \ {0} /\ N \in Nat /\ n \in Nat
  BY <1>1, SMT
<1>3. NoSerial(c.m) /\ c.gap < ToNextEvent(c.m)
  BY DEF Lags, QuietGap
<1>4. Exactly(u, n) = Exactly(c.m, N)
  BY <1>1, <1>2, <1>3, ExactlyAhead DEF Lags
<1>5. CASE c.due = 0 \/ N >= c.due
  <2> DEFINE now == ServiceToNow(c.m, N)
  <2>1. Charged(c, n) = [m |-> now, gap |-> 0, due |-> Deadline(now)]
    BY <1>5 DEF Charged
  <2>2. now = Exactly(c.m, N)
    BY <1>1, <1>2, <1>3, ServiceIsExact
  <2>3. now \in Machine /\ NoSerial(now)
    <3>1. now \in Machine
      BY <1>1, <1>2, ServiceType
    <3>2. NoSerial(Exactly(c.m, N))
      BY <1>1, <1>2, <1>3, ExactlyPlain
    <3> QED BY <2>2, <3>1, <3>2
  <2> HIDE DEF now
  <2> QED BY <1>4, <2>1, <2>2, <2>3, InStepLags
<1>6. CASE ~(c.due = 0 \/ N >= c.due)
  <2> DEFINE e == [c EXCEPT !.gap = N]
  <2>1. Charged(c, n) = e
    BY <1>6 DEF Charged
  <2>2. e.m = c.m /\ e.gap = N
    BY DEF Clock
  <2>3. N < ToNextEvent(c.m)
    <3>1. ToNextEvent(c.m) \in Nat
      BY <1>1, NextEventFacts
    <3>2. c.due # 0 /\ c.due <= ToNextEvent(c.m)
      BY <1>6 DEF QuietGap
    <3> HIDE DEF N
    <3> QED BY <1>1, <1>2, <1>6, <3>1, <3>2, SMT
  <2>4. Exactly(c.m, N) = Later(c.m, N)
    BY <1>1, <1>2, <1>3, <2>3, ExactlyQuiet
  <2> HIDE DEF e, N
  <2> QED BY <1>3, <1>4, <2>1, <2>2, <2>4 DEF Lags
<1> QED BY <1>5, <1>6

(* So does raising a due VBlank.                                           *)
LEMMA ScheduledLags ==
    ASSUME NEW c \in Clock, QuietGap(c), NEW u, Lags(c, u)
    PROVE  Lags([c EXCEPT !.m = Scheduled(c.m)], Scheduled(u))
<1> DEFINE e == [c EXCEPT !.m = Scheduled(c.m)]
<1>1. c.m \in Machine /\ c.gap \in Nat
  BY DEF Clock
<1>2. e.m = Scheduled(c.m) /\ e.gap = c.gap
  BY DEF Clock
<1>3. NoSerial(c.m) /\ c.gap < ToNextEvent(c.m)
  BY DEF Lags, QuietGap
<1>4. NoSerial(Scheduled(c.m)) /\ Scheduled(c.m) \in Machine
  BY <1>1, <1>3, StaysPlain, ScheduledType
<1>5. Scheduled(u) = Later(Scheduled(c.m), c.gap)
  <2>1. CASE c.gap = 0
    BY <1>1, <1>4, <2>1, LaterZero DEF Lags
  <2>2. CASE c.gap # 0
    <3>1. c.gap \in Nat \ {0}
      BY <1>1, <2>2
    <3> QED BY <1>1, <1>3, <3>1, ScheduledQuietly DEF Lags
  <2> QED BY <2>1, <2>2
<1> HIDE DEF e
<1>6. Lags(e, Scheduled(u))
  BY <1>2, <1>4, <1>5 DEF Lags
<1> QED BY <1>6 DEF e

(* A register access sees what single stepping shows.                      *)
LEMMA SyncedIsReference ==
    ASSUME NEW c \in Clock, QuietGap(c), NEW u, Lags(c, u)
    PROVE  ServiceToNow(c.m, c.gap) = u
<1>1. c.m \in Machine /\ c.gap \in Nat
  BY DEF Clock
<1>2. NoSerial(c.m) /\ c.gap < ToNextEvent(c.m)
  BY DEF Lags, QuietGap
<1>3. CASE c.gap = 0
  BY <1>1, <1>3, LaterZero DEF Lags, ServiceToNow
<1>4. CASE c.gap # 0
  <2>1. c.gap \in Nat \ {0}
    BY <1>1, <1>4
  <2>2. ServiceToNow(c.m, c.gap) = Exactly(c.m, c.gap)
    BY <1>1, <1>2, <2>1, ServiceIsExact
  <2>3. Exactly(c.m, c.gap) = Later(c.m, c.gap)
    BY <1>1, <1>2, <2>1, ExactlyQuiet
  <2> QED BY <2>2, <2>3 DEF Lags
<1> QED BY <1>3, <1>4

(* The inductive invariant of LagInvisible: the reference is the lagging   *)
(* devices with the gap let pass.                                          *)
LagInv == Plain => exact = FALSE /\ Lags(clk, ref)

(* It holds initially.                                                     *)
LEMMA LagInitial == Init => LagInv
<1> SUFFICES ASSUME Init PROVE LagInv
  OBVIOUS
<1>1. Quiet \in Machine
  <2>1. clk \in Clock
    BY InitialClock DEF ClockInv, TypeOK, Clock
  <2> QED BY <2>1 DEF Init, Clock
<1>2. NoSerial(Quiet)
  BY Constants DEF Quiet, NoSerial
<1> QED BY <1>1, <1>2, InStepLags DEF Init, LagInv

(* A charge keeps it.                                                      *)
LEMMA LagCharge ==
    ASSUME ClockInv, LagInv, Charge
    PROVE  LagInv'
<1> SUFFICES ASSUME Plain' PROVE exact' = FALSE /\ Lags(clk', ref')
  BY DEF LagInv, Lags
<1>1. Plain /\ exact' = exact
  BY DEF Charge, Plain
<1>2. exact = FALSE /\ Lags(clk, ref)
  BY <1>1 DEF LagInv
<1>3. PICK n \in 1..MaxCharge : clk' = Charged(clk, n) /\ ref' = Exactly(ref, n)
  BY DEF Charge
<1>4. n \in Nat \ {0}
  BY Constants, SMT
<1>5. clk \in Clock /\ QuietGap(clk)
  BY DEF ClockInv, TypeOK, Clock
<1> QED BY <1>1, <1>2, <1>3, <1>4, <1>5, ChargedLags

(* A register access does: both machines are programmed alike.             *)
LEMMA LagAccess ==
    ASSUME ClockInv, LagInv, MmioAccess
    PROVE  LagInv'
<1> SUFFICES ASSUME Plain' PROVE exact' = FALSE /\ Lags(clk', ref')
  BY DEF LagInv, Lags
<1>1. Plain /\ exact' = exact
  BY DEF MmioAccess, Plain
<1>2. exact = FALSE /\ Lags(clk, ref)
  BY <1>1 DEF LagInv
<1>3. clk \in Clock /\ QuietGap(clk) /\ ref \in Machine
  BY DEF ClockInv, TypeOK, Clock
<1>4. Synced(clk) = [m |-> ref, gap |-> 0, due |-> 0]
  BY <1>2, <1>3, SyncedIsReference DEF Synced
<1>5. NoSerial(ref)
  <2>1. clk.m \in Machine /\ clk.gap \in Nat
    BY <1>3 DEF Clock
  <2>2. NoSerial(clk.m) /\ clk.gap < ToNextEvent(clk.m)
    BY <1>2, <1>3 DEF Lags, QuietGap
  <2>3. Clear(clk.m, clk.gap)
    BY <2>1, <2>2, BeforeEvent
  <2> QED BY <1>2, <2>1, <2>2, <2>3, StaysPlain DEF Lags
<1>6. ASSUME NEW u
      PROVE  /\ Synced(clk).m = ref
             /\ [Synced(clk) EXCEPT !.m = u] = [m |-> u, gap |-> 0, due |-> 0]
  BY <1>4, SMT
<1>7. clk' = [m |-> ref', gap |-> 0, due |-> 0]
  BY <1>6 DEF MmioAccess
<1>8. NoSerial(ref')
  <2>1. ASSUME NEW d \in session.uses, NEW k \in Delays, ref' = Programmed(ref, d, k)
        PROVE  NoSerial(ref')
    <3>1. d \notin Serial
      BY <1>1 DEF Plain
    <3>2. ref'.card = ref.card /\ \A x \in Dev : x # d => ref'.left[x] = ref.left[x]
      BY <1>3, <2>1 DEF Programmed, Machine
    <3> QED BY <1>5, <3>1, <3>2, Constants DEF NoSerial
  <2>2. ASSUME NEW stat, ref' = Acknowledged(ref, stat)
        PROVE  NoSerial(ref')
    <3>1. ref'.card = ref.card /\ ref'.left = ref.left
      BY <1>3, <2>2 DEF Acknowledged, Machine
    <3> QED BY <1>5, <3>1 DEF NoSerial
  <2> QED BY <1>1, <2>1, <2>2 DEF MmioAccess, Plain
<1>9. ref' \in Machine
  BY AccessKeeps DEF ClockInv, TypeOK
<1> QED BY <1>1, <1>2, <1>7, <1>8, <1>9, InStepLags

(* The interrupt check does: a skip is a charge of at least a cycle.       *)
LEMMA LagCheck ==
    ASSUME ClockInv, LagInv, CheckInterrupts
    PROVE  LagInv'
<1> SUFFICES ASSUME Plain' PROVE exact' = FALSE /\ Lags(clk', ref')
  BY DEF LagInv, Lags
<1>1. PICK same \in BOOLEAN, mask \in SUBSET session.uses, k \in 0..MaxSince : Check(same, mask, k)
  BY DEF CheckInterrupts
<1> DEFINE c == [clk EXCEPT !.m = Scheduled(clk.m)]
           loop == IF session.idleSkip THEN Noted(same) ELSE idle
           skip == k * loop.quantum
<1>2. /\ k \in Skips(c.m, loop, mask)
      /\ clk' = IF k = 0 THEN c ELSE Charged(c, skip)
      /\ ref' = IF k = 0 THEN Scheduled(ref) ELSE Exactly(Scheduled(ref), skip)
      /\ exact' = exact /\ session' = session
  BY <1>1 DEF Check
<1>3. exact = FALSE /\ Lags(clk, ref)
  BY <1>2 DEF LagInv, Plain
<1>4. clk \in Clock /\ QuietGap(clk) /\ idle \in Detector /\ (idle.streak > 0 => idle.quantum > 0)
  BY DEF ClockInv, TypeOK, Clock, Detector
<1>5. loop \in Detector /\ (loop.streak > 0 => loop.quantum > 0)
  BY <1>4, NotedType
<1>6. c \in Clock /\ QuietGap(c) /\ Lags(c, Scheduled(ref))
  BY <1>3, <1>4, ScheduledIsQuiet, ScheduledLags
<1> HIDE DEF c, loop
<1>7. CASE k = 0
  BY <1>2, <1>3, <1>6, <1>7
<1>8. CASE k # 0
  <2>1. k \in Nat /\ loop.quantum \in Nat /\ loop.streak \in Nat /\ StreakMin \in Nat \ {0}
    <3>1. MaxSince \in Nat /\ StreakMin \in Nat \ {0}
      BY ClockAssumption
    <3>2. loop.quantum \in Nat /\ loop.streak \in 0..StreakMin
      BY <1>5 DEF Detector
    <3> QED BY <3>1, <3>2, SMT
  <2>2. ~(loop.streak < StreakMin)
    BY <1>2, <1>8 DEF Skips
  <2>3. loop.quantum > 0
    BY <1>5, <2>1, <2>2, SMT
  <2>4. skip \in Nat \ {0}
    BY <1>8, <2>1, <2>3, SMT
  <2> HIDE DEF skip
  <2> QED BY <1>2, <1>3, <1>6, <1>8, <2>4, ChargedLags
<1> QED BY <1>7, <1>8

(* The other actions change neither or are not taken in a plain session.   *)
LEMMA LagKept ==
    ASSUME LagInv, \/ SaveState \/ LoadState \/ ToggleExact \/ LeaveException
                   \/ UNCHANGED vars
    PROVE  LagInv'
BY DEF SaveState, LoadState, ToggleExact, LeaveException, vars, LagInv, Plain, Lags

(* In every session without serial traffic, toggles and restores, the      *)
(* lagging devices of psx_cycles.c show the interrupts of devices stepped  *)
(* every cycle, and once synchronised they are in the same state, for      *)
(* every period, deadline cap and event distance.                          *)
THEOREM LagInvisibleHolds == Spec => []LagInvisible
<1>1. ClockInv /\ LagInv /\ [Next]_vars => LagInv'
  BY LagCharge, LagAccess, LagCheck, LagKept DEF Next
<1>2. ClockInv /\ LagInv => LagInvisible
  <2> SUFFICES ASSUME ClockInv, LagInv, Plain PROVE NoneLate /\ InStep
    BY DEF LagInvisible
  <2>1. clk.m \in Machine /\ clk.gap \in Nat /\ clk.gap < ToNextEvent(clk.m)
    BY DEF ClockInv, TypeOK, QuietGap
  <2>2. NoSerial(clk.m) /\ ref = Later(clk.m, clk.gap)
    BY DEF LagInv, Lags
  <2>3. Clear(clk.m, clk.gap)
    BY <2>1, <2>2, BeforeEvent
  <2>4. ref.stat = clk.m.stat
    BY <2>1, <2>2, <2>3, LaterFields DEF LaterBy
  <2>5. clk.gap = 0 => ref = clk.m
    BY <2>1, <2>2, LaterZero
  <2> QED BY <2>4, <2>5 DEF NoneLate, InStep
<1> QED BY <1>1, <1>2, LagInitial, ClockInvHolds, PTL DEF Spec
=============================================================================
