-------------------------- MODULE HostThreadProofs --------------------------
(***************************************************************************)
(* Proofs about the two host threads beside the emulation thread:          *)
(* CompileWorker, for every set of addresses and images and every size of  *)
(* the queue and of the tables, and ImageWarm, for any number of DLLs.     *)
(***************************************************************************)
EXTENDS CompileWorker, ImageWarm, FiniteSetTheorems, TLAPS

(* The threads' protocol: who may still run, and what a worker that has    *)
(* left has left behind.                                                   *)
ThreadsAgree ==
    /\ Working => job \in Key
    /\ ~running <=> dispatch \in {"join", "stopped"}
    /\ worker = "off" => ~running /\ queue = <<>>
    /\ dispatch = "stopped" => worker = "off"

IndInv == TypeOK /\ InFlightOnce /\ ThreadsAgree /\ NoLostPublish

(* Leaves are Zenon's; one that needs arithmetic, records or sequences     *)
(* names SMT.                                                              *)
USE Zenon

-----------------------------------------------------------------------------
(* Frames: what a part of the invariant does not depend on.                *)
LEMMA KeyFacts ==
    /\ IsFiniteSet(Key)
    /\ \A p \in Phys, i \in Image : <<p, i>> \in Key
    /\ NoJob \notin Key
<1>1. IsFiniteSet(Key)
  BY WorkerAssumption, FS_Product DEF Key
<1>2. QED  BY <1>1, WorkerAssumption DEF Key

(* A step that leaves the table alone.                                     *)
LEMMA TableFrame ==
    ASSUME TableOK, UNCHANGED table
    PROVE  TableOK'
BY DEF TableOK, table, Tracked

(* A step that leaves the queue, the statuses and the job alone.           *)
LEMMA FlightFrame ==
    ASSUME InFlightOnce, UNCHANGED <<queue, status, job>>, Working' = Working
    PROVE  InFlightOnce'
BY SMT DEF InFlightOnce

(* The types hold before the worker starts.                                *)
LEMMA TypeInit ==
    ASSUME Init
    PROVE  TypeOK
<1> USE DEF Init
<1>1. GuestOK  BY DEF GuestOK
<1>2. Tracked = {}  BY DEF Tracked
<1>3. TableOK
  BY <1>2, FS_EmptySet, WorkerAssumption, SMT DEF TableOK
<1>4. ThreadOK  BY DEF ThreadOK
<1>5. CacheOK  BY DEF CacheOK
<1>6. DispatchOK  BY DEF DispatchOK
<1>7. QED  BY <1>1, <1>3, <1>4, <1>5, <1>6 DEF TypeOK

(* The invariant holds before the worker starts.                           *)
LEMMA IndInit ==
    ASSUME Init
    PROVE  IndInv
<1>1. TypeOK  BY TypeInit
<1>2. InFlightOnce  BY SMT DEF InFlightOnce, Working, Init
<1>3. ThreadsAgree  BY DEF ThreadsAgree, Working, Init
<1>4. NoLostPublish  BY DEF NoLostPublish, Init
<1>5. QED  BY <1>1, <1>2, <1>3, <1>4 DEF IndInv

-----------------------------------------------------------------------------
(* A table after an update at one key.                                     *)
LEMMA TrackedFinite ==
    ASSUME NEW T, T \subseteq Key
    PROVE  IsFiniteSet(T)
BY KeyFacts, FS_Subset

(* Changing the status of a tracked job tracks no other.                   *)
LEMMA UpdateKeepsTracked ==
    ASSUME TableOK, NEW k \in Key, NEW v \in InFlight \cup Finished,
           status' = [status EXCEPT ![k] = IF @ = "none" THEN @ ELSE v]
    PROVE  /\ status' \in [Key -> {"none"} \cup InFlight \cup Finished]
           /\ Tracked' = Tracked
<1>1. v # "none"  BY DEF InFlight, Finished
<1>2. QED  BY <1>1 DEF TableOK, Tracked

(* state_add never lets the table grow past its capacity.                  *)
LEMMA RoomFits ==
    ASSUME TableOK, NEW k \in Key, status[k] = "none", NEW s \in Room,
           status' = [s EXCEPT ![k] = "queued"]
    PROVE  /\ status' \in [Key -> {"none"} \cup InFlight \cup Finished]
           /\ Cardinality(Tracked') <= StateCap
<1> USE DEF TableOK
<1>f. IsFiniteSet(Tracked)  BY TrackedFinite DEF Tracked
<1>c. Cardinality(Tracked) \in Nat /\ StateCap \in Nat
  BY <1>f, FS_CardinalityType, WorkerAssumption
<1>n. k \notin Tracked  BY DEF Tracked
<1>1. CASE Cardinality(Tracked) < StateCap
  <2>1. s = status  BY <1>1 DEF Room
  <2>2. Tracked' = Tracked \cup {k}  BY <2>1 DEF Tracked
  <2>3. Cardinality(Tracked') = Cardinality(Tracked) + 1
    BY <2>2, <1>f, <1>n, FS_AddElement
  <2>4. QED  BY <1>1, <1>c, <2>1, <2>3, SMT DEF InFlight
<1>2. CASE ~(Cardinality(Tracked) < StateCap)
  <2>1. PICK e \in Tracked : status[e] \in Finished /\ s = [status EXCEPT ![e] = "none"]
    BY <1>2 DEF Room, Evicted
  <2>2. e \in Key /\ e # k  BY <2>1, <1>n DEF Tracked
  <2>3. Tracked' = (Tracked \ {e}) \cup {k}  BY <2>1, <2>2 DEF Tracked
  <2>4. IsFiniteSet(Tracked \ {e}) /\ Cardinality(Tracked \ {e}) = Cardinality(Tracked) - 1
    BY <1>f, <2>1, FS_RemoveElement
  <2>5. Cardinality(Tracked') = Cardinality(Tracked \ {e}) + 1
    BY <2>3, <2>4, <1>n, FS_AddElement
  <2>6. Cardinality(Tracked') = Cardinality(Tracked)  BY <2>4, <2>5, <1>c, SMT
  <2>7. QED  BY <2>1, <2>2, <2>6 DEF InFlight
<1>3. QED  BY <1>1, <1>2

-----------------------------------------------------------------------------
(* Types.                                                                  *)
LEMMA EnqueueTable ==
    ASSUME TypeOK, Enqueue
    PROVE  TableOK'
<1> DEFINE k == <<at, ram[at]>>
           Taken == /\ Accepted(k) /\ queue' = Append(queue, k)
                    /\ \E s \in Room : status' = [s EXCEPT ![k] = "queued"]
<1>k. k \in Key  BY KeyFacts DEF TypeOK, GuestOK, DispatchOK
<1>t. tried' \subseteq Phys  BY DEF Enqueue, TypeOK, TableOK, DispatchOK, table
<1>1. CASE Taken
  <2>1. queue' = Append(queue, k) /\ Len(queue) < QueueCap /\ status[k] = "none"
    BY <1>1 DEF Accepted
  <2>2. PICK s \in Room : status' = [s EXCEPT ![k] = "queued"]
    BY <1>1
  <2>3. /\ status' \in [Key -> {"none"} \cup InFlight \cup Finished]
        /\ Cardinality(Tracked') <= StateCap
    <3> HIDE DEF k
    <3> QED  BY <1>k, <2>1, <2>2, RoomFits DEF TypeOK
  <2>4. queue' \in Seq(Key) /\ Len(queue') <= QueueCap
    <3> HIDE DEF k
    <3> QED  BY <1>k, <2>1, WorkerAssumption, SMT DEF TypeOK, TableOK
  <2>5. QED  BY <1>t, <2>3, <2>4 DEF TableOK
<1>2. CASE UNCHANGED <<queue, status>>
  <2>1. UNCHANGED <<queue, status>>  BY <1>2
  <2>2. Tracked' = Tracked  BY <2>1 DEF Tracked
  <2>3. QED  BY <1>t, <2>1, <2>2 DEF TypeOK, TableOK
<1>3. Taken \/ UNCHANGED <<queue, status>>  BY DEF Enqueue, table
<1>4. QED  BY <1>1, <1>2, <1>3

(* Taking a job from the queue keeps the table's types.                    *)
LEMMA PopTable ==
    ASSUME TypeOK, Pop
    PROVE  TableOK' /\ job' \in Key
<1>1. queue # <<>> /\ queue \in Seq(Key) /\ job' = Head(queue) /\ queue' = Tail(queue)
  BY DEF Pop, TypeOK, TableOK
<1>2. job' \in Key /\ queue' \in Seq(Key) /\ Len(queue') = Len(queue) - 1
  BY <1>1, SMT
<1>3. Len(queue') <= QueueCap
  BY <1>1, <1>2, WorkerAssumption, SMT DEF TypeOK, TableOK
<1>4. /\ status' \in [Key -> {"none"} \cup InFlight \cup Finished]
      /\ Tracked' = Tracked
  BY <1>2, UpdateKeepsTracked DEF Pop, TypeOK, InFlight
<1>5. QED  BY <1>2, <1>3, <1>4 DEF Pop, TypeOK, TableOK

(* Recording a result keeps them, evictions included.                      *)
LEMMA RecordTable ==
    ASSUME TypeOK, ThreadsAgree, Record
    PROVE  TableOK'
<1> DEFINE v == IF ok THEN "done" ELSE "failed"
<1>1. job \in Key  BY DEF Record, ThreadsAgree, Working
<1>2. status' = [status EXCEPT ![job] = IF @ = "none" THEN @ ELSE v]  BY DEF Record
<1>3. v \in InFlight \cup Finished  BY DEF Finished
<1>4. /\ status' \in [Key -> {"none"} \cup InFlight \cup Finished]
      /\ Tracked' = Tracked
  <2> HIDE DEF v
  <2> QED  BY <1>1, <1>2, <1>3, UpdateKeepsTracked DEF TypeOK
<1>5. QED  BY <1>4 DEF Record, TypeOK, TableOK

(* Every step keeps the types.                                             *)
LEMMA TypeStep ==
    ASSUME TypeOK, ThreadsAgree, [Next]_vars
    PROVE  TypeOK'
<1> USE DEF TypeOK
<1> DEFINE Rest == GuestOK' /\ ThreadOK' /\ CacheOK' /\ DispatchOK'
<1> USE DEF GuestOK, ThreadOK, CacheOK, DispatchOK, guest, thread, cache, dispatcher
<1>1. CASE Wait  BY <1>1, TableFrame DEF Wait
<1>2. CASE SpuriousWake  BY <1>2, TableFrame DEF SpuriousWake
<1>3. CASE Pop
  <2>1. TableOK' /\ job' \in Key  BY <1>3, PopTable
  <2>2. Rest  BY <1>3, <2>1 DEF Pop
  <2>3. QED  BY <2>1, <2>2
<1>4. CASE Compile  BY <1>4, TableFrame DEF Compile
<1>5. CASE Write
  <2>1. job \in Key  BY <1>5 DEF Write, ThreadsAgree, Working
  <2>2. TableOK'  BY <1>5, TableFrame DEF Write
  <2>3. Rest  BY <1>5, <2>1 DEF Write
  <2>4. QED  BY <2>2, <2>3
<1>6. CASE Flag  BY <1>6, TableFrame DEF Flag
<1>7. CASE Record
  <2>1. TableOK'  BY <1>7, RecordTable
  <2>2. Rest  BY <1>7 DEF Record
  <2>3. QED  BY <2>1, <2>2
<1>8. CASE Quit  BY <1>8, TableFrame DEF Quit
<1>9. CASE LoadOverlay
  <2>1. TableOK'  BY <1>9, TableFrame DEF LoadOverlay
  <2>2. Rest  BY <1>9 DEF LoadOverlay
  <2>3. QED  BY <2>1, <2>2
<1>10. CASE Miss  BY <1>10, TableFrame DEF Miss
<1>11. CASE OpenListing  BY <1>11, TableFrame DEF OpenListing
<1>12. CASE Scan
  <2>1. TableOK'  BY <1>12, TableFrame DEF Scan, Scanned
  <2>2. PICK late \in SUBSET (files \ listed) :
          /\ \E read \in SUBSET ((listed \cup late) \ blobs) :
               /\ blobs' = blobs \cup read
               /\ \E new \in Registered(read) : loaded' = loaded \cup new
          /\ passed' = (passed \cup (listed \cup late)) \ loaded'
    BY <1>12 DEF Scan, Scanned
  <2>3. \A read : \A new \in Registered(read) : new \subseteq read  BY DEF Registered
  <2>4. CacheOK'  BY <1>12, <2>2, <2>3 DEF Scan, Scanned
  <2>5. GuestOK' /\ ThreadOK' /\ DispatchOK'  BY <1>12 DEF Scan, Scanned
  <2>6. QED  BY <2>1, <2>4, <2>5
<1>13. CASE Enqueue
  <2>1. TableOK'  BY <1>13, EnqueueTable
  <2>2. worker' = worker \/ worker' = "idle"  BY <1>13 DEF Enqueue, Woken
  <2>3. Rest  BY <1>13, <2>2 DEF Enqueue
  <2>4. QED  BY <2>1, <2>3
<1>14. CASE Stop
  <2>1. TableOK'  BY <1>14, TableFrame DEF Stop
  <2>2. Rest  BY <1>14 DEF Stop, Woken
  <2>3. QED  BY <2>1, <2>2
<1>15. CASE Joined
  <2>1. queue' = <<>> /\ UNCHANGED <<tried, status>>  BY <1>15 DEF Joined
  <2>2. Tracked' = Tracked  BY <2>1 DEF Tracked
  <2>3. TableOK'  BY <2>1, <2>2, WorkerAssumption, SMT DEF TableOK
  <2>4. Rest  BY <1>15 DEF Joined
  <2>5. QED  BY <2>3, <2>4
<1>16. CASE UNCHANGED vars  BY <1>16, TableFrame DEF vars
<1>17. QED
  BY <1>1, <1>2, <1>3, <1>4, <1>5, <1>6, <1>7, <1>8, <1>9, <1>10, <1>11, <1>12,
     <1>13, <1>14, <1>15, <1>16 DEF Next, Worker, Dispatcher

-----------------------------------------------------------------------------
(* The dedup map agrees with the work.                                     *)
LEMMA EnqueueFlight ==
    ASSUME TypeOK, InFlightOnce, Enqueue
    PROVE  InFlightOnce'
<1> DEFINE k == <<at, ram[at]>>
           Taken == /\ Accepted(k) /\ queue' = Append(queue, k)
                    /\ \E s \in Room : status' = [s EXCEPT ![k] = "queued"]
<1>k. k \in Key  BY KeyFacts DEF TypeOK, GuestOK, DispatchOK
<1>w. Working' = Working /\ job' = job  BY SMT DEF Enqueue, Working, Woken
<1>1. CASE Taken
  <2>1. queue' = Append(queue, k) /\ status[k] = "none"
    BY <1>1 DEF Accepted
  <2>2. PICK s \in Room : status' = [s EXCEPT ![k] = "queued"]
    BY <1>1
  <2> HIDE DEF k
  <2>t. /\ queue \in Seq(Key)
        /\ status \in [Key -> {"none"} \cup InFlight \cup Finished]
    BY DEF TypeOK, TableOK
  <2>3. /\ s \in [Key -> {"none"} \cup InFlight \cup Finished]
        /\ s[k] = "none"
        /\ \A x \in Key : /\ s[x] = "queued" <=> status[x] = "queued"
                          /\ s[x] = "compiling" <=> status[x] = "compiling"
    BY <1>k, <2>1, <2>t DEF Room, Evicted, Tracked, Finished
  <2>4. /\ status'[k] = "queued"
        /\ \A x \in Key : x # k => status'[x] = s[x]
    BY <1>k, <2>2, <2>3
  <2>5. /\ Len(queue') = Len(queue) + 1
        /\ Len(queue) \in Nat
        /\ \A i \in 1..Len(queue) : queue'[i] = queue[i]
        /\ queue'[Len(queue) + 1] = k
    BY <1>k, <2>1, <2>t, SMT
  <2>6. \A i \in 1..Len(queue) : queue[i] # k
    BY <1>k, <2>1 DEF InFlightOnce
  <2>7. \A i, j \in 1..Len(queue') : queue'[i] = queue'[j] => i = j
    BY <2>5, <2>6, SMT DEF InFlightOnce
  <2>8. \A x \in Key : status'[x] = "queued" <=> \E i \in 1..Len(queue') : queue'[i] = x
    <3> SUFFICES ASSUME NEW x \in Key
                 PROVE  status'[x] = "queued" <=> \E i \in 1..Len(queue') : queue'[i] = x
      OBVIOUS
    <3>1. CASE x = k  BY <3>1, <2>4, <2>5, SMT
    <3>2. CASE x # k
      <4>1. status'[x] = "queued" <=> \E i \in 1..Len(queue) : queue[i] = x
        BY <3>2, <2>3, <2>4, SMT DEF InFlightOnce
      <4>2. (\E i \in 1..Len(queue) : queue[i] = x) <=> \E i \in 1..Len(queue') : queue'[i] = x
        BY <3>2, <2>5, SMT
      <4>3. QED  BY <4>1, <4>2
    <3>3. QED  BY <3>1, <3>2
  <2>9. \A x \in Key : status'[x] = "compiling" <=> Working' /\ job' = x
    BY <1>w, <2>1, <2>3, <2>4, SMT DEF InFlightOnce
  <2>10. QED  BY <2>7, <2>8, <2>9 DEF InFlightOnce
<1>2. CASE UNCHANGED <<queue, status>>
  <2>1. UNCHANGED <<queue, status>>  BY <1>2
  <2>2. QED  BY <1>w, <2>1, FlightFrame
<1>3. Taken \/ UNCHANGED <<queue, status>>  BY DEF Enqueue, table
<1>4. QED  BY <1>1, <1>2, <1>3

(* A job taken from the queue is in flight once.                           *)
LEMMA PopFlight ==
    ASSUME TypeOK, InFlightOnce, Pop
    PROVE  InFlightOnce'
<1>t. /\ queue \in Seq(Key) /\ queue # <<>>
      /\ status \in [Key -> {"none"} \cup InFlight \cup Finished]
  BY DEF TypeOK, TableOK, Pop
<1>1. /\ Len(queue) \in Nat /\ Len(queue) > 0
      /\ job' = queue[1] /\ job' \in Key
      /\ Len(queue') = Len(queue) - 1
      /\ \A i \in 1..Len(queue') : queue'[i] = queue[i + 1]
  BY <1>t, SMT DEF Pop
<1>2. status[job'] = "queued"  BY <1>1, SMT DEF InFlightOnce
<1>3. /\ status'[job'] = "compiling"
      /\ \A x \in Key : x # job' => status'[x] = status[x]
  BY <1>t, <1>1, <1>2 DEF Pop
<1>4. \A i, j \in 1..Len(queue') : queue'[i] = queue'[j] => i = j
  BY <1>1, SMT DEF InFlightOnce
<1>5. \A x \in Key : status'[x] = "queued" <=> \E i \in 1..Len(queue') : queue'[i] = x
  <2> SUFFICES ASSUME NEW x \in Key
               PROVE  status'[x] = "queued" <=> \E i \in 1..Len(queue') : queue'[i] = x
    OBVIOUS
  <2>1. CASE x = job'
    <3>1. \A i \in 1..Len(queue') : queue'[i] # x
      BY <2>1, <1>1, SMT DEF InFlightOnce
    <3>2. QED  BY <2>1, <3>1, <1>3
  <2>2. CASE x # job'
    <3>1. status'[x] = "queued" <=> \E i \in 1..Len(queue) : queue[i] = x
      BY <2>2, <1>3 DEF InFlightOnce
    <3>2. ASSUME NEW i \in 1..Len(queue), queue[i] = x
          PROVE  \E j \in 1..Len(queue') : queue'[j] = x
      <4>1. i # 1  BY <3>2, <2>2, <1>1
      <4>2. i - 1 \in 1..Len(queue') /\ queue'[i - 1] = x  BY <3>2, <4>1, <1>1, SMT
      <4>3. QED  BY <4>2
    <3>3. ASSUME NEW j \in 1..Len(queue'), queue'[j] = x
          PROVE  \E i \in 1..Len(queue) : queue[i] = x
      <4>1. j + 1 \in 1..Len(queue) /\ queue[j + 1] = x  BY <3>3, <1>1, SMT
      <4>2. QED  BY <4>1
    <3>4. QED  BY <3>1, <3>2, <3>3
  <2>3. QED  BY <2>1, <2>2
<1>6. \A x \in Key : status'[x] = "compiling" <=> Working' /\ job' = x
  <2>1. ~Working /\ Working'  BY DEF Pop, Working
  <2>2. QED  BY <2>1, <1>3 DEF InFlightOnce
<1>7. QED  BY <1>4, <1>5, <1>6 DEF InFlightOnce

(* A job whose result is recorded is in flight no more.                    *)
LEMMA RecordFlight ==
    ASSUME TypeOK, ThreadsAgree, InFlightOnce, Record
    PROVE  InFlightOnce'
<1>t. status \in [Key -> {"none"} \cup InFlight \cup Finished]
  BY DEF TypeOK, TableOK
<1>1. job \in Key /\ Working /\ ~Working' /\ queue' = queue
  BY DEF Record, ThreadsAgree, Working
<1>2. status[job] = "compiling"  BY <1>1 DEF InFlightOnce
<1>3. /\ status'[job] \in {"done", "failed"}
      /\ \A x \in Key : x # job => status'[x] = status[x]
  BY <1>t, <1>1, <1>2 DEF Record
<1>4. \A x \in Key : status'[x] = "queued" <=> status[x] = "queued"
  BY <1>2, <1>3
<1>5. \A x \in Key : status'[x] # "compiling"
  BY <1>1, <1>3 DEF InFlightOnce
<1>6. QED  BY <1>1, <1>4, <1>5, SMT DEF InFlightOnce

(* A worker that has left, or a queue that was empty, owes nothing.        *)
LEMMA JoinedFlight ==
    ASSUME TypeOK, ThreadsAgree, InFlightOnce, Joined
    PROVE  InFlightOnce'
<1>1. queue = <<>> /\ queue' = queue  BY DEF Joined, ThreadsAgree
<1>2. Working' = Working  BY DEF Joined, Working, thread
<1>3. QED  BY <1>1, <1>2, FlightFrame DEF Joined, thread

(* No step puts a job in flight twice.                                     *)
LEMMA FlightStep ==
    ASSUME TypeOK, ThreadsAgree, InFlightOnce, [Next]_vars
    PROVE  InFlightOnce'
<1> USE DEF guest, table, thread, cache, dispatcher
<1>1. CASE Pop  BY <1>1, PopFlight
<1>2. CASE Record  BY <1>2, RecordFlight
<1>3. CASE Enqueue  BY <1>3, EnqueueFlight
<1>4. CASE Joined  BY <1>4, JoinedFlight
<1>5. CASE Wait \/ SpuriousWake \/ Compile \/ Flag \/ Quit
  BY <1>5, FlightFrame, SMT DEF Wait, SpuriousWake, Compile, Flag, Quit, Working
<1>6. CASE Write  BY <1>6, FlightFrame, SMT DEF Write, Working
<1>7. CASE LoadOverlay \/ Miss \/ OpenListing
  BY <1>7, FlightFrame DEF LoadOverlay, Miss, OpenListing, Working
<1>8. CASE Scan  BY <1>8, FlightFrame DEF Scan, Scanned, Working
<1>9. CASE Stop  BY <1>9, FlightFrame, SMT DEF Stop, Woken, Working
<1>10. CASE UNCHANGED vars  BY <1>10, FlightFrame DEF vars, Working
<1>11. QED
  BY <1>1, <1>2, <1>3, <1>4, <1>5, <1>6, <1>7, <1>8, <1>9, <1>10
  DEF Next, Worker, Dispatcher

-----------------------------------------------------------------------------
(* The threads' protocol and the published files.                          *)
LEMMA ThreadsStep ==
    ASSUME TypeOK, ThreadsAgree, [Next]_vars
    PROVE  ThreadsAgree'
<1> USE DEF guest, table, thread, cache, dispatcher, ThreadsAgree, Working
<1>1. CASE Pop
  <2>1. job' \in Key  BY <1>1, PopTable
  <2>2. QED  BY <1>1, <2>1 DEF Pop
<1>2. CASE Enqueue
  <2>1. worker # "off"  BY <1>2 DEF Enqueue
  <2>2. worker' \in {worker, "idle"}  BY <1>2 DEF Enqueue, Woken
  <2>3. QED  BY <1>2, <2>1, <2>2 DEF Enqueue
<1>3. CASE Wait \/ SpuriousWake \/ Quit
  BY <1>3, SMT DEF Wait, SpuriousWake, Quit
<1>4. CASE Compile  BY <1>4 DEF Compile
<1>5. CASE Write  BY <1>5 DEF Write
<1>6. CASE Flag  BY <1>6 DEF Flag
<1>7. CASE Record  BY <1>7 DEF Record
<1>8. CASE LoadOverlay  BY <1>8 DEF LoadOverlay
<1>9. CASE Miss  BY <1>9 DEF Miss
<1>10. CASE OpenListing  BY <1>10 DEF OpenListing
<1>11. CASE Scan  BY <1>11 DEF Scan, Scanned
<1>12. CASE Stop  BY <1>12 DEF Stop, Woken
<1>13. CASE Joined  BY <1>13 DEF Joined
<1>14. CASE UNCHANGED vars  BY <1>14 DEF vars
<1>15. QED
  BY <1>1, <1>2, <1>3, <1>4, <1>5, <1>6, <1>7, <1>8, <1>9, <1>10, <1>11, <1>12,
     <1>13, <1>14 DEF Next, Worker, Dispatcher

(* No step loses a published shard.                                        *)
LEMMA PublishStep ==
    ASSUME TypeOK, NoLostPublish, [Next]_vars
    PROVE  NoLostPublish'
<1> USE DEF guest, table, thread, cache, dispatcher, NoLostPublish
<1>1. CASE Wait \/ SpuriousWake \/ Quit \/ Compile \/ Record \/ Pop
  BY <1>1 DEF Wait, SpuriousWake, Quit, Compile, Record, Pop
<1>2. CASE Write  BY <1>2 DEF Write
<1>3. CASE Flag  BY <1>3 DEF Flag
<1>4. CASE LoadOverlay  BY <1>4 DEF LoadOverlay
<1>5. CASE Miss  BY <1>5 DEF Miss, TypeOK, CacheOK
<1>6. CASE OpenListing  BY <1>6 DEF OpenListing
<1>7. CASE Scan
  <2>1. loaded \cup passed \cup listed \subseteq loaded' \cup passed' /\ files' = files
    BY <1>7 DEF Scan, Scanned
  <2>2. QED  BY <1>7, <2>1 DEF Scan, Scanned
<1>8. CASE Enqueue
  <2>1. worker = "flag" => worker' = "flag"  BY <1>8 DEF Enqueue, Woken
  <2>2. QED  BY <1>8, <2>1 DEF Enqueue
<1>9. CASE Stop  BY <1>9 DEF Stop, Woken
<1>10. CASE Joined  BY <1>10 DEF Joined
<1>11. CASE UNCHANGED vars  BY <1>11 DEF vars
<1>12. QED
  BY <1>1, <1>2, <1>3, <1>4, <1>5, <1>6, <1>7, <1>8, <1>9, <1>10, <1>11
  DEF Next, Worker, Dispatcher

-----------------------------------------------------------------------------
(* The inductive invariant holds in every state the threads can reach.     *)
THEOREM Inductive == Spec => []IndInv
<1>1. Init => IndInv  BY IndInit
<1>2. IndInv /\ [Next]_vars => IndInv'
  BY TypeStep, FlightStep, ThreadsStep, PublishStep DEF IndInv
<1>3. QED  BY <1>1, <1>2, PTL DEF Spec

(* The ring and the table of overlay_compile_worker.c keep their bounds.   *)
THEOREM TypeCorrect == Spec => []TypeOK
<1>1. IndInv => TypeOK  BY DEF IndInv
<1>2. QED  BY <1>1, Inductive, PTL

(* No variant is queued or compiled twice at a time: the dedup map of      *)
(* overlay_compile_worker.c agrees with the queue and the worker.          *)
THEOREM DedupExact == Spec => []InFlightOnce
<1>1. IndInv => InFlightOnce  BY DEF IndInv
<1>2. QED  BY <1>1, Inductive, PTL

(* A shard the worker renamed into the cache is never overlooked by        *)
(* overlay_loader_dispatch: until it is registered the flag or a scan      *)
(* stands for it, unless a scan met it and could not take it.              *)
THEOREM PublishReaches == Spec => []NoLostPublish
<1>1. IndInv => NoLostPublish  BY DEF IndInv
<1>2. QED  BY <1>1, Inductive, PTL

(* overlay_compile_worker_stop returns with nothing queued or compiling.   *)
THEOREM DrainedOnStop == Spec => []StopDrains
<1>1. IndInv => StopDrains
  <2> SUFFICES ASSUME IndInv, dispatch = "stopped", NEW k \in Key
               PROVE  status[k] \notin InFlight
    BY DEF StopDrains
  <2>1. queue = <<>> /\ ~Working  BY DEF IndInv, ThreadsAgree, Working
  <2>2. QED  BY <2>1, SMT DEF IndInv, InFlightOnce, InFlight
<1>2. QED  BY <1>1, Inductive, PTL

-----------------------------------------------------------------------------
(* ImageWarm.                                                              *)

(* Who may touch a slot.  The thread has the slot it maps, in the mapping  *)
(* state or cancelled; a ready slot belongs to the emulation thread.       *)
Owners ==
    /\ warmer # "loop" => cur \in Slot
    /\ emu # "run" => want \in Slot
    /\ cur \notin jobs
    /\ \A s \in jobs : state[s] \in {mapping, cancelled}
    /\ warmer \in {"map", "publish"} => state[cur] \in {mapping, cancelled}
    /\ warmer \in {"drop", "reset"} => state[cur] = cancelled

(* What each place of the thread means for the reference of its slot.      *)
References ==
    /\ \A s \in Slot : state[s] = ready => handle[s]
    /\ \A s \in Slot : handle[s] => state[s] = ready \/ (cur = s /\ warmer \in {"publish", "drop"})
    /\ warmer \in {"publish", "drop"} => handle[cur] = got

(* The emulation thread has not loaded twice.                              *)
LoadsOnce == emu = "load" => ~opened[want]

WarmInv == WarmTypeOK /\ Owners /\ References /\ LoadsOnce /\ RefsExact

(* The invariant holds before the first load.                              *)
LEMMA WarmInitial ==
    ASSUME WarmInit
    PROVE  WarmInv
<1> USE DEF WarmInit, idle, mapping, ready, cancelled, failed
<1>1. WarmTypeOK  BY DEF WarmTypeOK
<1>2. Owners  BY WarmAssumption DEF Owners
<1>3. References  BY SMT DEF References
<1>4. LoadsOnce  BY DEF LoadsOnce
<1>5. RefsExact  BY SMT DEF RefsExact, Count
<1>6. QED  BY <1>1, <1>2, <1>3, <1>4, <1>5 DEF WarmInv

(* A handle that is held has been counted.                                 *)
LEMMA HeldIsCounted ==
    ASSUME RefsExact, kept \in [Slot -> Nat], NEW s \in Slot, handle[s]
    PROVE  refs[s] - 1 \in Nat
<1>1. Count(handle[s]) = 1  BY DEF Count
<1>2. Count(opened[s]) \in {0, 1}  BY DEF Count
<1>3. refs[s] = Count(opened[s]) + Count(handle[s]) + kept[s]  BY DEF RefsExact
<1>4. kept[s] \in Nat  OBVIOUS
<1>5. QED  BY ONLY <1>1, <1>2, <1>3, <1>4, SMT

(* Every step keeps the types.                                             *)
LEMMA WarmTypeStep ==
    ASSUME WarmInv, [WarmNext]_warmVars
    PROVE  WarmTypeOK'
<1> USE DEF WarmInv, WarmTypeOK, Owners, idle, mapping, ready, cancelled, failed
<1>1. CASE Take  BY <1>1 DEF Take
<1>2. CASE Map  BY <1>2, SMT DEF Map
<1>3. CASE Publish  BY <1>3 DEF Publish
<1>4. CASE Drop
  <2>0. cur \in Slot /\ handle[cur] = got  BY <1>4 DEF Drop, References
  <2>1. got => refs[cur] - 1 \in Nat  BY <2>0, HeldIsCounted
  <2>2. refs' \in [Slot -> Nat]
    <3>1. (IF got THEN refs[cur] - 1 ELSE refs[cur]) \in Nat  BY <2>0, <2>1
    <3>2. QED  BY <1>4, <2>0, <3>1 DEF Drop
  <2>3. QED  BY <1>4, <2>0, <2>2 DEF Drop
<1>5. CASE Reset  BY <1>5 DEF Reset
<1>6. CASE Select  BY <1>6 DEF Select
<1>7. CASE Load
  <2>0. want \in Slot  BY <1>7 DEF Load
  <2>1. refs[want] + 1 \in Nat /\ kept[want] + 1 \in Nat  BY <2>0, SMT
  <2>2. refs' \in [Slot -> Nat] /\ kept' \in [Slot -> Nat] /\ opened' \in [Slot -> BOOLEAN]
    BY <1>7, <2>0, <2>1 DEF Load
  <2>3. QED  BY <1>7, <2>2 DEF Load
<1>8. CASE Release
  <2>0. want \in Slot  BY <1>8 DEF Release
  <2>1. handle[want] => refs[want] - 1 \in Nat  BY <2>0, HeldIsCounted
  <2>2. refs' \in [Slot -> Nat]
    <3>1. (IF handle[want] THEN refs[want] - 1 ELSE refs[want]) \in Nat  BY <2>0, <2>1
    <3>2. QED  BY <1>8, <2>0, <3>1 DEF Release
  <2>3. QED  BY <1>8, <2>0, <2>2 DEF Release
<1>9. CASE UNCHANGED warmVars  BY <1>9 DEF warmVars
<1>10. QED
  BY <1>1, <1>2, <1>3, <1>4, <1>5, <1>6, <1>7, <1>8, <1>9 DEF WarmNext, Warmer, Loader

(* Every step keeps who owns a slot.                                       *)
LEMMA OwnersStep ==
    ASSUME WarmInv, [WarmNext]_warmVars
    PROVE  Owners'
<1> USE DEF WarmInv, WarmTypeOK, Owners, idle, mapping, ready, cancelled, failed
<1>1. CASE Take  BY <1>1, WarmAssumption DEF Take
<1>2. CASE Map  BY <1>2 DEF Map
<1>3. CASE Publish  BY <1>3, WarmAssumption DEF Publish
<1>4. CASE Drop  BY <1>4 DEF Drop
<1>5. CASE Reset  BY <1>5, WarmAssumption DEF Reset
<1>6. CASE Select  BY <1>6 DEF Select, Cancels
<1>7. CASE Load  BY <1>7 DEF Load
<1>8. CASE Release  BY <1>8, SMT DEF Release
<1>9. CASE UNCHANGED warmVars  BY <1>9 DEF warmVars
<1>10. QED
  BY <1>1, <1>2, <1>3, <1>4, <1>5, <1>6, <1>7, <1>8, <1>9 DEF WarmNext, Warmer, Loader

(* Every step keeps the references.                                        *)
LEMMA ReferencesStep ==
    ASSUME WarmInv, [WarmNext]_warmVars
    PROVE  References'
<1> USE DEF WarmInv, WarmTypeOK, Owners, References, idle, mapping, ready, cancelled, failed
<1>1. CASE Take  BY <1>1 DEF Take
<1>2. CASE Map  BY <1>2, SMT DEF Map
<1>3. CASE Publish  BY <1>3, WarmAssumption, SMT DEF Publish
<1>4. CASE Drop  BY <1>4, SMT DEF Drop
<1>5. CASE Reset  BY <1>5, SMT DEF Reset
<1>6. CASE Select  BY <1>6, SMT DEF Select, Cancels
<1>7. CASE Load  BY <1>7 DEF Load
<1>8. CASE Release  BY <1>8, SMT DEF Release
<1>9. CASE UNCHANGED warmVars  BY <1>9 DEF warmVars
<1>10. QED
  BY <1>1, <1>2, <1>3, <1>4, <1>5, <1>6, <1>7, <1>8, <1>9 DEF WarmNext, Warmer, Loader

(* Every step keeps the counts exact and loads an image once.              *)
LEMMA CountStep ==
    ASSUME WarmInv, [WarmNext]_warmVars
    PROVE  RefsExact' /\ LoadsOnce'
<1> USE DEF WarmInv, WarmTypeOK, Owners, References, RefsExact, LoadsOnce, Count
<1>1. CASE Take  BY <1>1 DEF Take
<1>2. CASE Map
  <2>1. ~handle[cur]
    BY <1>2, SMT DEF Map, mapping, ready, cancelled
  <2>2. QED  BY <1>2, <2>1, SMT DEF Map
<1>3. CASE Publish  BY <1>3 DEF Publish
<1>4. CASE Drop  BY <1>4, SMT DEF Drop
<1>5. CASE Reset  BY <1>5 DEF Reset
<1>6. CASE Select  BY <1>6 DEF Select
<1>7. CASE Load  BY <1>7, SMT DEF Load
<1>8. CASE Release  BY <1>8, SMT DEF Release
<1>9. CASE UNCHANGED warmVars  BY <1>9 DEF warmVars
<1>10. QED
  BY <1>1, <1>2, <1>3, <1>4, <1>5, <1>6, <1>7, <1>8, <1>9 DEF WarmNext, Warmer, Loader

-----------------------------------------------------------------------------
(* The inductive invariant holds in every state the two threads reach.     *)
THEOREM WarmInductive == WarmSpec => []WarmInv
<1>1. WarmInit => WarmInv  BY WarmInitial
<1>2. WarmInv /\ [WarmNext]_warmVars => WarmInv'
  BY WarmTypeStep, OwnersStep, ReferencesStep, CountStep DEF WarmInv
<1>3. QED  BY <1>1, <1>2, PTL DEF WarmSpec

(* In whatever order the two threads come to a DLL, FreeLibrary is called  *)
(* exactly once for the speculative reference of image_warm_thread, and    *)
(* the host counts no other than those load_overlay_dll took, the ones     *)
(* kept by loads that registered nothing included.                         *)
THEOREM ReferencesCounted == WarmSpec => []RefsExact
<1>1. WarmInv => RefsExact  BY DEF WarmInv
<1>2. QED  BY <1>1, WarmInductive, PTL

(* No speculative reference is left where neither thread looks for it.     *)
THEOREM NoReferenceForgotten == WarmSpec => []ReferenceIsFindable
<1>1. WarmInv => ReferenceIsFindable  BY DEF WarmInv, References, ReferenceIsFindable
<1>2. QED  BY <1>1, WarmInductive, PTL

(* Types, and with them that no count falls below zero.                    *)
THEOREM WarmTypeCorrect == WarmSpec => []WarmTypeOK
<1>1. WarmInv => WarmTypeOK  BY DEF WarmInv
<1>2. QED  BY <1>1, WarmInductive, PTL
=============================================================================
