-------------------------- MODULE TimestampProofs --------------------------
(***************************************************************************)
(* Proofs about Timestamp for any number of threads and clocks.            *)
(***************************************************************************)
EXTENDS Timestamp, TLAPS

\* NoTickLost is not inductive: an insertion must meet an id nobody has used
\* (IdsNotShared, Unused) and an update a clock that is there (Works).
Works ==
  \A t \in Threads :
    /\ put[t] # None => held[t] # None
    /\ held[t] # None => instances[held[t].id] # None

\* Ids at or above the counter are fresh, and a fresh id has never advanced.
Unused ==
  \A id \in Ids :
    /\ id >= counter => instances[id] = None
    /\ instances[id] = None => advances[id] = 0

\* The inductive invariant of the registry.
Inv == TypeOK /\ IdsNotShared /\ NoTickLost /\ Works /\ Unused

\* current_time fits in a u64.
LEMMA CurrentTimeType ==
  ASSUME NEW clock \in Clocks
  PROVE  CurrentTime(clock) \in 0..MaxTime
<1> DEFINE d == clock.delta * clock.ticks
<1>1. /\ clock.start \in 0..MaxTime /\ clock.delta \in Nat /\ clock.ticks \in Nat
      /\ MaxTime \in Nat
  BY TimesAssumption DEF Clocks
<1>2. d \in Nat
  BY <1>1
<1>3. CurrentTime(clock) = IF clock.start + d > MaxTime THEN MaxTime ELSE clock.start + d
  BY DEF CurrentTime
<1> HIDE DEF d
<1> QED
  BY <1>1, <1>2, <1>3

\* Ids are natural numbers.
LEMMA IdsAreNat == Ids \subseteq Nat
BY ClockBoundsAssumption DEF Ids

\* A new clock is a clock, and no clock is None.
LEMMA NewClockType ==
  ASSUME NEW start \in Starts, NEW delta \in Deltas
  PROVE  /\ NewClock(start, delta) \in Clocks
         /\ NewClock(start, delta) # None
         /\ NewClock(start, delta).ticks = 0
BY NoClockAssumption DEF NewClock, Clocks

\* The empty registry satisfies the inductive invariant.
LEMMA InitInv == Init => Inv
BY ClockBoundsAssumption, IdsAreNat DEF Init, Inv, TypeOK, IdsNotShared, NoTickLost, Works, Unused

\* Taking an id preserves it: the id is new.
LEMMA CreateReserveInv ==
  ASSUME Inv, NEW t \in Threads, CreateReserve(t)
  PROVE  Inv'
<1> USE DEF Inv
<1>1. counter \in Ids /\ counter \in Nat
  BY ClockBoundsAssumption DEF CreateReserve, TypeOK, Ids
<1>2. TypeOK'
  BY <1>1 DEF CreateReserve, TypeOK
<1>3. IdsNotShared'
  <2>1. /\ \A u \in Threads : reserved'[u] = IF u = t THEN counter ELSE reserved[u]
        /\ instances' = instances /\ counter' = counter + 1
    BY DEF CreateReserve, TypeOK
  <2>2. instances[counter] = None
    BY <1>1 DEF Unused
  <2>3. \A u \in Threads : reserved[u] # None => reserved[u] \in Nat /\ reserved[u] < counter
    BY IdsAreNat DEF TypeOK, IdsNotShared
  <2>4. None # counter
    BY <1>1, NoClockAssumption
  <2> SUFFICES ASSUME NEW u \in Threads, reserved'[u] # None
               PROVE  /\ instances[reserved'[u]] = None
                      /\ reserved'[u] < counter + 1
                      /\ \A v \in Threads : reserved'[v] = reserved'[u] => v = u
    BY <2>1 DEF IdsNotShared
  <2>5. CASE u = t
    BY <1>1, <2>1, <2>2, <2>3, <2>4, <2>5
  <2>6. CASE u # t
    BY <1>1, <2>1, <2>3, <2>6 DEF IdsNotShared
  <2> QED
    BY <2>5, <2>6
<1>4. NoTickLost' /\ Works'
  BY DEF CreateReserve, NoTickLost, Works
<1>5. Unused'
  BY <1>1, IdsAreNat DEF CreateReserve, Unused
<1> QED
  BY <1>2, <1>3, <1>4, <1>5

\* Inserting a clock preserves it: nothing was there.
LEMMA CreateInsertInv ==
  ASSUME Inv, NEW t \in Threads, NEW start \in Starts, NEW delta \in Deltas,
         CreateInsert(t, start, delta)
  PROVE  Inv'
<1> USE DEF Inv
<1> DEFINE id == reserved[t]
<1>1. id \in Ids /\ id < counter /\ instances[id] = None /\ counter \in Nat
  BY DEF CreateInsert, TypeOK, IdsNotShared
<1>2. /\ instances' = [instances EXCEPT ![id] = NewClock(start, delta)]
      /\ reserved' = [reserved EXCEPT ![t] = None]
      /\ UNCHANGED <<counter, held, put, resets, advances, given>>
  BY DEF CreateInsert
<1>3. TypeOK'
  BY <1>1, <1>2, NewClockType DEF TypeOK
<1>4. IdsNotShared'
  BY <1>1, <1>2 DEF TypeOK, IdsNotShared
<1>5. NoTickLost'
  BY <1>1, <1>2, NewClockType DEF TypeOK, NoTickLost, Unused
<1>6. Works'
  BY <1>1, <1>2, NewClockType DEF TypeOK, Works
<1>7. Unused'
  BY <1>1, <1>2, NewClockType, IdsAreNat DEF TypeOK, Unused
<1> QED
  BY <1>3, <1>4, <1>5, <1>6, <1>7

\* Resetting a clock preserves it: the count of its ticks starts again.
LEMMA ForceNewInv ==
  ASSUME Inv, NEW id \in Ids, NEW start \in Starts, NEW delta \in Deltas,
         ForceNew(id, start, delta)
  PROVE  Inv'
<1> USE DEF Inv
<1>1. TypeOK'
  BY NewClockType DEF ForceNew, TypeOK
<1>2. IdsNotShared'
  BY NewClockType DEF ForceNew, TypeOK, IdsNotShared
<1>3. NoTickLost'
  BY NewClockType DEF ForceNew, TypeOK, NoTickLost
<1>4. Works' /\ Unused'
  BY NewClockType DEF ForceNew, TypeOK, Works, Unused
<1> QED
  BY <1>1, <1>2, <1>3, <1>4

\* Copying a clock preserves it.
LEMMA GetInstanceInv ==
  ASSUME Inv, NEW t \in Threads, NEW id \in Ids, GetInstance(t, id)
  PROVE  Inv'
<1> USE DEF Inv
<1> DEFINE copy == [id |-> id, clock |-> instances[id], reset |-> resets[id]]
<1>1. copy \in Copies
  BY DEF GetInstance, TypeOK, Copies
<1>2. held' = [held EXCEPT ![t] = copy] /\ copy.id = id /\ instances[id] # None
  BY DEF GetInstance
<1> HIDE DEF copy
<1>3. TypeOK'
  BY <1>1, <1>2 DEF GetInstance, TypeOK
<1>4. IdsNotShared' /\ NoTickLost' /\ Unused'
  BY DEF GetInstance, IdsNotShared, NoTickLost, Unused
<1>5. Works'
  BY <1>1, <1>2, NoClockAssumption DEF GetInstance, TypeOK, Works
<1> QED
  BY <1>3, <1>4, <1>5

\* Putting a time preserves it.
LEMMA PutDataInv ==
  ASSUME Inv, NEW t \in Threads, PutData(t)
  PROVE  Inv'
<1> USE DEF Inv
<1>1. held[t].clock \in Clocks /\ held[t] # None
  BY DEF PutData, TypeOK, Copies
<1>2. CurrentTime(held[t].clock) \in 0..MaxTime
  BY <1>1, CurrentTimeType
<1>3. TypeOK'
  BY <1>2 DEF PutData, TypeOK
<1>4. IdsNotShared' /\ NoTickLost' /\ Unused'
  BY DEF PutData, IdsNotShared, NoTickLost, Unused
<1>5. Works'
  BY <1>1 DEF PutData, TypeOK, Works
<1> QED
  BY <1>3, <1>4, <1>5

\* Advancing a clock preserves it: the clock and the count go up together,
\* whatever the copy says.
LEMMA UpdateTimeInv ==
  ASSUME Inv, NEW t \in Threads, UpdateTime(t)
  PROVE  Inv'
<1> USE DEF Inv
<1> DEFINE id == held[t].id
           new == [instances[id] EXCEPT !.ticks = @ + 1]
<1>1. /\ put[t] \in 0..MaxTime
      /\ id \in Ids
      /\ instances[id] # None
      /\ instances[id] \in Clocks
  BY DEF UpdateTime, TypeOK, Works, Copies
<1>2. /\ new \in Clocks
      /\ new # None
      /\ new.ticks = instances[id].ticks + 1
  BY <1>1, NoClockAssumption DEF Clocks
<1>3. /\ instances' = [instances EXCEPT ![id] = new]
      /\ put' = [put EXCEPT ![t] = None]
      /\ advances' = [advances EXCEPT ![id] = @ + 1]
      /\ UNCHANGED <<counter, reserved, held, resets>>
  BY DEF UpdateTime, Recorded
<1>4. given' \in [Ids -> SUBSET (0..MaxTime)]
  BY <1>1 DEF UpdateTime, Recorded, TypeOK
<1> HIDE DEF id, new
<1>5. TypeOK'
  <2>1. instances' \in [Ids -> Clocks \cup {None}]
    BY <1>1, <1>2, <1>3 DEF TypeOK
  <2>2. put' \in [Threads -> (0..MaxTime) \cup {None}]
    BY <1>3 DEF TypeOK
  <2>3. advances' \in [Ids -> Nat]
    BY <1>1, <1>3 DEF TypeOK
  <2> QED
    BY <2>1, <2>2, <2>3, <1>3, <1>4 DEF TypeOK
<1>6. IdsNotShared'
  BY <1>1, <1>2, <1>3 DEF TypeOK, IdsNotShared
<1>7. NoTickLost'
  BY <1>1, <1>2, <1>3 DEF TypeOK, NoTickLost
<1>8. Works' /\ Unused'
  BY <1>1, <1>2, <1>3 DEF TypeOK, Works, Unused
<1> QED
  BY <1>5, <1>6, <1>7, <1>8

\* Every step preserves the inductive invariant.
LEMMA NextInv == Inv /\ [Next]_vars => Inv'
<1> SUFFICES ASSUME Inv, [Next]_vars PROVE Inv'
  OBVIOUS
<1>1. CASE UNCHANGED vars
  BY <1>1 DEF vars, Inv, TypeOK, IdsNotShared, NoTickLost, Works, Unused
<1>2. CASE \E t \in Threads : CreateReserve(t) \/ PutData(t) \/ UpdateTime(t)
  BY <1>2, CreateReserveInv, PutDataInv, UpdateTimeInv
<1>3. CASE \E t \in Threads, start \in Starts, delta \in Deltas : CreateInsert(t, start, delta)
  BY <1>3, CreateInsertInv
<1>4. CASE \E id \in Ids, start \in Starts, delta \in Deltas : ForceNew(id, start, delta)
  BY <1>4, ForceNewInv
<1>5. CASE \E t \in Threads, id \in Ids : GetInstance(t, id)
  BY <1>5, GetInstanceInv
<1> QED
  BY <1>1, <1>2, <1>3, <1>4, <1>5 DEF Next

\* timestamp.rs: threads that create clocks at the same time never share or
\* overwrite one.
THEOREM ClocksAreNotShared == Spec => []IdsNotShared
<1>1. Inv => IdsNotShared
  BY DEF Inv
<1> QED
  BY <1>1, InitInv, NextInv, PTL DEF Spec

\* timestamp.rs: a clock has advanced exactly as often as update_time was
\* called for it since it was created or reset, by however many threads.
THEOREM TicksAreExact == Spec => []NoTickLost
<1>1. Inv => NoTickLost
  BY DEF Inv
<1> QED
  BY <1>1, InitInv, NextInv, PTL DEF Spec

-----------------------------------------------------------------------------
\* The time a clock shows, or has shown, after k ticks.
TimeAfter(clock, k) == CurrentTime([start |-> clock.start, delta |-> clock.delta, ticks |-> k])

\* NextTimeIsLater and SlotsAdvance compare a time with a clock that others may
\* have advanced or reset since the copy was made.  What makes them inductive:
\* a copy made since the last reset is the clock at an earlier tick, a time that
\* was put is that of the copy, and a recorded time is that of an earlier tick.
CopiesTrail ==
  \A t \in Threads : held[t] # None =>
    LET id == held[t].id
    IN  /\ held[t].reset <= resets[id]
        /\ held[t].reset = resets[id] =>
             /\ held[t].clock.start = instances[id].start
             /\ held[t].clock.delta = instances[id].delta
             /\ held[t].clock.ticks <= instances[id].ticks

\* What a thread will put into the inherent data is the time of its copy.
PutIsOfCopy == \A t \in Threads : put[t] # None => put[t] = CurrentTime(held[t].clock)

\* Every time handed out by a clock was shown at an earlier tick of it.
GivenArePast ==
  \A id \in Ids :
    /\ instances[id] = None => given[id] = {}
    /\ instances[id] # None =>
         \A time \in given[id] :
           \E k \in 0..instances[id].ticks - 1 : time = TimeAfter(instances[id], k)

\* The inductive invariant of the times handed out, on top of Inv.
Trail == CopiesTrail /\ PutIsOfCopy /\ GivenArePast

\* One more tick is at least one more block time.
LEMMA TicksTimesDelta ==
  ASSUME NEW d \in Nat, NEW k \in Nat, NEW n \in Nat, k < n
  PROVE  d * k + d <= d * n
OBVIOUS

\* A clock at an earlier tick shows a time that is earlier by a block time, or
\* the clock is at the end of u64.
LEMMA EarlierTick ==
  ASSUME NEW clock \in Clocks, NEW k \in Nat, k < clock.ticks
  PROVE  /\ TimeAfter(clock, k) \in 0..MaxTime
         /\ CurrentTime(clock) \in 0..MaxTime
         /\ TimeAfter(clock, k) <= CurrentTime(clock)
         /\ \/ CurrentTime(clock) = MaxTime
            \/ TimeAfter(clock, k) + clock.delta <= CurrentTime(clock)
<1> DEFINE s == clock.start
           d == clock.delta
           n == clock.ticks
           early == [start |-> s, delta |-> d, ticks |-> k]
           a == d * k
           b == d * n
<1>1. s \in 0..MaxTime /\ d \in Nat /\ n \in Nat /\ MaxTime \in Nat
  BY TimesAssumption DEF Clocks
<1>2. early \in Clocks
  BY <1>1 DEF Clocks
<1>3. a \in Nat /\ b \in Nat /\ a + d <= b
  BY <1>1, TicksTimesDelta
<1>4. /\ TimeAfter(clock, k) = IF s + a > MaxTime THEN MaxTime ELSE s + a
      /\ CurrentTime(clock) = IF s + b > MaxTime THEN MaxTime ELSE s + b
  BY DEF TimeAfter, CurrentTime
<1> HIDE DEF s, d, n, a, b
<1>5. clock.delta = d
  BY DEF d
<1> QED
  BY <1>1, <1>3, <1>4, <1>5

\* A clock at its own tick.
LEMMA OwnTick ==
  ASSUME NEW clock \in Clocks
  PROVE  CurrentTime(clock) = TimeAfter(clock, clock.ticks)
BY DEF TimeAfter, CurrentTime

\* The inductive part holds of the empty registry.
LEMMA InitTrail == Init => Trail
BY DEF Init, Trail, CopiesTrail, PutIsOfCopy, GivenArePast

\* Taking an id touches no clock.
LEMMA CreateReserveTrail ==
  ASSUME Inv, Trail, NEW t \in Threads, CreateReserve(t)
  PROVE  Trail'
BY DEF CreateReserve, Trail, CopiesTrail, PutIsOfCopy, GivenArePast, TimeAfter, CurrentTime

\* Inserting a clock: nobody holds a copy of it and no time of it was given.
LEMMA CreateInsertTrail ==
  ASSUME Inv, Trail, NEW t \in Threads, NEW start \in Starts, NEW delta \in Deltas,
         CreateInsert(t, start, delta)
  PROVE  Trail'
<1> DEFINE id == reserved[t]
<1>1. id \in Ids /\ instances[id] = None
  BY DEF Inv, CreateInsert, TypeOK, IdsNotShared
<1>2. /\ instances' = [instances EXCEPT ![id] = NewClock(start, delta)]
      /\ UNCHANGED <<held, put, resets, given>>
  BY DEF CreateInsert
<1>3. \A i \in Ids : i # id => instances'[i] = instances[i]
  BY <1>2 DEF Inv, TypeOK
<1>4. CopiesTrail'
  <2>1. \A u \in Threads : held[u] # None => held[u].id \in Ids /\ held[u].id # id
    BY <1>1 DEF Inv, TypeOK, Works, Copies
  <2> QED
    BY <2>1, <1>2, <1>3 DEF Trail, CopiesTrail
<1>5. PutIsOfCopy'
  BY <1>2 DEF Trail, PutIsOfCopy, CurrentTime
<1>6. GivenArePast'
  <2>1. given[id] = {}
    BY <1>1 DEF Trail, GivenArePast
  <2>2. ASSUME NEW i \in Ids
        PROVE  /\ instances'[i] = None => given[i] = {}
               /\ instances'[i] # None =>
                    \A time \in given[i] :
                      \E k \in 0..instances'[i].ticks - 1 : time = TimeAfter(instances'[i], k)
    <3>1. CASE i = id
      BY <3>1, <2>1
    <3>2. CASE i # id
      BY <3>2, <1>3 DEF Trail, GivenArePast
    <3> QED
      BY <3>1, <3>2
  <2> QED
    BY <2>2, <1>2 DEF GivenArePast, TimeAfter, CurrentTime
<1> QED
  BY <1>4, <1>5, <1>6 DEF Trail

\* Resetting a clock: copies of it are older than the reset now.
LEMMA ForceNewTrail ==
  ASSUME Inv, Trail, NEW id \in Ids, NEW start \in Starts, NEW delta \in Deltas,
         ForceNew(id, start, delta)
  PROVE  Trail'
<1>1. /\ instances' = [instances EXCEPT ![id] = NewClock(start, delta)]
      /\ resets' = [resets EXCEPT ![id] = @ + 1]
      /\ given' = [given EXCEPT ![id] = {}]
      /\ UNCHANGED <<held, put>>
  BY DEF ForceNew
<1>2. /\ \A i \in Ids : i # id => instances'[i] = instances[i] /\ resets'[i] = resets[i]
                                  /\ given'[i] = given[i]
      /\ resets'[id] = resets[id] + 1 /\ given'[id] = {} /\ resets[id] \in Nat
  BY <1>1 DEF Inv, TypeOK
<1>3. CopiesTrail'
  <2> SUFFICES ASSUME NEW u \in Threads, held[u] # None
               PROVE  /\ held[u].reset <= resets'[held[u].id]
                      /\ held[u].reset = resets'[held[u].id] =>
                           /\ held[u].clock.start = instances'[held[u].id].start
                           /\ held[u].clock.delta = instances'[held[u].id].delta
                           /\ held[u].clock.ticks <= instances'[held[u].id].ticks
    BY <1>1 DEF CopiesTrail
  <2>1. held[u].id \in Ids /\ held[u].reset \in Nat
    BY DEF Inv, TypeOK, Copies
  <2>2. CASE held[u].id = id
    BY <2>1, <2>2, <1>2 DEF Trail, CopiesTrail
  <2>3. CASE held[u].id # id
    BY <2>1, <2>3, <1>2 DEF Trail, CopiesTrail
  <2> QED
    BY <2>2, <2>3
<1>4. PutIsOfCopy'
  BY <1>1 DEF Trail, PutIsOfCopy, CurrentTime
<1>5. GivenArePast'
  <2>1. ASSUME NEW i \in Ids
        PROVE  /\ instances'[i] = None => given'[i] = {}
               /\ instances'[i] # None =>
                    \A time \in given'[i] :
                      \E k \in 0..instances'[i].ticks - 1 : time = TimeAfter(instances'[i], k)
    <3>1. CASE i = id
      BY <3>1, <1>2
    <3>2. CASE i # id
      BY <3>2, <1>2 DEF Trail, GivenArePast
    <3> QED
      BY <3>1, <3>2
  <2> QED
    BY <2>1 DEF GivenArePast, TimeAfter, CurrentTime
<1> QED
  BY <1>3, <1>4, <1>5 DEF Trail

\* A new copy is the clock itself; nothing was put with it.
LEMMA GetInstanceTrail ==
  ASSUME Inv, Trail, NEW t \in Threads, NEW id \in Ids, GetInstance(t, id)
  PROVE  Trail'
<1> DEFINE copy == [id |-> id, clock |-> instances[id], reset |-> resets[id]]
<1>1. /\ held' = [held EXCEPT ![t] = copy] /\ put[t] = None
      /\ instances[id] \in Clocks /\ resets[id] \in Nat
      /\ UNCHANGED <<instances, put, resets, given>>
  BY DEF Inv, TypeOK, GetInstance
<1>2. /\ held'[t] = copy
      /\ \A u \in Threads : u # t => held'[u] = held[u]
  BY <1>1 DEF Inv, TypeOK
<1>3. CopiesTrail'
  <2>1. instances[id].ticks \in Nat
    BY <1>1 DEF Clocks
  <2> SUFFICES ASSUME NEW u \in Threads, held'[u] # None
               PROVE  /\ held'[u].reset <= resets[held'[u].id]
                      /\ held'[u].reset = resets[held'[u].id] =>
                           /\ held'[u].clock.start = instances[held'[u].id].start
                           /\ held'[u].clock.delta = instances[held'[u].id].delta
                           /\ held'[u].clock.ticks <= instances[held'[u].id].ticks
    BY <1>1 DEF CopiesTrail
  <2>2. CASE u = t
    BY <2>1, <2>2, <1>1, <1>2
  <2>3. CASE u # t
    BY <2>3, <1>2 DEF Trail, CopiesTrail
  <2> QED
    BY <2>2, <2>3
<1>4. PutIsOfCopy'
  BY <1>1, <1>2 DEF Trail, PutIsOfCopy, CurrentTime
<1>5. GivenArePast'
  BY <1>1 DEF Trail, GivenArePast, TimeAfter, CurrentTime
<1> QED
  BY <1>3, <1>4, <1>5 DEF Trail

\* The time that is put is the copy's.
LEMMA PutDataTrail ==
  ASSUME Inv, Trail, NEW t \in Threads, PutData(t)
  PROVE  Trail'
<1>1. put' = [put EXCEPT ![t] = CurrentTime(held[t].clock)]
      /\ UNCHANGED <<instances, held, resets, given>>
  BY DEF PutData
<1>2. PutIsOfCopy'
  BY <1>1 DEF Inv, TypeOK, Trail, PutIsOfCopy, CurrentTime
<1>3. CopiesTrail' /\ GivenArePast'
  BY <1>1 DEF Trail, CopiesTrail, GivenArePast, TimeAfter, CurrentTime
<1> QED
  BY <1>2, <1>3 DEF Trail

\* Advancing a clock: copies fall behind, and the time that was put, when the
\* copy is not older than the last reset, is that of a tick before the new one.
LEMMA UpdateTimeTrail ==
  ASSUME Inv, Trail, NEW t \in Threads, UpdateTime(t)
  PROVE  Trail'
<1> DEFINE id == held[t].id
           old == instances[id]
           new == [old EXCEPT !.ticks = @ + 1]
<1>1. /\ put[t] # None /\ held[t] # None /\ held[t] \in Copies
      /\ id \in Ids /\ old # None /\ old \in Clocks
  BY DEF Inv, UpdateTime, TypeOK, Works, Copies
<1>2. /\ new \in Clocks /\ new # None
      /\ new.start = old.start /\ new.delta = old.delta /\ new.ticks = old.ticks + 1
      /\ old.ticks \in Nat
  BY <1>1, NoClockAssumption DEF Clocks
<1>3. /\ instances' = [instances EXCEPT ![id] = new]
      /\ put' = [put EXCEPT ![t] = None]
      /\ UNCHANGED <<held, resets>>
      /\ given' = IF held[t].reset = resets[id]
                  THEN [given EXCEPT ![id] = @ \cup {put[t]}] ELSE given
  BY DEF UpdateTime, Recorded
<1>4. /\ \A i \in Ids : i # id => instances'[i] = instances[i] /\ given'[i] = given[i]
      /\ instances'[id] = new
      /\ held[t].reset = resets[id] => given'[id] = given[id] \cup {put[t]}
      /\ held[t].reset # resets[id] => given'[id] = given[id]
  BY <1>1, <1>3 DEF Inv, TypeOK
<1>5. held[t].clock \in Clocks /\ put[t] = TimeAfter(held[t].clock, held[t].clock.ticks)
  BY <1>1, OwnTick DEF Copies, Trail, PutIsOfCopy
<1>6. \A k : TimeAfter(new, k) = TimeAfter(old, k)
  BY <1>2 DEF TimeAfter
<1> HIDE DEF new
<1>7. CopiesTrail'
  <2> SUFFICES ASSUME NEW u \in Threads, held[u] # None
               PROVE  /\ held[u].reset <= resets[held[u].id]
                      /\ held[u].reset = resets[held[u].id] =>
                           /\ held[u].clock.start = instances'[held[u].id].start
                           /\ held[u].clock.delta = instances'[held[u].id].delta
                           /\ held[u].clock.ticks <= instances'[held[u].id].ticks
    BY <1>3 DEF CopiesTrail
  <2>1. held[u].id \in Ids /\ held[u].clock.ticks \in Nat
    BY DEF Inv, TypeOK, Copies, Clocks
  <2>2. CASE held[u].id = id
    BY <2>1, <2>2, <1>2, <1>4 DEF Trail, CopiesTrail
  <2>3. CASE held[u].id # id
    BY <2>1, <2>3, <1>4 DEF Trail, CopiesTrail
  <2> QED
    BY <2>2, <2>3
<1>8. PutIsOfCopy'
  BY <1>3 DEF Inv, TypeOK, Trail, PutIsOfCopy, CurrentTime
<1>9. GivenArePast'
  <2>1. ASSUME NEW time \in given'[id]
        PROVE  \E k \in 0..new.ticks - 1 : time = TimeAfter(new, k)
    <3>1. CASE time \in given[id]
      <4>1. PICK k \in 0..old.ticks - 1 : time = TimeAfter(old, k)
        BY <3>1, <1>1 DEF Trail, GivenArePast
      <4> QED
        BY <4>1, <1>2, <1>6
    <3>2. CASE time \notin given[id]
      <4> DEFINE k == held[t].clock.ticks
      <4>1. time = put[t] /\ held[t].reset = resets[id]
        BY <3>2, <1>4
      <4>2. /\ held[t].clock.start = old.start /\ held[t].clock.delta = old.delta
            /\ k <= old.ticks /\ k \in Nat
        BY <4>1, <1>1, <1>5 DEF Trail, CopiesTrail, Clocks
      <4>3. put[t] = TimeAfter(old, k)
        BY <4>2, <1>5 DEF TimeAfter
      <4>4. k \in 0..new.ticks - 1
        BY <4>2, <1>2
      <4> QED
        BY <4>1, <4>3, <4>4, <1>6
    <3> QED
      BY <3>1, <3>2
  <2>2. ASSUME NEW i \in Ids
        PROVE  /\ instances'[i] = None => given'[i] = {}
               /\ instances'[i] # None =>
                    \A time \in given'[i] :
                      \E k \in 0..instances'[i].ticks - 1 : time = TimeAfter(instances'[i], k)
    <3>1. CASE i = id
      BY <3>1, <2>1, <1>2, <1>4
    <3>2. CASE i # id
      BY <3>2, <1>4 DEF Trail, GivenArePast
    <3> QED
      BY <3>1, <3>2
  <2> QED
    BY <2>2 DEF GivenArePast, TimeAfter, CurrentTime
<1> QED
  BY <1>7, <1>8, <1>9 DEF Trail

\* Every step preserves the inductive part.
LEMMA NextTrail == Inv /\ Trail /\ [Next]_vars => Trail'
<1> SUFFICES ASSUME Inv, Trail, [Next]_vars PROVE Trail'
  OBVIOUS
<1>1. CASE UNCHANGED vars
  BY <1>1 DEF vars, Trail, CopiesTrail, PutIsOfCopy, GivenArePast, TimeAfter, CurrentTime
<1>2. CASE \E t \in Threads : CreateReserve(t) \/ PutData(t) \/ UpdateTime(t)
  BY <1>2, CreateReserveTrail, PutDataTrail, UpdateTimeTrail
<1>3. CASE \E t \in Threads, start \in Starts, delta \in Deltas : CreateInsert(t, start, delta)
  BY <1>3, CreateInsertTrail
<1>4. CASE \E id \in Ids, start \in Starts, delta \in Deltas : ForceNew(id, start, delta)
  BY <1>4, ForceNewTrail
<1>5. CASE \E t \in Threads, id \in Ids : GetInstance(t, id)
  BY <1>5, GetInstanceTrail
<1> QED
  BY <1>1, <1>2, <1>3, <1>4, <1>5 DEF Next

\* Both invariants hold in every state.
LEMMA TrailAlways == Spec => [](Inv /\ Trail)
BY InitInv, NextInv, InitTrail, NextTrail, PTL DEF Spec

\* A time that was given is of an earlier tick of the clock.
LEMMA GivenIsEarlier ==
  ASSUME Inv, Trail, NEW id \in Ids, instances[id] # None, NEW time \in given[id]
  PROVE  /\ instances[id] \in Clocks
         /\ time \in 0..MaxTime
         /\ CurrentTime(instances[id]) \in 0..MaxTime
         /\ time <= CurrentTime(instances[id])
         /\ \/ CurrentTime(instances[id]) = MaxTime
            \/ time + instances[id].delta <= CurrentTime(instances[id])
<1>1. instances[id] \in Clocks
  BY DEF Inv, TypeOK
<1>2. PICK k \in 0..instances[id].ticks - 1 : time = TimeAfter(instances[id], k)
  BY DEF Trail, GivenArePast
<1>3. k \in Nat /\ k < instances[id].ticks
  BY <1>1 DEF Clocks
<1> QED
  BY <1>1, <1>2, <1>3, EarlierTick

\* timestamp.rs keeps its registry well-formed.
THEOREM RegistryTypeCorrect == Spec => []TypeOK
<1>1. Inv => TypeOK
  BY DEF Inv
<1> QED
  BY <1>1, TrailAlways, PTL

\* timestamp.rs provide_inherent_data: once it has returned, the next copy of
\* the clock shows a later time, however threads interleave copying, putting,
\* advancing and resetting; only a block time of zero or the end of u64 stop it.
THEOREM TimeGoesForward == Spec => []NextTimeIsLater
<1>1. Inv /\ Trail => NextTimeIsLater
  <2> SUFFICES ASSUME Inv, Trail, NEW id \in Ids, instances[id] # None,
                      NEW time \in given[id]
               PROVE  \/ time < CurrentTime(instances[id])
                      \/ /\ instances[id].delta = 0 \/ CurrentTime(instances[id]) = MaxTime
                         /\ time <= CurrentTime(instances[id])
    BY DEF NextTimeIsLater
  <2>1. instances[id].delta \in Nat
    BY GivenIsEarlier, TimesAssumption DEF Clocks
  <2> QED
    BY <2>1, GivenIsEarlier, TimesAssumption
<1> QED
  BY <1>1, TrailAlways, PTL

\* Slots of a duration: they do not decrease with time, and increase when a
\* slot's duration has passed.
LEMMA SlotOfTime ==
  ASSUME NEW a \in Nat, NEW b \in Nat, a <= b
  PROVE  /\ AuraSlot(a) <= AuraSlot(b)
         /\ a + SlotDuration <= b => AuraSlot(a) < AuraSlot(b)
BY SlotAssumption DEF AuraSlot

\* aura::Digest::digest: with a block time of at least a slot every block gets
\* a later slot than the blocks whose time was given before, until time ends.
THEOREM SlotsGoForward == Spec => []SlotsAdvance
<1>1. Inv /\ Trail => SlotsAdvance
  <2> SUFFICES ASSUME Inv, Trail, NEW id \in Ids, instances[id] # None,
                      NEW time \in given[id]
               PROVE  /\ AuraSlot(time) <= AuraSlot(CurrentTime(instances[id]))
                      /\ instances[id].delta >= SlotDuration
                           /\ CurrentTime(instances[id]) < MaxTime =>
                           AuraSlot(time) < AuraSlot(CurrentTime(instances[id]))
    BY DEF SlotsAdvance
  <2> DEFINE now == CurrentTime(instances[id])
             d == instances[id].delta
  <2>1. d \in Nat /\ MaxTime \in Nat /\ SlotDuration \in Nat
    BY GivenIsEarlier, TimesAssumption, SlotAssumption DEF Clocks
  <2>2. time \in Nat /\ now \in Nat /\ time <= now /\ (now = MaxTime \/ time + d <= now)
    BY <2>1, GivenIsEarlier
  <2> HIDE DEF now, d
  <2>3. d >= SlotDuration /\ now < MaxTime => time + SlotDuration <= now
    BY <2>1, <2>2
  <2> QED
    BY <2>2, <2>3, SlotOfTime DEF now, d
<1> QED
  BY <1>1, TrailAlways, PTL
=============================================================================
