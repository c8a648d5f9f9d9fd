----------------------------- MODULE Timestamp -----------------------------
(***************************************************************************)
(* CurrTimeProvider (core/src/inherent/timestamp.rs): clocks in a global   *)
(* registry that the threads of a test program share.  A thread gets a     *)
(* copy of a clock, puts the time of its copy into the inherent data and   *)
(* then advances the clock in the registry, so that other threads may act  *)
(* between the three.  A lock of INSTANCES is one step; a poisoned lock is *)
(* left out.  Times are in milliseconds.  A definition with an underscore  *)
(* in its name is a faulty variant of the one that follows it.             *)
(***************************************************************************)
EXTENDS Integers

CONSTANTS
  Threads,       \* the threads that use the clocks
  Deltas,        \* block times
  Starts,        \* start times, given by the caller or read from the system
  None,
  MaxTime,       \* u64::MAX
  SlotDuration,  \* the slot duration of the chains that use Aura
  MaxInstances,  \* bound: calls of create_instance
  MaxTicks,      \* bound: ticks of a clock
  MaxResets      \* bound: calls of force_new for a clock

ASSUME TimesAssumption == Deltas \subseteq Nat /\ Starts \subseteq 0..MaxTime /\ MaxTime \in Nat
ASSUME SlotAssumption == SlotDuration \in Nat \ {0}
ASSUME ClockBoundsAssumption == {MaxInstances, MaxTicks, MaxResets} \subseteq Nat

Ids    == 0..MaxInstances - 1
Clocks == [start : Starts, delta : Deltas, ticks : Nat]
Copies == [id : Ids, clock : Clocks, reset : Nat]

ASSUME NoClockAssumption == None \notin Clocks \cup Copies \cup Nat

VARIABLES
  counter,    \* COUNTER
  instances,  \* INSTANCES
  reserved,   \* the id a thread got from COUNTER and has not inserted yet
  held,       \* the copy of a clock a thread works with
  put,        \* the time a thread has put and not yet advanced the clock for
  resets,     \* history: calls of force_new for each clock
  advances,   \* history: calls of update_time since the last of them
  given       \* history: times of copies made since then, clock advanced

vars == <<counter, instances, reserved, held, put, resets, advances, given>>

Init ==
  /\ counter = 0
  /\ instances = [id \in Ids |-> None]
  /\ reserved = [t \in Threads |-> None]
  /\ held = [t \in Threads |-> None]
  /\ put = [t \in Threads |-> None]
  /\ resets = [id \in Ids |-> 0]
  /\ advances = [id \in Ids |-> 0]
  /\ given = [id \in Ids |-> {}]

CurrentTime_NotSaturated(clock) == clock.start + clock.delta * clock.ticks

CurrentTime_Wraps(clock) == (clock.start + clock.delta * clock.ticks) % (MaxTime + 1)

\* current_time: saturates at u64::MAX.
CurrentTime(clock) ==
  LET time == clock.start + clock.delta * clock.ticks
  IN  IF time > MaxTime THEN MaxTime ELSE time

AuraSlot_Coarse(time) == time \div (2 * SlotDuration)

\* aura::Digest::digest: the slot of a block is that of its timestamp.
AuraSlot(time) == time \div SlotDuration

NewClock(start, delta) == [start |-> start, delta |-> delta, ticks |-> 0]

-----------------------------------------------------------------------------
CreateReserve_LateIncrement(t) ==
  /\ reserved[t] = None
  /\ counter < MaxInstances
  /\ reserved' = [reserved EXCEPT ![t] = counter]
  /\ counter' = IF \E u \in Threads : reserved[u] = counter THEN counter + 1 ELSE counter
  /\ UNCHANGED <<instances, held, put, resets, advances, given>>

\* create_instance: COUNTER.fetch_add.
CreateReserve(t) ==
  /\ reserved[t] = None
  /\ counter < MaxInstances
  /\ reserved' = [reserved EXCEPT ![t] = counter]
  /\ counter' = counter + 1
  /\ UNCHANGED <<instances, held, put, resets, advances, given>>

\* create_instance: the insertion under the lock.
CreateInsert(t, start, delta) ==
  /\ reserved[t] # None
  /\ instances' = [instances EXCEPT ![reserved[t]] = NewClock(start, delta)]
  /\ reserved' = [reserved EXCEPT ![t] = None]
  /\ UNCHANGED <<counter, held, put, resets, advances, given>>

\* force_new: an id that is not there is an error.
ForceNew(id, start, delta) ==
  /\ instances[id] # None
  /\ resets[id] < MaxResets
  /\ instances' = [instances EXCEPT ![id] = NewClock(start, delta)]
  /\ resets' = [resets EXCEPT ![id] = @ + 1]
  /\ advances' = [advances EXCEPT ![id] = 0]
  /\ given' = [given EXCEPT ![id] = {}]
  /\ UNCHANGED <<counter, reserved, held, put>>

\* get_instance: a copy.
GetInstance(t, id) ==
  /\ put[t] = None
  /\ instances[id] # None
  /\ held' = [held EXCEPT ![t] = [id |-> id, clock |-> instances[id], reset |-> resets[id]]]
  /\ UNCHANGED <<counter, instances, reserved, put, resets, advances, given>>

\* provide_inherent_data: the time of the copy; a copy may be used again.
PutData(t) ==
  /\ held[t] # None
  /\ put[t] = None
  /\ put' = [put EXCEPT ![t] = CurrentTime(held[t].clock)]
  /\ UNCHANGED <<counter, instances, reserved, held, resets, advances, given>>

\* What a thread's update_time means for the histories.
Recorded(t) ==
  LET id == held[t].id
  IN  /\ advances' = [advances EXCEPT ![id] = @ + 1]
      /\ given' = IF held[t].reset = resets[id]
                  THEN [given EXCEPT ![id] = @ \cup {put[t]}] ELSE given

UpdateTime_FromCopy(t) ==
  LET id == held[t].id
  IN  /\ put[t] # None
      /\ instances[id].ticks < MaxTicks
      /\ instances' = [instances EXCEPT ![id].ticks = held[t].clock.ticks + 1]
      /\ put' = [put EXCEPT ![t] = None]
      /\ Recorded(t)
      /\ UNCHANGED <<counter, reserved, held, resets>>

\* provide_inherent_data, then update_time: the clock in the registry, which
\* need not be the one the copy was made of any more.
UpdateTime(t) ==
  LET id == held[t].id
  IN  /\ put[t] # None
      /\ instances[id].ticks < MaxTicks
      /\ instances' = [instances EXCEPT ![id].ticks = @ + 1]
      /\ put' = [put EXCEPT ![t] = None]
      /\ Recorded(t)
      /\ UNCHANGED <<counter, reserved, held, resets>>

Next ==
  \/ \E t \in Threads : CreateReserve(t) \/ PutData(t) \/ UpdateTime(t)
  \/ \E t \in Threads, start \in Starts, delta \in Deltas : CreateInsert(t, start, delta)
  \/ \E id \in Ids, start \in Starts, delta \in Deltas : ForceNew(id, start, delta)
  \/ \E t \in Threads, id \in Ids : GetInstance(t, id)

Spec == Init /\ [][Next]_vars

-----------------------------------------------------------------------------
\* Type invariant.
TypeOK ==
  /\ counter \in Nat
  /\ instances \in [Ids -> Clocks \cup {None}]
  /\ reserved \in [Threads -> Ids \cup {None}]
  /\ held \in [Threads -> Copies \cup {None}]
  /\ put \in [Threads -> (0..MaxTime) \cup {None}]
  /\ resets \in [Ids -> Nat]
  /\ advances \in [Ids -> Nat]
  /\ given \in [Ids -> SUBSET (0..MaxTime)]

\* create_instance takes the id and inserts the clock in two steps: ids that
\* are taken and not inserted yet differ from each other and from those in the
\* registry, so that no insertion overwrites a clock that is in use.
IdsNotShared ==
  \A t \in Threads : reserved[t] # None =>
    /\ instances[reserved[t]] = None
    /\ reserved[t] < counter
    /\ \A u \in Threads : reserved[u] = reserved[t] => u = t

\* update_time advances the clock in the registry, not the copy: however the
\* threads interleave, no tick is lost.
NoTickLost == \A id \in Ids : instances[id] # None => instances[id].ticks = advances[id]

\* provide_inherent_data: once it has returned, the next copy of that clock
\* shows a later time than it put, unless block time is zero or time has
\* reached the end of u64, where it stays; it never goes back.
NextTimeIsLater ==
  \A id \in Ids : instances[id] # None =>
    \A time \in given[id] :
      \/ time < CurrentTime(instances[id])
      \/ /\ instances[id].delta = 0 \/ CurrentTime(instances[id]) = MaxTime
         /\ time <= CurrentTime(instances[id])

\* aura::Digest::digest: the runtime refuses a block whose slot is not later
\* than that of its parent.  With a block time of a slot or more, blocks whose
\* inherent data are provided one after the other have increasing slots, until
\* time has reached its end; they never decrease.
SlotsAdvance ==
  \A id \in Ids : instances[id] # None =>
    LET clock == instances[id]
    IN  \A time \in given[id] :
          /\ AuraSlot(time) <= AuraSlot(CurrentTime(clock))
          /\ clock.delta >= SlotDuration /\ CurrentTime(clock) < MaxTime =>
               AuraSlot(time) < AuraSlot(CurrentTime(clock))
=============================================================================
