------------------------- MODULE WaitForBlockProofs -------------------------
(***************************************************************************)
(* Proofs about WaitForBlock, for any number of waiters, any hashes and    *)
(* whichever origins the client announces.                                 *)
(*                                                                         *)
(* NoImportMissed is not inductive: a waiter that registers must not want  *)
(* a block that was announced already, which holds because it looked under *)
(* the lock (NoneBetween) and because what is announced is in the chain,   *)
(* above the genesis block (AnnouncedInChain); and the notification of an  *)
(* announced block must be for an announced origin (OriginFits), which     *)
(* needs that an import is of a block that is not in the chain.            *)
(***************************************************************************)
EXTENDS WaitForBlock, TLAPS

\* The types of what the proof looks at.
Types ==
  /\ chain \in Seq(Hashes) /\ Len(chain) > 0
  /\ block \in Hashes
  /\ task \in {"idle", "locked", "committed", "reverted"}
  /\ pc \in [Waiters -> {"idle", "start", "register", "polling"}]
  /\ want \in [Waiters -> Hashes]
  /\ queue \in [Waiters -> Seq(Hashes)]

\* What was announced is in the chain, above the genesis block.
AnnouncedInChain == \A h \in announced : \E i \in 2..Len(chain) : chain[i] = h

\* Between the look at the chain and the listener there is no import, and what
\* the waiter wants was not announced before.
NoneBetween ==
  \A w \in Waiters : pc[w] = "register" => ~WriteLocked /\ want[w] \notin announced

\* The block of an import is new, and if it is announced then by its import.
OriginFits ==
  /\ task = "locked" => ~InChain(block)
  /\ task = "committed" /\ block \in announced => origin \in Announced

\* The inductive invariant.
Inv == Types /\ AnnouncedInChain /\ NoneBetween /\ OriginFits /\ NoImportMissed

-----------------------------------------------------------------------------
\* What is announced is in the chain.
LEMMA AnnouncedIn ==
  ASSUME Inv, NEW h, ~InChain(h)
  PROVE  h \notin announced
<1>1. \A i \in 2..Len(chain) : i \in 1..Len(chain)
  BY DEF Inv, Types
<1> QED
  BY <1>1 DEF Inv, AnnouncedInChain, InChain

\* The last element of a longer sequence, and its elements before that.
LEMMA Appended ==
  ASSUME NEW s \in Seq(Hashes), NEW h \in Hashes
  PROVE  /\ Append(s, h) \in Seq(Hashes)
         /\ Len(Append(s, h)) = Len(s) + 1
         /\ Append(s, h)[Len(s) + 1] = h
         /\ \A i \in 1..Len(s) : Append(s, h)[i] = s[i] /\ i \in 1..Len(s) + 1
         /\ Len(s) + 1 \in 1..Len(s) + 1
OBVIOUS

\* Initially there are neither imports nor waiters.
LEMMA InitInv == Init => Inv
<1> SUFFICES ASSUME Init PROVE Inv
  OBVIOUS
<1>1. Types
  <2>1. <<Genesis>> \in Seq(Hashes) /\ Len(<<Genesis>>) = 1
    BY GenesisAssumption
  <2> QED
    BY <2>1, GenesisAssumption DEF Init, Types
<1>2. AnnouncedInChain /\ NoneBetween /\ OriginFits
  BY DEF Init, AnnouncedInChain, NoneBetween, OriginFits
<1>3. NoImportMissed
  BY DEF Init, NoImportMissed
<1> QED
  BY <1>1, <1>2, <1>3 DEF Inv

\* An import takes the lock: no waiter is between look and listener.
LEMMA ImportLockInv ==
  ASSUME Inv, NEW h \in Hashes, NEW o \in Origins, ImportLock(h, o)
  PROVE  Inv'
<1> USE DEF ImportLock, waiterVars
<1>1. Types'
  BY DEF Inv, Types
<1>2. AnnouncedInChain'
  BY DEF Inv, AnnouncedInChain
<1>3. NoneBetween'
  BY DEF ReadLocked, NoneBetween
<1>4. OriginFits'
  BY DEF Unused, InChain, OriginFits
<1>5. NoImportMissed'
  BY DEF Inv, NoImportMissed, Queued
<1> QED
  BY <1>1, <1>2, <1>3, <1>4, <1>5 DEF Inv

\* The block is in the chain, and about to be announced.
LEMMA ImportCommitInv ==
  ASSUME Inv, ImportCommit
  PROVE  Inv'
<1> USE DEF ImportCommit, waiterVars
<1>0. /\ chain \in Seq(Hashes) /\ block \in Hashes /\ Len(chain) \in Nat \ {0}
      /\ block \notin announced
  BY AnnouncedIn DEF Inv, Types, OriginFits
<1>1. /\ chain' \in Seq(Hashes) /\ Len(chain') = Len(chain) + 1
      /\ chain'[Len(chain) + 1] = block
      /\ \A i \in 1..Len(chain) : chain'[i] = chain[i]
  BY <1>0, Appended
<1>2. Types'
  BY <1>0, <1>1 DEF Inv, Types
<1>3. AnnouncedInChain'
  <2>1. announced' \subseteq announced \cup {block}
    OBVIOUS
  <2>2. Len(chain) + 1 \in 2..Len(chain')
    BY <1>0, <1>1
  <2>3. \A i \in 2..Len(chain) : i \in 2..Len(chain') /\ chain'[i] = chain[i]
    BY <1>0, <1>1
  <2> QED
    BY <1>1, <2>1, <2>2, <2>3 DEF Inv, AnnouncedInChain
<1>4. NoneBetween'
  BY DEF Inv, NoneBetween, WriteLocked
<1>5. OriginFits'
  BY <1>0 DEF OriginFits
<1>6. NoImportMissed'
  BY DEF Inv, NoImportMissed, Queued
<1> QED
  BY <1>2, <1>3, <1>4, <1>5, <1>6 DEF Inv

\* The listeners that are registered have the event.
LEMMA ImportNotifyInv ==
  ASSUME Inv, ImportNotify
  PROVE  Inv'
<1> USE DEF ImportNotify
<1>0. queue \in [Waiters -> Seq(Hashes)] /\ block \in Hashes
  BY DEF Inv, Types
<1>1. ASSUME NEW w \in Waiters
      PROVE  /\ queue'[w] \in Seq(Hashes)
             /\ \A h \in Hashes : Queued(w, h) => Queued(w, h)'
             /\ pc[w] = "polling" /\ origin \in Announced => Queued(w, block)'
  <2>1. queue[w] \in Seq(Hashes)
    BY <1>0
  <2>2. CASE pc[w] = "polling" /\ origin \in Announced
    <3>1. queue'[w] = Append(queue[w], block)
      BY <2>2
    <3>2. /\ queue'[w] \in Seq(Hashes) /\ Len(queue'[w]) = Len(queue[w]) + 1
          /\ queue'[w][Len(queue[w]) + 1] = block
          /\ \A i \in 1..Len(queue[w]) : queue'[w][i] = queue[w][i] /\ i \in 1..Len(queue'[w])
          /\ Len(queue[w]) + 1 \in 1..Len(queue'[w])
      BY <1>0, <2>1, <3>1, Appended
    <3> QED
      BY <3>2 DEF Queued
  <2>3. CASE ~(pc[w] = "polling" /\ origin \in Announced)
    <3>1. queue'[w] = queue[w]
      BY <2>3
    <3> QED
      BY <2>1, <2>3, <3>1 DEF Queued
  <2> QED
    BY <2>2, <2>3
<1>2. Types'
  BY <1>1 DEF Inv, Types
<1>3. AnnouncedInChain' /\ NoneBetween' /\ OriginFits'
  BY DEF Inv, AnnouncedInChain, NoneBetween, OriginFits, WriteLocked
<1>4. NoImportMissed'
  <2> SUFFICES ASSUME NEW w \in Waiters, pc[w] = "polling", want[w] \in announced
               PROVE  Queued(w, want[w])'
    BY DEF NoImportMissed, Queued
  <2>1. Queued(w, want[w]) \/ block = want[w]
    BY DEF Inv, NoImportMissed
  <2>2. CASE Queued(w, want[w])
    <3>1. want[w] \in Hashes
      BY DEF Inv, Types
    <3> QED
      BY <1>1, <2>2, <3>1 DEF Queued
  <2>3. CASE block = want[w]
    <3>1. origin \in Announced
      BY <2>3 DEF Inv, OriginFits
    <3> QED
      BY <1>1, <2>3, <3>1 DEF Queued
  <2> QED
    BY <2>1, <2>2, <2>3
<1> QED
  BY <1>2, <1>3, <1>4 DEF Inv

\* The first half of a mutation takes the latest block away.
LEMMA MutateRevertInv ==
  ASSUME Inv, MutateRevert
  PROVE  Inv'
<1> USE DEF MutateRevert, waiterVars
<1> DEFINE n == Len(chain)
<1>0. chain \in Seq(Hashes) /\ n \in Nat /\ n > 1
  BY DEF Inv, Types
<1>1. /\ chain' \in Seq(Hashes) /\ Len(chain') = n - 1
      /\ \A i \in 1..n - 1 : chain'[i] = chain[i]
      /\ chain[n] \in Hashes
  BY <1>0
<1>2. Types'
  BY <1>0, <1>1 DEF Inv, Types
<1>3. AnnouncedInChain'
  <2>1. ASSUME NEW h \in announced, h # chain[n]
        PROVE  \E i \in 2..Len(chain') : chain'[i] = h
    <3>1. PICK i \in 2..n : chain[i] = h
      BY DEF Inv, AnnouncedInChain
    <3>2. i \in 2..n - 1 /\ i \in 1..n - 1
      BY <1>0, <2>1, <3>1
    <3> QED
      BY <1>1, <3>1, <3>2
  <2> QED
    BY <2>1 DEF AnnouncedInChain
<1>4. NoneBetween' /\ OriginFits'
  BY DEF Inv, NoneBetween, OriginFits, WriteLocked
<1>5. NoImportMissed'
  BY DEF Inv, NoImportMissed, Queued
<1> QED
  BY <1>2, <1>3, <1>4, <1>5 DEF Inv

\* The second half sets a block that nobody is told of.
LEMMA MutateCommitInv ==
  ASSUME Inv, NEW h \in Hashes, MutateCommit(h)
  PROVE  Inv'
<1> USE DEF MutateCommit, waiterVars
<1>0. chain \in Seq(Hashes) /\ Len(chain) \in Nat \ {0}
  BY DEF Inv, Types
<1>1. /\ chain' \in Seq(Hashes) /\ Len(chain') = Len(chain) + 1
      /\ \A i \in 1..Len(chain) : chain'[i] = chain[i]
  BY <1>0, Appended
<1>2. Types'
  BY <1>0, <1>1 DEF Inv, Types
<1>3. AnnouncedInChain'
  <2>1. \A i \in 2..Len(chain) : i \in 2..Len(chain') /\ chain'[i] = chain[i]
    BY <1>0, <1>1
  <2> QED
    BY <2>1 DEF Inv, AnnouncedInChain
<1>4. NoneBetween' /\ OriginFits'
  BY DEF Inv, NoneBetween, OriginFits, WriteLocked
<1>5. NoImportMissed'
  BY DEF Inv, NoImportMissed, Queued
<1> QED
  BY <1>2, <1>3, <1>4, <1>5 DEF Inv

\* A genesis block that is alone is replaced: nothing was announced.
LEMMA MutateGenesisInv ==
  ASSUME Inv, NEW h \in Hashes, MutateGenesis(h)
  PROVE  Inv'
<1> USE DEF MutateGenesis, waiterVars
<1>1. announced = {}
  <2>1. 2..Len(chain) = {}
    OBVIOUS
  <2> QED
    BY <2>1 DEF Inv, AnnouncedInChain
<1>2. Types'
  <2>1. <<h>> \in Seq(Hashes) /\ Len(<<h>>) = 1
    OBVIOUS
  <2> QED
    BY <2>1 DEF Inv, Types
<1>3. AnnouncedInChain' /\ NoneBetween' /\ OriginFits'
  BY <1>1 DEF Inv, AnnouncedInChain, NoneBetween, OriginFits, WriteLocked
<1>4. NoImportMissed'
  BY <1>1 DEF NoImportMissed
<1> QED
  BY <1>2, <1>3, <1>4 DEF Inv

\* A mutation that fails half way.
LEMMA MutateErrInv ==
  ASSUME Inv, MutateErr
  PROVE  Inv'
BY DEF Inv, MutateErr, waiterVars, Types, AnnouncedInChain, NoneBetween, OriginFits,
       WriteLocked, NoImportMissed, Queued

\* A step of waiter w after which it does not poll, and wants nothing that was
\* announced when it is about to register.
LEMMA WaiterInv ==
  ASSUME Inv, NEW w \in Waiters, UNCHANGED builderVars,
         NEW to \in {"idle", "start", "register"}, NEW h \in Hashes,
         NEW q \in Seq(Hashes),
         pc' = [pc EXCEPT ![w] = to], want' = [want EXCEPT ![w] = h],
         queue' = [queue EXCEPT ![w] = q],
         to = "register" => ~WriteLocked /\ h \notin announced
  PROVE  Inv'
<1>0. /\ pc \in [Waiters -> {"idle", "start", "register", "polling"}]
      /\ want \in [Waiters -> Hashes] /\ queue \in [Waiters -> Seq(Hashes)]
  BY DEF Inv, Types
<1>1. Types'
  BY <1>0 DEF Inv, Types, builderVars
<1>2. AnnouncedInChain' /\ OriginFits'
  BY DEF Inv, AnnouncedInChain, OriginFits, builderVars, InChain
<1>3. \A v \in Waiters :
        v # w => pc'[v] = pc[v] /\ want'[v] = want[v] /\ queue'[v] = queue[v]
  BY <1>0
<1>4. pc'[w] = to /\ want'[w] = h
  BY <1>0
<1>5. NoneBetween'
  BY <1>3, <1>4 DEF Inv, NoneBetween, WriteLocked, builderVars
<1>6. NoImportMissed'
  BY <1>3, <1>4 DEF Inv, NoImportMissed, Queued, builderVars
<1> QED
  BY <1>1, <1>2, <1>5, <1>6 DEF Inv

\* A function that is not updated.
LEMMA Unupdated ==
  ASSUME NEW S, NEW T, NEW f \in [S -> T], NEW x \in S
  PROVE  f = [f EXCEPT ![x] = f[x]]
OBVIOUS

\* A waiter calls, finds the block, finds that it is unknown or gives up.
LEMMA CallInv ==
  ASSUME Inv, NEW w \in Waiters, NEW h \in Hashes, Call(w, h)
  PROVE  Inv'
<1>1. << >> \in Seq(Hashes)
  OBVIOUS
<1> QED
  BY <1>1, WaiterInv DEF Call

\* Found in the chain.
LEMMA CheckFoundInv ==
  ASSUME Inv, NEW w \in Waiters, CheckFound(w) \/ Timeout(w)
  PROVE  Inv'
<1>1. /\ pc' = [pc EXCEPT ![w] = "idle"]
      /\ UNCHANGED <<want, queue, builderVars>>
  BY DEF CheckFound, Timeout, Return
<1>2. /\ want \in [Waiters -> Hashes] /\ queue \in [Waiters -> Seq(Hashes)]
      /\ want[w] \in Hashes /\ queue[w] \in Seq(Hashes)
  BY DEF Inv, Types
<1>3. want' = [want EXCEPT ![w] = want[w]] /\ queue' = [queue EXCEPT ![w] = queue[w]]
  BY <1>1, <1>2, Unupdated
<1>4. UNCHANGED builderVars
  BY <1>1
<1> QED
  BY <1>1, <1>2, <1>3, <1>4, WaiterInv

\* Not in the chain, under the lock: not announced.
LEMMA CheckUnknownInv ==
  ASSUME Inv, NEW w \in Waiters, CheckUnknown(w)
  PROVE  Inv'
<1>1. /\ pc' = [pc EXCEPT ![w] = "register"] /\ ~WriteLocked /\ ~InChain(want[w])
      /\ UNCHANGED <<want, queue, builderVars>>
  BY DEF CheckUnknown
<1>2. /\ want \in [Waiters -> Hashes] /\ queue \in [Waiters -> Seq(Hashes)]
      /\ want[w] \in Hashes /\ queue[w] \in Seq(Hashes)
  BY DEF Inv, Types
<1>3. want' = [want EXCEPT ![w] = want[w]] /\ queue' = [queue EXCEPT ![w] = queue[w]]
  BY <1>1, <1>2, Unupdated
<1>4. want[w] \notin announced
  BY <1>1, AnnouncedIn
<1>5. UNCHANGED builderVars
  BY <1>1
<1> QED
  BY <1>1, <1>2, <1>3, <1>4, <1>5, WaiterInv

\* The waiter polls, for what was not announced before.
LEMMA RegisterInv ==
  ASSUME Inv, NEW w \in Waiters, Register(w)
  PROVE  Inv'
<1> USE DEF Register
<1>0. pc \in [Waiters -> {"idle", "start", "register", "polling"}]
  BY DEF Inv, Types
<1>1. Types'
  BY DEF Inv, Types, builderVars
<1>2. AnnouncedInChain' /\ OriginFits'
  BY DEF Inv, AnnouncedInChain, OriginFits, builderVars, InChain
<1>3. /\ \A v \in Waiters : v # w => pc'[v] = pc[v]
      /\ pc'[w] = "polling"
  BY <1>0
<1>4. NoneBetween'
  BY <1>3 DEF Inv, NoneBetween, WriteLocked, builderVars
<1>5. want[w] \notin announced
  BY DEF Inv, NoneBetween
<1>6. NoImportMissed'
  BY <1>3, <1>5 DEF Inv, NoImportMissed, Queued, builderVars
<1> QED
  BY <1>1, <1>2, <1>4, <1>6 DEF Inv

\* An event is taken: it was the one, or the one is still in the queue.
LEMMA ReceiveInv ==
  ASSUME Inv, NEW w \in Waiters, Receive(w)
  PROVE  Inv'
<1> DEFINE q == queue[w]
<1>0. /\ queue \in [Waiters -> Seq(Hashes)] /\ q \in Seq(Hashes) /\ q # << >>
      /\ want \in [Waiters -> Hashes] /\ want[w] \in Hashes
      /\ queue' = [queue EXCEPT ![w] = Tail(q)]
  BY DEF Inv, Types, Receive
<1>1. Tail(q) \in Seq(Hashes)
  BY <1>0
<1>2. CASE Head(q) = want[w]
  <2>1. pc' = [pc EXCEPT ![w] = "idle"] /\ UNCHANGED <<want, builderVars>>
    BY <1>2 DEF Receive, Return
  <2>2. want' = [want EXCEPT ![w] = want[w]]
    BY <1>0, <2>1, Unupdated
  <2>3. UNCHANGED builderVars
    BY <2>1
  <2> QED
    BY <1>0, <1>1, <2>1, <2>2, <2>3, WaiterInv
<1>3. CASE Head(q) # want[w]
  <2>1. UNCHANGED <<pc, want, builderVars>>
    BY <1>3 DEF Receive
  <2>2. Types'
    BY <1>0, <1>1, <2>1 DEF Inv, Types, builderVars
  <2>3. AnnouncedInChain' /\ OriginFits' /\ NoneBetween'
    BY <2>1 DEF Inv, AnnouncedInChain, OriginFits, NoneBetween, WriteLocked, builderVars, InChain
  <2>4. Queued(w, want[w]) => Queued(w, want[w])'
    <3> SUFFICES ASSUME NEW i \in 1..Len(q), q[i] = want[w]
                 PROVE  \E j \in 1..Len(Tail(q)) : Tail(q)[j] = want[w]
      BY <1>0, <2>1 DEF Queued
    <3>1. i # 1
      BY <1>0, <1>3
    <3>2. i - 1 \in 1..Len(Tail(q)) /\ Tail(q)[i - 1] = q[i]
      BY <1>0, <3>1
    <3> QED
      BY <3>2
  <2>5. \A v \in Waiters : v # w => queue'[v] = queue[v]
    BY <1>0
  <2>6. NoImportMissed'
    <3> SUFFICES ASSUME NEW v \in Waiters, pc[v] = "polling", want[v] \in announced
                 PROVE  Queued(v, want[v])' \/ (task = "committed" /\ block = want[v])
      BY <2>1 DEF NoImportMissed, builderVars, Queued
    <3>1. Queued(v, want[v]) \/ (task = "committed" /\ block = want[v])
      BY DEF Inv, NoImportMissed
    <3>2. Queued(v, want[v]) => Queued(v, want[v])'
      BY <2>1, <2>4, <2>5 DEF Queued
    <3> QED
      BY <3>1, <3>2
  <2> QED
    BY <2>2, <2>3, <2>6 DEF Inv
<1> QED
  BY <1>2, <1>3

\* Every step preserves the invariant.
LEMMA NextInv == Inv /\ [Next]_vars => Inv'
<1> SUFFICES ASSUME Inv, [Next]_vars PROVE Inv'
  OBVIOUS
<1>1. CASE UNCHANGED vars
  BY <1>1 DEF vars, builderVars, waiterVars, Inv, Types, AnnouncedInChain, NoneBetween,
              OriginFits, WriteLocked, InChain, NoImportMissed, Queued
<1>2. CASE Next
  BY <1>2, ImportLockInv, ImportCommitInv, ImportNotifyInv, MutateRevertInv,
     MutateCommitInv, MutateGenesisInv, MutateErrInv, CallInv, CheckFoundInv,
     CheckUnknownInv, RegisterInv, ReceiveInv DEF Next, Importing
<1> QED
  BY <1>1, <1>2

\* relay_chain.rs wait_for_block and check_block_in_chain: however many calls
\* wait while blocks are imported and mutated, no call that polls misses the
\* announcement of the block it waits for.
THEOREM NoCallMissesItsImport == Spec => []NoImportMissed
<1>1. Inv => NoImportMissed
  BY DEF Inv
<1> QED
  BY <1>1, InitInv, NextInv, PTL DEF Spec
=============================================================================
