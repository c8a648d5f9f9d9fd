---------------------------- MODULE WaitForBlock ----------------------------
(***************************************************************************)
(* FudgeRelayChainProcessInterface::wait_for_block (relay_chain.rs) as     *)
(* waiters call it, each in a task of its own, while the thread that owns  *)
(* the RelaychainBuilder imports and mutates blocks of the same client and *)
(* backend.                                                                *)
(*                                                                         *)
(* External, from the Substrate client: an import holds the import lock    *)
(* from before the commit until the listeners have been told; listeners    *)
(* are told of an import unless its origin is NetworkInitialSync; status   *)
(* may still find the header of a reverted block in a cache.  A mutation   *)
(* goes to the backend directly, so it takes no lock and tells nobody.     *)
(* ImportListenerClosed cannot happen: the interface owns the client.      *)
(***************************************************************************)
EXTENDS Integers, Sequences

CONSTANTS
  Waiters,   \* the calls of wait_for_block that may be under way at once
  Hashes,    \* block hashes
  Genesis,   \* the hash of the genesis block
  Origins,   \* BlockOrigin of the imports that are made
  Announced  \* the origins of which the client tells its listeners

ASSUME GenesisAssumption == Genesis \in Hashes
ASSUME AnnouncedAssumption == Announced \subseteq Origins

VARIABLES
  chain,      \* the canonical chain, as hashes
  reverted,   \* hashes that were in the chain and are not any more
  task,       \* where the owner of the builder is
  block,      \* the block it imports or mutates
  origin,     \* the origin of its import
  pc,         \* where each waiter is
  want,       \* the hash it waits for
  queue,      \* what its import notification listener has not returned yet
  result,     \* what its last call returned
  imported,   \* history: blocks of the chain that came by an import
  announced   \* history: those of them whose import was announced

builderVars == <<chain, reverted, task, block, origin, imported, announced>>
waiterVars  == <<pc, want, queue, result>>
vars        == <<builderVars, waiterVars>>

Init ==
  /\ chain = <<Genesis>>
  /\ reverted = {}
  /\ task = "idle"
  /\ block = Genesis
  /\ origin \in Origins
  /\ pc = [w \in Waiters |-> "idle"]
  /\ want = [w \in Waiters |-> Genesis]
  /\ queue = [w \in Waiters |-> << >>]
  /\ result = [w \in Waiters |-> "none"]
  /\ imported = {}
  /\ announced = {}

InChain(h) == \E i \in 1..Len(chain) : chain[i] = h

Unused(h) == ~InChain(h) /\ h \notin reverted

\* The import lock: an import writes, check_block_in_chain reads.
WriteLocked == task \in {"locked", "committed"}
ReadLocked  == \E w \in Waiters : pc[w] = "register"

-----------------------------------------------------------------------------
\* client.import_block: the lock, the commit and the notification.
ImportLock(h, o) ==
  /\ task = "idle"
  /\ ~ReadLocked
  /\ Unused(h)
  /\ task' = "locked"
  /\ block' = h
  /\ origin' = o
  /\ UNCHANGED <<chain, reverted, imported, announced, waiterVars>>

ImportCommit ==
  /\ task = "locked"
  /\ task' = "committed"
  /\ chain' = Append(chain, block)
  /\ imported' = imported \cup {block}
  /\ announced' = IF origin \in Announced THEN announced \cup {block} ELSE announced
  /\ UNCHANGED <<reverted, block, origin, waiterVars>>

ImportNotify ==
  /\ task = "committed"
  /\ task' = "idle"
  /\ queue' = [w \in Waiters |->
                 IF pc[w] = "polling" /\ origin \in Announced
                 THEN Append(queue[w], block) ELSE queue[w]]
  /\ UNCHANGED <<chain, reverted, block, origin, imported, announced, pc, want, result>>

\* with_mut_state: the latest block is reverted first ...
MutateRevert ==
  /\ task = "idle"
  /\ Len(chain) > 1
  /\ task' = "reverted"
  /\ block' = chain[Len(chain)]
  /\ chain' = SubSeq(chain, 1, Len(chain) - 1)
  /\ reverted' = reverted \cup {chain[Len(chain)]}
  /\ imported' = imported \ {chain[Len(chain)]}
  /\ announced' = announced \ {chain[Len(chain)]}
  /\ UNCHANGED <<origin, waiterVars>>

\* ... and set again, under the same hash if nothing was written.
MutateCommit(h) ==
  /\ task = "reverted"
  /\ h = block \/ Unused(h)
  /\ task' = "idle"
  /\ chain' = Append(chain, h)
  /\ reverted' = reverted \ {h}
  /\ UNCHANGED <<block, origin, imported, announced, waiterVars>>

\* The genesis block is replaced without a revert.
MutateGenesis(h) ==
  /\ task = "idle"
  /\ Len(chain) = 1
  /\ Unused(h)
  /\ chain' = <<h>>
  /\ reverted' = reverted \cup {chain[1]}
  /\ UNCHANGED <<task, block, origin, imported, announced, waiterVars>>

\* An Err in between: the block is gone.
MutateErr ==
  /\ task = "reverted"
  /\ task' = "idle"
  /\ UNCHANGED <<chain, reverted, block, origin, imported, announced, waiterVars>>

-----------------------------------------------------------------------------
Call(w, h) ==
  /\ pc[w] = "idle"
  /\ pc' = [pc EXCEPT ![w] = "start"]
  /\ want' = [want EXCEPT ![w] = h]
  /\ result' = [result EXCEPT ![w] = "none"]
  /\ queue' = [queue EXCEPT ![w] = << >>]
  /\ UNCHANGED builderVars

Return(w, r) ==
  /\ pc' = [pc EXCEPT ![w] = "idle"]
  /\ result' = [result EXCEPT ![w] = r]
  /\ UNCHANGED <<want, builderVars>>

\* check_block_in_chain under the read lock, when status is InChain.
CheckFound(w) ==
  /\ pc[w] = "start"
  /\ ~WriteLocked
  /\ InChain(want[w]) \/ want[w] \in reverted
  /\ Return(w, "Ok")
  /\ UNCHANGED queue

CheckUnknown_NoLock(w) ==
  /\ pc[w] = "start"
  /\ ~InChain(want[w])
  /\ pc' = [pc EXCEPT ![w] = "register"]
  /\ UNCHANGED <<want, queue, result, builderVars>>

\* check_block_in_chain, when status is Unknown: the read lock is kept ...
CheckUnknown(w) ==
  /\ pc[w] = "start"
  /\ ~WriteLocked
  /\ ~InChain(want[w])
  /\ pc' = [pc EXCEPT ![w] = "register"]
  /\ UNCHANGED <<want, queue, result, builderVars>>

\* ... until import_notification_stream has returned a listener.
Register(w) ==
  /\ pc[w] = "register"
  /\ pc' = [pc EXCEPT ![w] = "polling"]
  /\ UNCHANGED <<want, queue, result, builderVars>>

Receive_NoContinue(w) ==
  /\ pc[w] = "polling"
  /\ queue[w] # << >>
  /\ Head(queue[w]) = want[w]
  /\ queue' = [queue EXCEPT ![w] = Tail(@)]
  /\ Return(w, "Ok")

\* One turn of the select! loop in which the listener has an event.
Receive(w) ==
  /\ pc[w] = "polling"
  /\ queue[w] # << >>
  /\ queue' = [queue EXCEPT ![w] = Tail(@)]
  /\ IF Head(queue[w]) = want[w]
     THEN Return(w, "Ok")
     ELSE UNCHANGED <<pc, want, result, builderVars>>

\* One turn in which the timer fired, an event at the same time or not.
Timeout(w) ==
  /\ pc[w] = "polling"
  /\ Return(w, "WaitTimeout")
  /\ UNCHANGED queue

Importing == ImportCommit \/ ImportNotify

Next ==
  \/ \E h \in Hashes, o \in Origins : ImportLock(h, o)
  \/ Importing
  \/ MutateRevert
  \/ \E h \in Hashes : MutateCommit(h) \/ MutateGenesis(h)
  \/ MutateErr
  \/ \E w \in Waiters :
       \/ \E h \in Hashes : Call(w, h)
       \/ CheckFound(w)
       \/ CheckUnknown(w)
       \/ Register(w)
       \/ Receive(w)
       \/ Timeout(w)

\* An import that began goes on, and a listener that has an event is polled.
\* Nothing is assumed about the timer.
Spec ==
  /\ Init /\ [][Next]_vars
  /\ WF_vars(Importing)
  /\ \A w \in Waiters : WF_vars(Receive(w))

-----------------------------------------------------------------------------
\* The listener of waiter w will return h.
Queued(w, h) == \E i \in 1..Len(queue[w]) : queue[w][i] = h

\* check_block_in_chain registers the listener under the lock under which it
\* looked: no announced import falls between the two, so a waiter that polls
\* for a block which came by such an import has its event, or is about to.
NoImportMissed ==
  \A w \in Waiters :
    pc[w] = "polling" /\ want[w] \in announced =>
      Queued(w, want[w]) \/ (task = "committed" /\ block = want[w])

\* The events of other blocks do not stop the loop: once the block that a
\* waiter polls for has come by an announced import, the call returns, even if
\* the timer never fires.
AnnouncedIsHeard ==
  \A w \in Waiters, h \in Hashes :
    pc[w] = "polling" /\ want[w] = h /\ h \in announced ~> pc[w] # "polling" \/ want[w] # h

\* relay_chain.rs:1262: the listener is polled "until the block is imported or
\* the timeout is fired".  So when the timeout fires, the block was not imported,
\* or its event came at the same time.
TimeoutMeansNotImported ==
  [][ \A w \in Waiters :
        pc[w] = "polling" /\ result'[w] = "WaitTimeout" =>
          want[w] \notin imported \/ Queued(w, want[w]) \/ WriteLocked ]_vars
=============================================================================
