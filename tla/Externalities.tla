--------------------------- MODULE Externalities ---------------------------
(***************************************************************************)
(* ExternalitiesProvider (core/src/provider/externalities.rs): runs a      *)
(* caller's closure with an overlay over one state of the chain.  The      *)
(* overlay is a stack of layers, the changes outside of any transaction at *)
(* the bottom and one layer for each storage transaction that is open.     *)
(* execute_with_mut opens a transaction, runs the closure, commits and     *)
(* drains the bottom layer as the changes to store.  A closure may use     *)
(* transactions of its own, close ones it did not open and panic.  A       *)
(* provider may run several closures; its backend stays the one it was     *)
(* created with.  Layers and what Ext does to them are Substrate's.        *)
(*                                                                         *)
(* A definition with an underscore in its name is a faulty variant of the  *)
(* one that follows it.                                                    *)
(***************************************************************************)
EXTENDS Integers, Sequences

CONSTANTS
  Keys,       \* storage keys
  Vals,       \* storage values
  MaxDepth,   \* bound: open transactions
  MaxOps,     \* bound: writes and transaction calls of a closure
  MaxRuns     \* bound: closures

ASSUME OverlayBoundsAssumption == {MaxDepth, MaxOps, MaxRuns} \subseteq Nat

Layers  == UNION { [D -> Vals] : D \in SUBSET Keys }
Empty   == [k \in {} |-> {}]
Modes   == {"idle", "execute_with", "execute_with_mut", "execute_with_safe"}
Results == {"None", "Ok", "StorageTransactionCommit", "ExternalitiesSetAndRun", "Panic"}

VARIABLES
  backend,  \* the state the provider was created with
  overlay,  \* the layers, bottom first
  mode,     \* the method whose closure is running
  outcome,   \* what the last method returned, or that it panicked
  stored,   \* the state the last storage changes describe, which is committed
  left,     \* history: transactions earlier closures left open
  net,      \* history: transactions the closure opened less those it closed
  ops,      \* writes and transaction calls of the closure that runs
  runs      \* closures so far

extVars == <<backend, overlay, mode, outcome, stored, left, net, ops, runs>>

\* Layer lower with the changes of upper on top.
Over(upper, lower) ==
  [k \in DOMAIN upper \cup DOMAIN lower |-> IF k \in DOMAIN upper THEN upper[k] ELSE lower[k]]

\* What a closure reads: the topmost layer that has the key, else the backend.
View(layers) ==
  LET upTo[i \in 0..Len(layers)] == IF i = 0 THEN backend ELSE Over(layers[i], upTo[i - 1])
  IN  upTo[Len(layers)]

Depth == Len(overlay) - 1

ExtInit ==
  /\ backend \in [Keys -> Vals]
  /\ overlay = <<Empty>>
  /\ mode = "idle"
  /\ outcome = "None"
  /\ stored = backend
  /\ left = 0
  /\ net = 0
  /\ ops = 0
  /\ runs = 0

-----------------------------------------------------------------------------
\* The layers, as Ext and OverlayedChanges change them.

Put(layers, k, v) == [layers EXCEPT ![Len(layers)] = Over([x \in {k} |-> v], @)]

Start(layers) == Append(layers, Empty)

CanClose(layers) == Len(layers) > 1

Rollback(layers) == SubSeq(layers, 1, Len(layers) - 1)

Commit(layers) ==
  LET n == Len(layers)
  IN  [Rollback(layers) EXCEPT ![n - 1] = Over(layers[n], @)]

-----------------------------------------------------------------------------
\* new: core::Builder makes a provider for each call, over the state of the
\* block the call is about.
New ==
  /\ mode = "idle"
  /\ outcome # "None"
  /\ backend' = stored
  /\ overlay' = <<Empty>>
  /\ outcome' = "None"
  /\ UNCHANGED <<mode, stored, left, net, ops, runs>>

\* execute_with and execute_with_safe, up to the closure.
ExecuteWith(method) ==
  /\ mode = "idle"
  /\ outcome # "Panic"
  /\ runs < MaxRuns
  /\ mode' = method
  /\ left' = Depth
  /\ net' = 0
  /\ ops' = 0
  /\ runs' = runs + 1
  /\ UNCHANGED <<backend, overlay, outcome, stored>>

\* execute_with_mut, up to the closure.
ExecuteWithMut ==
  /\ mode = "idle"
  /\ outcome # "Panic"
  /\ runs < MaxRuns
  /\ mode' = "execute_with_mut"
  /\ overlay' = Start(overlay)
  /\ left' = Depth
  /\ net' = 0
  /\ ops' = 0
  /\ runs' = runs + 1
  /\ UNCHANGED <<backend, outcome, stored>>

\* The closure writes.
ClosureWrite(k, v) ==
  /\ mode # "idle"
  /\ ops < MaxOps
  /\ overlay' = Put(overlay, k, v)
  /\ ops' = ops + 1
  /\ UNCHANGED <<backend, mode, outcome, stored, left, net, runs>>

\* The closure opens a transaction.
ClosureStart ==
  /\ mode # "idle"
  /\ ops < MaxOps
  /\ Depth < MaxDepth
  /\ overlay' = Start(overlay)
  /\ net' = net + 1
  /\ ops' = ops + 1
  /\ UNCHANGED <<backend, mode, outcome, stored, left, runs>>

\* The closure closes a transaction, which need not be one it opened.
ClosureClose ==
  /\ mode # "idle"
  /\ ops < MaxOps
  /\ CanClose(overlay)
  /\ overlay' \in {Commit(overlay), Rollback(overlay)}
  /\ net' = net - 1
  /\ ops' = ops + 1
  /\ UNCHANGED <<backend, mode, outcome, stored, left, runs>>

\* execute_with and execute_with_safe return what the closure returned.
ClosureReturns ==
  /\ mode \in {"execute_with", "execute_with_safe"}
  /\ mode' = "idle"
  /\ outcome' = "Ok"
  /\ UNCHANGED <<backend, overlay, stored, left, net, ops, runs>>

ClosureReturnsMut_RollsBack ==
  /\ mode = "execute_with_mut"
  /\ Len(overlay) = 2
  /\ stored' = Over(Rollback(overlay)[1], backend)
  /\ overlay' = <<Empty>>
  /\ outcome' = "Ok"
  /\ mode' = "idle"
  /\ UNCHANGED <<backend, left, net, ops, runs>>

\* execute_with_mut, after the closure: whatever the closure returned, its
\* writes are committed and drained.
ClosureReturnsMut ==
  /\ mode = "execute_with_mut"
  /\ Len(overlay) = 2
  /\ stored' = Over(Commit(overlay)[1], backend)
  /\ overlay' = <<Empty>>
  /\ outcome' = "Ok"
  /\ mode' = "idle"
  /\ UNCHANGED <<backend, left, net, ops, runs>>

\* execute_with_mut, after a closure that closed the transaction.
ClosureReturnsMutErr ==
  /\ mode = "execute_with_mut"
  /\ ~CanClose(overlay)
  /\ outcome' = "StorageTransactionCommit"
  /\ mode' = "idle"
  /\ UNCHANGED <<backend, overlay, stored, left, net, ops, runs>>

\* execute_with_mut, after a closure that left a transaction open: draining
\* asserts that there is none.
ClosureReturnsMutOpen ==
  /\ mode = "execute_with_mut"
  /\ Len(overlay) > 2
  /\ overlay' = Commit(overlay)
  /\ outcome' = "Panic"
  /\ mode' = "idle"
  /\ UNCHANGED <<backend, stored, left, net, ops, runs>>

\* The closure panics: execute_with_safe catches it, and the layers stay.
ClosurePanics ==
  /\ mode # "idle"
  /\ mode' = "idle"
  /\ outcome' = IF mode = "execute_with_safe" THEN "ExternalitiesSetAndRun" ELSE "Panic"
  /\ UNCHANGED <<backend, overlay, stored, left, net, ops, runs>>

ExtNext ==
  \/ New
  \/ \E method \in {"execute_with", "execute_with_safe"} : ExecuteWith(method)
  \/ ExecuteWithMut
  \/ \E k \in Keys, v \in Vals : ClosureWrite(k, v)
  \/ ClosureStart
  \/ ClosureClose
  \/ ClosureReturns
  \/ ClosureReturnsMut
  \/ ClosureReturnsMutErr
  \/ ClosureReturnsMutOpen
  \/ ClosurePanics

ExtSpec == ExtInit /\ [][ExtNext]_extVars

-----------------------------------------------------------------------------
\* Type invariant; there is always a bottom layer.
ExtTypeOK ==
  /\ {backend, stored} \subseteq [Keys -> Vals]
  /\ overlay \in Seq(Layers) \ {<< >>}
  /\ mode \in Modes
  /\ outcome \in Results
  /\ {left, ops, runs} \subseteq Nat
  /\ net \in Int

\* execute_with_mut returning Ok: the closure left transactions as they were,
\* and what is stored is what it read at its end, through all of its own
\* committed and rolled back transactions and what earlier closures left in the
\* overlay.  StorageTransactionCommit means that more transactions were closed
\* than opened, counting those that a closure that panicked in execute_with_safe
\* left open.  Nothing is stored unless execute_with_mut returns Ok.
ClosureOutcome ==
  [][ mode # "idle" /\ mode' = "idle" =>
        IF mode = "execute_with_mut" /\ outcome' = "Ok"
        THEN left + net = 0 /\ stored' = View(overlay)
        ELSE /\ stored' = stored
             /\ outcome' = "StorageTransactionCommit" => left + net < 0 ]_extVars
=============================================================================
