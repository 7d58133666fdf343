---------------------------- MODULE MemoryStore -----------------------------
(***************************************************************************)
(* internal/store/memory: Store.Tx clones the state under the read lock,   *)
(* runs the callback on the clone without any lock, and then replaces the  *)
(* state under the write lock, whatever happened to it in the meantime.    *)
(* DeleteDeliveryJob changes the live state in place.  A client is a       *)
(* goroutine (an API request or the delivery worker).                      *)
(***************************************************************************)
EXTENDS StoreTransactions

CONSTANT Client

VARIABLES
  state,    \* Store.state
  phase,    \* phase[c]: "idle", or "running" between the clone and the end
  working,  \* working[c]: the clone the callback of c works on
  todo      \* todo[c]: the operations the callback of c has not yet done

vars == <<state, phase, working, todo>>

Init ==
  /\ state = EmptyState
  /\ phase = [c \in Client |-> "idle"]
  /\ working = [c \in Client |-> EmptyState]
  /\ todo = [c \in Client |-> <<>>]

\* Tx returns: the goroutine no longer holds the clone.
Finish(c) ==
  /\ phase' = [phase EXCEPT ![c] = "idle"]
  /\ working' = [working EXCEPT ![c] = EmptyState]
  /\ todo' = [todo EXCEPT ![c] = <<>>]

\* cloneState under the read lock.
Begin(c, ops) ==
  /\ phase[c] = "idle"
  /\ phase' = [phase EXCEPT ![c] = "running"]
  /\ working' = [working EXCEPT ![c] = state]
  /\ todo' = [todo EXCEPT ![c] = ops]
  /\ UNCHANGED state

\* The callback performs its next operation on the clone.
RunOp(c) ==
  /\ phase[c] = "running"
  /\ todo[c] # <<>>
  /\ ~OpFails(working[c], Head(todo[c]))
  /\ working' = [working EXCEPT ![c] = ApplyOp(working[c], Head(todo[c]))]
  /\ todo' = [todo EXCEPT ![c] = Tail(todo[c])]
  /\ UNCHANGED <<state, phase>>

\* The callback returns an error: an operation failed, or the function
\* given to an Update operation refused the change.
Rollback(c) ==
  /\ phase[c] = "running"
  /\ todo[c] # <<>>
  /\ \/ OpFails(working[c], Head(todo[c]))
     \/ Head(todo[c]).op \in {"UpdateTopic", "UpdateSubscription"}
  /\ Finish(c)
  /\ UNCHANGED state

\* Mutant: what a callback has done is installed even if it fails later.
CommitEarly(c) ==
  /\ phase[c] = "running"
  /\ state' = working[c]
  /\ Finish(c)

Commit(c) ==
  /\ phase[c] = "running"
  /\ todo[c] = <<>>
  /\ state' = working[c]
  /\ Finish(c)

DeleteJobInPlace(id) ==
  /\ HasDeliveryJob(state, id)
  /\ state' = DeleteDeliveryJob(state, id)
  /\ UNCHANGED <<phase, working, todo>>

Next ==
  \/ \E c \in Client :
       \/ \E ops \in Transactions : Begin(c, ops)
       \/ RunOp(c)
       \/ Rollback(c)
       \/ Commit(c)
  \/ \E id \in JobID : DeleteJobInPlace(id)

Spec == Init /\ [][Next]_vars
-----------------------------------------------------------------------------
\* The committed state and every clone are well typed, and what a callback
\* still has to do is a sequence of store.Tx operations.
TypeOK ==
  /\ state \in StateType
  /\ phase \in [Client -> {"idle", "running"}]
  /\ working \in [Client -> StateType]
  /\ todo \in [Client -> Seq(Operation)]

\* However transactions overlap, and whoever's changes are lost, the name
\* index and the per-topic index agree with the tables, in the committed
\* state and in every clone: findTopicByName, listSubscriptionsByTopic and
\* tx.CreateTopic never dereference a missing record.
NoDanglingIndex ==
  /\ IndexesAgree(state)
  /\ \A c \in Client : IndexesAgree(working[c])

\* What client c's transaction installs if it is let run to its end.
PendingResult(c) ==
  IF phase[c] = "idle" THEN NoState ELSE Outcome(working[c], todo[c])

Snapshot ==
  INSTANCE SnapshotStore WITH result <- [c \in Client |-> PendingResult(c)]

\* Store.Tx is all or nothing and isolated: a committed transaction installs
\* the result of its whole callback on the state it cloned, and a failed one
\* leaves no trace.
AllOrNothing == Snapshot!Spec
=============================================================================
