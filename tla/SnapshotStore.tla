--------------------------- MODULE SnapshotStore ----------------------------
(***************************************************************************)
(* What the in-memory Store.Tx promises, and no more: the whole callback   *)
(* runs at one instant against the state at that instant; later its result *)
(* replaces the state in one step, or the transaction leaves no trace.     *)
(* Nothing is promised about what other transactions did in between: an    *)
(* installed result may undo them.                                         *)
(***************************************************************************)
EXTENDS StoreTransactions

CONSTANT Client

VARIABLES state,    \* the committed state
          result    \* result[c]: computed and not yet installed by client c

vars == <<state, result>>

Init == state = EmptyState /\ result = [c \in Client |-> NoState]

Compute(c) ==
  /\ result[c] = NoState
  /\ UNCHANGED state
  /\ \E r \in {Outcome(state, ops) : ops \in Transactions} :
        result' = [result EXCEPT ![c] = r]

Install(c) ==
  /\ result[c] # NoState
  /\ state' = result[c]
  /\ result' = [result EXCEPT ![c] = NoState]

Discard(c) ==
  /\ result' = [result EXCEPT ![c] = NoState]
  /\ UNCHANGED state

\* The one operation that works on the committed state in place.
RemoveJob(id) ==
  /\ state' = DeleteDeliveryJob(state, id)
  /\ UNCHANGED result

Next ==
  \/ \E c \in Client : Compute(c) \/ Install(c) \/ Discard(c)
  \/ \E id \in JobID : RemoveJob(id)

Spec == Init /\ [][Next]_vars
=============================================================================
