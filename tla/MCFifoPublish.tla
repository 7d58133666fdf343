--------------------------- MODULE MCFifoPublish ----------------------------
(***************************************************************************)
(* On SQLite: a group with two identifiers, with three messages, with a   *)
(* topic that is deleted and created again, or in batches; and two groups  *)
(* with messages whose content is their identifier, and one that           *)
(* resolveProtocolMessages refuses, on a topic whose attributes change.    *)
(* In memory: the latter with one group, a topic that is created again     *)
(* after a crash, and one whose records expire.                            *)
(***************************************************************************)
EXTENDS FifoPublish, TLC

CONSTANTS g1, g2, d1, d2, m1

Input(group, dedup, wellFormed) ==
  [MessageGroupID |-> group, MessageDeduplicationID |-> dedup, Message |-> m1,
   wellFormed |-> wellFormed]
Attributes(contentBased, scope) ==
  [ContentBasedDeduplication |-> contentBased, FifoThroughputScope |-> scope]

Crowded ==
  [store |-> "sqlite", attributes |-> {Attributes(FALSE, "Topic")},
   inputs |-> {Input(g1, d1, TRUE), Input(g1, d2, TRUE)},
   batches |-> {}, messages |-> 3, topics |-> 1, clock |-> 2, changes |-> 0]
Recreated == [Crowded EXCEPT !.messages = 2, !.topics = 2, !.clock = 3]
Changing ==
  [store |-> "sqlite", attributes |-> {Attributes(TRUE, "Topic")},
   inputs |-> {Input(g1, NoID, TRUE), Input(g2, NoID, TRUE), Input(g1, d1, FALSE)},
   batches |-> {}, messages |-> 2, topics |-> 1, clock |-> 3, changes |-> 1]
Overwritten ==
  [Changing EXCEPT !.store = "memory", !.clock = 1,
                   !.inputs = {Input(g1, NoID, TRUE), Input(g1, d1, FALSE)}]
Restarted ==
  [Recreated EXCEPT !.store = "memory", !.inputs = {Input(g1, d1, TRUE)}, !.clock = 2]
Expiring == [Restarted EXCEPT !.topics = 1, !.clock = 3]

\* A batch whose first entry has no identifier, and one in order.
Batched ==
  [Crowded EXCEPT !.inputs = @ \cup {Input(g1, NoID, TRUE)}, !.clock = 1,
     !.batches = {<<Input(g1, d1, TRUE), Input(g1, d2, TRUE)>>,
                  <<Input(g1, NoID, TRUE), Input(g1, d1, TRUE)>>}]

AllCases == {Crowded, Recreated, Changing, Overwritten, Restarted, Expiring, Batched}
Publishers == Permutations(Publisher)
=============================================================================
