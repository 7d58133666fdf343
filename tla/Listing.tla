------------------------------ MODULE Listing -------------------------------
(***************************************************************************)
(* ListTopics, ListSubscriptions and ListSubscriptionsByTopic: a client    *)
(* walks a table page by page while other requests insert and delete.  A   *)
(* page token is an offset into the table, sorted by ARN anew for every    *)
(* page.  The three operations and both stores page alike, up to the       *)
(* coding of the token and what SQLite answers when its query fails.       *)
(***************************************************************************)
EXTENDS Integers, FiniteSets

CONSTANTS
  Arn,               \* ARNs, as integers in the order of the sorting
  StoreKinds,        \* the stores the service is run with
  ConfiguredSizes,   \* values of SNS_PAGE_SIZE; what is no number reads as 0
  DefaultSize,       \* 100 in the code
  NoToken, BadToken, \* no NextToken; a NextToken the store cannot decode
  MaxInserted, MaxDeleted   \* bounds of the model

ASSUME ArnAssumption == Arn \subseteq Int
ASSUME KindsAssumption == StoreKinds \subseteq {"memory", "sqlite"}
ASSUME SizesAssumption == ConfiguredSizes \subseteq Int /\ DefaultSize \in Nat \ {0}
ASSUME TokenAssumption ==
  {NoToken, BadToken} \cap [coding : {"memory", "sqlite"}, offset : Nat] = {}

VARIABLES
  store,     \* "memory" or "sqlite"
  size,      \* Config.PageSize
  stored,    \* the ARNs in the table
  walk,      \* the client: "idle", "walking" or "done", its token, what it got
  inserted, deleted,   \* insertions and deletions so far, bounded
  survivors, \* history: ARNs that were in the table ever since the walk began
  behind,    \* history: insertions and deletions before the offset of the walk
  failed     \* history: a query of the walk failed

vars == <<store, size, stored, walk, inserted, deleted, survivors, behind, failed>>

-----------------------------------------------------------------------------
pageSize == IF size <= 0 THEN DefaultSize ELSE size

\* Base64 of the decimals in memory, the decimals in SQLite.
encodePageToken(i) == [coding |-> store, offset |-> i]
\* What is not a token of this store starts from the beginning.
decodePageToken(token) ==
  IF token \notin {NoToken, BadToken} /\ token.coding = store THEN token.offset ELSE 0

\* Position in ORDER BY arn, from 0.
Position(arn) == Cardinality({ a \in stored : a < arn })
Slice(from, to) == { a \in stored : from <= Position(a) /\ Position(a) < to }

\* The slice keys[start:end] of the sorted keys.
listMemory(token) ==
  LET start == decodePageToken(token)
      end == start + pageSize
      count == Cardinality(stored)
  IN
  [items |-> Slice(start, end), token |-> IF end < count THEN encodePageToken(end) ELSE NoToken]

\* Mutant: the entry read to find out whether there is more is skipped.
listSqliteSkips(token) ==
  LET offset == decodePageToken(token)
      rows == Slice(offset, offset + pageSize + 1)
      more == Cardinality(rows) > pageSize
  IN
  [items |-> Slice(offset, offset + pageSize),
   token |-> IF more THEN encodePageToken(offset + pageSize + 1) ELSE NoToken]
\* LIMIT pageSize+1 OFFSET offset, cut to pageSize.
listSqlite(token) ==
  LET offset == decodePageToken(token)
      rows == Slice(offset, offset + pageSize + 1)
      more == Cardinality(rows) > pageSize
  IN
  [items |-> IF more THEN Slice(offset, offset + pageSize) ELSE rows,
   token |-> IF more THEN encodePageToken(offset + pageSize) ELSE NoToken]

list(token) == IF store = "memory" THEN listMemory(token) ELSE listSqlite(token)

-----------------------------------------------------------------------------
Nothing == [a \in Arn |-> 0]
NotBehind == [inserted |-> 0, deleted |-> 0]

Init ==
  /\ store \in StoreKinds /\ size \in ConfiguredSizes
  /\ stored \in SUBSET Arn /\ IsFiniteSet(stored)
  /\ walk = [pc |-> "idle", token |-> NoToken, got |-> Nothing]
  /\ inserted = 0 /\ deleted = 0
  /\ survivors = {} /\ behind = NotBehind /\ failed = FALSE

\* The client starts over, with no token or one that means nothing.
BeginWalk(token) ==
  /\ walk.pc # "walking"
  /\ walk' = [pc |-> "walking", token |-> token, got |-> Nothing]
  /\ survivors' = stored /\ behind' = NotBehind /\ failed' = FALSE
  /\ UNCHANGED <<store, size, stored, inserted, deleted>>

\* One request; the answer without a token is the last.
NextPage ==
  /\ walk.pc = "walking"
  /\ LET page == list(walk.token) IN
     walk' = [pc |-> IF page.token = NoToken THEN "done" ELSE "walking",
              token |-> page.token,
              got |-> [a \in Arn |-> walk.got[a] + (IF a \in page.items THEN 1 ELSE 0)]]
  /\ UNCHANGED <<store, size, stored, inserted, deleted, survivors, behind, failed>>

\* The store drops the error of the query: an empty last page.
FailPage ==
  /\ store = "sqlite"
  /\ walk.pc = "walking"
  /\ walk' = [walk EXCEPT !.pc = "done", !.token = NoToken]
  /\ failed' = TRUE
  /\ UNCHANGED <<store, size, stored, inserted, deleted, survivors, behind>>

IsBehind(arn) == walk.pc = "walking" /\ Position(arn) < decodePageToken(walk.token)

\* CreateTopic or Subscribe.
Insert(arn) ==
  /\ arn \notin stored
  /\ inserted < MaxInserted
  /\ stored' = stored \cup {arn}
  /\ inserted' = inserted + 1
  /\ behind' = [behind EXCEPT !.inserted = @ + (IF IsBehind(arn) THEN 1 ELSE 0)]
  /\ UNCHANGED <<store, size, walk, deleted, survivors, failed>>

\* DeleteTopic, with all its subscriptions, or Unsubscribe.
Delete(gone) ==
  /\ gone # {} /\ gone \subseteq stored
  /\ deleted + Cardinality(gone) <= MaxDeleted
  /\ stored' = stored \ gone
  /\ survivors' = survivors \ gone
  /\ deleted' = deleted + Cardinality(gone)
  /\ behind' = [behind EXCEPT !.deleted = @ + Cardinality({ a \in gone : IsBehind(a) })]
  /\ UNCHANGED <<store, size, walk, inserted, failed>>

Next ==
  \/ \E token \in {NoToken, BadToken} : BeginWalk(token)
  \/ NextPage \/ FailPage
  \/ (\E arn \in Arn : Insert(arn)) \/ (\E gone \in SUBSET stored : Delete(gone))

Spec == Init /\ [][Next]_vars

-----------------------------------------------------------------------------
\* Shifts of the offset (decodePageToken) are all that goes wrong with a walk.
\* One that has come to its end leaves out an entry that was there all the
\* time only for a deletion behind its offset, one entry for each; it returns
\* such an entry again only for an insertion behind it.  Changes ahead of the
\* offset cost nothing.  (A failing query ends the walk early, and the client
\* is not told.)
ShiftsBounded ==
  /\ walk.pc = "done" /\ ~failed =>
       Cardinality({ a \in survivors : walk.got[a] = 0 }) <= behind.deleted
  /\ Cardinality({ a \in survivors : walk.got[a] > 1 }) <= behind.inserted
=============================================================================
