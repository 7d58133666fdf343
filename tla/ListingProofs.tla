---------------------------- MODULE ListingProofs ---------------------------
(***************************************************************************)
(* Page by page through a table that changes, for any table, any page size *)
(* and any number of insertions and deletions.                             *)
(*                                                                         *)
(* The inductive invariant counts, while the walk is under way, the        *)
(* entries before its offset it has not returned (at most one for each     *)
(* deletion behind it) and those it has returned that lie at or after the  *)
(* offset again, or were returned again (at most one for each insertion).  *)
(***************************************************************************)
EXTENDS Listing, FiniteSetTheorems, FunctionTheorems, WellFoundedInduction, TLAPS

Below(S, a) == { b \in S : b < a }
Pos(S, a) == Cardinality(Below(S, a))
\* The first n entries of a table.
Front(S, n) == { a \in S : Pos(S, a) < n }

-----------------------------------------------------------------------------
(***************************************************************************)
(* Positions in a sorted table.                                            *)
(***************************************************************************)
\* A position is a number.
LEMMA PosType ==
  ASSUME NEW S \in SUBSET Int, IsFiniteSet(S), NEW a \in Int
  PROVE  IsFiniteSet(Below(S, a)) /\ Pos(S, a) \in Nat /\ Pos(S, a) <= Cardinality(S)
<1>1. Below(S, a) \in SUBSET S
  BY DEF Below
<1>2. IsFiniteSet(Below(S, a)) /\ Cardinality(Below(S, a)) <= Cardinality(S)
  BY <1>1, FS_Subset
<1>3. QED
  BY <1>2, FS_CardinalityType DEF Pos

\* Positions grow with the entries.
LEMMA PosMonotone ==
  ASSUME NEW S \in SUBSET Int, IsFiniteSet(S), NEW a \in S, NEW b \in Int, a < b
  PROVE  Pos(S, a) < Pos(S, b)
<1>1. Below(S, a) \in SUBSET Below(S, b) /\ a \in Below(S, b) /\ a \notin Below(S, a)
  <2>1. a \in Int
    OBVIOUS
  <2>2. ASSUME NEW c \in S, c < a PROVE c < b
    <3>1. c \in Int
      OBVIOUS
    <3>2. QED
      BY <2>1, <2>2, <3>1
  <2>3. ~(a < a)
    BY <2>1
  <2>4. QED
    BY <2>2, <2>3 DEF Below
<1>2. IsFiniteSet(Below(S, b)) /\ Pos(S, a) \in Nat /\ Pos(S, b) \in Nat
  BY PosType
<1>3. /\ Cardinality(Below(S, a)) <= Cardinality(Below(S, b))
      /\ Cardinality(Below(S, b)) # Cardinality(Below(S, a))
  BY <1>1, <1>2, FS_Subset
<1>4. QED
  BY <1>2, <1>3 DEF Pos

\* The last position is before the end.
LEMMA PosBeforeEnd ==
  ASSUME NEW S \in SUBSET Int, IsFiniteSet(S), NEW a \in S
  PROVE  Pos(S, a) < Cardinality(S)
<1>1. Below(S, a) \in SUBSET S /\ Below(S, a) # S
  BY DEF Below
<1>2. /\ Cardinality(Below(S, a)) <= Cardinality(S)
      /\ Cardinality(S) # Cardinality(Below(S, a))
  BY <1>1, FS_Subset
<1>3. Pos(S, a) \in Nat /\ Cardinality(S) \in Nat
  BY PosType, FS_CardinalityType
<1>4. QED
  BY <1>2, <1>3 DEF Pos

\* No two entries have one position.
LEMMA FrontAtMost ==
  ASSUME NEW S \in SUBSET Int, IsFiniteSet(S), NEW n \in Nat
  PROVE  /\ Front(S, n) \in SUBSET S /\ IsFiniteSet(Front(S, n))
         /\ Cardinality(Front(S, n)) \in Nat /\ Cardinality(Front(S, n)) <= n
<1>1. Front(S, n) \in SUBSET S
  BY DEF Front
<1>2. IsFiniteSet(Front(S, n)) /\ Cardinality(Front(S, n)) \in Nat
  BY <1>1, FS_Subset, FS_CardinalityType
<1> DEFINE f == [a \in Front(S, n) |-> Pos(S, a)]
<1>3. f \in [Front(S, n) -> 0..(n - 1)]
  <2>1. ASSUME NEW a \in Front(S, n)
        PROVE  Pos(S, a) \in 0..(n - 1)
    <3>1. a \in S /\ a \in Int /\ Pos(S, a) < n
      BY DEF Front
    <3>2. Pos(S, a) \in Nat
      BY <3>1, PosType
    <3>3. QED
      BY <3>1, <3>2
  <2>2. QED
    BY <2>1
<1>4. \A a, b \in Front(S, n) : f[a] = f[b] => a = b
  <2> SUFFICES ASSUME NEW a \in Front(S, n), NEW b \in Front(S, n), a # b
               PROVE  Pos(S, a) # Pos(S, b)
    OBVIOUS
  <2>1. a \in S /\ b \in S /\ a \in Int /\ b \in Int
    BY <1>1
  <2>2. Pos(S, a) \in Nat /\ Pos(S, b) \in Nat
    BY <2>1, PosType
  <2>3. a < b \/ b < a
    BY <2>1
  <2>4. Pos(S, a) < Pos(S, b) \/ Pos(S, b) < Pos(S, a)
    BY <2>1, <2>3, PosMonotone
  <2>5. QED
    BY <2>2, <2>4
<1>5. f \in Injection(Front(S, n), 0..(n - 1))
  BY <1>3, <1>4 DEF Injection, IsInjective
<1>6. IsFiniteSet(0..(n - 1)) /\ Cardinality(0..(n - 1)) = n
  <2>1. 0 \in Int /\ n - 1 \in Int
    OBVIOUS
  <2>2. /\ IsFiniteSet(0..(n - 1))
        /\ Cardinality(0..(n - 1)) = IF 0 > n - 1 THEN 0 ELSE (n - 1) - 0 + 1
    BY <2>1, FS_Interval
  <2>3. QED
    BY <2>2
<1>7. Cardinality(Front(S, n)) <= Cardinality(0..(n - 1))
  BY <1>5, <1>6, FS_Injection
<1>8. QED
  BY <1>1, <1>2, <1>6, <1>7

\* If any entry is at position n or later, n are before that position.
LEMMA FrontFull ==
  ASSUME NEW S \in SUBSET Int, IsFiniteSet(S), NEW n \in Nat,
         NEW a \in S, Pos(S, a) >= n
  PROVE  Cardinality(Front(S, n)) = n
<1> DEFINE T == { m \in Nat : m >= n /\ \E b \in S : Pos(S, b) = m }
<1>1. T # {} /\ T \in SUBSET Nat
  BY PosType
<1>2. PICK m \in T : \A y \in T : <<y, m>> \notin OpToRel(<, Nat)
  BY <1>1, NatLessThanWellFounded, WFMin
<1>3. OpToRel(<, Nat) = {ss \in Nat \X Nat : ss[1] < ss[2]}
  BY DEF OpToRel
<1>4. m \in Nat /\ m >= n /\ \A y \in T : ~(y < m)
  BY <1>2, <1>3
<1>5. PICK b \in S : Pos(S, b) = m
  BY <1>2
<1>6. Below(S, b) \in SUBSET Front(S, n)
  <2> SUFFICES ASSUME NEW c \in Below(S, b) PROVE c \in Front(S, n)
    OBVIOUS
  <2>1. c \in S /\ c < b /\ c \in Int /\ b \in Int
    BY DEF Below
  <2>2. Pos(S, c) < m /\ Pos(S, c) \in Nat
    BY <1>5, <2>1, PosMonotone, PosType
  <2>3. Pos(S, c) \notin T
    BY <1>4, <2>2
  <2>4. Pos(S, c) < n
    BY <2>1, <2>2, <2>3
  <2>5. QED
    BY <2>1, <2>4 DEF Front
<1>7. /\ IsFiniteSet(Front(S, n)) /\ Cardinality(Front(S, n)) \in Nat
      /\ Cardinality(Front(S, n)) <= n
  BY FrontAtMost
<1>8. m <= Cardinality(Front(S, n))
  BY <1>5, <1>6, <1>7, FS_Subset DEF Pos
<1> HIDE DEF T
<1>9. QED
  BY <1>4, <1>7, <1>8

-----------------------------------------------------------------------------
(***************************************************************************)
(* Changes of the table.                                                   *)
(***************************************************************************)
\* An insertion before the offset moves one entry over it.
LEMMA InsertMovesOne ==
  ASSUME NEW S \in SUBSET Int, IsFiniteSet(S), NEW x \in Int, x \notin S, NEW n \in Nat,
         NEW a \in Front(S, n), NEW b \in Front(S, n),
         ~(Pos(S \cup {x}, a) < n), ~(Pos(S \cup {x}, b) < n)
  PROVE  a = b /\ Pos(S, x) < n
<1> DEFINE R == S \cup {x}
<1>1. R \in SUBSET Int /\ IsFiniteSet(R)
  BY FS_AddElement
<1>2. ASSUME NEW c \in Front(S, n), ~(Pos(R, c) < n)
      PROVE  /\ c \in S /\ c \in Int /\ Pos(S, c) \in Nat /\ Pos(R, c) \in Nat /\ Pos(S, c) < n
             /\ Pos(R, c) = Pos(S, c) + 1 /\ x < c
  <2>1. c \in S /\ c \in Int /\ Pos(S, c) < n
    BY DEF Front
  <2>2. Pos(S, c) \in Nat /\ Pos(R, c) \in Nat /\ IsFiniteSet(Below(S, c))
    BY <1>1, <2>1, PosType
  <2>3. CASE x < c
    <3>1. Below(R, c) = Below(S, c) \cup {x} /\ x \notin Below(S, c)
      BY <2>3 DEF Below
    <3>2. Cardinality(Below(R, c)) = Cardinality(Below(S, c)) + 1
      BY <2>2, <3>1, FS_AddElement
    <3>3. QED
      BY <2>1, <2>2, <2>3, <3>2 DEF Pos
  <2>4. CASE ~(x < c)
    <3>1. Below(R, c) = Below(S, c)
      BY <2>4 DEF Below
    <3>2. QED
      BY <1>2, <2>1, <3>1 DEF Pos
  <2>5. QED
    BY <2>3, <2>4
<1>3. Pos(R, a) = Pos(S, a) + 1 /\ Pos(R, b) = Pos(S, b) + 1 /\ x < a
  BY <1>2
<1>4. a \in S /\ b \in S /\ a \in Int /\ b \in Int
  BY <1>2
<1>5. Pos(S, a) = n - 1 /\ Pos(S, b) = n - 1
  <2>1. Pos(S, a) \in Nat /\ Pos(S, b) \in Nat /\ Pos(S, a) < n /\ Pos(S, b) < n
    BY <1>2
  <2>2. QED
    BY <1>3, <2>1
<1>6. a = b
  <2>1. ~(a < b) /\ ~(b < a)
    BY <1>4, <1>5, PosMonotone
  <2>2. QED
    BY <1>4, <2>1
<1>7. Pos(S, x) < n
  <2>1. Below(S, x) \in SUBSET Below(S, a)
    <3>1. ASSUME NEW c \in S, c < x PROVE c < a
      <4>1. c \in Int
        OBVIOUS
      <4>2. QED
        BY <1>3, <1>4, <3>1, <4>1
    <3>2. QED
      BY <3>1 DEF Below
  <2>2. IsFiniteSet(Below(S, a)) /\ Pos(S, x) \in Nat /\ Pos(S, a) \in Nat
    BY <1>4, PosType
  <2>3. Pos(S, x) <= Pos(S, a)
    BY <2>1, <2>2, FS_Subset DEF Pos
  <2>4. QED
    BY <1>5, <2>2, <2>3
<1>8. QED
  BY <1>6, <1>7

\* An insertion never moves an entry towards the beginning, nor a deletion
\* one towards the end.
LEMMA PosSubset ==
  ASSUME NEW S \in SUBSET Int, IsFiniteSet(S), NEW R \in SUBSET S, NEW a \in Int
  PROVE  Pos(R, a) <= Pos(S, a)
<1>1. Below(R, a) \in SUBSET Below(S, a)
  BY DEF Below
<1>2. IsFiniteSet(Below(S, a))
  BY PosType
<1>3. QED
  BY <1>1, <1>2, FS_Subset DEF Pos

\* Deletions before the offset move one entry each over it.
LEMMA DeleteMoves ==
  ASSUME NEW S \in SUBSET Int, IsFiniteSet(S), NEW gone \in SUBSET S, NEW n \in Nat
  PROVE  LET moved == { a \in S \ gone : ~(Pos(S, a) < n) /\ Pos(S \ gone, a) < n }
             before == { a \in gone : Pos(S, a) < n }
         IN  IsFiniteSet(moved) /\ IsFiniteSet(before) /\ Cardinality(moved) <= Cardinality(before)
<1> DEFINE R == S \ gone
           moved == { a \in R : ~(Pos(S, a) < n) /\ Pos(R, a) < n }
           before == { a \in gone : Pos(S, a) < n }
<1>1. R \in SUBSET S /\ R \in SUBSET Int /\ IsFiniteSet(R) /\ IsFiniteSet(gone)
  BY FS_Subset
<1>2. moved \in SUBSET R /\ before \in SUBSET gone
  OBVIOUS
<1>3. IsFiniteSet(moved) /\ IsFiniteSet(before) /\ Cardinality(moved) \in Nat /\ Cardinality(before) \in Nat
  BY <1>1, <1>2, FS_Subset, FS_CardinalityType
<1>4. CASE moved = {}
  BY <1>3, <1>4, FS_EmptySet
<1>5. CASE moved # {}
  <2>1. PICK a \in S : Pos(S, a) >= n
    <3>1. PICK a \in moved : TRUE
      BY <1>5
    <3>2. a \in S /\ a \in Int /\ ~(Pos(S, a) < n)
      BY <3>1
    <3>3. Pos(S, a) \in Nat
      BY <3>2, PosType
    <3>4. QED
      BY <3>2, <3>3
  <2>2. Cardinality(Front(S, n)) = n /\ IsFiniteSet(Front(S, n))
    BY <2>1, FrontFull, FrontAtMost
  <2>3. Cardinality(Front(S, n) \ gone) = n - Cardinality(before) /\ IsFiniteSet(Front(S, n) \ gone)
    <3>1. Front(S, n) \cap gone = before
      BY DEF Front
    <3>2. QED
      BY <2>2, <3>1, FS_Difference
  <2>4. IsFiniteSet(Front(R, n)) /\ Cardinality(Front(R, n)) <= n /\ Cardinality(Front(R, n)) \in Nat
    BY <1>1, FrontAtMost
  <2>5. moved \cup (Front(S, n) \ gone) \in SUBSET Front(R, n)
    <3>1. ASSUME NEW b \in moved PROVE b \in Front(R, n)
      BY DEF Front
    <3>2. ASSUME NEW b \in Front(S, n) \ gone PROVE b \in Front(R, n)
      <4>1. b \in R /\ b \in Int /\ Pos(S, b) < n
        BY DEF Front
      <4>2. Pos(R, b) <= Pos(S, b) /\ Pos(R, b) \in Nat /\ Pos(S, b) \in Nat
        BY <1>1, <4>1, PosSubset, PosType
      <4>3. Pos(R, b) < n
        BY <4>1, <4>2
      <4>4. QED
        BY <4>1, <4>3 DEF Front
    <3>3. QED
      BY <3>1, <3>2
  <2>6. Cardinality(moved \cup (Front(S, n) \ gone)) <= n
        /\ Cardinality(moved \cup (Front(S, n) \ gone)) \in Nat
    <3>1. Cardinality(moved \cup (Front(S, n) \ gone)) <= Cardinality(Front(R, n))
          /\ IsFiniteSet(moved \cup (Front(S, n) \ gone))
      BY <2>4, <2>5, FS_Subset
    <3>2. QED
      BY <2>4, <3>1, FS_CardinalityType
  <2>7. moved \cap (Front(S, n) \ gone) = {}
    BY DEF Front
  <2>8. Cardinality(moved \cup (Front(S, n) \ gone)) =
          Cardinality(moved) + Cardinality(Front(S, n) \ gone) - 0
    <3> DEFINE M == moved
               F == Front(S, n) \ gone
    <3>1. IsFiniteSet(M) /\ IsFiniteSet(F) /\ M \cap F = {}
      BY <1>3, <2>3, <2>7
    <3> HIDE DEF M, F
    <3>2. Cardinality(M \cup F) = Cardinality(M) + Cardinality(F) - Cardinality({})
      BY <3>1, FS_Union
    <3>3. Cardinality({}) = 0
      BY FS_EmptySet
    <3>4. Cardinality(M \cup F) = Cardinality(M) + Cardinality(F) - 0
      BY <3>2, <3>3
    <3>5. QED
      BY <3>4 DEF M, F
  <2>9. Cardinality(moved) <= Cardinality(before)
    <3> HIDE DEF moved, before
    <3>1. QED
      BY <1>3, <2>3, <2>6, <2>8
  <2>10. QED
    BY <1>3, <2>9
<1>6. QED
  BY <1>4, <1>5

-----------------------------------------------------------------------------
(***************************************************************************)
(* The invariant.                                                          *)
(***************************************************************************)
Token == [coding : {"memory", "sqlite"}, offset : Nat]
Walking == walk.pc = "walking"
Offset == decodePageToken(walk.token)

Typed ==
  /\ store \in {"memory", "sqlite"} /\ size \in Int
  /\ stored \subseteq Arn /\ IsFiniteSet(stored) /\ survivors \subseteq stored
  /\ walk \in [pc : {"idle", "walking", "done"}, token : {NoToken, BadToken} \cup Token,
               got : [Arn -> Nat]]
  /\ behind \in [inserted : Nat, deleted : Nat]

\* Entries that will not be returned any more, and were not.
Missed == { a \in survivors : walk.got[a] = 0 /\ (Walking => Position(a) < Offset) }
\* Entries that were returned again, or will be.
Repeated ==
  { a \in survivors :
      walk.got[a] > 1 \/ (Walking /\ walk.got[a] > 0 /\ ~(Position(a) < Offset)) }

IInv ==
  /\ Typed
  /\ ~failed => Cardinality(Missed) <= behind.deleted
  /\ Cardinality(Repeated) <= behind.inserted

\* The types of what a step reads.
LEMMA Types ==
  ASSUME Typed
  PROVE  /\ stored \in SUBSET Int /\ IsFiniteSet(stored) /\ IsFiniteSet(survivors)
         /\ \A a \in survivors : a \in Arn /\ a \in stored /\ a \in Int /\ walk.got[a] \in Nat
         /\ Missed \in SUBSET survivors /\ IsFiniteSet(Missed) /\ Cardinality(Missed) \in Nat
         /\ Repeated \in SUBSET survivors /\ IsFiniteSet(Repeated)
         /\ Cardinality(Repeated) \in Nat
         /\ behind.inserted \in Nat /\ behind.deleted \in Nat
         /\ Offset \in Nat /\ pageSize \in Nat \ {0}
<1>1. stored \in SUBSET Int /\ IsFiniteSet(stored) /\ IsFiniteSet(survivors)
  BY ArnAssumption, FS_Subset DEF Typed
<1>2. \A a \in survivors : a \in Arn /\ a \in stored /\ a \in Int /\ walk.got[a] \in Nat
  BY <1>1 DEF Typed
<1>3. Missed \in SUBSET survivors /\ Repeated \in SUBSET survivors
  BY DEF Missed, Repeated
<1>4. /\ IsFiniteSet(Missed) /\ Cardinality(Missed) \in Nat
      /\ IsFiniteSet(Repeated) /\ Cardinality(Repeated) \in Nat
  BY <1>1, <1>3, FS_Subset, FS_CardinalityType
<1>5. behind.inserted \in Nat /\ behind.deleted \in Nat
  BY DEF Typed
<1>6. Offset \in Nat
  BY DEF Typed, Token, Offset, decodePageToken
<1>7. pageSize \in Nat \ {0}
  BY SizesAssumption DEF Typed, pageSize
<1>8. QED
  BY <1>1, <1>2, <1>3, <1>4, <1>5, <1>6, <1>7

\* Position, as a function of the table.
LEMMA PositionIs ==
  ASSUME NEW a PROVE Position(a) = Pos(stored, a) /\ Position(a)' = Pos(stored', a)
  BY DEF Position, Pos, Below

\* A page begins at the offset and goes to the next one, or to the end.
LEMMA PageFacts ==
  ASSUME Typed
  PROVE  LET page == list(walk.token)
             next == decodePageToken(page.token)
         IN  /\ page.token \in {NoToken} \cup Token
             /\ \A a \in stored : a \in page.items => ~(Position(a) < Offset)
             /\ page.token # NoToken =>
                  /\ next \in Nat /\ next >= Offset
                  /\ \A a \in stored :
                       a \in page.items <=> ~(Position(a) < Offset) /\ Position(a) < next
             /\ page.token = NoToken =>
                  \A a \in stored : ~(Position(a) < Offset) => a \in page.items
<1> DEFINE page == list(walk.token)
           end == Offset + pageSize
<1>1. /\ stored \in SUBSET Int /\ IsFiniteSet(stored) /\ Offset \in Nat
      /\ pageSize \in Nat \ {0} /\ store \in {"memory", "sqlite"}
  BY Types DEF Typed
<1>2. end \in Nat /\ end >= Offset /\ end + 1 \in Nat
  BY <1>1
<1>3. \A a \in stored : Position(a) = Pos(stored, a) /\ Position(a) \in Nat
  BY <1>1, PositionIs, PosType
<1>4. /\ encodePageToken(end) \in Token /\ encodePageToken(end) # NoToken
      /\ decodePageToken(encodePageToken(end)) = end
  <2>1. /\ encodePageToken(end) \in Token /\ encodePageToken(end).coding = store
        /\ encodePageToken(end).offset = end
    BY <1>1, <1>2 DEF encodePageToken, Token
  <2>2. encodePageToken(end) \notin {NoToken, BadToken}
    BY <2>1, TokenAssumption DEF Token
  <2>3. QED
    BY <2>1, <2>2 DEF decodePageToken
<1>5. CASE store = "memory"
  <2>1. /\ page.items = Slice(Offset, end)
        /\ page.token = IF end < Cardinality(stored) THEN encodePageToken(end) ELSE NoToken
    BY <1>5 DEF list, listMemory, Offset
  <2>2. \A a \in stored : a \in page.items <=> ~(Position(a) < Offset) /\ Position(a) < end
    BY <1>1, <1>2, <1>3, <2>1 DEF Slice
  <2>3. ASSUME NEW a \in stored, ~(end < Cardinality(stored))
        PROVE  Position(a) < end
    <3>1. Pos(stored, a) < Cardinality(stored) /\ Cardinality(stored) \in Nat
      BY <1>1, PosBeforeEnd, FS_CardinalityType
    <3>2. QED
      BY <1>2, <1>3, <2>3, <3>1
  <2> HIDE DEF page, end
  <2>4. QED
    BY <1>2, <1>4, <2>1, <2>2, <2>3 DEF page
<1>6. CASE store = "sqlite"
  <2> DEFINE rows == Slice(Offset, end + 1)
             more == Cardinality(rows) > pageSize
  <2>1. /\ page.items = IF more THEN Slice(Offset, end) ELSE rows
        /\ page.token = IF more THEN encodePageToken(end) ELSE NoToken
    BY <1>6 DEF list, listSqlite, Offset
  <2>2. \A a \in stored : a \in Slice(Offset, end) <=> ~(Position(a) < Offset) /\ Position(a) < end
    BY <1>1, <1>2, <1>3 DEF Slice
  <2>3. \A a \in stored : a \in rows <=> ~(Position(a) < Offset) /\ Position(a) < end + 1
    BY <1>1, <1>2, <1>3 DEF Slice
  <2>4. ASSUME NEW a \in stored, ~more
        PROVE  Position(a) < end + 1
    <3>1. SUFFICES ASSUME Pos(stored, a) >= end + 1 PROVE FALSE
      BY <1>2, <1>3
    <3>2. IsFiniteSet(Front(stored, end + 1)) /\ Cardinality(Front(stored, end + 1)) = end + 1
      BY <1>1, <1>2, <3>1, FrontFull, FrontAtMost
    <3>3. /\ IsFiniteSet(Front(stored, Offset)) /\ Cardinality(Front(stored, Offset)) \in Nat
          /\ Cardinality(Front(stored, Offset)) <= Offset
      BY <1>1, FrontAtMost
    <3>4. rows = Front(stored, end + 1) \ Front(stored, Offset)
      BY <1>3, <2>3 DEF Front, Slice
    <3> DEFINE C == Front(stored, end + 1) \cap Front(stored, Offset)
    <3>5. Cardinality(rows) = (end + 1) - Cardinality(C)
      <4> DEFINE F == Front(stored, end + 1)
                 G == Front(stored, Offset)
      <4>1. IsFiniteSet(F) /\ Cardinality(F) = end + 1 /\ rows = F \ G /\ C = F \cap G
        BY <3>2, <3>4
      <4> HIDE DEF F, G, rows, end, C
      <4>2. Cardinality(F \ G) = Cardinality(F) - Cardinality(F \cap G)
        BY <4>1, FS_Difference
      <4>3. QED
        BY <4>1, <4>2
    <3>6. Cardinality(C) <= Offset /\ Cardinality(C) \in Nat
      <4>1. C \in SUBSET Front(stored, Offset)
        OBVIOUS
      <4>2. IsFiniteSet(C) /\ Cardinality(C) <= Cardinality(Front(stored, Offset))
        BY <3>3, <4>1, FS_Subset
      <4>3. Cardinality(C) \in Nat
        BY <4>2, FS_CardinalityType
      <4> HIDE DEF C
      <4>4. QED
        BY <1>1, <3>3, <4>2, <4>3
    <3> HIDE DEF C, rows
    <3>7. QED
      BY <1>1, <2>4, <3>5, <3>6
  <2> HIDE DEF page, end, rows, more
  <2>5. CASE more
    BY <1>2, <1>4, <2>1, <2>2, <2>5 DEF page
  <2>6. CASE ~more
    BY <1>2, <1>4, <2>1, <2>3, <2>4, <2>6 DEF page
  <2>7. QED
    BY <2>5, <2>6
<1>7. QED
  BY <1>1, <1>5, <1>6

-----------------------------------------------------------------------------
(***************************************************************************)
(* The steps.                                                              *)
(***************************************************************************)
\* Fewer entries missed and repeated, and no less behind the offset.
LEMMA Fewer ==
  ASSUME IInv, Typed', UNCHANGED behind,
         ~failed' => ~failed /\ Missed' \subseteq Missed,
         Repeated' \subseteq Repeated
  PROVE  IInv'
<1>1. /\ IsFiniteSet(Missed) /\ Cardinality(Missed) \in Nat
      /\ IsFiniteSet(Repeated) /\ Cardinality(Repeated) \in Nat
      /\ behind.inserted \in Nat /\ behind.deleted \in Nat
  BY Types DEF IInv
<1>2. /\ Cardinality(Repeated') <= Cardinality(Repeated) /\ Cardinality(Repeated') \in Nat
      /\ IsFiniteSet(Repeated')
  BY <1>1, FS_Subset, FS_CardinalityType
<1>3. Cardinality(Repeated') <= behind.inserted
  BY <1>1, <1>2 DEF IInv
<1>4. ASSUME ~failed' PROVE Cardinality(Missed') <= behind.deleted
  <2>1. /\ Cardinality(Missed') <= Cardinality(Missed) /\ IsFiniteSet(Missed')
    BY <1>1, <1>4, FS_Subset
  <2>2. Cardinality(Missed') \in Nat
    BY <2>1, FS_CardinalityType
  <2>3. QED
    BY <1>1, <1>4, <2>1, <2>2 DEF IInv
<1>5. QED
  BY <1>3, <1>4 DEF IInv

\* A walk begins with nothing returned and the offset at the beginning.
LEMMA BeginWalkStep ==
  ASSUME IInv, NEW token \in {NoToken, BadToken}, BeginWalk(token)
  PROVE  IInv'
<1>1. /\ walk' = [pc |-> "walking", token |-> token, got |-> Nothing]
      /\ survivors' = stored /\ behind' = NotBehind /\ failed' = FALSE
      /\ UNCHANGED <<store, size, stored>>
  BY DEF BeginWalk
<1>2. Nothing \in [Arn -> Nat] /\ \A a \in Arn : Nothing[a] = 0
  BY DEF Nothing
<1>3. Typed'
  BY <1>1, <1>2 DEF IInv, Typed, NotBehind
<1>4. stored \in SUBSET Int /\ IsFiniteSet(stored) /\ stored \subseteq Arn
  BY Types DEF IInv, Typed
<1>5. Offset' = 0
  BY <1>1 DEF Offset, decodePageToken
<1>6. \A a \in stored : Position(a)' \in Nat
  BY <1>1, <1>4, PositionIs, PosType
<1>7. Missed' = {}
  BY <1>1, <1>5, <1>6 DEF Missed, Walking
<1>8. Repeated' = {}
  <2>1. \A a \in stored : walk'.got[a] = 0
    BY <1>1, <1>2, <1>4
  <2>2. QED
    BY <1>1, <2>1 DEF Repeated
<1>9. Cardinality({}) = 0 /\ behind'.inserted = 0 /\ behind'.deleted = 0
  BY <1>1, FS_EmptySet DEF NotBehind
<1>10. QED
  BY <1>3, <1>7, <1>8, <1>9 DEF IInv

\* A page: what it leaves behind was returned, now or before.
LEMMA NextPageStep ==
  ASSUME IInv, NextPage
  PROVE  IInv'
<1> DEFINE page == list(walk.token)
           next == decodePageToken(page.token)
           got == [a \in Arn |-> walk.got[a] + (IF a \in page.items THEN 1 ELSE 0)]
<1>1. /\ Walking
      /\ walk' = [pc |-> IF page.token = NoToken THEN "done" ELSE "walking",
                  token |-> page.token, got |-> got]
      /\ UNCHANGED <<store, size, stored, survivors, behind, failed>>
  BY DEF NextPage, Walking
<1>2. /\ page.token \in {NoToken} \cup Token
      /\ \A a \in stored : a \in page.items => ~(Position(a) < Offset)
      /\ page.token # NoToken =>
           /\ next \in Nat /\ next >= Offset
           /\ \A a \in stored :
                a \in page.items <=> ~(Position(a) < Offset) /\ Position(a) < next
      /\ page.token = NoToken =>
           \A a \in stored : ~(Position(a) < Offset) => a \in page.items
  BY PageFacts DEF IInv
<1>3. /\ stored \in SUBSET Int /\ IsFiniteSet(stored) /\ Offset \in Nat
      /\ \A a \in survivors : a \in Arn /\ a \in stored /\ a \in Int /\ walk.got[a] \in Nat
  BY Types DEF IInv
<1>4. \A a \in stored : Position(a) \in Nat /\ Position(a)' = Position(a)
  BY <1>1, <1>3, PositionIs, PosType
<1>5. Offset' = next
  BY <1>1 DEF Offset, decodePageToken
<1> HIDE DEF page, next
<1>6. got \in [Arn -> Nat]
  BY DEF IInv, Typed
<1>7. \A a \in survivors :
        /\ a \in page.items => walk'.got[a] = walk.got[a] + 1
        /\ a \notin page.items => walk'.got[a] = walk.got[a]
  BY <1>1, <1>3, <1>6
<1> HIDE DEF got
<1>8. walk'.pc = (IF page.token = NoToken THEN "done" ELSE "walking")
      /\ walk'.token = page.token /\ walk'.got = got
  BY <1>1
<1>9. Typed'
  BY <1>1, <1>2, <1>6 DEF IInv, Typed
<1>10. ASSUME NEW a \in Missed' PROVE a \in Missed
  <2>1. a \in survivors /\ walk'.got[a] = 0 /\ (Walking' => Position(a)' < Offset')
    BY <1>1 DEF Missed
  <2>2. a \notin page.items /\ walk.got[a] = 0
    BY <1>3, <1>7, <2>1
  <2>3. Position(a) < Offset
    <3>1. CASE page.token = NoToken
      BY <1>2, <1>3, <2>1, <2>2, <3>1
    <3>2. CASE page.token # NoToken
      <4>1. Walking'
        BY <1>8, <3>2 DEF Walking
      <4>2. Position(a) < next
        BY <1>3, <1>4, <1>5, <2>1, <4>1
      <4>3. QED
        BY <1>2, <1>3, <2>1, <2>2, <3>2, <4>2
    <3>3. QED
      BY <3>1, <3>2
  <2>4. QED
    BY <2>1, <2>2, <2>3 DEF Missed
<1>11. ASSUME NEW a \in Repeated' PROVE a \in Repeated
  <2>1. /\ a \in survivors
        /\ walk'.got[a] > 1 \/ (Walking' /\ walk'.got[a] > 0 /\ ~(Position(a)' < Offset'))
    BY <1>1 DEF Repeated
  <2>2. a \in stored /\ walk.got[a] \in Nat /\ Position(a) \in Nat /\ Position(a)' = Position(a)
    BY <1>3, <1>4, <2>1
  <2>3. CASE a \in page.items
    <3>1. ~(Position(a) < Offset) /\ walk'.got[a] = walk.got[a] + 1
      BY <1>2, <1>7, <2>1, <2>2, <2>3
    <3>2. walk.got[a] > 0
      <4>1. CASE walk'.got[a] > 1
        BY <2>2, <3>1, <4>1
      <4>2. CASE Walking' /\ ~(Position(a)' < Offset')
        <5>1. page.token # NoToken
          BY <1>8, <4>2 DEF Walking
        <5>2. Position(a) < next
          BY <1>2, <2>2, <2>3, <5>1
        <5>3. QED
          BY <1>5, <2>2, <4>2, <5>2
      <4>3. QED
        BY <2>1, <4>1, <4>2
    <3>3. QED
      BY <1>1, <2>1, <3>1, <3>2 DEF Repeated
  <2>4. CASE a \notin page.items
    <3>1. walk'.got[a] = walk.got[a]
      BY <1>7, <2>1, <2>4
    <3>2. CASE walk'.got[a] > 1
      BY <2>1, <3>1, <3>2 DEF Repeated
    <3>3. CASE Walking' /\ walk'.got[a] > 0 /\ ~(Position(a)' < Offset')
      <4>1. page.token # NoToken
        BY <1>8, <3>3 DEF Walking
      <4>2. ~(Position(a) < Offset)
        BY <1>2, <1>3, <1>5, <2>2, <3>3, <4>1
      <4>3. QED
        BY <1>1, <2>1, <3>1, <3>3, <4>2 DEF Repeated
    <3>4. QED
      BY <2>1, <3>2, <3>3
  <2>5. QED
    BY <2>3, <2>4
<1>12. QED
  BY <1>1, <1>9, <1>10, <1>11, Fewer

\* A query that fails ends the walk.
LEMMA FailPageStep ==
  ASSUME IInv, FailPage
  PROVE  IInv'
<1>1. /\ walk' = [walk EXCEPT !.pc = "done", !.token = NoToken] /\ failed' = TRUE
      /\ UNCHANGED <<store, size, stored, survivors, behind>>
  BY DEF FailPage
<1>2. walk'.pc = "done" /\ walk'.got = walk.got
  BY <1>1 DEF IInv, Typed
<1>3. Typed'
  BY <1>1 DEF IInv, Typed
<1>4. Repeated' \subseteq Repeated
  BY <1>1, <1>2 DEF Repeated, Walking
<1>5. QED
  BY <1>1, <1>3, <1>4, Fewer

\* An insertion behind the offset costs one entry that is returned again.
LEMMA InsertStep ==
  ASSUME IInv, NEW arn \in Arn, Insert(arn)
  PROVE  IInv'
<1>1. /\ arn \notin stored /\ stored' = stored \cup {arn}
      /\ behind' = [behind EXCEPT !.inserted = @ + (IF IsBehind(arn) THEN 1 ELSE 0)]
      /\ UNCHANGED <<store, size, walk, survivors, failed>>
  BY DEF Insert
<1>2. /\ stored \in SUBSET Int /\ IsFiniteSet(stored) /\ Offset \in Nat /\ arn \in Int
      /\ \A a \in survivors : a \in stored /\ a \in Int
      /\ IsFiniteSet(Missed) /\ Cardinality(Missed) \in Nat
      /\ IsFiniteSet(Repeated) /\ Cardinality(Repeated) \in Nat
      /\ behind.inserted \in Nat /\ behind.deleted \in Nat
  BY Types, ArnAssumption DEF IInv
<1>3. IsFiniteSet(stored') /\ stored' \in SUBSET Int /\ stored \in SUBSET stored'
  BY <1>1, <1>2, FS_AddElement
<1>4. /\ behind' \in [inserted : Nat, deleted : Nat] /\ behind'.deleted = behind.deleted
      /\ behind'.inserted = behind.inserted + (IF IsBehind(arn) THEN 1 ELSE 0)
  BY <1>1, <1>2 DEF IInv, Typed
<1>5. Typed'
  BY <1>1, <1>3, <1>4 DEF IInv, Typed
<1>6. Offset' = Offset /\ Walking' = Walking
  BY <1>1 DEF Offset, decodePageToken, Walking
<1>7. Missed' \in SUBSET Missed
  <2> SUFFICES ASSUME NEW a \in Missed' PROVE a \in Missed
    OBVIOUS
  <2>1. a \in survivors /\ walk.got[a] = 0 /\ (Walking => Position(a)' < Offset)
    BY <1>1, <1>6 DEF Missed
  <2>2. /\ Position(a) \in Nat /\ Position(a)' \in Nat /\ Position(a) <= Position(a)'
    BY <1>2, <1>3, <2>1, PositionIs, PosType, PosSubset
  <2>3. Walking => Position(a) < Offset
    BY <1>2, <2>1, <2>2
  <2>4. QED
    BY <2>1, <2>3 DEF Missed
<1>8. ~failed' => Cardinality(Missed') <= behind'.deleted
  <2>1. Cardinality(Missed') <= Cardinality(Missed) /\ IsFiniteSet(Missed')
    BY <1>2, <1>7, FS_Subset
  <2>2. Cardinality(Missed') \in Nat
    BY <2>1, FS_CardinalityType
  <2>3. QED
    BY <1>1, <1>2, <1>4, <2>1, <2>2 DEF IInv
<1>9. ASSUME NEW a \in Repeated', a \notin Repeated
      PROVE  a \in Front(stored, Offset) /\ ~(Pos(stored', a) < Offset) /\ Walking
  <2>1. /\ a \in survivors
        /\ walk.got[a] > 1 \/ (Walking /\ walk.got[a] > 0 /\ ~(Position(a)' < Offset))
    BY <1>1, <1>6 DEF Repeated
  <2>2. Walking /\ ~(Position(a)' < Offset) /\ Position(a) < Offset
    BY <1>9, <2>1 DEF Repeated
  <2>3. QED
    BY <1>2, <2>1, <2>2, PositionIs DEF Front
<1>10. \A a, b \in Repeated' \ Repeated : a = b /\ IsBehind(arn)
  <2> SUFFICES ASSUME NEW a \in Repeated' \ Repeated, NEW b \in Repeated' \ Repeated
               PROVE  a = b /\ IsBehind(arn)
    OBVIOUS
  <2>1. /\ a \in Front(stored, Offset) /\ ~(Pos(stored \cup {arn}, a) < Offset) /\ Walking
        /\ b \in Front(stored, Offset) /\ ~(Pos(stored \cup {arn}, b) < Offset)
    BY <1>1, <1>9
  <2>2. a = b /\ Pos(stored, arn) < Offset
    BY <1>1, <1>2, <2>1, InsertMovesOne
  <2>3. QED
    BY <2>1, <2>2, PositionIs DEF IsBehind, Walking, Offset
<1>11. Cardinality(Repeated') <= behind'.inserted
  <2>1. CASE Repeated' \subseteq Repeated
    <3>1. Cardinality(Repeated') <= Cardinality(Repeated) /\ IsFiniteSet(Repeated')
      BY <1>2, <2>1, FS_Subset
    <3>2. Cardinality(Repeated') \in Nat
      BY <3>1, FS_CardinalityType
    <3>3. Cardinality(Repeated) <= behind.inserted
      BY DEF IInv
    <3>4. behind.inserted <= behind'.inserted /\ behind'.inserted \in Nat
      BY <1>2, <1>4
    <3>5. QED
      BY <1>2, <3>1, <3>2, <3>3, <3>4
  <2>2. CASE ~(Repeated' \subseteq Repeated)
    <3>1. PICK a \in Repeated' : a \notin Repeated
      BY <2>2
    <3>2. Repeated' \in SUBSET (Repeated \cup {a}) /\ IsBehind(arn)
      BY <1>10, <3>1
    <3>3. IsFiniteSet(Repeated \cup {a}) /\ Cardinality(Repeated \cup {a}) = Cardinality(Repeated) + 1
      BY <1>2, <3>1, FS_AddElement
    <3>4. Cardinality(Repeated') <= Cardinality(Repeated) + 1 /\ IsFiniteSet(Repeated')
      BY <3>2, <3>3, FS_Subset
    <3>5. Cardinality(Repeated') \in Nat
      BY <3>4, FS_CardinalityType
    <3>6. behind'.inserted = behind.inserted + 1
      BY <1>4, <3>2
    <3>7. Cardinality(Repeated) <= behind.inserted
      BY DEF IInv
    <3>8. QED
      BY <1>2, <3>4, <3>5, <3>6, <3>7
  <2>3. QED
    BY <2>1, <2>2
<1>12. QED
  BY <1>5, <1>8, <1>11 DEF IInv

\* A deletion behind the offset costs one entry that is never returned.
LEMMA DeleteStep ==
  ASSUME IInv, NEW gone \in SUBSET stored, Delete(gone)
  PROVE  IInv'
<1> DEFINE before == { a \in gone : IsBehind(a) }
<1>1. /\ stored' = stored \ gone /\ survivors' = survivors \ gone
      /\ behind' = [behind EXCEPT !.deleted = @ + Cardinality(before)]
      /\ UNCHANGED <<store, size, walk, failed>>
  BY DEF Delete
<1>2. /\ stored \in SUBSET Int /\ IsFiniteSet(stored) /\ Offset \in Nat
      /\ \A a \in survivors : a \in stored /\ a \in Int
      /\ IsFiniteSet(Missed) /\ Cardinality(Missed) \in Nat
      /\ IsFiniteSet(Repeated) /\ Cardinality(Repeated) \in Nat
      /\ behind.inserted \in Nat /\ behind.deleted \in Nat
  BY Types DEF IInv
<1>3. IsFiniteSet(stored') /\ stored' \in SUBSET stored /\ stored' \in SUBSET Int
  BY <1>1, <1>2, FS_Subset
<1>4. before \in SUBSET stored
  OBVIOUS
<1>5. IsFiniteSet(before) /\ Cardinality(before) \in Nat
  BY <1>2, <1>4, FS_Subset, FS_CardinalityType
<1> HIDE DEF before
<1>6. /\ behind' \in [inserted : Nat, deleted : Nat] /\ behind'.inserted = behind.inserted
      /\ behind'.deleted = behind.deleted + Cardinality(before)
  BY <1>1, <1>2, <1>5 DEF IInv, Typed
<1>7. Typed'
  BY <1>1, <1>3, <1>6 DEF IInv, Typed
<1>8. Offset' = Offset /\ Walking' = Walking
  BY <1>1 DEF Offset, decodePageToken, Walking
<1>9. Repeated' \in SUBSET Repeated
  <2> SUFFICES ASSUME NEW a \in Repeated' PROVE a \in Repeated
    OBVIOUS
  <2>1. /\ a \in survivors
        /\ walk.got[a] > 1 \/ (Walking /\ walk.got[a] > 0 /\ ~(Position(a)' < Offset))
    BY <1>1, <1>8 DEF Repeated
  <2>2. Position(a) \in Nat /\ Position(a)' \in Nat /\ Position(a)' <= Position(a)
    BY <1>2, <1>3, <2>1, PositionIs, PosType, PosSubset
  <2>3. ~(Position(a)' < Offset) => ~(Position(a) < Offset)
    BY <1>2, <2>2
  <2>4. QED
    BY <2>1, <2>3 DEF Repeated
<1>10. Cardinality(Repeated') <= behind'.inserted
  <2>1. Cardinality(Repeated') <= Cardinality(Repeated) /\ IsFiniteSet(Repeated')
    BY <1>2, <1>9, FS_Subset
  <2>2. Cardinality(Repeated') \in Nat
    BY <2>1, FS_CardinalityType
  <2>3. QED
    BY <1>2, <1>6, <2>1, <2>2 DEF IInv
<1> DEFINE moved == { a \in stored \ gone : ~(Pos(stored, a) < Offset) /\ Pos(stored \ gone, a) < Offset }
           passed == { a \in gone : Pos(stored, a) < Offset }
<1>11. IsFiniteSet(moved) /\ IsFiniteSet(passed) /\ Cardinality(moved) <= Cardinality(passed)
  BY <1>2, DeleteMoves
<1>12. Cardinality(moved) \in Nat
  BY <1>11, FS_CardinalityType
<1>13. Walking => before = passed
  BY PositionIs DEF before, IsBehind, Walking, Offset
<1>14. ASSUME NEW a \in Missed', a \notin Missed
       PROVE  Walking /\ a \in moved
  <2>1. a \in survivors /\ a \notin gone /\ walk.got[a] = 0 /\ (Walking => Position(a)' < Offset)
    BY <1>1, <1>8 DEF Missed
  <2>2. Walking /\ ~(Position(a) < Offset)
    BY <1>14, <2>1 DEF Missed
  <2>3. QED
    BY <1>1, <1>2, <2>1, <2>2, PositionIs
<1> HIDE DEF moved, passed
<1>15. ASSUME ~failed' PROVE Cardinality(Missed') <= behind'.deleted
  <2>1. Cardinality(Missed) <= behind.deleted
    BY <1>1, <1>15 DEF IInv
  <2>2. CASE Missed' \subseteq Missed
    <3>1. Cardinality(Missed') <= Cardinality(Missed) /\ IsFiniteSet(Missed')
      BY <1>2, <2>2, FS_Subset
    <3>2. Cardinality(Missed') \in Nat
      BY <3>1, FS_CardinalityType
    <3>3. QED
      BY <1>2, <1>5, <1>6, <2>1, <3>1, <3>2
  <2>3. CASE ~(Missed' \subseteq Missed)
    <3>1. Walking /\ Missed' \in SUBSET (Missed \cup moved)
      BY <1>14, <2>3
    <3>2. /\ IsFiniteSet(Missed \cup moved) /\ IsFiniteSet(Missed \cap moved)
          /\ Cardinality(Missed \cup moved) =
               Cardinality(Missed) + Cardinality(moved) - Cardinality(Missed \cap moved)
      <4>1. Missed \cap moved \in SUBSET Missed
        OBVIOUS
      <4>2. QED
        BY <1>2, <1>11, <4>1, FS_Union, FS_Subset
    <3>3. Cardinality(Missed \cap moved) \in Nat
      BY <3>2, FS_CardinalityType
    <3>4. Cardinality(Missed') <= Cardinality(Missed \cup moved) /\ IsFiniteSet(Missed')
      BY <3>1, <3>2, FS_Subset
    <3>5. Cardinality(Missed') \in Nat
      BY <3>4, FS_CardinalityType
    <3>6. Cardinality(moved) <= Cardinality(before)
      BY <1>11, <1>13, <3>1
    <3>7. QED
      BY <1>2, <1>5, <1>6, <1>12, <2>1, <3>2, <3>3, <3>4, <3>5, <3>6
  <2>4. QED
    BY <2>2, <2>3
<1>16. QED
  BY <1>7, <1>10, <1>15 DEF IInv

-----------------------------------------------------------------------------
\* No walk at first.
LEMMA InitHolds == Init => IInv
<1> SUFFICES ASSUME Init PROVE IInv
  OBVIOUS
<1>1. Nothing \in [Arn -> Nat]
  BY DEF Nothing
<1>2. Typed
  BY <1>1, KindsAssumption, SizesAssumption DEF Init, Typed, NotBehind
<1>3. Missed = {} /\ Repeated = {}
  BY DEF Init, Missed, Repeated
<1>4. behind.inserted = 0 /\ behind.deleted = 0 /\ Cardinality({}) = 0
  BY FS_EmptySet DEF Init, NotBehind
<1>5. QED
  BY <1>2, <1>3, <1>4 DEF IInv

\* Every step keeps the invariant.
LEMMA NextHolds == IInv /\ [Next]_vars => IInv'
<1> SUFFICES ASSUME IInv, [Next]_vars PROVE IInv'
  OBVIOUS
<1>1. CASE \E token \in {NoToken, BadToken} : BeginWalk(token)
  BY <1>1, BeginWalkStep
<1>2. CASE NextPage
  BY <1>2, NextPageStep
<1>3. CASE FailPage
  BY <1>3, FailPageStep
<1>4. CASE \E arn \in Arn : Insert(arn)
  BY <1>4, InsertStep
<1>5. CASE \E gone \in SUBSET stored : Delete(gone)
  BY <1>5, DeleteStep
<1>6. CASE UNCHANGED vars
  <2>1. UNCHANGED <<store, size, stored, walk, survivors, behind, failed>>
    BY <1>6 DEF vars
  <2>2. Typed'
    BY <2>1 DEF IInv, Typed
  <2>3. Offset' = Offset /\ Walking' = Walking /\ \A a : Position(a)' = Position(a)
    BY <2>1 DEF Offset, decodePageToken, Walking, Position
  <2>4. Missed' = Missed /\ Repeated' = Repeated
    BY <2>1, <2>3 DEF Missed, Repeated
  <2>5. QED
    BY <2>1, <2>2, <2>4 DEF IInv
<1>7. QED
  BY <1>1, <1>2, <1>3, <1>4, <1>5, <1>6 DEF Next

\* ListTopics and its kin, over either store, with any page size: a walk to
\* the end leaves out at most one entry for each deletion behind its offset,
\* and returns at most one entry again for each insertion behind it.
THEOREM WalksShiftBounded == Spec => []ShiftsBounded
<1>1. IInv => ShiftsBounded
  <2> SUFFICES ASSUME IInv PROVE ShiftsBounded
    OBVIOUS
  <2>1. ASSUME walk.pc = "done", ~failed
        PROVE  Cardinality({ a \in survivors : walk.got[a] = 0 }) <= behind.deleted
    <3>1. Missed = { a \in survivors : walk.got[a] = 0 }
      BY <2>1 DEF Missed, Walking
    <3>2. QED
      BY <2>1, <3>1 DEF IInv
  <2>2. Cardinality({ a \in survivors : walk.got[a] > 1 }) <= behind.inserted
    <3> DEFINE again == { a \in survivors : walk.got[a] > 1 }
    <3>1. again \in SUBSET Repeated
      BY DEF Repeated
    <3>2. /\ IsFiniteSet(Repeated) /\ Cardinality(Repeated) \in Nat /\ behind.inserted \in Nat
          /\ Cardinality(Repeated) <= behind.inserted
      BY Types DEF IInv
    <3> HIDE DEF again
    <3>3. Cardinality(again) <= Cardinality(Repeated) /\ IsFiniteSet(again)
      BY <3>1, <3>2, FS_Subset
    <3>4. Cardinality(again) \in Nat
      BY <3>3, FS_CardinalityType
    <3>5. Cardinality(again) <= behind.inserted
      BY <3>2, <3>3, <3>4
    <3>6. QED
      BY <3>5 DEF again
  <2>3. QED
    BY <2>1, <2>2 DEF ShiftsBounded
<1>2. QED
  BY <1>1, InitHolds, NextHolds, PTL DEF Spec
=============================================================================
