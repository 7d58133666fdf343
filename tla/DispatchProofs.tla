--------------------------- MODULE DispatchProofs ---------------------------
(***************************************************************************)
(* The dispatch of a message, for any subscriptions, policies, messages    *)
(* and queues, and any number of failures and changes of queues.           *)
(*                                                                         *)
(* Senders: deliveries to SQS arrive where the topic was allowed, at most  *)
(* once, and leave the message somewhere.  The inductive invariant follows *)
(* the deliveries under way: each is in one place of one sender's list,    *)
(* has not arrived unless its answer was lost and it is being redriven,    *)
(* and is sent only to a queue that was seen to allow the topic.           *)
(*                                                                         *)
(* Policies: the evaluation says what the policy says, by induction on the *)
(* depth of objects.  The equations of the recursive definitions come      *)
(* first: each is a fixed point of its body, which looks at smaller        *)
(* objects only.                                                           *)
(*                                                                         *)
(* The whole: every step of Dispatch is a step of the senders or hands     *)
(* deliveries over as SqsSpec allows.                                      *)
(***************************************************************************)
EXTENDS Dispatch, SequenceTheorems, NaturalsInduction, WellFoundedInduction, TLAPS

(***************************************************************************)
(* SqsDelivery is handed its deliveries by the module that composes it.    *)
(* What is needed of that module: a delivery is handed over once; those    *)
(* the Publish request makes have a queue as their endpoint, and the       *)
(* worker redrives one job at a time, which has a dead letter queue.       *)
(***************************************************************************)
HandOver(p) ==
  \E list \in Seq(Delivery), purpose \in {"check", "redrive"} :
    /\ \A i \in 1..Len(list) : \A d \in taken : list[i].id # d.id
    /\ \A i, j \in 1..Len(list) : list[i].id = list[j].id => i = j
    /\ \A i \in 1..Len(list) :
         IF purpose = "redrive" THEN i = 1 /\ list[i].DeadLetterTargetArn \in Queue
         ELSE list[i].Endpoint \in Queue
    /\ Take(p, list, purpose)

SqsSpec ==
  /\ queues \in [Queue -> QueueState] /\ SqsInit
  /\ [][SqsNext \/ \E p \in Sender : HandOver(p)]_sqs

-----------------------------------------------------------------------------
Place == [todo : Seq(Delivery), for : {"check", "send", "redrive"},
          call : {"GetQueueUrl", "GetQueueAttributes", "SendMessage"}]

Todo(p) == at[p].todo
Indexes(p) == 1..Len(Todo(p))

Typed ==
  /\ queues \in [Queue -> QueueState]
  /\ at \in [Sender -> Place]
  /\ arrived \in [ID -> Nat] /\ dead \in [ID -> Nat]
  /\ taken \subseteq Delivery

\* Every call has a queue to go to, now and when it is the delivery's turn.
Destined ==
  \A p \in Sender :
    /\ at[p].call = "SendMessage" => at[p].for # "check"
    /\ \A i \in Indexes(p) :
         IF i = 1 /\ at[p].for = "redrive" THEN Todo(p)[i].DeadLetterTargetArn \in Queue
         ELSE Todo(p)[i].Endpoint \in Queue

\* No two deliveries have one identifier, nor one delivery two places.
Distinct ==
  /\ \A d, e \in taken : d.id = e.id => d = e
  /\ \A p \in Sender : \A i \in Indexes(p) : Todo(p)[i] \in taken
  /\ \A p, q \in Sender : \A i \in Indexes(p), j \in Indexes(q) :
       Todo(p)[i] = Todo(q)[j] => p = q /\ i = j

\* What is about to be sent was allowed when the policy was read.
Allowing ==
  /\ \A q \in Queue : queues[q].exists /\ queues[q].allows => q \in allowed
  /\ \A p \in Sender :
       Todo(p) # <<>> /\ at[p].for = "send" => Todo(p)[1].Endpoint \in allowed

\* A delivery under way has arrived only if its answer was lost.
Unsent ==
  \A p \in Sender : \A i \in Indexes(p) :
    LET id == Todo(p)[i].id IN
    /\ dead[id] = 0
    /\ \/ arrived[id] = 0
       \/ i = 1 /\ at[p].for = "redrive" /\ arrived[id] = 1 /\ id \in unanswered

\* Nothing arrives before it is handed over.
Untaken ==
  \A id \in ID : (\A d \in taken : d.id # id) => arrived[id] = 0 /\ dead[id] = 0

IInv ==
  /\ Typed /\ Destined /\ Distinct /\ Allowing /\ Unsent /\ Untaken
  /\ AllowedOnly /\ NothingLost /\ ArrivesOnce

-----------------------------------------------------------------------------
(***************************************************************************)
(* Places.                                                                 *)
(***************************************************************************)
\* The delivery a sender is at.
LEMMA CurrentFacts ==
  ASSUME IInv, NEW p \in Sender, Todo(p) # <<>>
  PROVE  /\ Len(Todo(p)) \in Nat /\ Len(Todo(p)) >= 1 /\ 1 \in Indexes(p)
         /\ Current(p) = Todo(p)[1] /\ Current(p) \in taken /\ Current(p) \in Delivery
         /\ Current(p).id \in ID
<1>1. Todo(p) \in Seq(Delivery)
  BY DEF IInv, Typed, Place, Todo
<1>2. Len(Todo(p)) \in Nat /\ Len(Todo(p)) >= 1 /\ 1 \in Indexes(p)
  BY <1>1, EmptySeq DEF Indexes
<1>3. Current(p) = Todo(p)[1]
  BY <1>1 DEF Current, Todo
<1>4. Todo(p)[1] \in taken /\ Todo(p)[1] \in Delivery
  BY <1>2 DEF IInv, Distinct, Typed
<1>5. QED
  BY <1>2, <1>3, <1>4 DEF Delivery

\* Another delivery under way has another identifier.
LEMMA OtherID ==
  ASSUME IInv, NEW p \in Sender, Todo(p) # <<>>, NEW q \in Sender, NEW j \in Indexes(q),
         ~(q = p /\ j = 1)
  PROVE  Todo(q)[j].id # Current(p).id /\ Todo(q)[j].id \in ID
<1>1. 1 \in Indexes(p) /\ Current(p) = Todo(p)[1] /\ Current(p) \in taken
  BY CurrentFacts
<1>2. Todo(q)[j] \in taken /\ Todo(q)[j] # Todo(p)[1]
  BY <1>1 DEF IInv, Distinct
<1>3. Todo(q)[j].id # Current(p).id
  BY <1>1, <1>2 DEF IInv, Distinct
<1>4. QED
  BY <1>2, <1>3 DEF IInv, Typed, Delivery

\* A delivery is under way when it is in a list.
LEMMA UnderWayFacts ==
  ASSUME at \in [Sender -> Place], NEW d
  PROVE  d \in UnderWay <=> \E p \in Sender : \E i \in Indexes(p) : d = Todo(p)[i]
<1>1. \A p \in Sender : Todo(p) \in Seq(Delivery)
  BY DEF Place, Todo
<1>2. \A p \in Sender : DOMAIN Todo(p) = Indexes(p)
  BY <1>1 DEF Indexes
<1>3. QED
  BY <1>2 DEF UnderWay, Range, Todo

\* Goto changes what the sender is doing, and nothing of its list.
LEMMA GotoFacts ==
  ASSUME at \in [Sender -> Place], NEW p \in Sender,
         NEW purpose \in {"check", "send", "redrive"},
         NEW call \in {"GetQueueUrl", "GetQueueAttributes", "SendMessage"},
         Goto(p, purpose, call)
  PROVE  /\ at' \in [Sender -> Place]
         /\ Todo(p)' = Todo(p) /\ at'[p].for = purpose /\ at'[p].call = call
         /\ \A q \in Sender \ {p} : at'[q] = at[q]
<1> DEFINE a == [at[p] EXCEPT !.for = purpose]
           b == [a EXCEPT !.call = call]
<1>1. at[p] \in Place
  OBVIOUS
<1>2. a \in Place /\ a.todo = at[p].todo /\ a.for = purpose
  BY <1>1 DEF Place
<1>3. b \in Place /\ b.todo = a.todo /\ b.for = a.for /\ b.call = call
  <2> HIDE DEF a
  <2>1. QED
    BY <1>2 DEF Place
<1>4. at' = [at EXCEPT ![p] = b]
  BY DEF Goto
<1> HIDE DEF a, b
<1>5. QED
  BY <1>2, <1>3, <1>4 DEF Todo

\* Finish takes the first delivery from the list.
LEMMA FinishFacts ==
  ASSUME at \in [Sender -> Place], NEW p \in Sender, Todo(p) # <<>>, Finish(p)
  PROVE  /\ at' \in [Sender -> Place]
         /\ at'[p].for = "check" /\ at'[p].call = "GetQueueUrl"
         /\ Indexes(p)' = 1..(Len(Todo(p)) - 1)
         /\ \A i \in Indexes(p)' : Todo(p)'[i] = Todo(p)[i + 1] /\ i + 1 \in Indexes(p) /\ i + 1 # 1
         /\ \A j \in Indexes(p) : j # 1 => j - 1 \in Indexes(p)' /\ Todo(p)'[j - 1] = Todo(p)[j]
         /\ \A q \in Sender \ {p} : at'[q] = at[q]
<1> DEFINE l == Todo(p)
           t == Tail(l)
<1>1. l \in Seq(Delivery)
  BY DEF Place, Todo
<1>2. Len(l) \in Nat /\ Len(l) >= 1
  BY <1>1, EmptySeq
<1>3. t \in Seq(Delivery) /\ Len(t) = Len(l) - 1 /\ \A i \in 1..Len(t) : t[i] = l[i + 1]
  BY <1>1, <1>2
<1>4. at' = [at EXCEPT ![p] = [todo |-> t, for |-> "check", call |-> "GetQueueUrl"]]
  BY DEF Finish, Todo
<1> HIDE DEF t, l
<1>5. [todo |-> t, for |-> "check", call |-> "GetQueueUrl"] \in Place
  BY <1>3 DEF Place
<1>6. /\ at' \in [Sender -> Place] /\ at'[p].todo = t
      /\ at'[p].for = "check" /\ at'[p].call = "GetQueueUrl"
      /\ \A q \in Sender \ {p} : at'[q] = at[q]
  BY <1>4, <1>5
<1>7. Todo(p)' = t /\ Indexes(p)' = 1..Len(t) /\ Indexes(p) = 1..Len(l)
  BY <1>6 DEF Todo, Indexes, l
<1>8. \A i \in 1..Len(t) : t[i] = l[i + 1] /\ i + 1 \in 1..Len(l) /\ i + 1 # 1
  BY <1>2, <1>3
<1>9. \A j \in 1..Len(l) : j # 1 => j - 1 \in 1..Len(t) /\ t[j - 1] = l[j]
  <2> SUFFICES ASSUME NEW j \in 1..Len(l), j # 1
               PROVE  j - 1 \in 1..Len(t) /\ t[j - 1] = l[j]
    OBVIOUS
  <2>1. j - 1 \in 1..Len(t) /\ (j - 1) + 1 = j
    BY <1>2, <1>3
  <2>2. QED
    BY <1>3, <2>1
<1>10. QED
  BY <1>3, <1>6, <1>7, <1>8, <1>9 DEF l

-----------------------------------------------------------------------------
(***************************************************************************)
(* What a step of a sender may do to the counters and the histories.       *)
(***************************************************************************)
Receipt(p) ==
  \/ UNCHANGED <<arrived, dead>>
  \/ /\ at[p].for = "send"
     /\ arrived' = [arrived EXCEPT ![Current(p).id] = @ + 1] /\ UNCHANGED dead
  \/ /\ at[p].for = "redrive"
     /\ dead' = [dead EXCEPT ![Current(p).id] = @ + 1] /\ UNCHANGED arrived

Grows ==
  unanswered \subseteq unanswered' /\ unnoticed \subseteq unnoticed' /\ gaveUp \subseteq gaveUp'

\* The counters of the current delivery after a step, and those of the others.
LEMMA ReceiptFacts ==
  ASSUME IInv, NEW p \in Sender, Todo(p) # <<>>, Receipt(p)
  PROVE  LET c == Current(p).id IN
         /\ arrived' \in [ID -> Nat] /\ dead' \in [ID -> Nat]
         /\ \A id \in ID : id # c => arrived'[id] = arrived[id] /\ dead'[id] = dead[id]
         /\ \A id \in ID : arrived[id] <= arrived'[id] /\ dead[id] <= dead'[id]
         /\ arrived'[c] <= 1 /\ dead'[c] <= 1
         /\ arrived'[c] > 0 => arrived[c] > 0 \/ (at[p].for = "send" /\ dead'[c] = 0)
         /\ dead'[c] > 0 => at[p].for = "redrive" /\ (arrived'[c] > 0 => c \in unanswered)
<1> DEFINE c == Current(p).id
<1>1. /\ c \in ID /\ 1 \in Indexes(p) /\ Todo(p)[1].id = c
      /\ arrived \in [ID -> Nat] /\ dead \in [ID -> Nat]
  BY CurrentFacts DEF IInv, Typed
<1>2. /\ dead[c] = 0
      /\ \/ arrived[c] = 0
         \/ at[p].for = "redrive" /\ arrived[c] = 1 /\ c \in unanswered
  BY <1>1 DEF IInv, Unsent
<1> HIDE DEF c
<1>3. CASE UNCHANGED <<arrived, dead>>
  BY <1>1, <1>2, <1>3 DEF c
<1>4. CASE /\ at[p].for = "send"
           /\ arrived' = [arrived EXCEPT ![c] = @ + 1] /\ UNCHANGED dead
  <2>1. /\ arrived' \in [ID -> Nat] /\ dead' = dead /\ arrived'[c] = 1
        /\ \A id \in ID : id # c => arrived'[id] = arrived[id]
    BY <1>1, <1>2, <1>4
  <2>2. ASSUME NEW id \in ID
        PROVE  arrived[id] <= arrived'[id] /\ dead[id] <= dead'[id]
    <3>1. arrived[id] \in Nat /\ dead[id] \in Nat /\ dead'[id] = dead[id]
      BY <1>1, <2>1
    <3>2. CASE id = c
      <4>1. arrived[c] \in {0, 1} /\ arrived'[c] = 1
        BY <1>2, <2>1
      <4>2. QED
        BY <3>1, <3>2, <4>1
    <3>3. CASE id # c
      <4>1. arrived'[id] = arrived[id]
        BY <2>1, <3>3
      <4>2. QED
        BY <3>1, <4>1
    <3>4. QED
      BY <3>2, <3>3
  <2>3. QED
    BY <1>1, <1>2, <1>4, <2>1, <2>2 DEF c
<1>5. CASE /\ at[p].for = "redrive"
           /\ dead' = [dead EXCEPT ![c] = @ + 1] /\ UNCHANGED arrived
  <2>1. /\ dead' \in [ID -> Nat] /\ arrived' = arrived /\ dead'[c] = 1
        /\ \A id \in ID : id # c => dead'[id] = dead[id]
    BY <1>1, <1>2, <1>5
  <2>2. ASSUME NEW id \in ID
        PROVE  arrived[id] <= arrived'[id] /\ dead[id] <= dead'[id]
    <3>1. arrived[id] \in Nat /\ dead[id] \in Nat /\ arrived'[id] = arrived[id]
      BY <1>1, <2>1
    <3>2. CASE id = c
      <4>1. dead[c] \in {0, 1} /\ dead'[c] = 1
        BY <1>2, <2>1
      <4>2. QED
        BY <3>1, <3>2, <4>1
    <3>3. CASE id # c
      <4>1. dead'[id] = dead[id]
        BY <2>1, <3>3
      <4>2. QED
        BY <3>1, <4>1
    <3>4. QED
      BY <3>2, <3>3
  <2>3. QED
    BY <1>1, <1>2, <1>5, <2>1, <2>2 DEF c
<1>6. QED
  BY <1>3, <1>4, <1>5 DEF Receipt, c

\* A receipt keeps what is said of everything that was handed over.
LEMMA ReceiptStep ==
  ASSUME IInv, NEW p \in Sender, Todo(p) # <<>>, Receipt(p), Grows, UNCHANGED <<taken, allowed>>
  PROVE  AllowedOnly' /\ ArrivesOnce' /\ Untaken'
<1> DEFINE c == Current(p).id
<1>1. /\ arrived' \in [ID -> Nat] /\ dead' \in [ID -> Nat]
      /\ \A id \in ID : id # c => arrived'[id] = arrived[id] /\ dead'[id] = dead[id]
      /\ arrived'[c] <= 1 /\ dead'[c] <= 1
      /\ arrived'[c] > 0 => arrived[c] > 0 \/ at[p].for = "send"
      /\ dead'[c] > 0 => (arrived'[c] > 0 => c \in unanswered)
  BY ReceiptFacts
<1>2. c \in ID /\ Current(p) \in taken /\ Current(p) = Todo(p)[1]
  BY CurrentFacts
<1>3. \A d \in taken : d.id \in ID /\ (d.id = c => d = Current(p))
  BY <1>2 DEF IInv, Typed, Distinct, Delivery
<1>4. at[p].for = "send" => Current(p).Endpoint \in allowed
  BY <1>2 DEF IInv, Allowing
<1> HIDE DEF c
<1>5. AllowedOnly'
  <2> SUFFICES ASSUME NEW d \in taken, arrived'[d.id] > 0
               PROVE  d.Endpoint \in allowed
    BY DEF AllowedOnly
  <2>1. CASE d.id # c
    BY <1>1, <1>3, <2>1 DEF IInv, AllowedOnly
  <2>2. CASE d.id = c
    BY <1>1, <1>3, <1>4, <2>2 DEF IInv, AllowedOnly
  <2>3. QED
    BY <2>1, <2>2
<1>6. ArrivesOnce'
  <2> SUFFICES ASSUME NEW d \in taken
               PROVE  /\ arrived'[d.id] <= 1 /\ dead'[d.id] <= 1
                      /\ arrived'[d.id] > 0 /\ dead'[d.id] > 0 => d.id \in unanswered'
    BY DEF ArrivesOnce
  <2>1. CASE d.id # c
    BY <1>1, <1>3, <2>1 DEF IInv, ArrivesOnce, Grows
  <2>2. CASE d.id = c
    BY <1>1, <2>2 DEF Grows
  <2>3. QED
    BY <2>1, <2>2
<1>7. Untaken'
  <2>1. \A id \in ID : (\A d \in taken : d.id # id) => id # c
    BY <1>2 DEF c
  <2>2. QED
    BY <1>1, <2>1 DEF IInv, Untaken
<1>8. QED
  BY <1>5, <1>6, <1>7

\* The sender stays with its delivery: after a check that allowed it, a call
\* that was answered, or a failure that is redriven.
LEMMA StayStep ==
  ASSUME IInv, NEW p \in Sender, Todo(p) # <<>>,
         NEW purpose \in {"check", "send", "redrive"},
         NEW call \in {"GetQueueUrl", "GetQueueAttributes", "SendMessage"},
         Goto(p, purpose, call), Receipt(p), Grows, UNCHANGED <<queues, taken, allowed>>,
         purpose = "check" => at[p].for = "check" /\ call # "SendMessage",
         purpose = "send" => Current(p).Endpoint \in allowed /\ at[p].for # "redrive",
         purpose = "redrive" => Current(p).DeadLetterTargetArn \in Queue,
         \/ UNCHANGED <<arrived, dead>>
         \/ at[p].for = "send" /\ purpose = "redrive" /\ Current(p).id \in unanswered'
  PROVE  IInv'
<1> DEFINE c == Current(p).id
<1>1. /\ at' \in [Sender -> Place]
      /\ Todo(p)' = Todo(p) /\ at'[p].for = purpose /\ at'[p].call = call
      /\ \A q \in Sender \ {p} : at'[q] = at[q]
  BY GotoFacts DEF IInv, Typed
<1>2. \A q \in Sender : Todo(q)' = Todo(q) /\ Indexes(q)' = Indexes(q)
  <2>1. \A q \in Sender : Todo(q)' = Todo(q)
    BY <1>1 DEF Todo
  <2>2. QED
    BY <2>1 DEF Indexes
<1>3. /\ arrived' \in [ID -> Nat] /\ dead' \in [ID -> Nat]
      /\ \A id \in ID : id # c => arrived'[id] = arrived[id] /\ dead'[id] = dead[id]
      /\ \A id \in ID : arrived[id] <= arrived'[id] /\ dead[id] <= dead'[id]
      /\ arrived'[c] <= 1 /\ dead'[c] <= 1
      /\ dead'[c] > 0 => at[p].for = "redrive"
  BY ReceiptFacts
<1>4. /\ c \in ID /\ 1 \in Indexes(p) /\ Current(p) = Todo(p)[1]
  BY CurrentFacts
<1>5. Typed'
  BY <1>1, <1>3 DEF IInv, Typed
<1>6. Destined'
  <2> SUFFICES ASSUME NEW q \in Sender
               PROVE  /\ at'[q].call = "SendMessage" => at'[q].for # "check"
                      /\ \A i \in Indexes(q) :
                           IF i = 1 /\ at'[q].for = "redrive"
                           THEN Todo(q)[i].DeadLetterTargetArn \in Queue
                           ELSE Todo(q)[i].Endpoint \in Queue
    BY <1>2 DEF Destined
  <2>1. CASE q # p
    BY <1>1, <2>1 DEF IInv, Destined
  <2>2. CASE q = p
    <3>1. purpose # "redrive" => at[p].for # "redrive"
      OBVIOUS
    <3>2. QED
      BY <1>1, <1>4, <2>2, <3>1 DEF IInv, Destined
  <2>3. QED
    BY <2>1, <2>2
<1>7. Distinct'
  BY <1>2 DEF IInv, Distinct
<1>8. Allowing'
  BY <1>1, <1>2, <1>4 DEF IInv, Allowing
<1>9. Unsent'
  <2> SUFFICES ASSUME NEW q \in Sender, NEW i \in Indexes(q)
               PROVE  LET id == Todo(q)[i].id IN
                      /\ dead'[id] = 0
                      /\ \/ arrived'[id] = 0
                         \/ i = 1 /\ at'[q].for = "redrive" /\ arrived'[id] = 1
                            /\ id \in unanswered'
    BY <1>2 DEF Unsent
  <2>1. CASE ~(q = p /\ i = 1)
    <3>1. Todo(q)[i].id # c /\ Todo(q)[i].id \in ID
      BY <2>1, OtherID
    <3>2. i = 1 => at'[q].for = at[q].for
      BY <1>1, <2>1
    <3>3. QED
      BY <1>3, <3>1, <3>2 DEF IInv, Unsent, Grows
  <2>2. CASE q = p /\ i = 1
    <3>1. /\ Todo(q)[i].id = c /\ dead[c] = 0
          /\ \/ arrived[c] = 0
             \/ at[p].for = "redrive" /\ arrived[c] = 1 /\ c \in unanswered
      BY <1>4, <2>2 DEF IInv, Unsent
    <3>2. CASE UNCHANGED <<arrived, dead>>
      <4>1. at[p].for = "redrive" => purpose = "redrive"
        OBVIOUS
      <4>2. QED
        BY <1>1, <2>2, <3>1, <3>2, <4>1 DEF Grows
    <3>3. CASE at[p].for = "send" /\ purpose = "redrive" /\ c \in unanswered'
      <4>1. dead'[c] = 0 /\ arrived'[c] \in {0, 1}
        BY <1>3, <1>4, <3>3
      <4>2. QED
        BY <1>1, <2>2, <3>1, <3>3, <4>1
    <3>4. QED
      BY <3>2, <3>3
  <2>3. QED
    BY <2>1, <2>2
<1>10. AllowedOnly' /\ ArrivesOnce' /\ Untaken'
  BY ReceiptStep
<1>11. NothingLost'
  <2>1. \A d : d \in UnderWay' <=> d \in UnderWay
    <3>1. UnderWay' = UNION { Range(Todo(q)') : q \in Sender }
      BY DEF UnderWay, Todo
    <3>2. UnderWay = UNION { Range(Todo(q)) : q \in Sender }
      BY DEF UnderWay, Todo
    <3>3. QED
      BY <1>2, <3>1, <3>2
  <2>2. ASSUME NEW d \in taken \ UnderWay'
        PROVE  \/ arrived'[d.id] + dead'[d.id] > 0
               \/ d.DeadLetterTargetArn = NoQueue
               \/ d.id \in unnoticed' \cup gaveUp'
    <3>1. d.id \in ID
      BY DEF IInv, Typed, Delivery
    <3>2. /\ arrived[d.id] \in Nat /\ dead[d.id] \in Nat
          /\ arrived'[d.id] \in Nat /\ dead'[d.id] \in Nat
          /\ arrived[d.id] <= arrived'[d.id] /\ dead[d.id] <= dead'[d.id]
      BY <1>3, <3>1 DEF IInv, Typed
    <3>3. \/ arrived[d.id] + dead[d.id] > 0 \/ d.DeadLetterTargetArn = NoQueue
          \/ d.id \in unnoticed \cup gaveUp
      BY <2>1 DEF IInv, NothingLost
    <3>4. QED
      BY <3>2, <3>3 DEF Grows
  <2>3. QED
    BY <2>2 DEF NothingLost
<1>12. QED
  BY <1>5, <1>6, <1>7, <1>8, <1>9, <1>10, <1>11 DEF IInv

\* What was over stays as good as it was.
LEMMA StillThere ==
  ASSUME IInv, NEW d \in taken \ UnderWay, Grows,
         arrived' \in [ID -> Nat], dead' \in [ID -> Nat],
         \A id \in ID : arrived[id] <= arrived'[id] /\ dead[id] <= dead'[id]
  PROVE  \/ arrived'[d.id] + dead'[d.id] > 0
         \/ d.DeadLetterTargetArn = NoQueue
         \/ d.id \in unnoticed' \cup gaveUp'
<1>1. d.id \in ID
  BY DEF IInv, Typed, Delivery
<1>2. /\ arrived[d.id] \in Nat /\ dead[d.id] \in Nat
      /\ arrived'[d.id] \in Nat /\ dead'[d.id] \in Nat
      /\ arrived[d.id] <= arrived'[d.id] /\ dead[d.id] <= dead'[d.id]
  BY <1>1 DEF IInv, Typed
<1>3. \/ arrived[d.id] + dead[d.id] > 0 \/ d.DeadLetterTargetArn = NoQueue
      \/ d.id \in unnoticed \cup gaveUp
  BY DEF IInv, NothingLost
<1>4. QED
  BY <1>2, <1>3 DEF Grows

\* The sender is done with its delivery, and has left it somewhere.
LEMMA FinishStep ==
  ASSUME IInv, NEW p \in Sender, Todo(p) # <<>>, Finish(p), Receipt(p), Grows,
         UNCHANGED <<queues, taken, allowed>>,
         \/ arrived'[Current(p).id] + dead'[Current(p).id] > 0
         \/ Current(p).DeadLetterTargetArn = NoQueue
         \/ Current(p).id \in unnoticed' \cup gaveUp'
  PROVE  IInv'
<1> DEFINE c == Current(p).id
<1>1. /\ at' \in [Sender -> Place]
      /\ at'[p].for = "check" /\ at'[p].call = "GetQueueUrl"
      /\ \A i \in Indexes(p)' : Todo(p)'[i] = Todo(p)[i + 1] /\ i + 1 \in Indexes(p) /\ i + 1 # 1
      /\ \A j \in Indexes(p) : j # 1 => j - 1 \in Indexes(p)' /\ Todo(p)'[j - 1] = Todo(p)[j]
      /\ \A q \in Sender \ {p} : at'[q] = at[q]
  BY FinishFacts DEF IInv, Typed
<1>2. \A q \in Sender \ {p} : Todo(q)' = Todo(q) /\ Indexes(q)' = Indexes(q)
  <2>1. \A q \in Sender \ {p} : Todo(q)' = Todo(q)
    BY <1>1 DEF Todo
  <2>2. QED
    BY <2>1 DEF Indexes
<1>3. /\ arrived' \in [ID -> Nat] /\ dead' \in [ID -> Nat]
      /\ \A id \in ID : id # c => arrived'[id] = arrived[id] /\ dead'[id] = dead[id]
      /\ \A id \in ID : arrived[id] <= arrived'[id] /\ dead[id] <= dead'[id]
  BY ReceiptFacts
<1>4. c \in ID /\ 1 \in Indexes(p) /\ Current(p) = Todo(p)[1]
  BY CurrentFacts
<1>5. Typed'
  BY <1>1, <1>3 DEF IInv, Typed
<1> DEFINE Was(q, i) == IF q = p THEN i + 1 ELSE i
<1>6. ASSUME NEW q \in Sender, NEW i \in Indexes(q)'
      PROVE  /\ Was(q, i) \in Indexes(q) /\ Todo(q)'[i] = Todo(q)[Was(q, i)]
             /\ ~(q = p /\ Was(q, i) = 1)
  BY <1>1, <1>2
<1>7. Destined'
  <2> SUFFICES ASSUME NEW q \in Sender
               PROVE  /\ at'[q].call = "SendMessage" => at'[q].for # "check"
                      /\ \A i \in Indexes(q)' :
                           IF i = 1 /\ at'[q].for = "redrive"
                           THEN Todo(q)'[i].DeadLetterTargetArn \in Queue
                           ELSE Todo(q)'[i].Endpoint \in Queue
    BY DEF Destined
  <2>1. CASE q # p
    BY <1>1, <1>2, <2>1 DEF IInv, Destined
  <2>2. CASE q = p
    <3>1. at'[q].call # "SendMessage" /\ at'[q].for # "redrive"
      BY <1>1, <2>2
    <3>2. ASSUME NEW i \in Indexes(p)'
          PROVE  Todo(p)'[i].Endpoint \in Queue
      BY <1>1 DEF IInv, Destined
    <3>3. QED
      BY <2>2, <3>1, <3>2
  <2>3. QED
    BY <2>1, <2>2
<1>8. Distinct'
  <2>1. \A d, e \in taken : d.id = e.id => d = e
    BY DEF IInv, Distinct
  <2>2. ASSUME NEW q \in Sender, NEW i \in Indexes(q)'
        PROVE  Todo(q)'[i] \in taken
    BY <1>6 DEF IInv, Distinct
  <2>3. ASSUME NEW q \in Sender, NEW r \in Sender, NEW i \in Indexes(q)', NEW j \in Indexes(r)',
               Todo(q)'[i] = Todo(r)'[j]
        PROVE  q = r /\ i = j
    <3>1. Todo(q)[Was(q, i)] = Todo(r)[Was(r, j)] /\ Was(q, i) \in Indexes(q)
          /\ Was(r, j) \in Indexes(r)
      BY <1>6, <2>3
    <3>2. q = r /\ Was(q, i) = Was(r, j)
      BY <3>1 DEF IInv, Distinct
    <3>3. i \in Int /\ j \in Int
      BY DEF Indexes
    <3>4. QED
      BY <3>2, <3>3
  <2>4. QED
    BY <2>1, <2>2, <2>3 DEF Distinct
<1>9. Allowing'
  <2>1. ASSUME NEW q \in Sender, Todo(q)' # <<>>, at'[q].for = "send"
        PROVE  Todo(q)'[1].Endpoint \in allowed
    <3>1. q # p
      BY <1>1, <2>1
    <3>2. QED
      BY <1>1, <1>2, <2>1, <3>1 DEF IInv, Allowing
  <2>2. QED
    BY <2>1 DEF IInv, Allowing
<1>10. Unsent'
  <2> SUFFICES ASSUME NEW q \in Sender, NEW i \in Indexes(q)'
               PROVE  LET id == Todo(q)'[i].id IN
                      /\ dead'[id] = 0
                      /\ \/ arrived'[id] = 0
                         \/ i = 1 /\ at'[q].for = "redrive" /\ arrived'[id] = 1
                            /\ id \in unanswered'
    BY DEF Unsent
  <2> DEFINE k == Was(q, i)
             id == Todo(q)[k].id
  <2>1. k \in Indexes(q) /\ Todo(q)'[i] = Todo(q)[k] /\ ~(q = p /\ k = 1)
    BY <1>6
  <2>2. q # p => k = i
    OBVIOUS
  <2> HIDE DEF k
  <2>3. id # c /\ id \in ID
    BY <2>1, OtherID
  <2>4. /\ dead[id] = 0
        /\ \/ arrived[id] = 0
           \/ k = 1 /\ at[q].for = "redrive" /\ arrived[id] = 1 /\ id \in unanswered
    BY <2>1 DEF IInv, Unsent
  <2>5. QED
    BY <1>1, <1>3, <2>1, <2>2, <2>3, <2>4 DEF Grows
<1>11. AllowedOnly' /\ ArrivesOnce' /\ Untaken'
  BY ReceiptStep
<1>12. NothingLost'
  <2>1. ASSUME NEW d \in UnderWay, d # Current(p)
        PROVE  d \in UnderWay'
    <3>0. PICK q \in Sender : \E j \in Indexes(q) : d = Todo(q)[j]
      BY <2>1, UnderWayFacts DEF IInv, Typed
    <3>1. PICK j \in Indexes(q) : d = Todo(q)[j]
      BY <3>0
    <3>2. \E i \in Indexes(q)' : Todo(q)'[i] = d
      <4>1. CASE q # p
        BY <1>2, <3>1, <4>1
      <4>2. CASE q = p
        <5>1. j # 1
          BY <1>4, <2>1, <3>1, <4>2
        <5>2. j - 1 \in Indexes(q)' /\ Todo(q)'[j - 1] = d
          BY <1>1, <3>1, <4>2, <5>1
        <5>3. QED
          BY <5>2
      <4>3. QED
        BY <4>1, <4>2
    <3>3. at'[q].todo \in Seq(Delivery)
      BY <1>1 DEF Place
    <3>4. DOMAIN at'[q].todo = Indexes(q)'
      BY <3>3 DEF Indexes, Todo
    <3>5. d \in Range(at'[q].todo)
      BY <3>2, <3>4 DEF Range, Todo
    <3>6. QED
      BY <3>5 DEF UnderWay
  <2>2. ASSUME NEW d \in taken \ UnderWay'
        PROVE  \/ arrived'[d.id] + dead'[d.id] > 0
               \/ d.DeadLetterTargetArn = NoQueue
               \/ d.id \in unnoticed' \cup gaveUp'
    <3>1. CASE d = Current(p)
      BY <3>1
    <3>2. CASE d # Current(p)
      <4>1. d \in taken \ UnderWay
        BY <2>1, <2>2, <3>2
      <4>2. QED
        BY <1>3, <4>1, StillThere
    <3>3. QED
      BY <3>1, <3>2
  <2>3. QED
    BY <2>2 DEF NothingLost
<1>13. QED
  BY <1>5, <1>7, <1>8, <1>9, <1>10, <1>11, <1>12 DEF IInv

\* A failure is redriven, or ends the delivery.
LEMMA FailStep ==
  ASSUME IInv, NEW p \in Sender, Todo(p) # <<>>, Fail(p), Receipt(p),
         UNCHANGED <<queues, taken, allowed>>,
         unanswered \subseteq unanswered', unnoticed \subseteq unnoticed',
         UNCHANGED <<arrived, dead>> \/ Current(p).id \in unanswered'
  PROVE  IInv'
<1>1. Current(p) \in Delivery
  BY CurrentFacts
<1>2. CASE at[p].for # "redrive" /\ Current(p).DeadLetterTargetArn # NoQueue
  <2>1. Goto(p, "redrive", "GetQueueUrl") /\ UNCHANGED gaveUp
    BY <1>2 DEF Fail
  <2>2. Current(p).DeadLetterTargetArn \in Queue
    BY <1>1, <1>2 DEF Delivery
  <2>3. UNCHANGED <<arrived, dead>> \/ (at[p].for = "send" /\ Current(p).id \in unanswered')
    BY <1>2 DEF Receipt
  <2>4. Grows
    BY <2>1 DEF Grows
  <2>5. QED
    BY <2>1, <2>2, <2>3, <2>4, StayStep
<1>3. CASE ~(at[p].for # "redrive" /\ Current(p).DeadLetterTargetArn # NoQueue)
  <2>1. /\ Finish(p)
        /\ gaveUp' = IF at[p].for = "redrive" THEN gaveUp \cup {Current(p).id} ELSE gaveUp
    BY <1>3 DEF Fail
  <2>2. Grows
    BY <2>1 DEF Grows
  <2>3. \/ Current(p).DeadLetterTargetArn = NoQueue
        \/ Current(p).id \in unnoticed' \cup gaveUp'
    BY <1>3, <2>1
  <2>4. QED
    BY <2>1, <2>2, <2>3, FinishStep
<1>4. QED
  BY <1>2, <1>3

-----------------------------------------------------------------------------
(***************************************************************************)
(* The calls of the client.                                                *)
(***************************************************************************)
\* The queue a call goes to, and what is known of it.
LEMMA TargetFacts ==
  ASSUME IInv, NEW p \in Sender, Todo(p) # <<>>
  PROVE  /\ Target(p) \in Queue
         /\ at[p].for \in {"check", "send", "redrive"}
         /\ at[p].for = "check" => Target(p) = Current(p).Endpoint
         /\ at[p].for = "send" => Current(p).Endpoint \in allowed
         /\ at[p].for = "redrive" => Current(p).DeadLetterTargetArn \in Queue
<1>1. 1 \in Indexes(p) /\ Current(p) = Todo(p)[1]
  BY CurrentFacts
<1>2. IF at[p].for = "redrive" THEN Current(p).DeadLetterTargetArn \in Queue
      ELSE Current(p).Endpoint \in Queue
  BY <1>1 DEF IInv, Destined
<1>3. at[p].for = "send" => Current(p).Endpoint \in allowed
  BY <1>1 DEF IInv, Allowing
<1>4. at[p].for \in {"check", "send", "redrive"}
  BY DEF IInv, Typed, Place
<1>5. QED
  BY <1>2, <1>3, <1>4 DEF Target

\* GetQueueUrl.
LEMMA GetQueueUrlStep ==
  ASSUME IInv, NEW p \in Sender, GetQueueUrl(p)
  PROVE  IInv'
<1>1. /\ Todo(p) # <<>>
      /\ UNCHANGED <<queues, taken, allowed, arrived, dead, unanswered, unnoticed>>
  BY DEF GetQueueUrl, Calling, Todo
<1>2. Receipt(p)
  BY <1>1 DEF Receipt
<1>3. (Goto(p, at[p].for, "GetQueueAttributes") /\ UNCHANGED gaveUp) \/ Fail(p)
  BY DEF GetQueueUrl
<1>4. CASE Goto(p, at[p].for, "GetQueueAttributes") /\ UNCHANGED gaveUp
  <2>1. Grows
    BY <1>1, <1>4 DEF Grows
  <2>2. /\ at[p].for \in {"check", "send", "redrive"}
        /\ at[p].for = "send" => Current(p).Endpoint \in allowed
        /\ at[p].for = "redrive" => Current(p).DeadLetterTargetArn \in Queue
    BY <1>1, TargetFacts
  <2>3. QED
    BY <1>1, <1>2, <1>4, <2>1, <2>2, StayStep
<1>5. CASE Fail(p)
  BY <1>1, <1>2, <1>5, FailStep
<1>6. QED
  BY <1>3, <1>4, <1>5

\* GetQueueAttributes: the policy that was read is the one the queue has.
LEMMA GetQueueAttributesStep ==
  ASSUME IInv, NEW p \in Sender, GetQueueAttributes(p)
  PROVE  IInv'
<1>1. /\ Todo(p) # <<>>
      /\ UNCHANGED <<queues, taken, allowed, arrived, dead, unanswered, unnoticed>>
  BY DEF GetQueueAttributes, Calling, Todo
<1>2. Receipt(p)
  BY <1>1 DEF Receipt
<1>3. /\ Target(p) \in Queue
      /\ at[p].for \in {"check", "send", "redrive"}
      /\ at[p].for = "check" => Target(p) = Current(p).Endpoint
      /\ at[p].for = "send" => Current(p).Endpoint \in allowed
      /\ at[p].for = "redrive" => Current(p).DeadLetterTargetArn \in Queue
  BY <1>1, TargetFacts
<1>4. PICK a \in {"answered", "refused", "failed"} :
        /\ Answer(p, a)
        /\ \/ /\ at[p].for # "check" /\ Goto(p, at[p].for, "SendMessage")
              /\ UNCHANGED gaveUp
           \/ /\ at[p].for = "check" /\ PolicyAllows(p, a)
              /\ Goto(p, "send", "GetQueueUrl") /\ UNCHANGED gaveUp
           \/ Fail(p)
  BY DEF GetQueueAttributes
<1>5. CASE at[p].for # "check" /\ Goto(p, at[p].for, "SendMessage") /\ UNCHANGED gaveUp
  <2>1. Grows
    BY <1>1, <1>5 DEF Grows
  <2>2. QED
    BY <1>1, <1>2, <1>3, <1>5, <2>1, StayStep
<1>6. CASE at[p].for = "check" /\ PolicyAllows(p, a)
           /\ Goto(p, "send", "GetQueueUrl") /\ UNCHANGED gaveUp
  <2>1. Grows
    BY <1>1, <1>6 DEF Grows
  <2>2. a = "answered" /\ queues[Target(p)].allows
    BY <1>6 DEF PolicyAllows
  <2>3. Expected(p) = "answered"
    BY <1>4, <2>2 DEF Answer
  <2>4. queues[Target(p)].exists
    BY <2>3 DEF Expected
  <2>5. Current(p).Endpoint \in allowed
    BY <1>3, <1>6, <2>2, <2>4 DEF IInv, Allowing
  <2>6. QED
    BY <1>1, <1>2, <1>6, <2>1, <2>5, StayStep
<1>7. CASE Fail(p)
  BY <1>1, <1>2, <1>7, FailStep
<1>8. QED
  BY <1>4, <1>5, <1>6, <1>7

\* SendMessage: the message is received or not, and the client told or not.
LEMMA SendMessageStep ==
  ASSUME IInv, NEW p \in Sender, SendMessage(p)
  PROVE  IInv'
<1>1. Todo(p) # <<>> /\ at[p].call = "SendMessage" /\ UNCHANGED <<queues, taken, allowed>>
  BY DEF SendMessage, Calling, Todo
<1>2. at[p].for \in {"send", "redrive"}
  BY <1>1, TargetFacts DEF IInv, Destined
<1>3. PICK a \in {"answered", "refused", "failed"} :
        /\ AfterSend(p, a)
        /\ \/ a = "answered" /\ Receive(p) /\ UNCHANGED <<unanswered, unnoticed>>
           \/ /\ a = "refused"
              /\ unnoticed' = unnoticed \cup {Current(p).id}
              /\ UNCHANGED <<arrived, dead, unanswered>>
           \/ a = "failed" /\ UNCHANGED <<arrived, dead, unanswered, unnoticed>>
           \/ /\ a = "failed" /\ Receive(p)
              /\ unanswered' = unanswered \cup {Current(p).id}
              /\ UNCHANGED unnoticed
  BY DEF SendMessage
<1>4. Receive(p) => Receipt(p)
  BY <1>2 DEF Receive, Receipt
<1>5. CASE a = "answered" /\ Receive(p) /\ UNCHANGED <<unanswered, unnoticed>>
  <2>1. Finish(p) /\ UNCHANGED gaveUp
    BY <1>3, <1>5 DEF AfterSend
  <2>2. Grows
    BY <1>5, <2>1 DEF Grows
  <2>3. arrived'[Current(p).id] + dead'[Current(p).id] > 0
    <3>1. Current(p).id \in ID
      BY <1>1, CurrentFacts
    <3>2. arrived \in [ID -> Nat] /\ dead \in [ID -> Nat]
      BY DEF IInv, Typed
    <3>3. CASE at[p].for = "redrive"
      BY <1>5, <3>1, <3>2, <3>3 DEF Receive
    <3>4. CASE at[p].for # "redrive"
      BY <1>5, <3>1, <3>2, <3>4 DEF Receive
    <3>5. QED
      BY <3>3, <3>4
  <2>4. QED
    BY <1>1, <1>4, <1>5, <2>1, <2>2, <2>3, FinishStep
<1>6. CASE /\ a = "refused" /\ unnoticed' = unnoticed \cup {Current(p).id}
           /\ UNCHANGED <<arrived, dead, unanswered>>
  <2>1. Finish(p) /\ UNCHANGED gaveUp
    BY <1>3, <1>6 DEF AfterSend
  <2>2. Grows /\ Receipt(p)
    BY <1>6, <2>1 DEF Grows, Receipt
  <2>3. QED
    BY <1>1, <1>6, <2>1, <2>2, FinishStep
<1>7. CASE a = "failed" /\ UNCHANGED <<arrived, dead, unanswered, unnoticed>>
  <2>1. Fail(p) /\ Receipt(p)
    BY <1>3, <1>7 DEF AfterSend, Receipt
  <2>2. QED
    BY <1>1, <1>7, <2>1, FailStep
<1>8. CASE /\ a = "failed" /\ Receive(p)
           /\ unanswered' = unanswered \cup {Current(p).id} /\ UNCHANGED unnoticed
  <2>1. Fail(p)
    BY <1>3, <1>8 DEF AfterSend
  <2>2. QED
    BY <1>1, <1>4, <1>8, <2>1, FailStep
<1>9. QED
  BY <1>3, <1>5, <1>6, <1>7, <1>8

-----------------------------------------------------------------------------
(***************************************************************************)
(* The other steps: nothing arrives, and a sender is where it was or is    *)
(* cut off.                                                                *)
(***************************************************************************)
\* Senders that keep their places or lose all they had to do.
LEMMA QuietStep ==
  ASSUME IInv, \A p \in Sender : at'[p] = at[p] \/ at'[p] = Idle,
         at' \in [Sender -> Place], queues' \in [Queue -> QueueState],
         \A q \in Queue : queues'[q].exists /\ queues'[q].allows => q \in allowed',
         allowed \subseteq allowed', gaveUp \subseteq gaveUp',
         UNCHANGED <<arrived, dead, unanswered, unnoticed, taken>>,
         \A p \in Sender : \A i \in Indexes(p) : at'[p] # at[p] => Todo(p)[i].id \in gaveUp'
  PROVE  IInv'
<1>1. ASSUME NEW p \in Sender, at'[p] # at[p]
      PROVE  /\ Indexes(p)' = {} /\ Todo(p)' = <<>>
             /\ at'[p].call = "GetQueueUrl" /\ at'[p].for = "check"
  <2>1. at'[p] = Idle
    BY <1>1
  <2>2. Todo(p)' = <<>> /\ at'[p].call = "GetQueueUrl" /\ at'[p].for = "check"
    BY <2>1 DEF Idle, Todo
  <2>3. QED
    BY <2>2 DEF Indexes
<1>2. ASSUME NEW p \in Sender, at'[p] = at[p]
      PROVE  Indexes(p)' = Indexes(p) /\ Todo(p)' = Todo(p)
  BY <1>2 DEF Indexes, Todo
<1>3. \A p \in Sender : \A i \in Indexes(p)' :
        i \in Indexes(p) /\ Todo(p)'[i] = Todo(p)[i] /\ at'[p] = at[p]
  BY <1>1, <1>2
<1>4. Typed'
  BY DEF IInv, Typed
<1>5. Destined'
  <2>1. ASSUME NEW p \in Sender
        PROVE  at'[p].call = "SendMessage" => at'[p].for # "check"
    BY <1>1 DEF IInv, Destined
  <2>2. ASSUME NEW p \in Sender, NEW i \in Indexes(p)'
        PROVE  IF i = 1 /\ at'[p].for = "redrive"
               THEN Todo(p)'[i].DeadLetterTargetArn \in Queue
               ELSE Todo(p)'[i].Endpoint \in Queue
    BY <1>3 DEF IInv, Destined
  <2>3. QED
    BY <2>1, <2>2 DEF Destined
<1>6. Distinct'
  <2>1. \A d, e \in taken : d.id = e.id => d = e
    BY DEF IInv, Distinct
  <2>2. \A p \in Sender : \A i \in Indexes(p)' : Todo(p)'[i] \in taken
    BY <1>3 DEF IInv, Distinct
  <2>3. ASSUME NEW p \in Sender, NEW q \in Sender, NEW i \in Indexes(p)', NEW j \in Indexes(q)',
               Todo(p)'[i] = Todo(q)'[j]
        PROVE  p = q /\ i = j
    BY <1>3, <2>3 DEF IInv, Distinct
  <2>4. QED
    BY <2>1, <2>2, <2>3 DEF Distinct
<1>7. Allowing'
  <2>1. ASSUME NEW p \in Sender, Todo(p)' # <<>>, at'[p].for = "send"
        PROVE  Todo(p)'[1].Endpoint \in allowed'
    <3>1. at'[p] = at[p] /\ Todo(p)' = Todo(p)
      BY <1>1, <1>2, <2>1
    <3>2. QED
      BY <2>1, <3>1 DEF IInv, Allowing
  <2>2. QED
    BY <2>1 DEF Allowing
<1>8. Unsent'
  <2> SUFFICES ASSUME NEW p \in Sender, NEW i \in Indexes(p)'
               PROVE  LET id == Todo(p)'[i].id IN
                      /\ dead[id] = 0
                      /\ \/ arrived[id] = 0
                         \/ i = 1 /\ at'[p].for = "redrive" /\ arrived[id] = 1
                            /\ id \in unanswered
    BY DEF Unsent
  <2>1. QED
    BY <1>3 DEF IInv, Unsent
<1>9. Untaken' /\ AllowedOnly' /\ ArrivesOnce'
  BY DEF IInv, Untaken, AllowedOnly, ArrivesOnce
<1>10. NothingLost'
  <2>1. ASSUME NEW d \in UnderWay, d \notin UnderWay'
        PROVE  d.id \in gaveUp'
    <3>1. PICK p \in Sender : d \in Range(at[p].todo)
      BY <2>1 DEF UnderWay
    <3>2. at'[p] # at[p]
      BY <2>1, <3>1 DEF UnderWay
    <3>3. Todo(p) \in Seq(Delivery) /\ Todo(p) = at[p].todo
      BY DEF IInv, Typed, Place, Todo
    <3>4. \E i \in Indexes(p) : d = Todo(p)[i]
      BY <3>1, <3>3 DEF Range, Indexes
    <3>5. QED
      BY <3>2, <3>4
  <2>2. ASSUME NEW d \in taken \ UnderWay'
        PROVE  \/ arrived[d.id] + dead[d.id] > 0
               \/ d.DeadLetterTargetArn = NoQueue
               \/ d.id \in unnoticed \cup gaveUp'
    BY <2>1, <2>2 DEF IInv, NothingLost
  <2>3. QED
    BY <2>2 DEF NothingLost
<1>11. QED
  BY <1>4, <1>5, <1>6, <1>7, <1>8, <1>9, <1>10 DEF IInv

\* A client that is not there.
LEMMA NilClientStep ==
  ASSUME IInv, NEW p \in Sender, NilClient(p)
  PROVE  IInv'
<1> DEFINE cut == IF p = "request" THEN {p} ELSE Sender
<1>1. /\ at' = [x \in Sender |-> IF x \in cut THEN Idle ELSE at[x]]
      /\ gaveUp' = gaveUp \cup { d.id : d \in UNION { Range(at[x].todo) : x \in cut } }
      /\ UNCHANGED <<queues, allowed, arrived, dead, unanswered, unnoticed, taken>>
  BY DEF NilClient
<1> HIDE DEF cut
<1>2. Idle \in Place
  BY EmptySeq DEF Idle, Place
<1>3. at' \in [Sender -> Place] /\ \A q \in Sender : at'[q] = at[q] \/ at'[q] = Idle
  BY <1>1, <1>2 DEF IInv, Typed
<1>4. ASSUME NEW q \in Sender, NEW i \in Indexes(q), at'[q] # at[q]
      PROVE  Todo(q)[i].id \in gaveUp'
  <2>1. q \in cut
    BY <1>1, <1>4
  <2>2. Todo(q) \in Seq(Delivery) /\ Todo(q) = at[q].todo
    BY DEF IInv, Typed, Place, Todo
  <2>3. Todo(q)[i] \in Range(at[q].todo)
    BY <2>2 DEF Range, Indexes
  <2>4. Todo(q)[i] \in UNION { Range(at[x].todo) : x \in cut }
    BY <2>1, <2>3
  <2>5. QED
    BY <1>1, <2>4
<1>5. /\ queues' \in [Queue -> QueueState] /\ allowed \subseteq allowed' /\ gaveUp \subseteq gaveUp'
      /\ \A q \in Queue : queues'[q].exists /\ queues'[q].allows => q \in allowed'
  BY <1>1 DEF IInv, Typed, Allowing
<1>6. QED
  BY <1>1, <1>3, <1>4, <1>5, QuietStep

\* A queue changes.
LEMMA ChangeQueueStep ==
  ASSUME IInv, NEW q \in Queue, ChangeQueue(q)
  PROVE  IInv'
<1>1. PICK s \in QueueState \ {queues[q]} :
        /\ queues' = [queues EXCEPT ![q] = s]
        /\ allowed' = IF s.exists /\ s.allows THEN allowed \cup {q} ELSE allowed
  BY DEF ChangeQueue
<1>2. UNCHANGED <<at, arrived, dead, unanswered, unnoticed, gaveUp, taken>>
  BY DEF ChangeQueue
<1>3. queues \in [Queue -> QueueState] /\ at \in [Sender -> Place]
  BY DEF IInv, Typed
<1>4. queues' \in [Queue -> QueueState] /\ allowed \subseteq allowed'
  BY <1>1, <1>3
<1>5. \A x \in Queue : queues'[x].exists /\ queues'[x].allows => x \in allowed'
  <2>1. \A x \in Queue : queues[x].exists /\ queues[x].allows => x \in allowed
    BY DEF IInv, Allowing
  <2>2. \A x \in Queue : queues'[x] = IF x = q THEN s ELSE queues[x]
    BY <1>1, <1>3
  <2>3. QED
    BY <1>1, <2>1, <2>2
<1>6. QED
  BY <1>2, <1>3, <1>4, <1>5, QuietStep

\* The request is cancelled, or nothing happens.
LEMMA UnchangedStep ==
  ASSUME IInv, UNCHANGED <<queues, at, allowed, arrived, dead, unanswered, unnoticed, gaveUp, taken>>
  PROVE  IInv'
<1>1. queues \in [Queue -> QueueState] /\ at \in [Sender -> Place]
  BY DEF IInv, Typed
<1>2. \A x \in Queue : queues[x].exists /\ queues[x].allows => x \in allowed
  BY DEF IInv, Allowing
<1>3. QED
  BY <1>1, <1>2, QuietStep

\* New deliveries are handed to an idle sender.
LEMMA HandOverStep ==
  ASSUME IInv, NEW p \in Sender, HandOver(p)
  PROVE  IInv'
<1>1. PICK list \in Seq(Delivery), purpose \in {"check", "redrive"} :
        /\ \A i \in 1..Len(list) : \A d \in taken : list[i].id # d.id
        /\ \A i, j \in 1..Len(list) : list[i].id = list[j].id => i = j
        /\ \A i \in 1..Len(list) :
             IF purpose = "redrive" THEN i = 1 /\ list[i].DeadLetterTargetArn \in Queue
             ELSE list[i].Endpoint \in Queue
        /\ Take(p, list, purpose)
  BY DEF HandOver
<1>2. /\ Todo(p) = <<>>
      /\ at' = [at EXCEPT ![p] = [todo |-> list, for |-> purpose, call |-> "GetQueueUrl"]]
      /\ taken' = taken \cup Range(list)
      /\ UNCHANGED <<queues, allowed, arrived, dead, unanswered, unnoticed, gaveUp>>
  BY <1>1 DEF Take, Todo
<1> DEFINE new == 1..Len(list)
<1>3. Range(list) = { list[i] : i \in new }
  BY DEF Range
<1>4. [todo |-> list, for |-> purpose, call |-> "GetQueueUrl"] \in Place
  BY DEF Place
<1>5. /\ at' \in [Sender -> Place] /\ at'[p].todo = list /\ at'[p].for = purpose
      /\ at'[p].call = "GetQueueUrl" /\ \A q \in Sender \ {p} : at'[q] = at[q]
  BY <1>2, <1>4 DEF IInv, Typed
<1>6. Todo(p)' = list /\ Indexes(p)' = new
  BY <1>5 DEF Todo, Indexes
<1>7. \A q \in Sender \ {p} : Todo(q)' = Todo(q) /\ Indexes(q)' = Indexes(q)
  <2>1. \A q \in Sender \ {p} : Todo(q)' = Todo(q)
    BY <1>5 DEF Todo
  <2>2. QED
    BY <2>1 DEF Indexes
<1>8. \A i \in new : list[i] \in Delivery /\ list[i].id \in ID
  <2>1. \A i \in new : list[i] \in Delivery
    BY ElementOfSeq
  <2>2. QED
    BY <2>1 DEF Delivery
<1>9. \A i \in new : arrived[list[i].id] = 0 /\ dead[list[i].id] = 0
  BY <1>1, <1>8 DEF IInv, Untaken
<1>10. \A d \in taken' : d \in taken \/ \E i \in new : d = list[i]
  BY <1>2, <1>3
<1>11. Typed'
  <2>1. taken' \subseteq Delivery
    BY <1>8, <1>10 DEF IInv, Typed
  <2>2. QED
    BY <1>2, <1>5, <2>1 DEF IInv, Typed
<1>12. Destined'
  <2> SUFFICES ASSUME NEW q \in Sender
               PROVE  /\ at'[q].call = "SendMessage" => at'[q].for # "check"
                      /\ \A i \in Indexes(q)' :
                           IF i = 1 /\ at'[q].for = "redrive"
                           THEN Todo(q)'[i].DeadLetterTargetArn \in Queue
                           ELSE Todo(q)'[i].Endpoint \in Queue
    BY DEF Destined
  <2>1. CASE q = p
    BY <1>1, <1>5, <1>6, <2>1
  <2>2. CASE q # p
    BY <1>5, <1>7, <2>2 DEF IInv, Destined
  <2>3. QED
    BY <2>1, <2>2
<1>13. Distinct'
  <2>1. ASSUME NEW d \in taken', NEW e \in taken', d.id = e.id
        PROVE  d = e
    BY <1>1, <1>10, <2>1 DEF IInv, Distinct
  <2>2. ASSUME NEW q \in Sender, NEW i \in Indexes(q)'
        PROVE  Todo(q)'[i] \in taken'
    <3>1. CASE q = p
      BY <1>2, <1>3, <1>6, <3>1
    <3>2. CASE q # p
      BY <1>2, <1>7, <3>2 DEF IInv, Distinct
    <3>3. QED
      BY <3>1, <3>2
  <2>3. ASSUME NEW q \in Sender, NEW r \in Sender, NEW i \in Indexes(q)', NEW j \in Indexes(r)',
               Todo(q)'[i] = Todo(r)'[j]
        PROVE  q = r /\ i = j
    <3>1. CASE q = p /\ r = p
      BY <1>1, <1>6, <2>3, <3>1
    <3>2. CASE q # p /\ r # p
      BY <1>7, <2>3, <3>2 DEF IInv, Distinct
    <3>3. CASE q = p /\ r # p
      <4>1. Todo(r)'[j] \in taken
        BY <1>7, <3>3 DEF IInv, Distinct
      <4>2. QED
        BY <1>1, <1>6, <2>3, <3>3, <4>1
    <3>4. CASE q # p /\ r = p
      <4>1. Todo(q)'[i] \in taken
        BY <1>7, <3>4 DEF IInv, Distinct
      <4>2. QED
        BY <1>1, <1>6, <2>3, <3>4, <4>1
    <3>5. QED
      BY <3>1, <3>2, <3>3, <3>4
  <2>4. QED
    BY <2>1, <2>2, <2>3 DEF Distinct
<1>14. Allowing'
  <2>1. ASSUME NEW q \in Sender, Todo(q)' # <<>>, at'[q].for = "send"
        PROVE  Todo(q)'[1].Endpoint \in allowed
    <3>1. q # p
      BY <1>5, <2>1
    <3>2. QED
      BY <1>5, <1>7, <2>1, <3>1 DEF IInv, Allowing
  <2>2. QED
    BY <1>2, <2>1 DEF IInv, Allowing
<1>15. Unsent'
  <2> SUFFICES ASSUME NEW q \in Sender, NEW i \in Indexes(q)'
               PROVE  LET id == Todo(q)'[i].id IN
                      /\ dead[id] = 0
                      /\ \/ arrived[id] = 0
                         \/ i = 1 /\ at'[q].for = "redrive" /\ arrived[id] = 1
                            /\ id \in unanswered
    BY <1>2 DEF Unsent
  <2>1. CASE q = p
    BY <1>6, <1>9, <2>1
  <2>2. CASE q # p
    BY <1>5, <1>7, <2>2 DEF IInv, Unsent
  <2>3. QED
    BY <2>1, <2>2
<1>16. Untaken'
  BY <1>2 DEF IInv, Untaken
<1>17. AllowedOnly'
  <2>1. ASSUME NEW d \in taken', arrived[d.id] > 0
        PROVE  d.Endpoint \in allowed
    BY <1>9, <1>10, <2>1 DEF IInv, AllowedOnly
  <2>2. QED
    BY <1>2, <2>1 DEF AllowedOnly
<1>18. ArrivesOnce'
  <2>1. ASSUME NEW d \in taken'
        PROVE  /\ arrived[d.id] <= 1 /\ dead[d.id] <= 1
               /\ arrived[d.id] > 0 /\ dead[d.id] > 0 => d.id \in unanswered
    BY <1>9, <1>10 DEF IInv, ArrivesOnce
  <2>2. QED
    BY <1>2, <2>1 DEF ArrivesOnce
<1>19. NothingLost'
  <2>1. ASSUME NEW d \in UnderWay
        PROVE  d \in UnderWay'
    <3>1. PICK q \in Sender : d \in Range(at[q].todo)
      BY DEF UnderWay
    <3>2. q # p
      BY <1>2, <3>1 DEF Range, Todo
    <3>3. d \in Range(at'[q].todo)
      BY <1>5, <3>1, <3>2
    <3>4. QED
      BY <3>3 DEF UnderWay
  <2>2. Range(list) \subseteq UnderWay'
    BY <1>5 DEF UnderWay
  <2>3. taken' \ UnderWay' \subseteq taken \ UnderWay
    BY <1>2, <2>1, <2>2
  <2>4. QED
    BY <1>2, <2>3 DEF IInv, NothingLost
<1>20. QED
  BY <1>11, <1>12, <1>13, <1>14, <1>15, <1>16, <1>17, <1>18, <1>19 DEF IInv

-----------------------------------------------------------------------------
(***************************************************************************)
(* The invariant holds.                                                    *)
(***************************************************************************)
\* No sender has anything to do at first.
LEMMA InitHolds ==
  ASSUME queues \in [Queue -> QueueState], SqsInit
  PROVE  IInv
<1>1. Idle \in Place /\ Idle.todo = <<>> /\ Idle.for = "check" /\ Idle.call = "GetQueueUrl"
  BY EmptySeq DEF Idle, Place
<1>2. at \in [Sender -> Place] /\ \A p \in Sender : at[p] = Idle
  BY <1>1 DEF SqsInit
<1>3. \A p \in Sender : Todo(p) = <<>> /\ Indexes(p) = {}
  BY <1>1, <1>2 DEF Todo, Indexes
<1>4. /\ arrived = [d \in ID |-> 0] /\ dead = [d \in ID |-> 0] /\ taken = {}
      /\ allowed = { q \in Queue : queues[q].exists /\ queues[q].allows }
  BY DEF SqsInit
<1>5. Typed
  BY <1>2, <1>4 DEF Typed
<1>6. Destined /\ Distinct /\ Unsent
  BY <1>1, <1>2, <1>3, <1>4 DEF Destined, Distinct, Unsent
<1>7. Allowing /\ Untaken /\ AllowedOnly /\ NothingLost /\ ArrivesOnce
  BY <1>3, <1>4 DEF Allowing, Untaken, AllowedOnly, NothingLost, ArrivesOnce
<1>8. QED
  BY <1>5, <1>6, <1>7 DEF IInv

\* Every step keeps the invariant.
LEMMA NextHolds ==
  ASSUME IInv, [SqsNext \/ \E p \in Sender : HandOver(p)]_sqs
  PROVE  IInv'
<1>1. CASE \E p \in Sender : Step(p)
  <2>1. PICK p \in Sender : Step(p)
    BY <1>1
  <2>2. QED
    BY <2>1, GetQueueUrlStep, GetQueueAttributesStep, SendMessageStep, NilClientStep DEF Step
<1>2. CASE \E q \in Queue : ChangeQueue(q)
  BY <1>2, ChangeQueueStep
<1>3. CASE Cancel
  BY <1>3, UnchangedStep DEF Cancel
<1>4. CASE \E p \in Sender : HandOver(p)
  BY <1>4, HandOverStep
<1>5. CASE UNCHANGED sqs
  BY <1>5, UnchangedStep DEF sqs
<1>6. QED
  BY <1>1, <1>2, <1>3, <1>4, <1>5 DEF SqsNext

\* The invariant of the senders.
LEMMA Invariant == SqsSpec => []IInv
<1>1. queues \in [Queue -> QueueState] /\ SqsInit => IInv
  BY InitHolds
<1>2. IInv /\ [SqsNext \/ \E p \in Sender : HandOver(p)]_sqs => IInv'
  BY NextHolds
<1>3. QED
  BY <1>1, <1>2, PTL DEF SqsSpec

\* QueueAllowsTopic is asked before every send, of the queue as it is then:
\* a notification is only where the topic was allowed before it was sent,
\* however the queues change between the check and the send.
THEOREM SentWhereAllowed == SqsSpec => []AllowedOnly
<1>1. IInv => AllowedOnly
  BY DEF IInv
<1>2. QED
  BY <1>1, Invariant, PTL

\* deliverToSQS and redrivePayload leave a message of a subscription with a
\* redrive policy in one of its two queues, unless the redrive failed, was
\* cut off, or SQS refused a send that the client took for a success.
THEOREM MessagesNotLost == SqsSpec => []NothingLost
<1>1. IInv => NothingLost
  BY DEF IInv
<1>2. QED
  BY <1>1, Invariant, PTL

\* deliverToSQS sends once, and redrivePayload sends once after it: only a
\* send whose answer was lost leaves the message in both queues.
THEOREM ArrivesAtMostOnce == SqsSpec => []ArrivesOnce
<1>1. IInv => ArrivesOnce
  BY DEF IInv
<1>2. QED
  BY <1>1, Invariant, PTL

-----------------------------------------------------------------------------
(***************************************************************************)
(* Recursion on the depth of objects.  Sets stand for predicates, and      *)
(* functions on functions for the bodies of recursive definitions.         *)
(***************************************************************************)
\* Numbers: what follows from all smaller ones holds of all.
LEMMA LeastNumber ==
  ASSUME NEW T \in SUBSET Nat,
         \A n \in Nat : (\A m \in Nat : m < n => m \in T) => n \in T
  PROVE  T = Nat
<1>1. SUFFICES ASSUME Nat \ T # {} PROVE FALSE
  OBVIOUS
<1>2. PICK x \in Nat \ T : \A y \in Nat \ T : <<y, x>> \notin OpToRel(<, Nat)
  BY <1>1, NatLessThanWellFounded, WFMin
<1>3. OpToRel(<, Nat) = {ss \in Nat \X Nat : ss[1] < ss[2]}
  BY DEF OpToRel
<1>4. x \in Nat /\ x \notin T /\ \A y \in Nat \ T : ~(y < x)
  BY <1>2, <1>3
<1>5. QED
  BY <1>4

\* What holds of every element whose lower ones it holds of, holds of all.
LEMMA DepthInduction ==
  ASSUME NEW S, NEW depth \in [S -> Nat], NEW P \in SUBSET S,
         \A x \in S : (\A y \in S : depth[y] < depth[x] => y \in P) => x \in P
  PROVE  P = S
<1> DEFINE T == { n \in Nat : \A x \in S : depth[x] = n => x \in P }
<1>1. ASSUME NEW n \in Nat, \A m \in Nat : m < n => m \in T
      PROVE  n \in T
  <2>1. ASSUME NEW x \in S, depth[x] = n PROVE x \in P
    <3>1. ASSUME NEW y \in S, depth[y] < depth[x] PROVE y \in P
      <4>1. depth[y] \in Nat /\ depth[y] < n
        BY <2>1, <3>1
      <4>2. depth[y] \in T
        BY <1>1, <4>1
      <4>3. QED
        BY <4>2
    <3>2. QED
      BY <3>1
  <2>2. QED
    BY <2>1
<1>2. T = Nat
  <2>1. T \in SUBSET Nat
    OBVIOUS
  <2> HIDE DEF T
  <2>2. QED
    BY <1>1, <2>1, LeastNumber
<1>3. ASSUME NEW x \in S PROVE x \in P
  <2>1. depth[x] \in T
    BY <1>2
  <2>2. QED
    BY <2>1
<1>4. QED
  BY <1>3

\* G[f][x] looks at f only below x.
Local(S, T, depth, G) ==
  \A f, g \in [S -> T] : \A x \in S :
    (\A y \in S : depth[y] < depth[x] => f[y] = g[y]) => G[f][x] = G[g][x]

\* f solves the equation of G below n.
Solves(f, n, S, T, depth, G) ==
  f \in [S -> T] /\ \A x \in S : depth[x] < n => f[x] = G[f][x]

\* Two solutions are the same as far as both go.
LEMMA SolutionsAgree ==
  ASSUME NEW S, NEW T, NEW depth \in [S -> Nat], NEW G, Local(S, T, depth, G),
         NEW m \in Nat, NEW n \in Nat, m <= n,
         NEW f, Solves(f, m, S, T, depth, G), NEW g, Solves(g, n, S, T, depth, G),
         NEW x \in S, depth[x] < m
  PROVE  f[x] = g[x]
<1> DEFINE P == { y \in S : depth[y] < m => f[y] = g[y] }
<1>1. f \in [S -> T] /\ g \in [S -> T]
  BY DEF Solves
<1>2. ASSUME NEW y \in S, \A z \in S : depth[z] < depth[y] => z \in P
      PROVE  y \in P
  <2>1. SUFFICES ASSUME depth[y] < m PROVE f[y] = g[y]
    OBVIOUS
  <2>2. depth[y] \in Nat /\ depth[y] < n
    BY <2>1
  <2>3. \A z \in S : depth[z] < depth[y] => f[z] = g[z]
    <3>1. ASSUME NEW z \in S, depth[z] < depth[y] PROVE f[z] = g[z]
      <4>1. depth[z] \in Nat /\ depth[z] < m
        BY <2>1, <2>2, <3>1
      <4>2. QED
        BY <1>2, <3>1, <4>1
    <3>2. QED
      BY <3>1
  <2>4. G[f][y] = G[g][y]
    BY <1>1, <2>3 DEF Local
  <2>5. f[y] = G[f][y] /\ g[y] = G[g][y]
    BY <2>1, <2>2 DEF Solves
  <2>6. QED
    BY <2>4, <2>5
<1>3. P = S
  <2>1. P \in SUBSET S
    OBVIOUS
  <2> HIDE DEF P
  <2>2. QED
    BY <1>2, <2>1, DepthInduction
<1>4. QED
  BY <1>3

\* There are solutions as far as one likes.
LEMMA SolutionsExist ==
  ASSUME NEW S, NEW T, T # {}, NEW depth \in [S -> Nat],
         NEW G \in [[S -> T] -> [S -> T]], Local(S, T, depth, G), NEW n \in Nat
  PROVE  \E f \in [S -> T] : Solves(f, n, S, T, depth, G)
<1> DEFINE N == { m \in Nat : \E f \in [S -> T] : Solves(f, m, S, T, depth, G) }
<1>1. ASSUME NEW m \in Nat, \A l \in Nat : l < m => l \in N
      PROVE  m \in N
  <2>1. CASE m = 0
    <3>1. PICK t \in T : TRUE
      OBVIOUS
    <3>2. Solves([x \in S |-> t], m, S, T, depth, G) /\ [x \in S |-> t] \in [S -> T]
      BY <2>1 DEF Solves
    <3>3. QED
      BY <3>2
  <2>2. CASE m # 0
    <3>1. m - 1 \in Nat /\ m - 1 < m
      BY <2>2
    <3>2. m - 1 \in N
      BY <1>1, <3>1
    <3>3. PICK f \in [S -> T] : Solves(f, m - 1, S, T, depth, G)
      BY <3>2
    <3> DEFINE g == G[f]
    <3>4. g \in [S -> T]
      OBVIOUS
    <3>5. ASSUME NEW x \in S, depth[x] < m PROVE g[x] = G[g][x]
      <4>1. ASSUME NEW y \in S, depth[y] < depth[x] PROVE f[y] = g[y]
        <5>1. depth[x] \in Nat /\ depth[y] \in Nat
          OBVIOUS
        <5>2. depth[y] < m - 1
          BY <3>5, <4>1, <5>1
        <5>3. QED
          BY <3>3, <5>2 DEF Solves
      <4> HIDE DEF g
      <4>2. G[f][x] = G[g][x]
        BY <3>4, <4>1 DEF Local
      <4>3. QED
        BY <4>2 DEF g
    <3> HIDE DEF g
    <3>6. Solves(g, m, S, T, depth, G)
      BY <3>4, <3>5 DEF Solves
    <3>7. QED
      BY <3>4, <3>6
  <2>3. QED
    BY <2>1, <2>2
<1>2. N = Nat
  <2>1. N \in SUBSET Nat
    OBVIOUS
  <2> HIDE DEF N
  <2>2. QED
    BY <1>1, <2>1, LeastNumber
<1>3. QED
  BY <1>2

DepthOn(S, depth) == depth \in [S -> Nat]
BodyOn(S, T, G) == T # {} /\ G \in [[S -> T] -> [S -> T]]
HasFixedPoint(S, T, G) == \E f \in [S -> T] : f = G[f]

\* A definition by recursion on the depth defines something.
LEMMA FixedPoint ==
  ASSUME NEW S, NEW T, NEW depth, NEW G,
         DepthOn(S, depth), BodyOn(S, T, G), Local(S, T, depth, G)
  PROVE  HasFixedPoint(S, T, G)
<1> USE DEF DepthOn, BodyOn
<1> DEFINE Sol(n) == CHOOSE f \in [S -> T] : Solves(f, n, S, T, depth, G)
           F == [x \in S |-> Sol(depth[x] + 1)[x]]
<1>1. ASSUME NEW n \in Nat PROVE Sol(n) \in [S -> T] /\ Solves(Sol(n), n, S, T, depth, G)
  BY SolutionsExist
<1> HIDE DEF Sol
<1>2. F \in [S -> T]
  BY <1>1
<1>3. ASSUME NEW x \in S PROVE F[x] = G[F][x]
  <2> DEFINE n == depth[x] + 1
  <2>1. n \in Nat /\ depth[x] \in Nat /\ depth[x] < n
    OBVIOUS
  <2>2. ASSUME NEW y \in S, depth[y] < depth[x] PROVE F[y] = Sol(n)[y]
    <3> DEFINE m == depth[y] + 1
    <3>1. m \in Nat /\ m <= n /\ depth[y] < m
      BY <2>1, <2>2
    <3>2. F[y] = Sol(m)[y]
      OBVIOUS
    <3> HIDE DEF m, n, F
    <3>3. Solves(Sol(m), m, S, T, depth, G) /\ Solves(Sol(n), n, S, T, depth, G)
      BY <1>1, <2>1, <3>1
    <3>4. QED
      BY <2>1, <3>1, <3>2, <3>3, SolutionsAgree
  <2>3. F[x] = Sol(n)[x]
    OBVIOUS
  <2> HIDE DEF n, F
  <2>4. G[F][x] = G[Sol(n)][x]
    BY <1>1, <1>2, <2>1, <2>2 DEF Local
  <2>5. Sol(n)[x] = G[Sol(n)][x]
    BY <1>1, <2>1 DEF Solves
  <2>6. QED
    BY <2>3, <2>4, <2>5
<1> HIDE DEF F
<1>4. F = G[F]
  BY <1>2, <1>3
<1>5. QED
  BY <1>2, <1>4 DEF HasFixedPoint

-----------------------------------------------------------------------------
(***************************************************************************)
(* JSON values, and the equations of the recursive definitions.            *)
(***************************************************************************)
\* What is in an array or an object is a JSON value.
LEMMA JSONFacts ==
  ASSUME NEW v \in JSON
  PROVE  /\ Is("arr", v) => v.arr \in Seq(JSON) /\ \A i \in DOMAIN v.arr : v.arr[i] \in JSON
         /\ Is("obj", v) => v.obj \in JSONObject
         /\ Is("bool", v) => v.bool \in BOOLEAN /\ v = Bool(v.bool)
<1>1. \/ v \in [null : {TRUE}] \cup [bool : BOOLEAN] \cup [num : Int] \cup [str : STRING]
      \/ Is("arr", v) /\ v.arr \in Seq(JSON)
      \/ Is("obj", v) /\ v.obj \in [DOMAIN v.obj -> JSON]
  BY JSONAssumption
<1>2. Is("arr", v) => v.arr \in Seq(JSON)
  BY <1>1 DEF Is
<1>3. Is("arr", v) => \A i \in DOMAIN v.arr : v.arr[i] \in JSON
  BY <1>2
<1>4. Is("obj", v) => v.obj \in JSONObject
  BY DEF JSONObject
<1>5. Is("bool", v) => v \in [bool : BOOLEAN]
  BY <1>1 DEF Is
<1>6. Is("bool", v) => v.bool \in BOOLEAN /\ v = Bool(v.bool)
  BY <1>5 DEF Bool
<1>7. QED
  BY <1>2, <1>3, <1>4, <1>6

\* The values of an object, and the objects one level down.
LEMMA ObjectFacts ==
  ASSUME NEW o \in JSONObject, NEW key \in DOMAIN o
  PROVE  /\ o[key] \in JSON
         /\ Is("obj", o[key]) => o[key].obj \in JSONObject /\ Depth[o[key].obj] < Depth[o]
         /\ Is("arr", o[key]) =>
              \A item \in Range(o[key].arr) :
                item \in JSON
                /\ (Is("obj", item) => item.obj \in JSONObject /\ Depth[item.obj] < Depth[o])
<1>1. PICK v \in JSON : Is("obj", v) /\ o = v.obj
  BY DEF JSONObject
<1>2. \/ v \in [null : {TRUE}] \cup [bool : BOOLEAN] \cup [num : Int] \cup [str : STRING]
      \/ Is("arr", v) /\ v.arr \in Seq(JSON)
      \/ Is("obj", v) /\ v.obj \in [DOMAIN v.obj -> JSON]
  BY JSONAssumption
<1>3. v.obj \in [DOMAIN v.obj -> JSON]
  BY <1>1, <1>2 DEF Is
<1>4. o[key] \in JSON
  BY <1>1, <1>3
<1>5. /\ Is("obj", o[key]) => Depth[o[key].obj] < Depth[o]
      /\ Is("arr", o[key]) =>
           \A item \in Range(o[key].arr) : Is("obj", item) => Depth[item.obj] < Depth[o]
  BY JSONAssumption
<1>6. Is("arr", o[key]) => \A item \in Range(o[key].arr) : item \in JSON
  BY <1>4, JSONFacts DEF Range
<1>7. QED
  BY <1>4, <1>5, <1>6, JSONFacts

\* Depth is a depth of the objects.
LEMMA DepthType == DepthOn(JSONObject, Depth)
  BY JSONAssumption DEF DepthOn

\* The body of validateObject, for one key.
ValidEntry(f, key, value) ==
  IF key = "$or"
  THEN /\ Is("arr", value) /\ Len(value.arr) >= 2
       /\ \A item \in Range(value.arr) : Is("obj", item) /\ f[item.obj]
  ELSE \/ Is("obj", value) /\ f[value.obj]
       \/ Is("arr", value) /\ validateConditions(value.arr)

\* validateObject is what its body says.
LEMMA ValidateEquation ==
  /\ validateObject \in [JSONObject -> BOOLEAN]
  /\ \A policy \in JSONObject :
       validateObject[policy] = \A key \in DOMAIN policy : ValidEntry(validateObject, key, policy[key])
<1> DEFINE Body(f) == [policy \in JSONObject |->
                         \A key \in DOMAIN policy : ValidEntry(f, key, policy[key])]
           G == [f \in [JSONObject -> BOOLEAN] |-> Body(f)]
<1>1. G \in [[JSONObject -> BOOLEAN] -> [JSONObject -> BOOLEAN]]
  OBVIOUS
<1>2. Local(JSONObject, BOOLEAN, Depth, G)
  <2>1. ASSUME NEW f \in [JSONObject -> BOOLEAN], NEW g \in [JSONObject -> BOOLEAN],
               NEW policy \in JSONObject,
               \A y \in JSONObject : Depth[y] < Depth[policy] => f[y] = g[y]
        PROVE  G[f][policy] = G[g][policy]
    <3>1. ASSUME NEW key \in DOMAIN policy
          PROVE  ValidEntry(f, key, policy[key]) <=> ValidEntry(g, key, policy[key])
      <4>1. Is("obj", policy[key]) => f[policy[key].obj] = g[policy[key].obj]
        BY <2>1, ObjectFacts
      <4>2. Is("arr", policy[key]) =>
              \A item \in Range(policy[key].arr) : Is("obj", item) => f[item.obj] = g[item.obj]
        BY <2>1, ObjectFacts
      <4>3. QED
        BY <4>1, <4>2 DEF ValidEntry
    <3>2. (\A key \in DOMAIN policy : ValidEntry(f, key, policy[key]))
            <=> (\A key \in DOMAIN policy : ValidEntry(g, key, policy[key]))
      BY <3>1
    <3>3. QED
      BY <3>2
  <2>2. QED
    BY <2>1 DEF Local
<1>3. \E f \in [JSONObject -> BOOLEAN] : f = G[f]
  <2>1. BodyOn(JSONObject, BOOLEAN, G)
    BY <1>1 DEF BodyOn
  <2> HIDE DEF G
  <2>2. HasFixedPoint(JSONObject, BOOLEAN, G)
    BY <1>2, <2>1, DepthType, FixedPoint
  <2>3. QED
    BY <2>2 DEF HasFixedPoint
<1>4. PICK h \in [JSONObject -> BOOLEAN] : h = Body(h)
  BY <1>3
<1>5. validateObject = CHOOSE f : f = Body(f)
  BY DEF validateObject, ValidEntry
<1>6. validateObject = Body(validateObject)
  <2> HIDE DEF Body
  <2>1. QED
    BY <1>4, <1>5
<1>7. QED
  BY <1>6


Outcomes == SUBSET {"match", "nomatch", "error"}
Answers == [JSONObject -> Outcomes]

\* evalEntry calls the evaluator on smaller policies only.
LEMMA EntryLocal ==
  ASSUME NEW f \in [JSONObject -> Answers], NEW g \in [JSONObject -> Answers],
         NEW policy \in JSONObject, NEW candidate, NEW key \in DOMAIN policy,
         \A y \in JSONObject : Depth[y] < Depth[policy] => f[y] = g[y]
  PROVE  evalEntry(f, key, policy[key], candidate) = evalEntry(g, key, policy[key], candidate)
<1> DEFINE value == policy[key]
<1>1. Is("obj", value) => f[value.obj] = g[value.obj]
  BY ObjectFacts
<1>2. Is("arr", value) =>
        \A i \in DOMAIN value.arr : Is("obj", value.arr[i]) => f[value.arr[i].obj] = g[value.arr[i].obj]
  BY ObjectFacts DEF Range
<1> HIDE DEF value
<1>3. Is("arr", value) => evalOR(f, value.arr, candidate) = evalOR(g, value.arr, candidate)
  <2>1. SUFFICES ASSUME Is("arr", value)
                 PROVE  evalOR(f, value.arr, candidate) = evalOR(g, value.arr, candidate)
    OBVIOUS
  <2> DEFINE items == value.arr
             S(h) == [i \in DOMAIN items |->
                        IF Is("obj", items[i]) THEN h[items[i].obj][candidate] ELSE {"error"}]
  <2>2. S(f) = S(g)
    BY <1>2, <2>1
  <2>3. evalOR(f, items, candidate) = FirstOf(S(f)) /\ evalOR(g, items, candidate) = FirstOf(S(g))
    BY DEF evalOR
  <2> HIDE DEF S
  <2>4. QED
    BY <2>2, <2>3
<1>4. evalEntry(f, key, value, candidate) = evalEntry(g, key, value, candidate)
  BY <1>1, <1>3 DEF evalEntry
<1>5. QED
  BY <1>4 DEF value

\* evalObject is what its body says, and gives a set of outcomes.
LEMMA EvalEquation ==
  /\ evalObject \in [JSONObject -> Answers]
  /\ \A policy, candidate \in JSONObject :
       evalObject[policy][candidate] =
         AllOf({ evalEntry(evalObject, key, policy[key], candidate) : key \in DOMAIN policy })
<1> DEFINE One(f, policy, candidate) ==
             AllOf({ evalEntry(f, key, policy[key], candidate) : key \in DOMAIN policy })
           Body(f) == [policy \in JSONObject |->
                         [candidate \in JSONObject |-> One(f, policy, candidate)]]
           G == [f \in [JSONObject -> Answers] |-> Body(f)]
<1>1. ASSUME NEW f, NEW policy, NEW candidate PROVE One(f, policy, candidate) \in Outcomes
  BY DEF AllOf, Outcomes
<1>2. ASSUME NEW f \in [JSONObject -> Answers], NEW g \in [JSONObject -> Answers],
             NEW policy \in JSONObject, NEW candidate \in JSONObject,
             \A y \in JSONObject : Depth[y] < Depth[policy] => f[y] = g[y]
      PROVE  One(f, policy, candidate) = One(g, policy, candidate)
  <2>1. \A key \in DOMAIN policy :
          evalEntry(f, key, policy[key], candidate) = evalEntry(g, key, policy[key], candidate)
    BY <1>2, EntryLocal
  <2>2. { evalEntry(f, key, policy[key], candidate) : key \in DOMAIN policy }
          = { evalEntry(g, key, policy[key], candidate) : key \in DOMAIN policy }
    BY <2>1
  <2>3. QED
    BY <2>2
<1>3. evalObject = CHOOSE f : f = Body(f)
  BY DEF evalObject
<1> HIDE DEF One
<1>4. ASSUME NEW f PROVE Body(f) \in [JSONObject -> Answers]
  BY <1>1 DEF Answers
<1>5. ASSUME NEW f \in [JSONObject -> Answers], NEW g \in [JSONObject -> Answers],
             NEW policy \in JSONObject,
             \A y \in JSONObject : Depth[y] < Depth[policy] => f[y] = g[y]
      PROVE  Body(f)[policy] = Body(g)[policy]
  <2>1. \A candidate \in JSONObject : One(f, policy, candidate) = One(g, policy, candidate)
    BY <1>2, <1>5
  <2>2. QED
    BY <2>1
<1>6. \A policy, candidate \in JSONObject :
        Body(evalObject)[policy][candidate] = One(evalObject, policy, candidate)
  OBVIOUS
<1> HIDE DEF Body
<1>7. G \in [[JSONObject -> Answers] -> [JSONObject -> Answers]]
  BY <1>4
<1>8. Local(JSONObject, Answers, Depth, G)
  BY <1>5 DEF Local
<1>9. Answers # {}
  <2>1. [candidate \in JSONObject |-> {}] \in Answers
    BY DEF Answers, Outcomes
  <2>2. QED
    BY <2>1
<1>10. \E f \in [JSONObject -> Answers] : f = G[f]
  <2> HIDE DEF G
  <2>1. BodyOn(JSONObject, Answers, G)
    BY <1>7, <1>9 DEF BodyOn
  <2>2. HasFixedPoint(JSONObject, Answers, G)
    BY <1>8, <2>1, DepthType, FixedPoint
  <2>3. QED
    BY <2>2 DEF HasFixedPoint
<1>11. PICK h \in [JSONObject -> Answers] : h = Body(h)
  BY <1>10
<1>12. evalObject = Body(evalObject)
  BY <1>3, <1>11
<1>13. evalObject \in [JSONObject -> Answers]
  BY <1>4, <1>12
<1>14. QED
  BY <1>6, <1>12, <1>13 DEF One

\* The bodies of Accepts and Conditions, for one key.
AcceptedEntry(f, key, value, root) ==
  LET child == Child(root, key) IN
  CASE key = "$or" ->
         /\ Is("arr", value)
         /\ \E item \in Range(value.arr) : Is("obj", item) /\ f[item.obj][root]
    [] key # "$or" /\ Is("obj", value) -> Is("obj", child) /\ f[value.obj][child.obj]
    [] OTHER -> \E c \in Range(value.arr) : Holds(c, child, key \in DOMAIN root)

ConditionsEntry(f, key, value) ==
  Here(key, value) \cup UNION { f[v.obj] : v \in Below(key, value) }

Readings == [JSONObject -> BOOLEAN]

\* A policy is read by reading smaller ones.
LEMMA AcceptedLocal ==
  ASSUME NEW f \in [JSONObject -> Readings], NEW g \in [JSONObject -> Readings],
         NEW policy \in JSONObject, NEW root, NEW key \in DOMAIN policy,
         \A y \in JSONObject : Depth[y] < Depth[policy] => f[y] = g[y]
  PROVE  AcceptedEntry(f, key, policy[key], root) <=> AcceptedEntry(g, key, policy[key], root)
<1> DEFINE value == policy[key]
<1>1. Is("obj", value) => f[value.obj] = g[value.obj]
  BY ObjectFacts
<1>2. Is("arr", value) =>
        \A item \in Range(value.arr) : Is("obj", item) => f[item.obj] = g[item.obj]
  BY ObjectFacts
<1> HIDE DEF value
<1> DEFINE Agree == AcceptedEntry(f, key, value, root) <=> AcceptedEntry(g, key, value, root)
<1>3. ASSUME key = "$or" PROVE Agree
  BY <1>2, <1>3 DEF AcceptedEntry
<1>4. ASSUME key # "$or" /\ Is("obj", value) PROVE Agree
  BY <1>1, <1>4 DEF AcceptedEntry
<1>5. ASSUME key # "$or" /\ ~Is("obj", value) PROVE Agree
  BY <1>5 DEF AcceptedEntry
<1>6. QED
  BY <1>3, <1>4, <1>5 DEF value

\* Accepts is what its body says.
LEMMA AcceptsEquation ==
  /\ Accepts \in [JSONObject -> Readings]
  /\ \A policy, root \in JSONObject :
       Accepts[policy][root] <=>
         \A key \in DOMAIN policy : AcceptedEntry(Accepts, key, policy[key], root)
<1> DEFINE One(f, policy, root) == \A key \in DOMAIN policy : AcceptedEntry(f, key, policy[key], root)
           Body(f) == [policy \in JSONObject |-> [root \in JSONObject |-> One(f, policy, root)]]
           G == [f \in [JSONObject -> Readings] |-> Body(f)]
<1>1. ASSUME NEW f \in [JSONObject -> Readings], NEW g \in [JSONObject -> Readings],
             NEW policy \in JSONObject, NEW root \in JSONObject,
             \A y \in JSONObject : Depth[y] < Depth[policy] => f[y] = g[y]
      PROVE  One(f, policy, root) = One(g, policy, root)
  <2>1. \A key \in DOMAIN policy :
          AcceptedEntry(f, key, policy[key], root) <=> AcceptedEntry(g, key, policy[key], root)
    BY <1>1, AcceptedLocal
  <2>2. QED
    BY <2>1
<1>2. Accepts = CHOOSE f : f = Body(f)
  BY DEF Accepts, AcceptedEntry
<1>3. ASSUME NEW f, NEW policy, NEW root PROVE One(f, policy, root) \in BOOLEAN
  OBVIOUS
<1> HIDE DEF One
<1>4. ASSUME NEW f PROVE Body(f) \in [JSONObject -> Readings]
  BY <1>3 DEF Readings
<1>5. ASSUME NEW f \in [JSONObject -> Readings], NEW g \in [JSONObject -> Readings],
             NEW policy \in JSONObject,
             \A y \in JSONObject : Depth[y] < Depth[policy] => f[y] = g[y]
      PROVE  Body(f)[policy] = Body(g)[policy]
  <2>1. \A root \in JSONObject : One(f, policy, root) = One(g, policy, root)
    BY <1>1, <1>5
  <2>2. QED
    BY <2>1
<1>6. \A policy, root \in JSONObject : Body(Accepts)[policy][root] = One(Accepts, policy, root)
  OBVIOUS
<1> HIDE DEF Body
<1>7. G \in [[JSONObject -> Readings] -> [JSONObject -> Readings]]
  BY <1>4
<1>8. Local(JSONObject, Readings, Depth, G)
  BY <1>5 DEF Local
<1>9. Readings # {}
  <2>1. [root \in JSONObject |-> TRUE] \in Readings
    BY DEF Readings
  <2>2. QED
    BY <2>1
<1>10. \E f \in [JSONObject -> Readings] : f = G[f]
  <2> HIDE DEF G
  <2>1. BodyOn(JSONObject, Readings, G)
    BY <1>7, <1>9 DEF BodyOn
  <2>2. HasFixedPoint(JSONObject, Readings, G)
    BY <1>8, <2>1, DepthType, FixedPoint
  <2>3. QED
    BY <2>2 DEF HasFixedPoint
<1>11. PICK h \in [JSONObject -> Readings] : h = Body(h)
  BY <1>10
<1>12. Accepts = Body(Accepts)
  BY <1>2, <1>11
<1>13. Accepts \in [JSONObject -> Readings]
  BY <1>4, <1>12
<1>14. QED
  BY <1>6, <1>12, <1>13 DEF One

\* What an entry leads to is less deep, and its conditions are JSON values.
LEMMA BelowFacts ==
  ASSUME NEW policy \in JSONObject, NEW key \in DOMAIN policy
  PROVE  /\ \A v \in Below(key, policy[key]) : v.obj \in JSONObject /\ Depth[v.obj] < Depth[policy]
         /\ Here(key, policy[key]) \in SUBSET JSON
<1>1. Is("arr", policy[key]) => Items(policy[key]) = Range(policy[key].arr)
  BY DEF Items, Range
<1>2. ~Is("arr", policy[key]) => Items(policy[key]) = {policy[key]}
  BY DEF Items
<1>3. QED
  BY <1>1, <1>2, ObjectFacts DEF Below, Here

\* Conditions is what its body says.
LEMMA ConditionsEquation ==
  \A policy \in JSONObject :
    Conditions[policy] = UNION { ConditionsEntry(Conditions, key, policy[key]) : key \in DOMAIN policy }
<1> DEFINE Sets == SUBSET JSON
           One(f, policy) == UNION { ConditionsEntry(f, key, policy[key]) : key \in DOMAIN policy }
           Body(f) == [policy \in JSONObject |-> One(f, policy)]
           G == [f \in [JSONObject -> Sets] |-> Body(f)]
<1>1. ASSUME NEW f \in [JSONObject -> Sets], NEW g \in [JSONObject -> Sets],
             NEW policy \in JSONObject,
             \A y \in JSONObject : Depth[y] < Depth[policy] => f[y] = g[y]
      PROVE  One(f, policy) = One(g, policy)
  <2>1. ASSUME NEW key \in DOMAIN policy
        PROVE  ConditionsEntry(f, key, policy[key]) = ConditionsEntry(g, key, policy[key])
    <3>1. \A v \in Below(key, policy[key]) : f[v.obj] = g[v.obj]
      BY <1>1, BelowFacts
    <3>2. { f[v.obj] : v \in Below(key, policy[key]) } = { g[v.obj] : v \in Below(key, policy[key]) }
      BY <3>1
    <3>3. QED
      BY <3>2 DEF ConditionsEntry
  <2>2. QED
    BY <2>1
<1>2. Conditions = CHOOSE f : f = Body(f)
  BY DEF Conditions, ConditionsEntry
<1>3. ASSUME NEW f \in [JSONObject -> Sets], NEW policy \in JSONObject PROVE One(f, policy) \in Sets
  <2>1. ASSUME NEW key \in DOMAIN policy PROVE ConditionsEntry(f, key, policy[key]) \in Sets
    <3>1. \A v \in Below(key, policy[key]) : f[v.obj] \in Sets
      BY BelowFacts
    <3>2. QED
      BY <3>1, BelowFacts DEF ConditionsEntry
  <2>2. QED
    BY <2>1
<1> HIDE DEF One, Sets
<1>4. ASSUME NEW f \in [JSONObject -> Sets] PROVE Body(f) \in [JSONObject -> Sets]
  BY <1>3
<1>5. \A f, g \in [JSONObject -> Sets], policy \in JSONObject :
        (\A y \in JSONObject : Depth[y] < Depth[policy] => f[y] = g[y])
          => Body(f)[policy] = Body(g)[policy]
  BY <1>1
<1>6. \A policy \in JSONObject : Body(Conditions)[policy] = One(Conditions, policy)
  OBVIOUS
<1> HIDE DEF Body
<1>7. Sets # {}
  BY DEF Sets
<1>8. BodyOn(JSONObject, Sets, G)
  BY <1>4, <1>7 DEF BodyOn
<1>9. Local(JSONObject, Sets, Depth, G)
  BY <1>5 DEF Local
<1>10. \E f \in [JSONObject -> Sets] : f = G[f]
  <2> HIDE DEF G
  <2>1. HasFixedPoint(JSONObject, Sets, G)
    BY <1>8, <1>9, DepthType, FixedPoint
  <2>2. QED
    BY <2>1 DEF HasFixedPoint
<1>11. PICK h \in [JSONObject -> Sets] : h = Body(h)
  BY <1>10
<1>12. Conditions = Body(Conditions)
  BY <1>2, <1>11
<1>13. QED
  BY <1>6, <1>12 DEF One

-----------------------------------------------------------------------------
(***************************************************************************)
(* Conditions.                                                             *)
(***************************************************************************)
\* A verdict is right when it lets nothing through that does not hold, if no
\* error is dropped, and says exactly what holds, if the operands of the
\* conditions can be read.
Right(outcome, holds, conditions) ==
  /\ outcome \in Outcomes /\ holds \in BOOLEAN
  /\ (\A c \in conditions : KeepsErrors(c)) => ("match" \in outcome => holds)
  /\ (\A c \in conditions : Readable(c)) => outcome = Verdict(holds)

\* A verdict of what holds is right.
LEMMA VerdictRight ==
  ASSUME NEW holds \in BOOLEAN, NEW conditions
  PROVE  Right(Verdict(holds), holds, conditions)
  BY DEF Right, Verdict, Outcomes

\* What a message has at a key, if anything.
Value == JSON \cup {Null}

\* A value of a message is of one kind, and its items are values.
LEMMA ValueFacts ==
  ASSUME NEW v \in Value
  PROVE  /\ \/ v = Null \/ v = Bool(TRUE) \/ v = Bool(FALSE)
            \/ v = Num(v.num) /\ v.num \in Int /\ FormatFloat[v.num] \notin {"true", "false", "<nil>"}
            \/ v = Str(v.str)
            \/ Is("arr", v) \/ Is("obj", v)
         /\ Items(v) \in SUBSET Value
<1>1. v \in JSON => \/ v \in [null : {TRUE}] \cup [bool : BOOLEAN] \cup [num : Int] \cup [str : STRING]
                    \/ Is("arr", v) /\ v.arr \in Seq(JSON)
                    \/ Is("obj", v)
  BY JSONAssumption
<1>2. ASSUME v \in [null : {TRUE}] PROVE v = Null
  BY <1>2 DEF Null
<1>3. ASSUME v \in [bool : BOOLEAN] PROVE v = Bool(TRUE) \/ v = Bool(FALSE)
  <2>1. v.bool \in BOOLEAN /\ v = Bool(v.bool)
    BY <1>3 DEF Bool
  <2>2. CASE v.bool = TRUE
    BY <2>1, <2>2
  <2>3. CASE v.bool = FALSE
    BY <2>1, <2>3
  <2>4. QED
    BY <2>1, <2>2, <2>3
<1>4. ASSUME v \in JSON, v \in [num : Int]
      PROVE  v = Num(v.num) /\ v.num \in Int /\ FormatFloat[v.num] \notin {"true", "false", "<nil>"}
  <2>1. v = Num(v.num) /\ v.num \in Int /\ Is("num", v)
    BY <1>4 DEF Num, Is
  <2>2. QED
    BY <1>4, <2>1, FormatAssumption
<1>5. ASSUME v \in [str : STRING] PROVE v = Str(v.str)
  BY <1>5 DEF Str
<1>6. Items(v) \in SUBSET Value
  <2>1. Is("arr", v) => v \in JSON
    BY DEF Value, Null, Is
  <2>2. Is("arr", v) => \A i \in DOMAIN v.arr : v.arr[i] \in JSON
    BY <2>1, JSONFacts
  <2>3. QED
    BY <2>2 DEF Items, Value
<1>7. QED
  BY <1>1, <1>2, <1>3, <1>4, <1>5, <1>6 DEF Value

\* The fields of the kinds of values.
LEMMA KindFacts ==
  /\ \A n : Num(n).num = n /\ \A kind : Is(kind, Num(n)) <=> kind = "num"
  /\ \A s : Str(s).str = s /\ \A kind : Is(kind, Str(s)) <=> kind = "str"
  /\ \A b : Bool(b).bool = b /\ \A kind : Is(kind, Bool(b)) <=> kind = "bool"
  /\ \A kind : Is(kind, Null) <=> kind = "null"
  BY DEF Num, Str, Bool, Null, Is

\* The kind and the text of every value.
LEMMA TextFacts ==
  /\ Sprint(Null) = Str("<nil>") /\ Sprint(Bool(TRUE)) = Str("true")
  /\ Sprint(Bool(FALSE)) = Str("false")
  /\ \A n : Sprint(Num(n)) = Str(FormatFloat[n])
  /\ \A s : Sprint(Str(s)) = Str(s)
  /\ \A v : Is("arr", v) \/ Is("obj", v) => Sprint(v) = v
  /\ \A s, t : Str(s) = Str(t) => s = t
<1>1. \A v : Is("arr", v) \/ Is("obj", v) => Sprint(v) = v
  BY DEF Sprint, Is
<1>2. \A s, t : Str(s) = Str(t) => s = t
  BY KindFacts
<1>3. QED
  BY <1>1, <1>2, KindFacts DEF Sprint

\* equal finds the values that are alike.
LEMMA EqualRight ==
  ASSUME NEW a \in Value, NEW b \in Value
  PROVE  equal(a, b) <=> Alike(a, b)
<1>1. CASE Is("num", a)
  <2>1. a = Num(a.num) /\ a.num \in Int /\ Near(a.num, a.num)
    <3>1. a = Num(a.num) /\ a.num \in Int
      <4>1. a # Null /\ a # Bool(TRUE) /\ a # Bool(FALSE) /\ a # Str(a.str)
        BY <1>1 DEF Is, Null, Bool, Str
      <4>2. ~Is("arr", a) /\ ~Is("obj", a)
        BY <1>1 DEF Is
      <4>3. QED
        BY <4>1, <4>2, ValueFacts
    <3>2. Near(a.num, a.num)
      BY <3>1, ToleranceAssumption DEF Near
    <3>3. QED
      BY <3>1, <3>2
  <2>2. equal(a, b) <=> \E n \in toFloat(b) : Near(a.num, n)
    BY <1>1 DEF equal
  <2>3. <<a, b>> \notin Spelled /\ <<b, a>> \notin Spelled
    <3>1. a # Null /\ a # Bool(TRUE) /\ a # Bool(FALSE) /\ \A s : a # Str(s)
      BY <1>1, KindFacts
    <3>2. QED
      BY <3>1 DEF Spelled
  <2>4. CASE Is("num", b)
    <3>2. ~Is("str", b)
      BY <2>4 DEF Is
    <3>1. toFloat(b) = {b.num}
      BY <2>4, <3>2 DEF toFloat
    <3>3. a = b => Near(a.num, b.num)
      BY <2>1
    <3>4. Alike(a, b) <=> Near(a.num, b.num)
      BY <1>1, <2>3, <2>4, <3>2, <3>3 DEF Alike, Is
    <3>5. QED
      BY <2>2, <3>1, <3>4
  <2>5. CASE Is("str", b)
    <3>1. toFloat(b) = { ParseFloat[s] : s \in {b.str} \cap DOMAIN ParseFloat }
      BY <2>5 DEF toFloat, Is
    <3>2. ~Is("num", b) /\ a # b
      BY <1>1, <2>5 DEF Is
    <3>3. ~Is("str", a)
      BY <1>1 DEF Is
    <3>4. Alike(a, b) <=> b.str \in DOMAIN ParseFloat /\ Near(a.num, ParseFloat[b.str])
      BY <1>1, <2>3, <2>5, <3>2, <3>3 DEF Alike
    <3>5. QED
      BY <2>2, <3>1, <3>4
  <2>6. CASE ~Is("num", b) /\ ~Is("str", b)
    <3>1. toFloat(b) = {}
      BY <2>6 DEF toFloat
    <3>2. a # b
      BY <1>1, <2>6
    <3>3. ~Alike(a, b)
      BY <2>3, <2>6, <3>2 DEF Alike
    <3>4. QED
      BY <2>2, <3>1, <3>3
  <2>7. QED
    BY <2>4, <2>5, <2>6
<1>2. CASE ~Is("num", a)
  <2>1. equal(a, b) <=> Sprint(a) = Sprint(b)
    BY <1>2 DEF equal
  <2>2. Alike(a, b) <=> \/ a = b
                        \/ Is("str", a) /\ Is("num", b) /\ a.str = FormatFloat[b.num]
                        \/ <<a, b>> \in Spelled \/ <<b, a>> \in Spelled
    BY <1>2 DEF Alike
  <2>3. /\ <<a, b>> \in Spelled <=> \/ a = Bool(TRUE) /\ b = Str("true")
                                    \/ a = Bool(FALSE) /\ b = Str("false")
                                    \/ a = Null /\ b = Str("<nil>")
        /\ <<b, a>> \in Spelled <=> \/ b = Bool(TRUE) /\ a = Str("true")
                                    \/ b = Bool(FALSE) /\ a = Str("false")
                                    \/ b = Null /\ a = Str("<nil>")
    BY DEF Spelled
  <2>4. \/ a = Null \/ a = Bool(TRUE) \/ a = Bool(FALSE) \/ a = Str(a.str)
        \/ Is("arr", a) \/ Is("obj", a)
    <3>1. a # Num(a.num)
      BY <1>2 DEF Is, Num
    <3>2. QED
      BY <3>1, ValueFacts
  <2>5. \/ b = Null \/ b = Bool(TRUE) \/ b = Bool(FALSE) \/ b = Str(b.str)
        \/ b = Num(b.num) /\ FormatFloat[b.num] \notin {"true", "false", "<nil>"}
        \/ Is("arr", b) \/ Is("obj", b)
    BY ValueFacts
  <2> DEFINE Agree == equal(a, b) <=> Alike(a, b)
  <2>6. ASSUME NEW text, Sprint(a) = Str(text), ~Is("arr", a), ~Is("obj", a),
               \/ a = Str(text)
               \/ a = Null /\ text = "<nil>"
               \/ a = Bool(TRUE) /\ text = "true"
               \/ a = Bool(FALSE) /\ text = "false"
        PROVE  Agree
    <3>1. Is("str", a) <=> a = Str(text)
      BY <2>6 DEF Is, Null, Bool, Str
    <3>2. a = Str(text) => a.str = text
      BY KindFacts
    <3>3. CASE b = Str(b.str)
      <4>1. equal(a, b) <=> text = b.str
        BY <2>1, <2>6, <3>3, TextFacts
      <4>2. ~Is("num", b)
        BY <3>3 DEF Is, Str
      <4>3. b # Null /\ b # Bool(TRUE) /\ b # Bool(FALSE)
        BY <3>3 DEF Null, Bool, Str
      <4>4. ASSUME a = Str(text) PROVE Alike(a, b) <=> text = b.str
        <5>1. a = b <=> text = b.str
          BY <3>3, <4>4, TextFacts
        <5>2. a # Null /\ a # Bool(TRUE) /\ a # Bool(FALSE)
          BY <4>4 DEF Null, Bool, Str
        <5>3. QED
          BY <2>2, <2>3, <4>2, <4>3, <5>1, <5>2
      <4>5. a # Str(text) => (Alike(a, b) <=> text = b.str)
        BY <2>2, <2>3, <2>6, <3>1, <3>3, <4>2, <4>3, TextFacts
      <4>6. QED
        BY <4>1, <4>4, <4>5
    <3>4. CASE b = Num(b.num) /\ FormatFloat[b.num] \notin {"true", "false", "<nil>"}
      <4>1. equal(a, b) <=> text = FormatFloat[b.num]
        BY <2>1, <2>6, <3>4, TextFacts
      <4>2. Is("num", b) /\ b # Null /\ b # Bool(TRUE) /\ b # Bool(FALSE) /\ a # b
              /\ \A s : b # Str(s)
        BY <1>2, <3>4 DEF Is, Num, Null, Bool, Str
      <4>3. Alike(a, b) <=> Is("str", a) /\ a.str = FormatFloat[b.num]
        BY <2>2, <2>3, <4>2
      <4>4. QED
        BY <2>6, <3>1, <3>2, <3>4, <4>1, <4>3
    <3>5. CASE b = Null \/ b = Bool(TRUE) \/ b = Bool(FALSE)
      <4> DEFINE word == CASE b = Null -> "<nil>" [] b = Bool(TRUE) -> "true" [] OTHER -> "false"
      <4>1. Null # Bool(TRUE) /\ Null # Bool(FALSE) /\ Bool(TRUE) # Bool(FALSE)
        <5>1. Null # Bool(TRUE) /\ Null # Bool(FALSE)
          BY DEF Null, Bool
        <5>2. Bool(TRUE).bool = TRUE /\ Bool(FALSE).bool = FALSE
          BY DEF Bool
        <5>3. Bool(TRUE) # Bool(FALSE)
          BY <5>2
        <5>4. QED
          BY <5>1, <5>3
      <4>2. \/ b = Null /\ word = "<nil>"
            \/ b = Bool(TRUE) /\ word = "true"
            \/ b = Bool(FALSE) /\ word = "false"
        BY <3>5, <4>1
      <4> HIDE DEF word
      <4>3. Sprint(b) = Str(word)
        BY <4>2, TextFacts
      <4>4. equal(a, b) <=> text = word
        BY <2>1, <2>6, <4>3, TextFacts
      <4>5. ~Is("num", b) /\ \A s : b # Str(s)
        BY <3>5 DEF Is, Null, Bool, Str
      <4>6. CASE a = Str(text)
        <5>1. a # b /\ a # Null /\ a # Bool(TRUE) /\ a # Bool(FALSE)
          BY <3>5, <4>6 DEF Null, Bool, Str
        <5>2. Alike(a, b) <=> <<b, a>> \in Spelled
          BY <2>2, <2>3, <4>5, <5>1
        <5>3. \A s : a = Str(s) <=> s = text
          BY <4>6, TextFacts
        <5>4. <<b, a>> \in Spelled <=> text = word
          BY <2>3, <4>1, <4>2, <5>3
        <5>5. QED
          BY <4>4, <5>2, <5>4
      <4>7. CASE a # Str(text)
        <5>1. \A s : a # Str(s)
          BY <2>6, <4>7 DEF Null, Bool, Str
        <5>2. b # Str("true") /\ b # Str("false") /\ b # Str("<nil>")
          BY <4>5
        <5>3. a # Str("true") /\ a # Str("false") /\ a # Str("<nil>")
          BY <5>1
        <5>4. Alike(a, b) <=> a = b
          BY <2>2, <2>3, <4>5, <5>2, <5>3
        <5>5. QED
          BY <2>6, <4>1, <4>2, <4>4, <4>7, <5>4
      <4>8. QED
        BY <4>6, <4>7
    <3>6. CASE Is("arr", b) \/ Is("obj", b)
      <4>1. Sprint(b) = b
        BY <3>6, TextFacts
      <4>2. (\A s : b # Str(s)) /\ b # Null /\ b # Bool(TRUE) /\ b # Bool(FALSE) /\ ~Is("num", b) /\ a # b
        BY <2>6, <3>6 DEF Is, Null, Bool, Str
      <4>3. ~equal(a, b)
        BY <2>1, <2>6, <4>1, <4>2
      <4>4. ~Alike(a, b)
        BY <2>2, <2>3, <4>2
      <4>5. QED
        BY <4>3, <4>4
    <3>7. QED
      BY <2>5, <3>3, <3>4, <3>5, <3>6
  <2>7. ASSUME a = Str(a.str) PROVE Agree
    <3>1. Sprint(a) = Str(a.str) /\ ~Is("arr", a) /\ ~Is("obj", a)
      <4>1. Sprint(a) = Str(a.str)
        BY <2>7, TextFacts
      <4>2. ~Is("arr", a) /\ ~Is("obj", a)
        BY <2>7 DEF Is, Str
      <4>3. QED
        BY <4>1, <4>2
    <3> DEFINE text == a.str
    <3>2. a = Str(text) /\ Sprint(a) = Str(text)
      BY <2>7, <3>1
    <3> HIDE DEF Agree, text
    <3>3. QED
      BY <2>6, <3>1, <3>2
  <2>8. ASSUME a = Null \/ a = Bool(TRUE) \/ a = Bool(FALSE) PROVE Agree
    <3>1. ~Is("arr", a) /\ ~Is("obj", a)
      BY <2>8 DEF Is, Null, Bool
    <3> HIDE DEF Agree
    <3>2. CASE a = Null
      <4>1. Sprint(a) = Str("<nil>")
        BY <3>2, TextFacts
      <4>2. QED
        BY <2>6, <3>1, <3>2, <4>1
    <3>3. CASE a = Bool(TRUE)
      <4>1. Sprint(a) = Str("true")
        BY <3>3, TextFacts
      <4>2. QED
        BY <2>6, <3>1, <3>3, <4>1
    <3>4. CASE a = Bool(FALSE)
      <4>1. Sprint(a) = Str("false")
        BY <3>4, TextFacts
      <4>2. QED
        BY <2>6, <3>1, <3>4, <4>1
    <3>5. QED
      BY <2>8, <3>2, <3>3, <3>4
  <2>10. ASSUME Is("arr", a) \/ Is("obj", a) PROVE Agree
    <3>1. \A s : a # Str(s)
      BY <2>10, KindFacts
    <3>2. a # Null /\ a # Bool(TRUE) /\ a # Bool(FALSE) /\ ~Is("str", a)
      BY <2>10 DEF Is, Null, Bool
    <3>3. Alike(a, b) <=> a = b
      BY <2>2, <2>3, <3>1, <3>2
    <3>4. Sprint(a) = a
      BY <2>10, TextFacts
    <3>5. Sprint(b) = b \/ \E s : Sprint(b) = Str(s)
      <4>1. CASE b = Null \/ b = Bool(TRUE) \/ b = Bool(FALSE)
        BY <4>1, TextFacts
      <4>2. CASE b = Num(b.num)
        <5>1. Sprint(b) = Str(FormatFloat[b.num])
          BY <4>2, TextFacts
        <5>2. QED
          BY <5>1
      <4>3. CASE b = Str(b.str)
        <5>1. Sprint(b) = Str(b.str)
          BY <4>3, TextFacts
        <5>2. QED
          BY <5>1
      <4>4. CASE Is("arr", b) \/ Is("obj", b)
        BY <4>4, TextFacts
      <4>5. QED
        BY <2>5, <4>1, <4>2, <4>3, <4>4
    <3>6. a = Sprint(b) => a = b
      BY <3>1, <3>5
    <3>7. a = b => a = Sprint(b)
      BY <3>4
    <3>8. QED
      BY <2>1, <3>3, <3>4, <3>6, <3>7
  <2>11. QED
    BY <2>4, <2>7, <2>8, <2>10
<1>3. QED
  BY <1>1, <1>2

\* scalarOrArrayContains finds what is named.
LEMMA NamedRight ==
  ASSUME NEW candidate \in Value, NEW expected \in Value
  PROVE  scalarOrArrayContains(candidate, expected) <=> Named(candidate, expected)
<1>1. flatten(candidate) = Items(candidate)
  BY DEF flatten, Items, Range
<1>2. \A item \in Items(candidate) : equal(item, expected) <=> Alike(item, expected)
  BY ValueFacts, EqualRight
<1>3. QED
  BY <1>1, <1>2 DEF scalarOrArrayContains, Named

\* The one operator of a rule on strings.
LEMMA NestedRight ==
  ASSUME NEW rule, NEW op \in StringOperators, DOMAIN rule = {op}, Is("str", rule[op]), NEW candidate
  PROVE  /\ evalNested(rule, candidate) <=> StringHolds(op, rule[op], candidate)
         /\ evalString(op, rule[op], candidate) <=> StringHolds(op, rule[op], candidate)
<1>1. flatten(candidate) = Items(candidate)
  BY DEF flatten, Items, Range
<1>2. evalString(op, rule[op], candidate) <=> StringHolds(op, rule[op], candidate)
  BY <1>1 DEF evalString, StringHolds
<1>3. DOMAIN rule \cap StringOperators = {op}
  OBVIOUS
<1>4. evalNested(rule, candidate) <=> evalString(op, rule[op], candidate)
  BY <1>3 DEF evalNested
<1>5. QED
  BY <1>2, <1>4

\* The string operators other than "cidr" have no errors.
LEMMA StringRight ==
  ASSUME NEW c, Is("obj", c), NEW op \in StringOperators, DOMAIN c.obj = {op}, Is("str", c.obj[op]),
         NEW candidate, NEW exists
  PROVE  Right(evalOperator(c.obj, candidate, exists), Holds(c, candidate, exists), {c})
<1> DEFINE rule == c.obj
           holds == StringHolds(op, rule[op], candidate)
<1>1. "exists" \notin DOMAIN rule /\ "anything-but" \notin DOMAIN rule
        /\ "numeric" \notin DOMAIN rule
  BY DEF StringOperators
<1>2. holds \in BOOLEAN
  BY DEF StringHolds
<1>3. Holds(c, candidate, exists) = holds
  <2>1. OperatorHolds(op, rule[op], candidate, exists) = holds
    BY DEF OperatorHolds, StringOperators
  <2>2. Holds(c, candidate, exists) <=> OperatorHolds(op, rule[op], candidate, exists)
    BY DEF Holds
  <2>3. Holds(c, candidate, exists) \in BOOLEAN
    BY DEF Holds
  <2> HIDE DEF holds
  <2>4. QED
    BY <1>2, <2>1, <2>2, <2>3
<1>4. Verdict(evalNested(rule, candidate)) = Verdict(holds)
        /\ Verdict(evalString(op, rule[op], candidate)) = Verdict(holds)
  <2>1. /\ evalNested(rule, candidate) <=> holds
        /\ evalString(op, rule[op], candidate) <=> holds
    BY NestedRight
  <2> HIDE DEF holds
  <2>2. QED
    BY <2>1 DEF Verdict
<1> HIDE DEF holds
<1>5. Right(Verdict(holds), holds, {c})
  BY <1>2, VerdictRight
<1>6. CASE op # "cidr"
  <2>1. evalOperator(rule, candidate, exists) = Verdict(evalNested(rule, candidate))
    BY <1>1, <1>6 DEF evalOperator
  <2>2. QED
    BY <1>3, <1>4, <1>5, <2>1
<1>7. CASE op = "cidr"
  <2>1. evalOperator(rule, candidate, exists) = evalCIDR(rule["cidr"], candidate)
    BY <1>1, <1>7 DEF evalOperator
  <2>2. CASE rule["cidr"].str \in CIDR
    <3>1. evalCIDR(rule["cidr"], candidate) = Verdict(holds)
      BY <1>4, <1>7, <2>2 DEF evalCIDR
    <3>2. QED
      BY <1>3, <1>5, <2>1, <3>1
  <2>3. CASE rule["cidr"].str \notin CIDR
    <3>1. evalCIDR(rule["cidr"], candidate) = {"error"}
      BY <2>3 DEF evalCIDR
    <3>2. ~Readable(c)
      BY <1>7, <2>3 DEF Readable
    <3>3. Right({"error"}, holds, {c})
      BY <1>2, <3>2 DEF Right, Outcomes
    <3>4. QED
      BY <1>3, <2>1, <3>1, <3>3
  <2>4. QED
    BY <2>2, <2>3
<1>8. QED
  BY <1>6, <1>7

\* Values stand for integers, if for numbers at all.
LEMMA NumberFacts ==
  ASSUME NEW v \in Value
  PROVE  toFloat(v) \in SUBSET Int
<1>1. Is("num", v) => v.num \in Int
  BY ValueFacts, KindFacts DEF Is
<1>2. QED
  BY <1>1, ParseAssumption DEF toFloat

\* The comparisons are what their signs say.
LEMMA CompareRight ==
  ASSUME NEW n \in Int, NEW m \in Int, NEW op
  PROVE  compareNumeric(n, op, m) <=> Satisfies(n, op, m)
<1>1. /\ \A s, t : Str(s) = Str(t) => s = t
  BY KindFacts
<1>2. \A s, t \in {"=", ">", ">=", "<", "<="} : s # t => Str(s) # Str(t)
  BY <1>1
<1>3. CASE op = Str("=")
  BY <1>2, <1>3 DEF compareNumeric, Satisfies
<1>4. CASE op = Str(">")
  BY <1>2, <1>4 DEF compareNumeric, Satisfies
<1>5. CASE op = Str(">=")
  BY <1>2, <1>5 DEF compareNumeric, Satisfies
<1>6. CASE op = Str("<")
  BY <1>2, <1>6 DEF compareNumeric, Satisfies
<1>7. CASE op = Str("<=")
  BY <1>2, <1>7 DEF compareNumeric, Satisfies
<1>8. CASE op \notin {Str("="), Str(">"), Str(">="), Str("<"), Str("<=")}
  BY <1>8 DEF compareNumeric, Satisfies
<1>9. QED
  BY <1>3, <1>4, <1>5, <1>6, <1>7, <1>8

\* Clauses are tried in order, and stop at one that cannot be read.
LEMMA NumericRight ==
  ASSUME NEW clauses \in Seq(JSON), NEW candidate \in Value
  PROVE  /\ NumericHolds(clauses, candidate) \in BOOLEAN
         /\ \/ evalNumeric(clauses, candidate) = Verdict(NumericHolds(clauses, candidate))
            \/ /\ evalNumeric(clauses, candidate) = {"error"}
               /\ ~\A i \in 1..(Len(clauses) \div 2) : toFloat(clauses[2 * i]) # {}
<1> DEFINE numbers == UNION { toFloat(item) : item \in flatten(candidate) }
           pairs == 1..(Len(clauses) \div 2)
           Clause(n, i) == \E m \in toFloat(clauses[2 * i]) : compareNumeric(n, clauses[2 * i - 1], m)
           Breaks(n, i) == toFloat(clauses[2 * i]) = {} /\ \A j \in 1..(i - 1) : Clause(n, j)
           broken == \E n \in numbers, i \in pairs : Breaks(n, i)
           good == \E n \in numbers : \A i \in pairs : Clause(n, i)
<1>1. evalNumeric(clauses, candidate) = IF broken THEN {"error"} ELSE Verdict(good)
  BY DEF evalNumeric
<1>2. good <=> NumericHolds(clauses, candidate)
  <2> DEFINE Meets(n, i) == \E m \in toFloat(clauses[2 * i]) : Satisfies(n, clauses[2 * i - 1], m)
  <2>1. flatten(candidate) = Items(candidate)
    BY DEF flatten, Items, Range
  <2>2. \A item \in Items(candidate) : toFloat(item) \in SUBSET Int
    BY ValueFacts, NumberFacts
  <2>3. numbers \in SUBSET Int
    BY <2>1, <2>2
  <2>4. \A i \in pairs : toFloat(clauses[2 * i]) \in SUBSET Int
    <3>1. ASSUME NEW i \in pairs PROVE toFloat(clauses[2 * i]) \in SUBSET Int
      <4>1. Len(clauses) \in Nat /\ DOMAIN clauses = 1..Len(clauses)
        OBVIOUS
      <4>2. 2 * i \in 1..Len(clauses)
        BY <4>1
      <4>3. clauses[2 * i] \in Value
        BY <4>1, <4>2 DEF Value
      <4>4. QED
        BY <4>3, NumberFacts
    <3>2. QED
      BY <3>1
  <2>5. \A n \in Int, i \in pairs : Clause(n, i) <=> Meets(n, i)
    <3> HIDE DEF pairs
    <3>1. QED
      BY <2>4, CompareRight
  <2>6. NumericHolds(clauses, candidate) <=>
          \E item \in Items(candidate) : \E n \in toFloat(item) : \A i \in pairs : Meets(n, i)
    BY DEF NumericHolds
  <2>7. good <=> \E item \in Items(candidate) : \E n \in toFloat(item) : \A i \in pairs : Clause(n, i)
    <3> HIDE DEF pairs, Clause
    <3>1. QED
      BY <2>1
  <2> HIDE DEF pairs, Clause, Meets, numbers, good
  <2>8. QED
    BY <2>2, <2>5, <2>6, <2>7
<1>3. (\A i \in pairs : toFloat(clauses[2 * i]) # {}) => ~broken
  <2> HIDE DEF numbers
  <2>1. QED
    OBVIOUS
<1>4. good \in BOOLEAN /\ broken \in BOOLEAN /\ NumericHolds(clauses, candidate) \in BOOLEAN
  BY DEF NumericHolds
<1>5. good = NumericHolds(clauses, candidate)
  <2> HIDE DEF good
  <2>1. QED
    BY <1>2, <1>4
<1> HIDE DEF good, broken
<1>6. QED
  BY <1>1, <1>3, <1>4, <1>5 DEF pairs

\* A condition that Validate lets through.
ValidCondition(c) == IsScalar(c) \/ (Is("obj", c) /\ validateOperator(c.obj))

\* A scalar is neither an object nor an array.
LEMMA ScalarFacts ==
  ASSUME NEW v, IsScalar(v)
  PROVE  ~Is("obj", v) /\ ~Is("arr", v)
  BY DEF IsScalar, Is

\* anything-but is the negation of what it names, unless that is a network
\* that is none.
LEMMA AnythingButRight ==
  ASSUME NEW but \in JSON,
         IsScalar(but) \/ Is("arr", but) \/ (Is("obj", but) /\ IsStringRule(but.obj)),
         NEW candidate \in Value, NEW exists,
         Is("obj", but) /\ "cidr" \in DOMAIN but.obj => but.obj["cidr"].str \in CIDR
  PROVE  evalAnythingBut(but, candidate) <=> OperatorHolds("anything-but", but, candidate, exists)
<1>1. "anything-but" \notin StringOperators
  BY DEF StringOperators
<1>2. \A named \in Items(but) : ~Is("obj", but) =>
        (scalarOrArrayContains(candidate, named) <=> Named(candidate, named))
  <2>1. but \in Value
    BY DEF Value
  <2>2. Items(but) \in SUBSET Value
    BY <2>1, ValueFacts
  <2>3. QED
    BY <2>2, NamedRight
<1>3. ~Is("obj", but) => (OperatorHolds("anything-but", but, candidate, exists)
                            <=> ~\E named \in Items(but) : Named(candidate, named))
  BY <1>1 DEF OperatorHolds
<1>4. CASE IsScalar(but)
  <2>1. ~Is("obj", but) /\ ~Is("arr", but)
    BY <1>4, ScalarFacts
  <2>2. Items(but) = {but}
    BY <2>1 DEF Items
  <2>3. evalAnythingBut(but, candidate) <=> ~scalarOrArrayContains(candidate, but)
    BY <1>4, <2>1 DEF evalAnythingBut
  <2>4. QED
    BY <1>2, <1>3, <2>1, <2>2, <2>3
<1>5. CASE Is("arr", but)
  <2>1. ~Is("obj", but) /\ ~IsScalar(but)
    BY <1>5, ScalarFacts DEF Is
  <2>2. Items(but) = Range(but.arr)
    BY <1>5 DEF Items, Range
  <2>3. evalAnythingBut(but, candidate) <=>
          \A item \in Range(but.arr) : ~scalarOrArrayContains(candidate, item)
    BY <1>5, <2>1 DEF evalAnythingBut
  <2>4. QED
    BY <1>2, <1>3, <2>1, <2>2, <2>3
<1>6. CASE Is("obj", but) /\ IsStringRule(but.obj)
  <2>1. ~Is("arr", but) /\ ~IsScalar(but)
    BY <1>6, ScalarFacts DEF Is
  <2>2. PICK op \in StringOperators : DOMAIN but.obj = {op} /\ Is("str", but.obj[op])
    BY <1>6 DEF IsStringRule
  <2>3. evalAnythingBut(but, candidate) <=> ~evalNested(but.obj, candidate)
    <3>1. IsOperator(but)
      BY <1>6, <2>2 DEF IsOperator
    <3>2. QED
      BY <2>1, <3>1 DEF evalAnythingBut
  <2>4. evalNested(but.obj, candidate) <=> StringHolds(op, but.obj[op], candidate)
    BY <2>2, NestedRight
  <2>5. OperatorHolds("anything-but", but, candidate, exists) <=> Outside(but.obj, candidate)
    BY <1>1, <1>6 DEF OperatorHolds
  <2>6. Outside(but.obj, candidate) <=> ~StringHolds(op, but.obj[op], candidate)
    BY <1>6, <2>2 DEF Outside
  <2>7. QED
    BY <2>3, <2>4, <2>5, <2>6
<1>7. QED
  BY <1>4, <1>5, <1>6

\* Every valid condition is evaluated as it reads.
LEMMA ConditionRight ==
  ASSUME NEW c \in JSON, ValidCondition(c), NEW candidate \in Value, NEW exists \in BOOLEAN
  PROVE  Right(evalCondition(c, candidate, exists), Holds(c, candidate, exists), {c})
<1> DEFINE rule == c.obj
<1>0. Holds(c, candidate, exists) \in BOOLEAN
  BY DEF Holds, Named
<1>1. CASE IsScalar(c)
  <2>1. ~Is("obj", c)
    BY <1>1, ScalarFacts
  <2>2. evalCondition(c, candidate, exists) = Verdict(scalarOrArrayContains(candidate, c))
    BY <1>1, <2>1 DEF evalCondition
  <2>3. Holds(c, candidate, exists) <=> Named(candidate, c)
    BY <2>1 DEF Holds
  <2>4. scalarOrArrayContains(candidate, c) <=> Named(candidate, c)
    BY NamedRight DEF Value
  <2>5. Verdict(scalarOrArrayContains(candidate, c)) = Verdict(Holds(c, candidate, exists))
    BY <2>3, <2>4 DEF Verdict
  <2>6. QED
    BY <1>0, <2>2, <2>5, VerdictRight
<1>2. CASE Is("obj", c) /\ validateOperator(rule)
  <2>1. ~IsScalar(c)
    BY <1>2, ScalarFacts
  <2>2. evalCondition(c, candidate, exists) = evalOperator(rule, candidate, exists)
    BY <1>2, <2>1 DEF evalCondition
  <2>3. rule \in JSONObject
    BY <1>2, JSONFacts
  <2>4. ASSUME NEW op, DOMAIN rule = {op}
        PROVE  Holds(c, candidate, exists) <=> OperatorHolds(op, rule[op], candidate, exists)
    BY <1>2, <2>4 DEF Holds
  <2>5. CASE IsStringRule(rule)
    BY <1>2, <2>2, <2>5, StringRight DEF IsStringRule
  <2>6. CASE DOMAIN rule = {"numeric"} /\ Is("arr", rule["numeric"])
    <3> DEFINE clauses == rule["numeric"].arr
    <3>1. "exists" \notin DOMAIN rule /\ "anything-but" \notin DOMAIN rule
            /\ "cidr" \notin DOMAIN rule /\ "numeric" \in DOMAIN rule
      BY <2>6
    <3>2. evalOperator(rule, candidate, exists) = evalNumeric(clauses, candidate)
      BY <3>1 DEF evalOperator
    <3>3. Holds(c, candidate, exists) <=> NumericHolds(clauses, candidate)
      BY <2>4, <2>6 DEF OperatorHolds, StringOperators
    <3>4. Readable(c) => \A i \in 1..(Len(clauses) \div 2) : toFloat(clauses[2 * i]) # {}
      BY <1>2, <3>1 DEF Readable
    <3>5. clauses \in Seq(JSON)
      BY <2>3, <2>6, <3>1, ObjectFacts, JSONFacts
    <3> HIDE DEF clauses
    <3>6. NumericHolds(clauses, candidate) = Holds(c, candidate, exists)
      BY <1>0, <3>3, <3>5, NumericRight
    <3>7. CASE evalNumeric(clauses, candidate) = Verdict(NumericHolds(clauses, candidate))
      BY <1>0, <2>2, <3>2, <3>6, <3>7, VerdictRight
    <3>8. CASE /\ evalNumeric(clauses, candidate) = {"error"}
               /\ ~\A i \in 1..(Len(clauses) \div 2) : toFloat(clauses[2 * i]) # {}
      BY <1>0, <2>2, <3>2, <3>4, <3>8 DEF Right, Outcomes
    <3>9. QED
      BY <3>5, <3>7, <3>8, NumericRight
  <2>7. CASE DOMAIN rule = {"exists"} /\ Is("bool", rule["exists"])
    <3>1. "exists" \in DOMAIN rule /\ "anything-but" \notin DOMAIN rule
            /\ "cidr" \notin DOMAIN rule /\ "numeric" \notin DOMAIN rule
      BY <2>7
    <3>2. rule["exists"].bool \in BOOLEAN /\ rule["exists"] = Bool(rule["exists"].bool)
      BY <2>3, <2>7, <3>1, ObjectFacts, JSONFacts
    <3>3. rule["exists"] = Bool(TRUE) <=> rule["exists"].bool
      <4>1. CASE rule["exists"].bool = TRUE
        BY <3>2, <4>1
      <4>2. CASE rule["exists"].bool = FALSE
        <5>1. Bool(TRUE).bool = TRUE
          BY DEF Bool
        <5>2. rule["exists"] # Bool(TRUE)
          BY <4>2, <5>1
        <5>3. QED
          BY <4>2, <5>2
      <4>3. QED
        BY <3>2, <4>1, <4>2
    <3>4. Holds(c, candidate, exists) <=> (exists <=> rule["exists"].bool)
      BY <2>4, <2>7, <3>2 DEF OperatorHolds, StringOperators
    <3>5. evalOperator(rule, candidate, exists) = Verdict(exists = (rule["exists"] = Bool(TRUE)))
      BY <3>1 DEF evalOperator
    <3>6. (exists = (rule["exists"] = Bool(TRUE))) <=> Holds(c, candidate, exists)
      BY <3>2, <3>3, <3>4
    <3>7. Verdict(exists = (rule["exists"] = Bool(TRUE))) = Verdict(Holds(c, candidate, exists))
      BY <1>0, <3>6 DEF Verdict
    <3>8. QED
      BY <1>0, <2>2, <3>5, <3>7, VerdictRight
  <2>8. CASE DOMAIN rule = {"anything-but"}
               /\ LET but == rule["anything-but"] IN
                  IsScalar(but) \/ Is("arr", but) \/ (Is("obj", but) /\ IsStringRule(but.obj))
    <3> DEFINE but == rule["anything-but"]
    <3>1. "exists" \notin DOMAIN rule /\ "anything-but" \in DOMAIN rule
            /\ "cidr" \notin DOMAIN rule /\ "numeric" \notin DOMAIN rule
      BY <2>8
    <3>2. evalOperator(rule, candidate, exists) = Verdict(evalAnythingBut(but, candidate))
      BY <3>1 DEF evalOperator
    <3>3. but \in JSON
      BY <2>3, <3>1, ObjectFacts
    <3>4. KeepsErrors(c) <=> (Is("obj", but) /\ "cidr" \in DOMAIN but.obj => but.obj["cidr"].str \in CIDR)
      BY <1>2, <3>1 DEF KeepsErrors
    <3>5. Holds(c, candidate, exists) <=> OperatorHolds("anything-but", but, candidate, exists)
      BY <2>4, <2>8
    <3>6. IsScalar(but) \/ Is("arr", but) \/ (Is("obj", but) /\ IsStringRule(but.obj))
      BY <2>8
    <3> HIDE DEF but
    <3>7. CASE KeepsErrors(c)
      <4>1. evalAnythingBut(but, candidate) <=> Holds(c, candidate, exists)
        BY <3>3, <3>4, <3>5, <3>6, <3>7, AnythingButRight
      <4>2. Verdict(evalAnythingBut(but, candidate)) = Verdict(Holds(c, candidate, exists))
        BY <4>1 DEF Verdict
      <4>3. QED
        BY <1>0, <2>2, <3>2, <4>2, VerdictRight
    <3>8. CASE ~KeepsErrors(c)
      <4>1. Verdict(evalAnythingBut(but, candidate)) \in Outcomes
        BY DEF Verdict, Outcomes
      <4>2. ~Readable(c)
        BY <3>8 DEF Readable
      <4>3. QED
        BY <1>0, <2>2, <3>2, <3>8, <4>1, <4>2 DEF Right
    <3>9. QED
      BY <3>7, <3>8
  <2>9. QED
    BY <1>2, <2>5, <2>6, <2>7, <2>8 DEF validateOperator
<1>3. QED
  BY <1>1, <1>2 DEF ValidCondition

-----------------------------------------------------------------------------
(***************************************************************************)
(* Objects.                                                                *)
(***************************************************************************)
ItemsRight(n, outs, holds, conds) ==
  /\ n \in Nat /\ DOMAIN outs = 1..n /\ holds \in [1..n -> BOOLEAN]
  /\ \A i \in 1..n : Right(outs[i], holds[i], conds[i])

ListRight(n, outs, holds, conds) ==
  Right(FirstOf(outs), \E i \in 1..n : holds[i], UNION { conds[i] : i \in 1..n })

\* Alternatives in an array: the first match or error decides, and finds what
\* is there to be found.
LEMMA FirstRight ==
  ASSUME NEW n, NEW outs, NEW holds, NEW conds, ItemsRight(n, outs, holds, conds)
  PROVE  ListRight(n, outs, holds, conds)
<1> USE DEF ItemsRight
<1> DEFINE all == UNION { conds[i] : i \in 1..n }
<1>0. \A i \in 1..n : \A c \in conds[i] : c \in all
  OBVIOUS
<1> HIDE DEF all
<1>1. FirstOf(outs) \in Outcomes
  BY DEF FirstOf, Outcomes
<1>2. ASSUME \A c \in all : KeepsErrors(c), "match" \in FirstOf(outs)
      PROVE  \E i \in 1..n : holds[i]
  <2>1. PICK i \in 1..n : "match" \in outs[i]
    BY <1>2 DEF FirstOf
  <2>2. \A c \in conds[i] : KeepsErrors(c)
    BY <1>0, <1>2
  <2>3. QED
    BY <2>1, <2>2 DEF Right
<1>3. ASSUME \A c \in all : Readable(c)
      PROVE  FirstOf(outs) = Verdict(\E i \in 1..n : holds[i])
  <2>1. \A i \in 1..n : outs[i] = Verdict(holds[i])
    BY <1>0, <1>3 DEF Right
  <2>2. \A i \in 1..n : "error" \notin outs[i]
    BY <2>1 DEF Verdict
  <2>3. \A i \in 1..n : ("match" \in outs[i] <=> holds[i]) /\ ("nomatch" \in outs[i] <=> ~holds[i])
    BY <2>1 DEF Verdict
  <2>4. "error" \notin FirstOf(outs)
    BY <2>2 DEF FirstOf
  <2>5. CASE \E i \in 1..n : holds[i]
    <3> DEFINE T == { m \in Nat : ~(m \in 1..n /\ holds[m]) }
    <3>1. PICK i \in 1..n : holds[i] /\ \A j \in 1..(i - 1) : ~holds[j]
      <4>1. SUFFICES ASSUME \A i \in 1..n : holds[i] => \E j \in 1..(i - 1) : holds[j] PROVE FALSE
        OBVIOUS
      <4>2. ASSUME NEW m \in Nat, \A l \in Nat : l < m => l \in T PROVE m \in T
        <5>1. SUFFICES ASSUME m \in 1..n, holds[m] PROVE FALSE
          OBVIOUS
        <5>2. PICK j \in 1..(m - 1) : holds[j]
          BY <4>1, <5>1
        <5>3. j \in Nat /\ j < m /\ j \in 1..n
          BY <5>1, <5>2
        <5>4. QED
          BY <4>2, <5>2, <5>3
      <4>3. T = Nat
        <5>1. T \in SUBSET Nat
          OBVIOUS
        <5> HIDE DEF T
        <5>2. QED
          BY <4>2, <5>1, LeastNumber
      <4>4. QED
        BY <2>5, <4>3
    <3>2. \A j \in 1..(i - 1) : j \in 1..n /\ "nomatch" \in outs[j]
      BY <2>3, <3>1
    <3>3. "match" \in FirstOf(outs)
      BY <2>3, <3>1, <3>2 DEF FirstOf
    <3>4. "nomatch" \notin FirstOf(outs)
      BY <2>3, <3>1 DEF FirstOf
    <3>5. FirstOf(outs) = {"match"}
      BY <1>1, <2>4, <3>3, <3>4 DEF Outcomes
    <3>6. QED
      BY <2>5, <3>5 DEF Verdict
  <2>6. CASE ~\E i \in 1..n : holds[i]
    <3>1. "nomatch" \in FirstOf(outs)
      BY <2>3, <2>6 DEF FirstOf
    <3>2. "match" \notin FirstOf(outs)
      BY <2>3, <2>6 DEF FirstOf
    <3>3. FirstOf(outs) = {"nomatch"}
      BY <1>1, <2>4, <3>1, <3>2 DEF Outcomes
    <3>4. QED
      BY <2>6, <3>3 DEF Verdict
  <2>7. QED
    BY <2>5, <2>6
<1>4. QED
  BY <1>1, <1>2, <1>3 DEF Right, ListRight, all

PartsRight(K, outs, holds, conds) ==
  /\ outs \in [K -> Outcomes] /\ holds \in [K -> BOOLEAN]
  /\ \A k \in K : Right(outs[k], holds[k], conds[k])

MapRight(K, outs, holds, conds) ==
  Right(AllOf({ outs[k] : k \in K }), \A k \in K : holds[k], UNION { conds[k] : k \in K })

\* The entries of a map, in whatever order.
LEMMA AllRight ==
  ASSUME NEW K, NEW outs, NEW holds, NEW conds, PartsRight(K, outs, holds, conds)
  PROVE  MapRight(K, outs, holds, conds)
<1> USE DEF PartsRight
<1> DEFINE all == AllOf({ outs[k] : k \in K })
           every == UNION { conds[k] : k \in K }
<1>0. \A k \in K : \A c \in conds[k] : c \in every
  OBVIOUS
<1> HIDE DEF every
<1>1. all \in Outcomes
  BY DEF AllOf, Outcomes
<1>2. "match" \in all <=> \A k \in K : "match" \in outs[k]
  BY DEF AllOf
<1>3. "nomatch" \in all <=> \E k \in K : "nomatch" \in outs[k]
  BY DEF AllOf
<1>4. "error" \in all <=> \E k \in K : "error" \in outs[k]
  BY DEF AllOf
<1> HIDE DEF all
<1>5. ASSUME \A c \in every : KeepsErrors(c), "match" \in all PROVE \A k \in K : holds[k]
  BY <1>0, <1>2, <1>5 DEF Right
<1>6. ASSUME \A c \in every : Readable(c)
      PROVE  all = Verdict(\A k \in K : holds[k])
  <2>1. \A k \in K : outs[k] = Verdict(holds[k])
    BY <1>0, <1>6 DEF Right
  <2>2. \A k \in K : /\ "match" \in outs[k] <=> holds[k]
                     /\ "nomatch" \in outs[k] <=> ~holds[k]
                     /\ "error" \notin outs[k]
    BY <2>1 DEF Verdict
  <2>3. "error" \notin all
    BY <1>4, <2>2
  <2>4. CASE \A k \in K : holds[k]
    <3>1. "match" \in all /\ "nomatch" \notin all
      BY <1>2, <1>3, <2>2, <2>4
    <3>2. all = {"match"}
      BY <1>1, <2>3, <3>1 DEF Outcomes
    <3>3. QED
      BY <2>4, <3>2 DEF Verdict
  <2>5. CASE ~\A k \in K : holds[k]
    <3>1. "match" \notin all /\ "nomatch" \in all
      BY <1>2, <1>3, <2>2, <2>5
    <3>2. all = {"nomatch"}
      BY <1>1, <2>3, <3>1 DEF Outcomes
    <3>3. QED
      BY <2>5, <3>2 DEF Verdict
  <2>6. QED
    BY <2>4, <2>5
<1>7. QED
  BY <1>1, <1>5, <1>6 DEF Right, MapRight, all, every

\* Sequences of a valid policy have Nat lengths and their items are JSON.
LEMMA ItemFacts ==
  ASSUME NEW v \in JSON, Is("arr", v)
  PROVE  /\ Len(v.arr) \in Nat /\ DOMAIN v.arr = 1..Len(v.arr)
         /\ \A i \in 1..Len(v.arr) : v.arr[i] \in JSON /\ v.arr[i] \in Range(v.arr)
         /\ \A x \in Range(v.arr) : \E i \in 1..Len(v.arr) : x = v.arr[i]
<1>1. v.arr \in Seq(JSON)
  BY JSONFacts
<1>2. Len(v.arr) \in Nat /\ DOMAIN v.arr = 1..Len(v.arr) /\ \A i \in 1..Len(v.arr) : v.arr[i] \in JSON
  BY <1>1
<1>3. QED
  BY <1>2 DEF Range

\* The conditions of a key.
LEMMA ConditionsRight ==
  ASSUME NEW v \in JSON, Is("arr", v), validateConditions(v.arr),
         NEW candidate \in Value, NEW exists \in BOOLEAN
  PROVE  Right(evalConditions(v.arr, candidate, exists),
               \E c \in Range(v.arr) : Holds(c, candidate, exists), Range(v.arr))
<1> DEFINE n == Len(v.arr)
           outs == [i \in DOMAIN v.arr |-> evalCondition(v.arr[i], candidate, exists)]
           holds == [i \in 1..n |-> Holds(v.arr[i], candidate, exists)]
           conds == [i \in 1..n |-> {v.arr[i]}]
<1>1. n \in Nat /\ DOMAIN v.arr = 1..n
  BY ItemFacts
<1>2. ASSUME NEW i \in 1..n PROVE Right(outs[i], holds[i], conds[i])
  <2>1. v.arr[i] \in JSON /\ ValidCondition(v.arr[i])
    BY ItemFacts DEF validateConditions, ValidCondition
  <2>2. Right(evalCondition(v.arr[i], candidate, exists), Holds(v.arr[i], candidate, exists), {v.arr[i]})
    BY <2>1, ConditionRight
  <2>3. outs[i] = evalCondition(v.arr[i], candidate, exists)
    BY <1>1
  <2>4. QED
    BY <2>2, <2>3
<1>3. DOMAIN outs = 1..n
  BY <1>1
<1>4. holds \in [1..n -> BOOLEAN]
  BY <1>2 DEF Right
<1>5. (\E i \in 1..n : holds[i]) <=> \E c \in Range(v.arr) : Holds(c, candidate, exists)
  BY ItemFacts
<1>6. UNION { conds[i] : i \in 1..n } = Range(v.arr)
  <2>1. \A i \in 1..n : conds[i] = {v.arr[i]}
    OBVIOUS
  <2> HIDE DEF conds
  <2>2. \A x : x \in UNION { conds[i] : i \in 1..n } <=> \E i \in 1..n : x = v.arr[i]
    BY <2>1
  <2>3. \A x : x \in Range(v.arr) <=> \E i \in 1..n : x = v.arr[i]
    BY ItemFacts
  <2>4. QED
    BY <2>2, <2>3
<1>7. evalConditions(v.arr, candidate, exists) = FirstOf(outs)
  BY DEF evalConditions
<1> HIDE DEF outs, holds, conds, n
<1>8. Right(FirstOf(outs), \E i \in 1..n : holds[i], UNION { conds[i] : i \in 1..n })
  <2>1. ItemsRight(n, outs, holds, conds)
    BY <1>1, <1>2, <1>3, <1>4 DEF ItemsRight
  <2>2. ListRight(n, outs, holds, conds)
    BY <2>1, FirstRight
  <2>3. QED
    BY <2>2 DEF ListRight
<1>9. QED
  BY <1>5, <1>6, <1>7, <1>8 DEF Right

\* The policies one level down are evaluated right.
RightBelow(policy) ==
  \A x \in JSONObject : Depth[x] < Depth[policy] /\ validateObject[x] =>
    \A root \in JSONObject : Right(evalObject[x][root], Accepts[x][root], Conditions[x])

\* The alternatives of "$or".
LEMMA OrRight ==
  ASSUME NEW policy \in JSONObject, RightBelow(policy), NEW key \in DOMAIN policy, key = "$or",
         ValidEntry(validateObject, key, policy[key]), NEW root \in JSONObject
  PROVE  Right(evalEntry(evalObject, key, policy[key], root),
               AcceptedEntry(Accepts, key, policy[key], root),
               ConditionsEntry(Conditions, key, policy[key]))
<1> DEFINE v == policy[key]
           n == Len(v.arr)
           outs == [i \in DOMAIN v.arr |->
                      IF Is("obj", v.arr[i]) THEN evalObject[v.arr[i].obj][root] ELSE {"error"}]
           holds == [i \in 1..n |-> Accepts[v.arr[i].obj][root]]
           conds == [i \in 1..n |-> Conditions[v.arr[i].obj]]
<1>1. /\ v \in JSON /\ Is("arr", v) /\ Len(v.arr) >= 2
      /\ \A item \in Range(v.arr) :
           /\ Is("obj", item) /\ validateObject[item.obj]
           /\ item.obj \in JSONObject /\ Depth[item.obj] < Depth[policy]
  BY ObjectFacts DEF ValidEntry
<1>2. n \in Nat /\ DOMAIN v.arr = 1..n
  BY <1>1, ItemFacts
<1>3. ASSUME NEW i \in 1..n
      PROVE  /\ Is("obj", v.arr[i]) /\ v.arr[i].obj \in JSONObject
             /\ Right(outs[i], holds[i], conds[i])
  <2>1. v.arr[i] \in Range(v.arr)
    BY <1>1, ItemFacts
  <2>2. outs[i] = evalObject[v.arr[i].obj][root]
    BY <1>1, <1>2, <2>1
  <2> HIDE DEF v, outs
  <2>3. QED
    BY <1>1, <2>1, <2>2 DEF RightBelow
<1>4. DOMAIN outs = 1..n
  BY <1>2
<1>5. holds \in [1..n -> BOOLEAN]
  BY <1>3 DEF Right
<1> HIDE DEF v
<1>6. (\E i \in 1..n : holds[i]) <=> AcceptedEntry(Accepts, key, v, root)
  <2>1. AcceptedEntry(Accepts, key, v, root) <=>
          \E item \in Range(v.arr) : Is("obj", item) /\ Accepts[item.obj][root]
    BY <1>1 DEF AcceptedEntry
  <2>2. QED
    BY <1>1, <2>1, ItemFacts
<1>7. UNION { conds[i] : i \in 1..n } = ConditionsEntry(Conditions, key, v)
  <2>1. Here(key, v) = {}
    BY DEF Here
  <2>2. Items(v) = Range(v.arr)
    BY <1>1 DEF Items, Range
  <2>3. Below(key, v) = Range(v.arr)
    BY <1>1, <2>2 DEF Below
  <2>4. ConditionsEntry(Conditions, key, v) = UNION { Conditions[x.obj] : x \in Range(v.arr) }
    BY <2>1, <2>3 DEF ConditionsEntry
  <2>5. \A i \in 1..n : conds[i] = Conditions[v.arr[i].obj]
    OBVIOUS
  <2> HIDE DEF conds
  <2>6. \A x : x \in UNION { conds[i] : i \in 1..n } <=> \E i \in 1..n : x \in Conditions[v.arr[i].obj]
    BY <2>5
  <2>7. \A x : x \in Range(v.arr) <=> \E i \in 1..n : x = v.arr[i]
    BY <1>1, ItemFacts
  <2>8. \A x : x \in ConditionsEntry(Conditions, key, v)
                <=> \E i \in 1..n : x \in Conditions[v.arr[i].obj]
    BY <2>4, <2>7
  <2>9. QED
    BY <2>6, <2>8
<1>8. evalEntry(evalObject, key, v, root) = FirstOf(outs)
  BY <1>1 DEF evalEntry, evalOR
<1>9. AcceptedEntry(Accepts, key, v, root) \in BOOLEAN
  BY DEF AcceptedEntry
<1> HIDE DEF outs, holds, conds, n
<1>10. Right(FirstOf(outs), \E i \in 1..n : holds[i], UNION { conds[i] : i \in 1..n })
  <2>1. ItemsRight(n, outs, holds, conds)
    BY <1>2, <1>3, <1>4, <1>5 DEF ItemsRight
  <2>2. ListRight(n, outs, holds, conds)
    BY <2>1, FirstRight
  <2>3. QED
    BY <2>2 DEF ListRight
<1>11. Right(evalEntry(evalObject, key, v, root), AcceptedEntry(Accepts, key, v, root),
             ConditionsEntry(Conditions, key, v))
  BY <1>6, <1>7, <1>8, <1>9, <1>10 DEF Right
<1>12. QED
  BY <1>11 DEF v

\* An entry of a policy is evaluated as it reads.
LEMMA EntryRight ==
  ASSUME NEW policy \in JSONObject, RightBelow(policy), NEW key \in DOMAIN policy,
         ValidEntry(validateObject, key, policy[key]), NEW root \in JSONObject
  PROVE  Right(evalEntry(evalObject, key, policy[key], root),
               AcceptedEntry(Accepts, key, policy[key], root),
               ConditionsEntry(Conditions, key, policy[key]))
<1> DEFINE v == policy[key]
           child == Child(root, key)
           RightHere == Right(evalEntry(evalObject, key, v, root), AcceptedEntry(Accepts, key, v, root),
                              ConditionsEntry(Conditions, key, v))
<1>1. CASE key = "$or"
  BY <1>1, OrRight
<1>2. CASE key # "$or" /\ Is("obj", v)
  <2>1. /\ v.obj \in JSONObject /\ Depth[v.obj] < Depth[policy]
        /\ ~Is("arr", v) /\ validateObject[v.obj]
    BY <1>2, ObjectFacts DEF ValidEntry, Is
  <2>2. Is("obj", child) => child.obj \in JSONObject
    <3>1. CASE key \in DOMAIN root
      BY <3>1, ObjectFacts DEF Child
    <3>2. CASE key \notin DOMAIN root
      BY <3>2 DEF Child, Null, Is
    <3>3. QED
      BY <3>1, <3>2
  <2>3. ConditionsEntry(Conditions, key, v) = Conditions[v.obj]
    <3>1. Here(key, v) = {} /\ Below(key, v) = {v}
      BY <1>2, <2>1 DEF Here, Below
    <3>2. QED
      BY <3>1 DEF ConditionsEntry
  <2> HIDE DEF v, child
  <2>4. CASE Is("obj", child)
    <3>1. evalEntry(evalObject, key, v, root) = evalObject[v.obj][child.obj]
      BY <1>2, <2>1, <2>4 DEF evalEntry, child
    <3>2. Right(evalObject[v.obj][child.obj], Accepts[v.obj][child.obj], Conditions[v.obj])
      BY <2>1, <2>2, <2>4 DEF RightBelow
    <3>3. AcceptedEntry(Accepts, key, v, root) <=> Accepts[v.obj][child.obj]
      BY <1>2, <2>4, <3>2 DEF AcceptedEntry, child, Right
    <3>4. AcceptedEntry(Accepts, key, v, root) \in BOOLEAN
      BY DEF AcceptedEntry
    <3>5. RightHere
      BY <2>3, <3>1, <3>2, <3>3, <3>4 DEF Right
    <3>6. QED
      BY <3>5 DEF v
  <2>5. CASE ~Is("obj", child)
    <3>1. evalEntry(evalObject, key, v, root) = {"nomatch"}
      BY <1>2, <2>1, <2>5 DEF evalEntry, child
    <3>2. AcceptedEntry(Accepts, key, v, root) = FALSE
      BY <1>2, <2>5 DEF AcceptedEntry, child
    <3>3. RightHere
      BY <3>1, <3>2 DEF Right, Verdict, Outcomes
    <3>4. QED
      BY <3>3 DEF v
  <2>6. QED
    BY <2>4, <2>5
<1>3. CASE key # "$or" /\ ~Is("obj", v)
  <2>1. v \in JSON /\ Is("arr", v) /\ validateConditions(v.arr)
    BY <1>3, ObjectFacts DEF ValidEntry
  <2> DEFINE exists == key \in DOMAIN root
  <2> HIDE DEF v
  <2>2. evalEntry(evalObject, key, v, root) = evalConditions(v.arr, child, exists)
    BY <1>3, <2>1 DEF evalEntry
  <2>3. AcceptedEntry(Accepts, key, v, root) <=> \E c \in Range(v.arr) : Holds(c, child, exists)
    BY <1>3 DEF AcceptedEntry
  <2>4. ConditionsEntry(Conditions, key, v) = Range(v.arr)
    <3>1. Here(key, v) = Range(v.arr) /\ Below(key, v) = {}
      BY <1>3, <2>1 DEF Here, Below, Items, Range
    <3>2. QED
      BY <3>1 DEF ConditionsEntry
  <2>5. AcceptedEntry(Accepts, key, v, root) \in BOOLEAN
    BY DEF AcceptedEntry
  <2>6. exists \in BOOLEAN
    OBVIOUS
  <2>10. child \in Value
    <3>1. key \in DOMAIN root => root[key] \in JSON
      BY ObjectFacts
    <3>2. QED
      BY <3>1 DEF Child, Value
  <2> HIDE DEF child, exists
  <2>7. Right(evalConditions(v.arr, child, exists), \E c \in Range(v.arr) : Holds(c, child, exists),
              Range(v.arr))
    BY <2>1, <2>6, <2>10, ConditionsRight
  <2>8. RightHere
    BY <2>2, <2>3, <2>4, <2>5, <2>7 DEF Right
  <2>9. QED
    BY <2>8 DEF v
<1>4. QED
  BY <1>1, <1>2, <1>3

\* The evaluation of a valid policy, in whatever order, lets through only what
\* the policy accepts, if no error is dropped, and all of that if its operands
\* can be read.
LEMMA PolicyRight ==
  ASSUME NEW policy \in JSONObject, validateObject[policy], NEW root \in JSONObject
  PROVE  Right(evalObject[policy][root], Accepts[policy][root], Conditions[policy])
<1> DEFINE P == { x \in JSONObject : validateObject[x] =>
                    \A r \in JSONObject : Right(evalObject[x][r], Accepts[x][r], Conditions[x]) }
<1>1. ASSUME NEW x \in JSONObject, \A y \in JSONObject : Depth[y] < Depth[x] => y \in P
      PROVE  x \in P
  <2>1. SUFFICES ASSUME validateObject[x], NEW r \in JSONObject
                 PROVE  Right(evalObject[x][r], Accepts[x][r], Conditions[x])
    OBVIOUS
  <2>2. RightBelow(x)
    BY <1>1 DEF RightBelow
  <2>3. \A key \in DOMAIN x : ValidEntry(validateObject, key, x[key])
    BY <2>1, ValidateEquation
  <2> DEFINE outs == [key \in DOMAIN x |-> evalEntry(evalObject, key, x[key], r)]
             holds == [key \in DOMAIN x |-> AcceptedEntry(Accepts, key, x[key], r)]
             conds == [key \in DOMAIN x |-> ConditionsEntry(Conditions, key, x[key])]
  <2>4. \A key \in DOMAIN x : Right(outs[key], holds[key], conds[key])
    BY <2>2, <2>3, EntryRight
  <2>5. outs \in [DOMAIN x -> Outcomes] /\ holds \in [DOMAIN x -> BOOLEAN]
    BY <2>4 DEF Right
  <2>7. evalObject[x][r] = AllOf({ outs[key] : key \in DOMAIN x })
    <3>1. { outs[key] : key \in DOMAIN x }
            = { evalEntry(evalObject, key, x[key], r) : key \in DOMAIN x }
      OBVIOUS
    <3>2. QED
      BY <3>1, EvalEquation
  <2>8. Accepts[x][r] <=> \A key \in DOMAIN x : holds[key]
    BY AcceptsEquation
  <2>9. Conditions[x] = UNION { conds[key] : key \in DOMAIN x }
    <3>1. { conds[key] : key \in DOMAIN x }
            = { ConditionsEntry(Conditions, key, x[key]) : key \in DOMAIN x }
      OBVIOUS
    <3>2. QED
      BY <3>1, ConditionsEquation
  <2>10. Accepts[x][r] \in BOOLEAN
    BY AcceptsEquation DEF Readings
  <2> HIDE DEF outs, holds, conds
  <2>11. Right(AllOf({ outs[key] : key \in DOMAIN x }), \A key \in DOMAIN x : holds[key],
               UNION { conds[key] : key \in DOMAIN x })
    <3>1. PartsRight(DOMAIN x, outs, holds, conds)
      BY <2>4, <2>5 DEF PartsRight
    <3>2. MapRight(DOMAIN x, outs, holds, conds)
      BY <3>1, AllRight
    <3>3. QED
      BY <3>2 DEF MapRight
  <2>12. QED
    BY <2>7, <2>8, <2>9, <2>10, <2>11 DEF Right
<1>2. P = JSONObject
  <2>1. P \in SUBSET JSONObject /\ Depth \in [JSONObject -> Nat]
    BY JSONAssumption
  <2> HIDE DEF P
  <2>2. QED
    BY <1>1, <2>1, DepthInduction
<1>3. QED
  BY <1>2

\* validateObject and evalObject: a policy that is accepted when it is set lets
\* through only what it accepts, read as a statement about the message, unless
\* it drops an error, and exactly that, without an error, if its operands can
\* be read.
THEOREM PolicyEvaluation ==
  \A policy, root \in JSONObject :
    validateObject[policy] =>
      /\ /\ "match" \in evalObject[policy][root]
         /\ \A c \in Conditions[policy] : KeepsErrors(c)
         => Accepts[policy][root]
      /\ (\A c \in Conditions[policy] : Readable(c)) =>
           evalObject[policy][root] = Verdict(Accepts[policy][root])
  BY PolicyRight DEF Right

-----------------------------------------------------------------------------
(***************************************************************************)
(* The order of the subscriptions.                                         *)
(***************************************************************************)
\* InOrder lists subscriptions of the set, none of them twice.
LEMMA InOrderFacts ==
  ASSUME NEW ids, Len(case.subs) \in Nat
  PROVE  /\ InOrder(ids) \in Seq(Nat)
         /\ \A i \in 1..Len(InOrder(ids)) : InOrder(ids)[i] \in ids \cap 1..Len(case.subs)
         /\ \A i, j \in 1..Len(InOrder(ids)) : InOrder(ids)[i] = InOrder(ids)[j] => i = j
<1> DEFINE N == Len(case.subs)
           S == 0..N
           T == Seq(Nat)
           depth == [n \in S |-> n]
           Body(f) == [n \in S |-> IF n = 0 THEN <<>>
                                   ELSE IF n \in ids THEN Append(f[n - 1], n) ELSE f[n - 1]]
           G == [f \in [S -> T] |-> Body(f)]
<1>1. DepthOn(S, depth)
  BY DEF DepthOn
<1>2. ASSUME NEW f \in [S -> T] PROVE Body(f) \in [S -> T]
  <2>1. ASSUME NEW n \in S PROVE Body(f)[n] \in T
    <3>1. n # 0 => n - 1 \in S /\ n \in Nat
      OBVIOUS
    <3>2. QED
      BY <3>1
  <2>2. QED
    BY <2>1
<1>3. BodyOn(S, T, G)
  <2>1. T # {}
    BY EmptySeq
  <2> HIDE DEF Body, T, S
  <2>2. QED
    BY <1>2, <2>1 DEF BodyOn
<1>4. Local(S, T, depth, G)
  <2>1. ASSUME NEW f \in [S -> T], NEW g \in [S -> T], NEW n \in S,
               \A m \in S : depth[m] < depth[n] => f[m] = g[m]
        PROVE  Body(f)[n] = Body(g)[n]
    <3>1. n # 0 => n - 1 \in S /\ depth[n - 1] < depth[n]
      OBVIOUS
    <3>2. n # 0 => f[n - 1] = g[n - 1]
      BY <2>1, <3>1
    <3>3. QED
      BY <3>2
  <2> HIDE DEF Body, T, S, depth
  <2>2. QED
    BY <2>1 DEF Local
<1>5. InOrder(ids) = (CHOOSE f : f = Body(f))[N]
  BY DEF InOrder
<1>6. \E f \in [S -> T] : f = G[f]
  <2> HIDE DEF G, S, T, depth
  <2>1. HasFixedPoint(S, T, G)
    BY <1>1, <1>3, <1>4, FixedPoint
  <2>2. QED
    BY <2>1 DEF HasFixedPoint
<1>7. PICK h \in [S -> T] : h = Body(h)
  BY <1>6
<1> DEFINE u == CHOOSE f : f = Body(f)
<1>8. u = Body(u)
  <2> HIDE DEF Body
  <2>1. QED
    BY <1>7
<1> HIDE DEF u
<1>9. \A n \in S : u[n] = IF n = 0 THEN <<>>
                          ELSE IF n \in ids THEN Append(u[n - 1], n) ELSE u[n - 1]
  BY <1>8
<1> DEFINE Good(s, n) ==
             /\ s \in Seq(Nat)
             /\ \A i \in 1..Len(s) : s[i] \in ids \cap 1..n
             /\ \A i, j \in 1..Len(s) : s[i] = s[j] => i = j
           P == { n \in Nat : n \in S => Good(u[n], n) }
<1>10. Good(<<>>, 0)
  BY EmptySeq
<1>11. ASSUME NEW n \in Nat, n # 0, NEW s, Good(s, n - 1)
       PROVE  Good(s, n) /\ (n \in ids => Good(Append(s, n), n))
  <2>1. Good(s, n)
    BY <1>11
  <2>2. ASSUME n \in ids PROVE Good(Append(s, n), n)
    <3> DEFINE a == Append(s, n)
    <3>1. /\ a \in Seq(Nat) /\ Len(a) = Len(s) + 1 /\ Len(s) \in Nat
          /\ \A i \in 1..Len(s) : a[i] = s[i]
          /\ a[Len(s) + 1] = n
      BY <1>11, AppendProperties
    <3> HIDE DEF a
    <3>2. \A i \in 1..Len(a) : i \in 1..Len(s) \/ i = Len(s) + 1
      BY <3>1
    <3>3. \A i \in 1..Len(s) : s[i] \in Nat /\ s[i] < n /\ s[i] \in ids \cap 1..n
      BY <1>11
    <3>4. \A i \in 1..Len(a) : a[i] \in ids \cap 1..n
      BY <1>11, <2>2, <3>1, <3>2, <3>3
    <3>5. ASSUME NEW i \in 1..Len(a), NEW j \in 1..Len(a), a[i] = a[j] PROVE i = j
      <4>1. CASE i \in 1..Len(s) /\ j \in 1..Len(s)
        <5>1. s[i] = s[j]
          BY <3>1, <3>5, <4>1
        <5>2. QED
          BY <1>11, <4>1, <5>1
      <4>2. CASE i \in 1..Len(s) /\ j = Len(s) + 1
        <5>1. s[i] = n /\ s[i] < n /\ s[i] \in Nat
          BY <3>1, <3>3, <3>5, <4>2
        <5>2. QED
          BY <1>11, <5>1
      <4>3. CASE j \in 1..Len(s) /\ i = Len(s) + 1
        <5>1. s[j] = n /\ s[j] < n /\ s[j] \in Nat
          BY <3>1, <3>3, <3>5, <4>3
        <5>2. QED
          BY <1>11, <5>1
      <4>4. QED
        BY <3>2, <4>1, <4>2, <4>3
    <3>6. QED
      BY <3>1, <3>4, <3>5 DEF a
  <2>3. QED
    BY <2>1, <2>2
<1>12. ASSUME NEW n \in Nat, \A m \in Nat : m < n => m \in P
       PROVE  n \in P
  <2> HIDE DEF Good
  <2>1. SUFFICES ASSUME n \in S PROVE Good(u[n], n)
    OBVIOUS
  <2>2. CASE n = 0
    <3>1. u[0] = <<>>
      BY <1>9, <2>1, <2>2
    <3>2. QED
      BY <1>10, <2>2, <3>1
  <2>3. CASE n # 0
    <3>1. n - 1 \in Nat /\ n - 1 \in S /\ n - 1 < n
      BY <2>1, <2>3
    <3>2. Good(u[n - 1], n - 1)
      BY <1>12, <3>1
    <3>3. u[n] = IF n \in ids THEN Append(u[n - 1], n) ELSE u[n - 1]
      BY <1>9, <2>1, <2>3
    <3> DEFINE s == u[n - 1]
    <3>4. Good(s, n - 1) /\ u[n] = IF n \in ids THEN Append(s, n) ELSE s
      BY <3>2, <3>3
    <3> HIDE DEF s, S
    <3>5. Good(s, n) /\ (n \in ids => Good(Append(s, n), n))
      BY <1>11, <2>3, <3>4
    <3>6. QED
      BY <3>4, <3>5
  <2>4. QED
    BY <2>2, <2>3
<1>13. P = Nat
  <2>1. P \in SUBSET Nat
    OBVIOUS
  <2> HIDE DEF P
  <2>2. QED
    BY <1>12, <2>1, LeastNumber
<1>14. Good(u[N], N)
  <2>1. N \in S /\ N \in Nat
    OBVIOUS
  <2> HIDE DEF Good
  <2>2. QED
    BY <1>13, <2>1
<1>15. QED
  BY <1>5, <1>14 DEF u

-----------------------------------------------------------------------------
(***************************************************************************)
(* The rest of the type invariant of the senders.                          *)
(***************************************************************************)
Scalars ==
  /\ configured \in BOOLEAN /\ cancelled \in BOOLEAN /\ alive \in BOOLEAN
  /\ faultsLeft \in Nat /\ changesLeft \in Nat
  /\ allowed \subseteq Queue
  /\ unanswered \subseteq ID /\ unnoticed \subseteq ID /\ gaveUp \subseteq ID

\* With the invariant of the senders, that is their type invariant.
LEMMA SendersTyped ==
  ASSUME IInv, Scalars
  PROVE  SqsTypeOK
<1>1. ASSUME NEW p \in Sender
      PROVE  /\ at[p].todo \in Seq(Delivery)
             /\ at[p].for \in {"check", "send", "redrive"}
             /\ at[p].call \in {"GetQueueUrl", "GetQueueAttributes", "SendMessage"}
             /\ at[p].todo # <<>> => Target(p) \in Queue
             /\ at[p].call = "SendMessage" => at[p].for # "check"
  <2>1. at[p] \in Place
    BY DEF IInv, Typed
  <2>2. at[p].todo # <<>> => Target(p) \in Queue
    <3>1. SUFFICES ASSUME Todo(p) # <<>> PROVE Target(p) \in Queue
      BY DEF Todo
    <3>2. 1 \in Indexes(p) /\ Current(p) = Todo(p)[1]
      BY <3>1, CurrentFacts
    <3>3. IF at[p].for = "redrive" THEN Todo(p)[1].DeadLetterTargetArn \in Queue
          ELSE Todo(p)[1].Endpoint \in Queue
      BY <3>2 DEF IInv, Destined
    <3>4. QED
      BY <3>2, <3>3 DEF Target
  <2>3. at[p].call = "SendMessage" => at[p].for # "check"
    BY DEF IInv, Destined
  <2>4. QED
    BY <2>1, <2>2, <2>3 DEF Place
<1>2. /\ queues \in [Queue -> QueueState] /\ arrived \in [ID -> Nat] /\ dead \in [ID -> Nat]
      /\ taken \subseteq Delivery
  BY DEF IInv, Typed
<1>3. QED
  BY <1>1, <1>2 DEF SqsTypeOK, Scalars

\* A delivery that fails may have been given up.
LEMMA FailScalars ==
  ASSUME IInv, Scalars, NEW p \in Sender, Todo(p) # <<>>, Fail(p)
  PROVE  gaveUp' \subseteq ID
<1>1. Current(p).id \in ID
  BY CurrentFacts
<1>2. gaveUp' = gaveUp \/ gaveUp' = gaveUp \cup {Current(p).id}
  BY DEF Fail
<1>3. QED
  BY <1>1, <1>2 DEF Scalars

\* An answer uses up at most one failure, if there is one left.
LEMMA AnswerScalars ==
  ASSUME Scalars, NEW p, NEW a, Answer(p, a)
  PROVE  faultsLeft' \in Nat
  BY DEF Scalars, Answer

\* Every step of the senders keeps the types.
LEMMA ScalarsStep ==
  ASSUME IInv, Scalars, [SqsNext \/ \E p \in Sender : HandOver(p)]_sqs
  PROVE  Scalars'
<1>1. ASSUME NEW p \in Sender, GetQueueUrl(p) PROVE Scalars'
  <2>1. Todo(p) # <<>>
    BY <1>1 DEF GetQueueUrl, Calling, Todo
  <2>2. gaveUp' \subseteq ID /\ faultsLeft' \in Nat
    BY <1>1, <2>1, FailScalars, AnswerScalars DEF GetQueueUrl, Scalars
  <2>3. QED
    BY <1>1, <2>2 DEF GetQueueUrl, Scalars
<1>2. ASSUME NEW p \in Sender, GetQueueAttributes(p) PROVE Scalars'
  <2>1. Todo(p) # <<>>
    BY <1>2 DEF GetQueueAttributes, Calling, Todo
  <2>2. gaveUp' \subseteq ID /\ faultsLeft' \in Nat
    BY <1>2, <2>1, FailScalars, AnswerScalars DEF GetQueueAttributes, Scalars
  <2>3. QED
    BY <1>2, <2>2 DEF GetQueueAttributes, Scalars
<1>3. ASSUME NEW p \in Sender, SendMessage(p) PROVE Scalars'
  <2>1. Todo(p) # <<>>
    BY <1>3 DEF SendMessage, Calling, Todo
  <2>2. Current(p).id \in ID
    BY <2>1, CurrentFacts
  <2>3. gaveUp' \subseteq ID /\ faultsLeft' \in Nat
    BY <1>3, <2>1, FailScalars, AnswerScalars DEF SendMessage, AfterSend, Scalars
  <2>4. unanswered' \subseteq ID /\ unnoticed' \subseteq ID
    BY <1>3, <2>2 DEF SendMessage, Scalars
  <2>5. QED
    BY <1>3, <2>3, <2>4 DEF SendMessage, Scalars
<1>4. ASSUME NEW p \in Sender, NilClient(p) PROVE Scalars'
  <2>1. \A x \in Sender : at[x].todo \in Seq(Delivery)
    BY DEF IInv, Typed, Place
  <2>2. \A x \in Sender : Range(at[x].todo) \subseteq Delivery
    BY <2>1 DEF Range
  <2>3. gaveUp' \subseteq ID
    <3> DEFINE cut == IF p = "request" THEN {p} ELSE Sender
               ids == { d.id : d \in UNION { Range(at[x].todo) : x \in cut } }
    <3>1. cut \subseteq Sender
      OBVIOUS
    <3>2. gaveUp' = gaveUp \cup ids
      BY <1>4 DEF NilClient
    <3> HIDE DEF cut
    <3>3. ids \subseteq ID
      BY <2>2, <3>1 DEF Delivery
    <3> HIDE DEF ids
    <3>4. QED
      BY <3>2, <3>3 DEF Scalars
  <2>4. alive' \in BOOLEAN
    BY <1>4 DEF NilClient
  <2>5. QED
    BY <1>4, <2>3, <2>4 DEF NilClient, Scalars
<1>5. ASSUME NEW q \in Queue, ChangeQueue(q) PROVE Scalars'
  BY <1>5 DEF ChangeQueue, Scalars
<1>6. ASSUME Cancel PROVE Scalars'
  BY <1>6 DEF Cancel, Scalars
<1>7. ASSUME NEW p \in Sender, HandOver(p) PROVE Scalars'
  BY <1>7 DEF HandOver, Take, Scalars
<1>8. ASSUME UNCHANGED sqs PROVE Scalars'
  BY <1>8 DEF sqs, Scalars
<1>9. QED
  BY <1>1, <1>2, <1>3, <1>4, <1>5, <1>6, <1>7, <1>8 DEF SqsNext, Step

-----------------------------------------------------------------------------
(***************************************************************************)
(* The dispatch.                                                           *)
(***************************************************************************)
InstanceOK ==
  /\ case \in Cases
  /\ filters \in [DOMAIN case.subs -> JSON \cup {Blank}]
  /\ \A i \in DOMAIN case.subs : Validate(filters[i])

Bookkeeping ==
  /\ phase \in {"before", "dispatched", "failed", "unlisted"}
  /\ jobs \subseteq selected /\ selected \subseteq DOMAIN case.subs
  /\ { d.id : d \in taken } \subseteq selected \ jobs
  /\ phase # "dispatched" => taken = {} /\ selected = {}

DispatchInv == IInv /\ Scalars /\ InstanceOK /\ Bookkeeping /\ FilterRespected

\* The invariant is stronger than the type invariant.
LEMMA DispatchTyped ==
  ASSUME DispatchInv
  PROVE  TypeOK
<1>1. SqsTypeOK
  BY SendersTyped DEF DispatchInv
<1>2. QED
  BY <1>1 DEF DispatchInv, InstanceOK, Bookkeeping, TypeOK

\* What the instance says of a subscription.
LEMMA SubscriptionFacts ==
  ASSUME case \in Cases
  PROVE  /\ case.subs \in Seq(SubscriptionRecord) /\ Len(case.subs) \in Nat
         /\ DOMAIN case.subs = 1..Len(case.subs) /\ DOMAIN case.subs \subseteq ID
         /\ \A i \in DOMAIN case.subs :
              /\ case.subs[i] \in SubscriptionRecord
              /\ case.subs[i].Protocol = "sqs" => case.subs[i].Endpoint \in Queue
              /\ DeliveryOf(i) \in Delivery /\ DeliveryOf(i).id = i
<1>1. /\ case.subs \in Seq(SubscriptionRecord) /\ DOMAIN case.subs \subseteq ID
      /\ \A i \in DOMAIN case.subs : case.subs[i].Protocol = "sqs" => case.subs[i].Endpoint \in Queue
  BY CasesAssumption
<1>2. Len(case.subs) \in Nat /\ DOMAIN case.subs = 1..Len(case.subs)
        /\ \A i \in DOMAIN case.subs : case.subs[i] \in SubscriptionRecord
  BY <1>1
<1>3. ASSUME NEW i \in DOMAIN case.subs PROVE DeliveryOf(i) \in Delivery /\ DeliveryOf(i).id = i
  <2>1. case.subs[i] \in SubscriptionRecord /\ i \in ID
    BY <1>1, <1>2
  <2>2. /\ case.subs[i].Endpoint \in Queue \cup {NoQueue}
        /\ case.subs[i].DeadLetterTargetArn \in Queue \cup {NoQueue}
    BY <2>1 DEF SubscriptionRecord
  <2>3. QED
    BY <2>1, <2>2 DEF DeliveryOf, Delivery
<1>4. QED
  BY <1>1, <1>2, <1>3


\* A policy is evaluated on one object, or there is none.
LEMMA RootFacts ==
  ASSUME case \in Cases, NEW scope
  PROVE  LET roots == Roots(scope, case.body, case.attrs) IN
         roots = {} \/ \E root \in JSONObject : roots = {root}
<1>1. case.body \in JSON \cup {Blank} /\ attributeRoot(case.attrs) \in JSONObject
  BY CasesAssumption
<1>2. CASE scope # "MessageBody"
  BY <1>1, <1>2 DEF Roots
<1>3. CASE scope = "MessageBody" /\ ~Is("obj", case.body)
  BY <1>3 DEF Roots
<1>4. CASE scope = "MessageBody" /\ Is("obj", case.body)
  <2>1. case.body # Blank
    BY <1>4 DEF Is, Blank
  <2>2. case.body.obj \in JSONObject
    BY <1>1, <1>4, <2>1, JSONFacts
  <2>3. Roots(scope, case.body, case.attrs) = {case.body.obj}
    BY <1>4 DEF Roots
  <2>4. QED
    BY <2>2, <2>3
<1>5. QED
  BY <1>2, <1>3, <1>4

\* Matches finds the subscriptions whose policy wants the message.
LEMMA MatchesRight ==
  ASSUME InstanceOK, NEW i \in DOMAIN case.subs
  PROVE  Right(Matches(filters[i], case.subs[i].FilterPolicyScope, case.body, case.attrs), Wanted(i),
               ConditionsOf(filters[i]))
<1> DEFINE policy == filters[i]
           scope == case.subs[i].FilterPolicyScope
           roots == Roots(scope, case.body, case.attrs)
           M == Matches(policy, scope, case.body, case.attrs)
<1>1. policy \in JSON \cup {Blank} /\ Validate(policy)
  BY DEF InstanceOK
<1>2. roots = {} \/ \E root \in JSONObject : roots = {root}
  BY RootFacts DEF InstanceOK
<1>3. Wanted(i) <=> Is("blank", policy)
                      \/ \E root \in roots : Is("obj", policy) => Accepts[policy.obj][root]
  BY DEF Wanted
<1>4. Wanted(i) \in BOOLEAN
  BY DEF Wanted
<1>5. Is("obj", policy) =>
        /\ policy.obj \in JSONObject /\ validateObject[policy.obj]
        /\ ~Is("blank", policy) /\ ~Is("null", policy)
  <2>1. SUFFICES ASSUME Is("obj", policy)
                 PROVE  /\ policy.obj \in JSONObject /\ validateObject[policy.obj]
                        /\ ~Is("blank", policy) /\ ~Is("null", policy)
    OBVIOUS
  <2>2. policy # Blank /\ ~Is("blank", policy) /\ ~Is("null", policy)
    BY <2>1 DEF Is, Blank
  <2>3. QED
    BY <1>1, <2>1, <2>2, JSONFacts DEF Validate
<1>6. M = CASE Is("blank", policy) -> {"match"}
            [] ~Is("blank", policy) /\ roots = {} -> {"nomatch"}
            [] OTHER -> UNION { IF Is("null", policy) THEN {"match"} ELSE evalObject[policy.obj][root] :
                                  root \in roots }
  BY DEF Matches
<1> HIDE DEF policy, scope, roots, M
<1> DEFINE conds == ConditionsOf(policy)
<1>7. ASSUME Is("blank", policy) PROVE Right(M, Wanted(i), conds)
  <2>1. M = {"match"} /\ Wanted(i)
    BY <1>3, <1>6, <1>7
  <2>2. QED
    BY <1>4, <2>1 DEF Right, Verdict, Outcomes
<1>8. ASSUME ~Is("blank", policy), roots = {} PROVE Right(M, Wanted(i), conds)
  <2>1. M = {"nomatch"} /\ ~Wanted(i)
    BY <1>3, <1>6, <1>8
  <2>2. QED
    BY <1>4, <2>1 DEF Right, Verdict, Outcomes
<1>9. ASSUME ~Is("blank", policy), NEW root \in JSONObject, roots = {root}
      PROVE  Right(M, Wanted(i), conds)
  <2>1. M = IF Is("null", policy) THEN {"match"} ELSE evalObject[policy.obj][root]
    <3>1. M = UNION { IF Is("null", policy) THEN {"match"} ELSE evalObject[policy.obj][r] :
                        r \in {root} }
      BY <1>6, <1>9
    <3>2. QED
      BY <3>1
  <2>2. Wanted(i) <=> (Is("obj", policy) => Accepts[policy.obj][root])
    BY <1>3, <1>9
  <2>3. CASE Is("obj", policy)
    <3>1. Right(evalObject[policy.obj][root], Accepts[policy.obj][root], Conditions[policy.obj])
      BY <1>5, <2>3, PolicyRight
    <3>2. M = evalObject[policy.obj][root]
      BY <1>5, <2>1, <2>3
    <3>3. Wanted(i) <=> Accepts[policy.obj][root]
      BY <2>2, <2>3
    <3>4. QED
      BY <1>4, <2>3, <3>1, <3>2, <3>3 DEF Right, ConditionsOf
  <2>4. CASE ~Is("obj", policy)
    <3>1. Is("null", policy)
      BY <1>1, <1>9, <2>4 DEF Validate
    <3>2. M = {"match"} /\ Wanted(i)
      BY <2>1, <2>2, <2>4, <3>1
    <3>3. QED
      BY <1>4, <3>2 DEF Right, Verdict, Outcomes
  <2>5. QED
    BY <2>3, <2>4
<1>10. Right(M, Wanted(i), conds)
  BY <1>2, <1>7, <1>8, <1>9
<1>11. QED
  BY <1>10 DEF M, policy, scope

\* Publish hands the selected deliveries to its request.
LEMMA PublishHandsOver ==
  ASSUME DispatchInv, Publish
  PROVE  /\ HandOver("request")
         /\ { d.id : d \in taken' } \subseteq selected' \ jobs'
         /\ jobs' \subseteq selected' /\ selected' \subseteq DOMAIN case.subs
<1> DEFINE ids == selected' \ jobs'
           direct == InOrder(ids)
           list == [n \in DOMAIN direct |-> DeliveryOf(direct[n])]
<1>1. case \in Cases /\ taken = {}
  BY DEF DispatchInv, InstanceOK, Bookkeeping, Publish
<1>2. Take("request", list, "check")
  BY DEF Publish
<1>3. /\ selected' \subseteq DOMAIN case.subs
      /\ jobs' = { i \in selected' : case.subs[i].Protocol = "http" }
  BY DEF Publish
<1>4. \A i \in ids : i \in DOMAIN case.subs /\ case.subs[i].Endpoint \in Queue
  <2>1. ASSUME NEW i \in ids PROVE i \in DOMAIN case.subs /\ case.subs[i].Endpoint \in Queue
    <3>1. i \in DOMAIN case.subs /\ case.subs[i].Protocol # "http"
      BY <1>3
    <3>2. case.subs[i].Protocol \in {"sqs", "http"}
      BY <1>1, <3>1, SubscriptionFacts DEF SubscriptionRecord
    <3>3. QED
      BY <1>1, <3>1, <3>2, SubscriptionFacts
  <2>2. QED
    BY <2>1
<1>5. /\ direct \in Seq(Nat)
      /\ \A n \in 1..Len(direct) : direct[n] \in ids
      /\ \A m, n \in 1..Len(direct) : direct[m] = direct[n] => m = n
  BY <1>1, SubscriptionFacts, InOrderFacts
<1> HIDE DEF direct
<1>6. DOMAIN direct = 1..Len(direct) /\ Len(direct) \in Nat
  BY <1>5
<1> HIDE DEF ids
<1>7. \A n \in 1..Len(direct) :
        list[n] = DeliveryOf(direct[n]) /\ list[n] \in Delivery /\ list[n].id = direct[n]
  BY <1>1, <1>4, <1>5, <1>6, SubscriptionFacts
<1>8. list \in Seq(Delivery) /\ Len(list) = Len(direct)
  <2>1. list \in [1..Len(direct) -> Delivery]
    BY <1>6, <1>7
  <2> HIDE DEF list
  <2>2. QED
    BY <1>6, <2>1
<1>9. \A n \in 1..Len(list) : list[n].Endpoint \in Queue
  <2>1. ASSUME NEW n \in 1..Len(direct) PROVE list[n].Endpoint \in Queue
    BY <1>4, <1>5, <1>7 DEF DeliveryOf
  <2>2. QED
    BY <1>8, <2>1
<1>10. DOMAIN list = 1..Len(direct)
  BY <1>6
<1> HIDE DEF list
<1>11. \A m, n \in 1..Len(list) : list[m].id = list[n].id => m = n
  BY <1>5, <1>7, <1>8
<1>12. HandOver("request")
  BY <1>1, <1>2, <1>8, <1>9, <1>11 DEF HandOver
<1>13. taken' = Range(list)
  BY <1>1, <1>2 DEF Take
<1>14. { d.id : d \in taken' } \subseteq ids
  BY <1>5, <1>7, <1>10, <1>13 DEF Range
<1>15. QED
  BY <1>3, <1>12, <1>14 DEF ids

\* EndJob hands over the job it ends, or nothing.
LEMMA EndJobHandsOver ==
  ASSUME DispatchInv, NEW i \in DOMAIN case.subs, EndJob(i)
  PROVE  /\ HandOver("worker") \/ UNCHANGED sqs
         /\ { d.id : d \in taken' } \subseteq selected' \ jobs'
         /\ jobs' \subseteq selected' /\ selected' \subseteq DOMAIN case.subs
         /\ phase = "dispatched"
<1>1. i \in jobs /\ jobs' = jobs \ {i} /\ selected' = selected
  BY DEF EndJob
<1>2. /\ jobs \subseteq selected /\ selected \subseteq DOMAIN case.subs
      /\ \A d \in taken : d.id \in selected \ jobs
      /\ phase # "dispatched" => selected = {}
  BY DEF DispatchInv, Bookkeeping
<1>3. phase = "dispatched"
  BY <1>1, <1>2
<1>4. CASE UNCHANGED sqs
  <2>1. taken' = taken
    BY <1>4 DEF sqs
  <2>2. QED
    BY <1>1, <1>2, <1>3, <1>4, <2>1
<1>5. CASE case.subs[i].DeadLetterTargetArn # NoQueue /\ Take("worker", <<DeliveryOf(i)>>, "redrive")
  <2> DEFINE d == DeliveryOf(i)
             list == <<d>>
  <2>1. case \in Cases
    BY DEF DispatchInv, InstanceOK
  <2>2. d \in Delivery /\ d.id = i /\ case.subs[i] \in SubscriptionRecord
    BY <2>1, SubscriptionFacts
  <2>3. d.DeadLetterTargetArn \in Queue
    BY <1>5, <2>2 DEF DeliveryOf, SubscriptionRecord
  <2> HIDE DEF d
  <2>4. list \in Seq(Delivery) /\ Len(list) = 1 /\ list[1] = d /\ Range(list) = {d}
    BY <2>2 DEF Range
  <2>5. Take("worker", list, "redrive")
    BY <1>5 DEF d
  <2> HIDE DEF list
  <2>6. \A e \in taken : d.id # e.id
    BY <1>1, <1>2, <2>2
  <2>7. \A n \in 1..Len(list) : n = 1 /\ list[n] = d
    BY <2>4
  <2>8. HandOver("worker")
    BY <2>3, <2>4, <2>5, <2>6, <2>7 DEF HandOver
  <2>9. taken' = taken \cup {d}
    BY <2>4, <2>5 DEF Take
  <2>10. QED
    BY <1>1, <1>2, <1>3, <2>2, <2>8, <2>9
<1>6. QED
  BY <1>4, <1>5 DEF EndJob


\* Every step of the whole is one of the senders, hands deliveries over, or
\* leaves the senders alone.
LEMMA Composes ==
  ASSUME DispatchInv, [Next]_vars
  PROVE  [SqsNext \/ \E p \in Sender : HandOver(p)]_sqs
<1>1. ASSUME NEW i \in DOMAIN case.subs, SetFilterPolicy(i) PROVE UNCHANGED sqs
  BY <1>1 DEF SetFilterPolicy
<1>2. ASSUME NEW i \in DOMAIN case.subs, EndJob(i) PROVE HandOver("worker") \/ UNCHANGED sqs
  BY <1>2, EndJobHandsOver
<1>3. ASSUME Publish PROVE HandOver("request")
  BY <1>3, PublishHandsOver
<1>4. ASSUME FailPublish PROVE UNCHANGED sqs
  BY <1>4 DEF FailPublish
<1>5. ASSUME UNCHANGED vars PROVE UNCHANGED sqs
  BY <1>5 DEF vars
<1>6. "request" \in Sender /\ "worker" \in Sender
  BY DEF Sender
<1>7. QED
  BY <1>1, <1>2, <1>3, <1>4, <1>5, <1>6 DEF Next

\* The dispatch selects whom the policies want.
LEMMA PublishRespects ==
  ASSUME InstanceOK, Publish
  PROVE  FilterRespected'
<1>1. PICK outcome \in [DOMAIN case.subs -> {"match", "nomatch", "error"}] :
        /\ \A i \in DOMAIN case.subs :
             outcome[i] \in Matches(filters[i], case.subs[i].FilterPolicyScope, case.body, case.attrs)
        /\ selected' = { i \in DOMAIN case.subs : case.subs[i].Confirmed /\ GoesTo(outcome[i]) }
  BY DEF Publish
<1>2. case' = case /\ filters' = filters
  BY DEF Publish
<1>3. ASSUME NEW i \in DOMAIN case.subs
      PROVE  /\ i \in selected' /\ (\A c \in ConditionsOf(filters[i]) : KeepsErrors(c)) => Wanted(i)
             /\ /\ Wanted(i) /\ case.subs[i].Confirmed
                /\ \A c \in ConditionsOf(filters[i]) : Readable(c)
                => i \in selected'
  <2> DEFINE M == Matches(filters[i], case.subs[i].FilterPolicyScope, case.body, case.attrs)
             conds == ConditionsOf(filters[i])
             kept == \A c \in conds : KeepsErrors(c)
             readable == \A c \in conds : Readable(c)
  <2>1. Right(M, Wanted(i), conds)
    BY MatchesRight
  <2>2. outcome[i] \in M
    BY <1>1
  <2>3. i \in selected' <=> case.subs[i].Confirmed /\ outcome[i] = "match"
    BY <1>1 DEF GoesTo
  <2> HIDE DEF M, conds
  <2>4. kept => ("match" \in M => Wanted(i))
    BY <2>1 DEF Right
  <2>5. Wanted(i) /\ readable => M = {"match"}
    BY <2>1 DEF Right, Verdict
  <2> HIDE DEF kept, readable
  <2>6. i \in selected' /\ kept => Wanted(i)
    BY <2>2, <2>3, <2>4
  <2>7. Wanted(i) /\ case.subs[i].Confirmed /\ readable => i \in selected'
    BY <2>2, <2>3, <2>5
  <2>8. QED
    BY <2>6, <2>7 DEF kept, readable, conds
<1>4. \A i : Wanted(i)' <=> Wanted(i)
  BY <1>2 DEF Wanted
<1>5. QED
  BY <1>2, <1>3, <1>4 DEF FilterRespected

\* What is left alone stays respected.
LEMMA StillRespected ==
  ASSUME FilterRespected, UNCHANGED <<case, filters, phase, selected>>
  PROVE  FilterRespected'
<1>1. \A i : Wanted(i)' <=> Wanted(i)
  BY DEF Wanted
<1>2. QED
  BY <1>1 DEF FilterRespected

\* Every step keeps the invariant.
LEMMA DispatchStep ==
  ASSUME DispatchInv, [Next]_vars
  PROVE  DispatchInv'
<1>1. [SqsNext \/ \E p \in Sender : HandOver(p)]_sqs
  BY Composes
<1>2. IInv'
  BY <1>1, NextHolds DEF DispatchInv
<1>3. Scalars'
  BY <1>1, ScalarsStep DEF DispatchInv
<1>4. ASSUME NEW i \in DOMAIN case.subs, SetFilterPolicy(i)
      PROVE  InstanceOK' /\ Bookkeeping' /\ FilterRespected'
  <2>1. /\ UNCHANGED <<sqs, case, phase, jobs, selected>> /\ phase = "before"
        /\ filters' = [filters EXCEPT ![i] = case.raw[i]] /\ Validate(case.raw[i])
    BY <1>4 DEF SetFilterPolicy
  <2>2. taken' = taken
    BY <2>1 DEF sqs
  <2>3. case.raw[i] \in JSON \cup {Blank}
    <3>1. case \in Cases
      BY DEF DispatchInv, InstanceOK
    <3>2. case.raw \in [DOMAIN case.subs -> JSON \cup {Blank}]
      BY <3>1, CasesAssumption
    <3>3. QED
      BY <3>2
  <2>4. /\ case \in Cases /\ filters \in [DOMAIN case.subs -> JSON \cup {Blank}]
        /\ \A n \in DOMAIN case.subs : Validate(filters[n])
    BY DEF DispatchInv, InstanceOK
  <2>5. /\ filters' \in [DOMAIN case.subs -> JSON \cup {Blank}]
        /\ \A n \in DOMAIN case.subs : filters'[n] = IF n = i THEN case.raw[i] ELSE filters[n]
    BY <2>1, <2>3, <2>4
  <2>6. \A n \in DOMAIN case.subs : Validate(filters'[n])
    <3>1. ASSUME NEW n \in DOMAIN case.subs PROVE Validate(filters'[n])
      <4>1. CASE n = i
        <5>1. filters'[n] = case.raw[i]
          BY <2>5, <4>1
        <5>2. QED
          BY <2>1, <5>1
      <4>2. CASE n # i
        <5>1. filters'[n] = filters[n]
          BY <2>5, <4>2
        <5>2. QED
          BY <2>4, <5>1
      <4>3. QED
        BY <4>1, <4>2
    <3>2. QED
      BY <3>1
  <2>7. InstanceOK'
    BY <2>1, <2>4, <2>5, <2>6 DEF InstanceOK
  <2>8. Bookkeeping'
    BY <2>1, <2>2 DEF DispatchInv, Bookkeeping
  <2>9. FilterRespected'
    BY <2>1 DEF FilterRespected
  <2>10. QED
    BY <2>7, <2>8, <2>9
<1>5. ASSUME NEW i \in DOMAIN case.subs, EndJob(i)
      PROVE  InstanceOK' /\ Bookkeeping' /\ FilterRespected'
  <2>1. UNCHANGED <<case, filters, phase, selected>>
    BY <1>5 DEF EndJob
  <2>2. /\ { d.id : d \in taken' } \subseteq selected' \ jobs'
        /\ jobs' \subseteq selected' /\ selected' \subseteq DOMAIN case.subs
        /\ phase = "dispatched"
    BY <1>5, EndJobHandsOver
  <2>3. InstanceOK'
    BY <2>1 DEF DispatchInv, InstanceOK
  <2>4. Bookkeeping'
    BY <2>1, <2>2 DEF Bookkeeping
  <2>5. QED
    BY <2>1, <2>3, <2>4, StillRespected DEF DispatchInv
<1>6. ASSUME Publish PROVE InstanceOK' /\ Bookkeeping' /\ FilterRespected'
  <2>1. UNCHANGED <<case, filters>> /\ phase' = "dispatched"
    BY <1>6 DEF Publish
  <2>2. /\ { d.id : d \in taken' } \subseteq selected' \ jobs'
        /\ jobs' \subseteq selected' /\ selected' \subseteq DOMAIN case.subs
    BY <1>6, PublishHandsOver
  <2>3. InstanceOK'
    BY <2>1 DEF DispatchInv, InstanceOK
  <2>4. Bookkeeping'
    BY <2>1, <2>2 DEF Bookkeeping
  <2>5. QED
    BY <1>6, <2>3, <2>4, PublishRespects DEF DispatchInv
<1>12. ASSUME FailPublish PROVE InstanceOK' /\ Bookkeeping' /\ FilterRespected'
  <2>1. /\ UNCHANGED <<sqs, case, filters, jobs, selected>> /\ phase = "before"
        /\ phase' \in {"failed", "unlisted"}
    BY <1>12 DEF FailPublish
  <2>2. taken' = taken
    BY <2>1 DEF sqs
  <2>3. InstanceOK'
    BY <2>1 DEF DispatchInv, InstanceOK
  <2>4. Bookkeeping'
    BY <2>1, <2>2 DEF DispatchInv, Bookkeeping
  <2>5. FilterRespected'
    BY <2>1 DEF FilterRespected
  <2>6. QED
    BY <2>3, <2>4, <2>5
<1>7. ASSUME UNCHANGED <<case, filters, phase, jobs, selected>>, UNCHANGED taken
      PROVE  InstanceOK' /\ Bookkeeping' /\ FilterRespected'
  <2>1. InstanceOK' /\ Bookkeeping'
    BY <1>7 DEF DispatchInv, InstanceOK, Bookkeeping
  <2>2. FilterRespected'
    BY <1>7, StillRespected DEF DispatchInv
  <2>3. QED
    BY <2>1, <2>2
<1>8. ASSUME SqsNext PROVE UNCHANGED taken
  BY <1>8 DEF SqsNext, Step, GetQueueUrl, GetQueueAttributes, SendMessage, NilClient,
              ChangeQueue, Cancel
<1>9. ASSUME UNCHANGED vars PROVE UNCHANGED <<case, filters, phase, jobs, selected>> /\ UNCHANGED taken
  BY <1>9 DEF vars, sqs
<1>10. InstanceOK' /\ Bookkeeping' /\ FilterRespected'
  BY <1>4, <1>5, <1>6, <1>7, <1>8, <1>9, <1>12 DEF Next
<1>11. QED
  BY <1>2, <1>3, <1>10 DEF DispatchInv

\* Nothing is selected, taken or filtered at first.
LEMMA DispatchInit ==
  ASSUME Init
  PROVE  DispatchInv /\ queues \in [Queue -> QueueState]
<1>1. /\ case \in Cases /\ configured = case.configured /\ queues = case.queues
      /\ faultsLeft = case.faults /\ changesLeft = case.changes /\ SqsInit
      /\ filters = [i \in DOMAIN case.subs |-> Blank]
      /\ phase = "before" /\ jobs = {} /\ selected = {}
  BY DEF Init
<1>2. /\ queues \in [Queue -> QueueState] /\ configured \in BOOLEAN
      /\ faultsLeft \in Nat /\ changesLeft \in Nat
  BY <1>1, CasesAssumption
<1>3. IInv
  BY <1>1, <1>2, InitHolds
<1>4. Scalars
  BY <1>1, <1>2 DEF SqsInit, Scalars
<1>5. InstanceOK
  <2>1. Validate(Blank)
    BY DEF Validate, Is, Blank
  <2>2. QED
    BY <1>1, <2>1 DEF InstanceOK
<1>6. Bookkeeping
  BY <1>1 DEF Bookkeeping, SqsInit
<1>7. FilterRespected
  BY <1>1 DEF FilterRespected
<1>8. QED
  BY <1>2, <1>3, <1>4, <1>5, <1>6, <1>7 DEF DispatchInv

\* The invariant of the dispatch.
LEMMA DispatchInvariant == Spec => []DispatchInv
<1>1. Init => DispatchInv
  BY DispatchInit
<1>2. DispatchInv /\ [Next]_vars => DispatchInv'
  BY DispatchStep
<1>3. QED
  BY <1>1, <1>2, PTL DEF Spec

\* dispatchPublish over filter.Matches, for every policy that Validate accepts,
\* every message and whatever order Go walks the maps in: a dispatch whose
\* listing succeeds selects no subscription whose policy, read independently
\* of the evaluation, rejects the message, unless "anything-but" drops the
\* error of a malformed CIDR, and every confirmed one whose policy accepts it,
\* unless an operand cannot be read.
THEOREM PoliciesRespected == Spec => []FilterRespected
<1>1. DispatchInv => FilterRespected
  BY DEF DispatchInv
<1>2. QED
  BY <1>1, DispatchInvariant, PTL

\* The senders, the jobs and the stored policies keep their types.
THEOREM DispatchTypeCorrect == Spec => []TypeOK
<1>1. DispatchInv => TypeOK
  BY DispatchTyped
<1>2. QED
  BY <1>1, DispatchInvariant, PTL

\* The Publish request and the worker use the senders as SqsSpec says.
THEOREM DispatchImplements == Spec => SqsSpec
<1>1. Init => queues \in [Queue -> QueueState] /\ SqsInit
  BY DispatchInit DEF Init
<1>2. DispatchInv /\ [Next]_vars => [SqsNext \/ \E p \in Sender : HandOver(p)]_sqs
  BY Composes
<1>3. QED
  BY <1>1, <1>2, DispatchInvariant, PTL DEF Spec, SqsSpec

\* So what SqsSpec promises holds of the dispatch: messages are where the topic
\* was allowed, are not lost, and are not sent twice.
THEOREM DispatchDelivers == Spec => [](AllowedOnly /\ NothingLost /\ ArrivesOnce)
  BY DispatchImplements, SentWhereAllowed, MessagesNotLost, ArrivesAtMostOnce, PTL
=============================================================================
