---- MODULE NotificationQueueProofs ----
(***************************************************************************)
(* Proofs about NotificationQueue for every capacity, every set of limits *)
(* and every bound.  The queue's content is always an interval of the     *)
(* numbers itertools.count hands out; once that is established a popleft  *)
(* moves the interval's lower end, an append its upper end, and the       *)
(* history sets stay below it.                                             *)
(***************************************************************************)
EXTENDS NotificationQueue, FiniteSetTheorems, TLAPS

\* The messages numbered lo to hi of the current process.
Numbered(lo, hi) == {[epoch |-> epoch, id |-> i] : i \in lo..hi}

Gone == taken \cup displaced \cup discarded

\* Everything that has left the queue is older than everything in it.
LeftFromFront ==
  \A m \in Gone :
    \/ m.epoch < epoch
    \/ m.epoch = epoch /\ m.id < nextId - Len(items)

IInv == TypeOK /\ BoundedRun /\ LeftFromFront /\ Accounted

----
(* What First and Skip do to a sequence. *)

LEMMA SkipFacts ==
  ASSUME NEW S, NEW q \in Seq(S), NEW n \in 0..Len(q)
  PROVE  /\ Skip(q, n) \in Seq(S)
         /\ Len(Skip(q, n)) = Len(q) - n
         /\ \A i \in 1..(Len(q) - n) : Skip(q, n)[i] = q[n + i]
BY DEF Skip

LEMMA FirstFacts ==
  ASSUME NEW S, NEW q \in Seq(S), NEW n \in 0..Len(q)
  PROVE  /\ First(q, n) \in Seq(S)
         /\ Len(First(q, n)) = n
         /\ \A i \in 1..n : First(q, n)[i] = q[i]
BY DEF First

\* A sequence that counts up from lo holds an interval.
LEMMA RunElements ==
  ASSUME NEW q \in Seq(Message), NEW lo \in Int,
         \A i \in 1..Len(q) : q[i] = [epoch |-> epoch, id |-> lo + i - 1]
  PROVE  Elements(q) = Numbered(lo, lo + Len(q) - 1)
<1>1. Len(q) \in Nat
  OBVIOUS
<1>2. ASSUME NEW i \in 1..Len(q)
      PROVE  q[i] \in Numbered(lo, lo + Len(q) - 1)
  <2>1. lo + i - 1 \in lo..(lo + Len(q) - 1)
    BY <1>1
  <2>2. QED
    BY <2>1 DEF Numbered
<1>3. ASSUME NEW k \in lo..(lo + Len(q) - 1)
      PROVE  [epoch |-> epoch, id |-> k] \in Elements(q)
  <2>1. k - lo + 1 \in 1..Len(q) /\ lo + (k - lo + 1) - 1 = k
    BY <1>1
  <2>2. q[k - lo + 1] = [epoch |-> epoch, id |-> k]
    BY <2>1
  <2>3. QED
    BY <2>1, <2>2 DEF Elements
<1>4. QED
  BY <1>2, <1>3 DEF Elements, Numbered

\* A queue that is an unbroken run holds exactly the numbers of that run; its
\* first n entries and the rest are the two halves of the interval.
LEMMA RunSplits ==
  ASSUME TypeOK, BoundedRun, NEW n \in 0..Len(items)
  PROVE  LET lo == nextId - Len(items)
         IN  /\ Elements(items) = Numbered(lo, nextId - 1)
             /\ Elements(First(items, n)) = Numbered(lo, lo + n - 1)
             /\ Elements(Skip(items, n)) = Numbered(lo + n, nextId - 1)
<1> DEFINE lo == nextId - Len(items)
<1>0. items \in Seq(Message) /\ Len(items) \in Nat /\ nextId \in Nat /\ lo \in Int
  BY DEF TypeOK
<1>1. \A i \in 1..Len(items) : items[i] = [epoch |-> epoch, id |-> lo + i - 1]
  BY <1>0 DEF BoundedRun
<1>2. lo + Len(items) = nextId
  BY <1>0
<1> HIDE DEF lo
<1>3. Elements(items) = Numbered(lo, nextId - 1)
  BY <1>0, <1>1, <1>2, RunElements
<1>4. Elements(First(items, n)) = Numbered(lo, lo + n - 1)
  <2>1. /\ First(items, n) \in Seq(Message)
        /\ Len(First(items, n)) = n
        /\ \A i \in 1..n : First(items, n)[i] = items[i]
    BY <1>0, FirstFacts
  <2>2. ASSUME NEW i \in 1..Len(First(items, n))
        PROVE  First(items, n)[i] = [epoch |-> epoch, id |-> lo + i - 1]
    <3>1. i \in 1..n /\ i \in 1..Len(items)
      BY <1>0, <2>1
    <3>2. QED
      BY <1>1, <2>1, <3>1
  <2>3. QED
    BY <1>0, <2>1, <2>2, RunElements
<1>5. Elements(Skip(items, n)) = Numbered(lo + n, nextId - 1)
  <2>1. /\ Skip(items, n) \in Seq(Message)
        /\ Len(Skip(items, n)) = Len(items) - n
        /\ \A i \in 1..(Len(items) - n) : Skip(items, n)[i] = items[n + i]
    BY <1>0, SkipFacts
  <2>2. ASSUME NEW i \in 1..Len(Skip(items, n))
        PROVE  Skip(items, n)[i] = [epoch |-> epoch, id |-> (lo + n) + i - 1]
    <3>1. i \in 1..(Len(items) - n) /\ n + i \in 1..Len(items)
      BY <1>0, <2>1
    <3>2. items[n + i] = [epoch |-> epoch, id |-> lo + (n + i) - 1]
      BY <1>1, <3>1
    <3>3. QED
      BY <1>0, <2>1, <3>1, <3>2
  <2>3. /\ lo + n \in Int
        /\ (lo + n) + Len(Skip(items, n)) - 1 = nextId - 1
    BY <1>0, <1>2, <2>1
  <2>4. Elements(Skip(items, n))
          = Numbered(lo + n, (lo + n) + Len(Skip(items, n)) - 1)
    BY <2>1, <2>2, <2>3, RunElements
  <2>5. QED
    BY <2>3, <2>4
<1>6. QED
  BY <1>3, <1>4, <1>5 DEF lo

----
(* One lemma per handler: the queue before and after, as intervals. *)

\* An add pops at most one message, and only from a full queue.
LEMMA OverflowIsOne ==
  ASSUME TypeOK, BoundedRun
  PROVE  /\ Overflow(items) \in {0, 1}
         /\ Overflow(items) \in 0..Len(items)
         /\ Overflow(items) = 1 <=> Len(items) = Capacity
BY CapacityAssumption DEF TypeOK, BoundedRun, Overflow

LEMMA TakeCountInRange ==
  ASSUME TypeOK, NEW limit \in Int
  PROVE  TakeCount(items, limit) \in 0..Len(items)
<1>1. Len(items) \in Nat /\ limit \in Int
  BY DEF TypeOK
<1>2. CASE limit = 0
  BY <1>1, <1>2 DEF TakeCount
<1>3. CASE limit < 0
  BY <1>1, <1>3 DEF TakeCount
<1>4. CASE ~(limit = 0) /\ ~(limit < 0)
  BY <1>1, <1>4 DEF TakeCount
<1>5. QED
  BY <1>2, <1>3, <1>4

\* What an add leaves in the queue, seen from its new lower end.
LEMMA AddKeepsRun ==
  ASSUME TypeOK, BoundedRun, Add
  PROVE  /\ items' \in Seq(Message)
         /\ nextId' \in 1..(MaxId + 1)
         /\ NewMessage \in Message
         /\ nextId' - Len(items') = (nextId - Len(items)) + Overflow(items)
         /\ BoundedRun'
<1> DEFINE n == Overflow(items)
           kept == Skip(items, n)
<1>0. items \in Seq(Message) /\ Len(items) \in Nat /\ nextId \in Nat
  BY DEF TypeOK
<1>1. n \in {0, 1} /\ n \in 0..Len(items) /\ (n = 1 <=> Len(items) = Capacity)
  BY OverflowIsOne
<1>2. NewMessage \in Message
  BY BoundsAssumption DEF TypeOK, Add, NewMessage, Message
<1>3. /\ kept \in Seq(Message)
      /\ Len(kept) = Len(items) - n
      /\ \A i \in 1..(Len(items) - n) : kept[i] = items[n + i]
  BY <1>0, <1>1, SkipFacts
<1> HIDE DEF n
<1>4. items' = Append(kept, NewMessage) /\ nextId' = nextId + 1 /\ epoch' = epoch
  BY DEF Add, Enqueue, n
<1> HIDE DEF kept
<1>5. /\ items' \in Seq(Message)
      /\ Len(items') = Len(items) - n + 1
      /\ \A i \in 1..(Len(items) - n) : items'[i] = kept[i]
      /\ items'[Len(items) - n + 1] = NewMessage
  BY <1>0, <1>1, <1>2, <1>3, <1>4
<1>6. nextId' \in 1..(MaxId + 1)
  BY <1>4, BoundsAssumption DEF TypeOK, Add
<1>7. nextId' - Len(items') = (nextId - Len(items)) + n
  BY <1>0, <1>1, <1>4, <1>5
<1>8. BoundedRun'
  <2>1. Len(items') <= Capacity
    BY <1>0, <1>1, <1>5, CapacityAssumption DEF BoundedRun
  <2>2. Len(items') < nextId'
    BY <1>0, <1>1, <1>4, <1>5 DEF BoundedRun
  <2>3. ASSUME NEW i \in 1..Len(items')
        PROVE  items'[i] = [epoch |-> epoch', id |-> nextId' - Len(items') + i - 1]
    <3>1. CASE i = Len(items) - n + 1
      BY <1>0, <1>1, <1>4, <1>5, <3>1 DEF NewMessage
    <3>2. CASE i # Len(items) - n + 1
      <4>1. i \in 1..(Len(items) - n) /\ n + i \in 1..Len(items)
        BY <1>0, <1>1, <1>5, <3>2
      <4>2. items'[i] = items[n + i]
        BY <1>3, <1>5, <4>1
      <4>3. items[n + i] = [epoch |-> epoch, id |-> nextId - Len(items) + (n + i) - 1]
        BY <4>1 DEF BoundedRun
      <4>4. nextId - Len(items) + (n + i) - 1 = nextId' - Len(items') + i - 1
        BY <1>0, <1>1, <1>4, <1>5, <4>1
      <4>5. QED
        BY <1>4, <4>2, <4>3, <4>4
    <3>3. QED
      BY <3>1, <3>2
  <2>4. QED
    BY <2>1, <2>2, <2>3 DEF BoundedRun
<1>9. QED
  BY <1>2, <1>5, <1>6, <1>7, <1>8 DEF n

\* A consume moves the lower end up by what it takes.
LEMMA ConsumeKeepsRun ==
  ASSUME TypeOK, BoundedRun, NEW limit \in Int, Consume(limit)
  PROVE  /\ items' \in Seq(Message)
         /\ nextId' - Len(items')
              = (nextId - Len(items)) + TakeCount(items, limit)
         /\ BoundedRun'
<1> DEFINE n == TakeCount(items, limit)
<1>0. items \in Seq(Message) /\ Len(items) \in Nat /\ nextId \in Nat
  BY DEF TypeOK
<1>1. n \in 0..Len(items)
  BY TakeCountInRange
<1>2. items' = Skip(items, n) /\ nextId' = nextId /\ epoch' = epoch
  BY DEF Consume
<1> HIDE DEF n
<1>3. /\ items' \in Seq(Message)
      /\ Len(items') = Len(items) - n
      /\ \A i \in 1..(Len(items) - n) : items'[i] = items[n + i]
  BY <1>0, <1>1, <1>2, SkipFacts
<1>4. nextId' - Len(items') = (nextId - Len(items)) + n
  BY <1>0, <1>1, <1>2, <1>3
<1>5. ASSUME NEW i \in 1..Len(items')
      PROVE  items'[i] = [epoch |-> epoch', id |-> nextId' - Len(items') + i - 1]
  <2>1. i \in 1..(Len(items) - n) /\ n + i \in 1..Len(items)
    BY <1>0, <1>1, <1>3
  <2>2. items[n + i] = [epoch |-> epoch, id |-> nextId - Len(items) + (n + i) - 1]
    BY <2>1 DEF BoundedRun
  <2>3. nextId - Len(items) + (n + i) - 1 = nextId' - Len(items') + i - 1
    BY <1>0, <1>1, <1>2, <1>3, <2>1
  <2>4. QED
    BY <1>2, <1>3, <2>1, <2>2, <2>3
<1>6. BoundedRun'
  BY <1>0, <1>1, <1>2, <1>3, <1>5, CapacityAssumption DEF BoundedRun
<1>7. QED
  BY <1>3, <1>4, <1>6 DEF n

----
(* The invariant. *)

LEMMA BelowIsDisjoint ==
  ASSUME NEW G \in SUBSET Message, NEW k \in Int, NEW hi \in Int,
         \A m \in G : m.epoch < epoch \/ (m.epoch = epoch /\ m.id < k)
  PROVE  G \cap Numbered(k, hi) = {}
BY BoundsAssumption DEF Numbered, Message

\* Where the queue's interval lies before and after an add.
LEMMA AddKeepsIInv ==
  ASSUME IInv, Add
  PROVE  LeftFromFront' /\ Accounted' /\ displaced' \subseteq Message
<1> DEFINE n == Overflow(items)
           lo == nextId - Len(items)
           popped == Numbered(lo, lo + n - 1)
<1>0. /\ TypeOK /\ BoundedRun /\ LeftFromFront /\ Accounted
      /\ items \in Seq(Message) /\ Len(items) \in Nat /\ nextId \in Nat
      /\ epoch \in Nat /\ lo \in Int
  BY BoundsAssumption DEF IInv, TypeOK
<1>1. n \in {0, 1} /\ n \in 0..Len(items)
  BY <1>0, OverflowIsOne
<1>2. /\ epoch' = epoch /\ nextId' = nextId + 1
      /\ taken' = taken /\ discarded' = discarded
      /\ displaced' = displaced \cup popped
  <2>1. Elements(First(items, n)) = popped
    BY <1>0, <1>1, RunSplits
  <2>2. QED
    BY <2>1 DEF Add
<1>3. Elements(items) = Numbered(lo, nextId - 1)
  BY <1>0, <1>1, RunSplits
<1>4. Elements(items') = Numbered(lo + n, nextId)
  <2>1. items' \in Seq(Message) /\ nextId' - Len(items') = lo + n /\ BoundedRun'
    BY <1>0, AddKeepsRun
  <2>2. /\ lo + n \in Int /\ Len(items') \in Nat
        /\ (lo + n) + Len(items') - 1 = nextId
    BY <1>0, <1>1, <1>2, <2>1
  <2>3. \A i \in 1..Len(items') :
          items'[i] = [epoch |-> epoch, id |-> (lo + n) + i - 1]
    BY <1>2, <2>1 DEF BoundedRun
  <2>4. Elements(items') = Numbered(lo + n, (lo + n) + Len(items') - 1)
    BY <2>1, <2>2, <2>3, RunElements
  <2>5. QED
    BY <2>2, <2>4
<1>5. popped \subseteq Elements(items)
  BY <1>0, <1>1, <1>3, RunSplits DEF Numbered
<1>6. Elements(items) \subseteq Message
  BY <1>0 DEF Elements
<1>7. nextId' - Len(items') = lo + n
  BY <1>0, AddKeepsRun
<1> HIDE DEF n, lo
<1>8. LeftFromFront'
  <2>1. ASSUME NEW m \in Gone'
        PROVE  m.epoch < epoch \/ (m.epoch = epoch /\ m.id < lo + n)
    <3>1. CASE m \in Gone
      <4>1. m \in Message
        BY <1>0, <3>1 DEF TypeOK, Gone
      <4>2. m.epoch < epoch \/ (m.epoch = epoch /\ m.id < lo)
        BY <1>0, <3>1 DEF LeftFromFront, lo
      <4>3. QED
        BY <1>0, <1>1, <4>1, <4>2, BoundsAssumption DEF Message
    <3>2. CASE m \in popped
      BY <1>0, <1>1, <3>2 DEF Numbered
    <3>3. QED
      BY <1>2, <3>1, <3>2 DEF Gone
  <2>2. QED
    BY <1>2, <1>7, <2>1 DEF LeftFromFront
<1>9. displaced' \subseteq Message
  BY <1>0, <1>2, <1>5, <1>6 DEF TypeOK
<1>10. Accounted'
  <2>1. Issued' \subseteq Issued \cup {[epoch |-> epoch, id |-> nextId]}
    BY <1>0, <1>2 DEF Issued
  <2>2. [epoch |-> epoch, id |-> nextId] \in Elements(items')
    <3>1. nextId \in (lo + n)..nextId
      BY <1>0, <1>1 DEF lo
    <3>2. QED
      BY <1>4, <3>1 DEF Numbered
  <2>3. Elements(items) \subseteq popped \cup Elements(items')
    BY <1>0, <1>1, <1>3, <1>4 DEF Numbered
  <2>4. Issued' \subseteq Elements(items') \cup taken' \cup displaced' \cup discarded'
    BY <1>0, <1>2, <2>1, <2>2, <2>3 DEF Accounted
  <2>5. Gone' \cap Elements(items') = {}
    <3>1. Gone' \subseteq Message
      BY <1>0, <1>2, <1>9 DEF TypeOK, Gone
    <3>2. \A m \in Gone' : m.epoch < epoch \/ (m.epoch = epoch /\ m.id < lo + n)
      BY <1>2, <1>7, <1>8 DEF LeftFromFront
    <3>3. lo + n \in Int /\ nextId \in Int
      BY <1>0, <1>1
    <3>4. QED
      BY <1>4, <3>1, <3>2, <3>3, BelowIsDisjoint
  <2>6. taken' \cap displaced' = {} /\ (taken' \cup displaced') \cap discarded' = {}
    BY <1>0, <1>2, <1>5 DEF Accounted
  <2>7. QED
    BY <2>4, <2>5, <2>6 DEF Accounted, Gone
<1>11. QED
  BY <1>8, <1>9, <1>10

LEMMA ConsumeKeepsIInv ==
  ASSUME IInv, NEW limit \in Int, Consume(limit)
  PROVE  IInv'
<1> DEFINE n == TakeCount(items, limit)
           lo == nextId - Len(items)
           front == Numbered(lo, lo + n - 1)
<1>0. /\ TypeOK /\ BoundedRun /\ LeftFromFront /\ Accounted
      /\ items \in Seq(Message) /\ Len(items) \in Nat /\ nextId \in Nat
      /\ epoch \in Nat /\ lo \in Int
  BY BoundsAssumption DEF IInv, TypeOK
<1>1. n \in 0..Len(items)
  BY <1>0, TakeCountInRange
<1>2. /\ Elements(items) = Numbered(lo, nextId - 1)
      /\ Elements(First(items, n)) = front
      /\ Elements(Skip(items, n)) = Numbered(lo + n, nextId - 1)
  BY <1>0, <1>1, RunSplits
<1>3. /\ UNCHANGED <<nextId, dropped, epoch, displaced, discarded, refused>>
      /\ taken' = taken \cup front
      /\ Elements(items') = Numbered(lo + n, nextId - 1)
  BY <1>2 DEF Consume
<1>4. items' \in Seq(Message) /\ nextId' - Len(items') = lo + n /\ BoundedRun'
  BY <1>0, ConsumeKeepsRun
<1>5. front \subseteq Elements(items) /\ Elements(items) \subseteq Message
  <2>1. front \subseteq Elements(items)
    BY <1>0, <1>1, <1>2 DEF Numbered
  <2>2. Elements(items) \subseteq Message
    BY <1>0 DEF Elements
  <2>3. QED
    BY <2>1, <2>2
<1>6. Elements(items) \subseteq front \cup Elements(items')
  BY <1>0, <1>1, <1>2, <1>3 DEF Numbered
<1> HIDE DEF n, lo
<1>7. TypeOK'
  BY <1>0, <1>3, <1>4, <1>5 DEF TypeOK
<1>8. ASSUME NEW m \in Gone'
      PROVE  m.epoch < epoch \/ (m.epoch = epoch /\ m.id < lo + n)
  <2>1. CASE m \in Gone
    <3>1. m \in Message
      BY <1>0, <2>1 DEF TypeOK, Gone
    <3>2. m.epoch < epoch \/ (m.epoch = epoch /\ m.id < lo)
      BY <1>0, <2>1 DEF LeftFromFront, lo
    <3>3. QED
      BY <1>0, <1>1, <3>1, <3>2, BoundsAssumption DEF Message
  <2>2. CASE m \in front
    BY <1>0, <1>1, <2>2 DEF Numbered
  <2>3. QED
    BY <1>3, <2>1, <2>2 DEF Gone
<1>9. LeftFromFront'
  BY <1>3, <1>4, <1>8 DEF LeftFromFront
<1>10. Accounted'
  <2>1. Issued' \subseteq Elements(items') \cup taken' \cup displaced' \cup discarded'
    BY <1>0, <1>3, <1>6 DEF Accounted, Issued
  <2>2. Gone' \cap Elements(items') = {}
    <3>1. Gone' \subseteq Message /\ lo + n \in Int /\ nextId - 1 \in Int
      BY <1>0, <1>1, <1>7 DEF TypeOK, Gone
    <3>2. QED
      BY <1>3, <1>8, <3>1, BelowIsDisjoint
  <2>3. taken' \cap displaced' = {} /\ (taken' \cup displaced') \cap discarded' = {}
    BY <1>0, <1>3, <1>5 DEF Accounted
  <2>4. QED
    BY <2>1, <2>2, <2>3 DEF Accounted, Gone
<1>11. QED
  BY <1>4, <1>7, <1>9, <1>10 DEF IInv

\* An emptied queue: what waited is discarded, in this process or with it.
LEMMA EmptyingKeepsIInv ==
  ASSUME IInv, Clear \/ Restart
  PROVE  IInv'
<1>0. /\ TypeOK /\ BoundedRun /\ LeftFromFront /\ Accounted
      /\ items \in Seq(Message) /\ Len(items) \in Nat /\ nextId \in Nat
      /\ epoch \in Nat
  BY BoundsAssumption DEF IInv, TypeOK
<1>1. Elements(items) = Numbered(nextId - Len(items), nextId - 1)
  <2>1. 0 \in 0..Len(items)
    BY <1>0
  <2>2. QED
    BY <1>0, <2>1, RunSplits
<1>2. Elements(items) \subseteq Message
  BY <1>0 DEF Elements
<1>3. /\ items' = <<>> /\ Len(items') = 0 /\ Elements(items') = {}
      /\ taken' = taken /\ displaced' = displaced /\ refused' = refused
      /\ discarded' = discarded \cup Elements(items)
  BY DEF Clear, Restart, Elements
<1>4. TypeOK'
  BY <1>0, <1>2, <1>3, BoundsAssumption DEF TypeOK, Clear, Restart
<1>5. BoundedRun'
  BY <1>0, <1>3, <1>4, CapacityAssumption DEF BoundedRun, Clear, Restart
<1>6. \A m \in Gone' : m \in Message /\ (m \in Gone \/ m \in Elements(items))
  BY <1>0, <1>2, <1>3 DEF TypeOK, Gone
<1>7. LeftFromFront'
  <2>1. SUFFICES ASSUME NEW m \in Gone'
                 PROVE  m.epoch < epoch' \/ (m.epoch = epoch' /\ m.id < nextId')
    BY <1>3, <1>4, BoundsAssumption DEF LeftFromFront, TypeOK
  <2>2. m.epoch < epoch \/ (m.epoch = epoch /\ m.id < nextId)
    <3>1. CASE m \in Gone
      <4>1. m.epoch < epoch \/ (m.epoch = epoch /\ m.id < nextId - Len(items))
        BY <1>0, <3>1 DEF LeftFromFront
      <4>2. QED
        BY <1>0, <1>6, <4>1, BoundsAssumption DEF Message
    <3>2. CASE m \in Elements(items)
      BY <1>0, <1>1, <3>2 DEF Numbered
    <3>3. QED
      BY <1>6, <3>1, <3>2
  <2>3. m.epoch \in Nat
    BY <1>6, BoundsAssumption DEF Message
  <2>4. CASE Clear
    BY <2>2, <2>4 DEF Clear
  <2>5. CASE Restart
    BY <1>0, <2>2, <2>3, <2>5 DEF Restart
  <2>6. QED
    BY <2>4, <2>5
<1>8. Accounted'
  <2>1. CASE Clear
    BY <1>0, <1>3, <2>1 DEF Accounted, Issued, Clear
  <2>2. CASE Restart
    <3>1. Issued' = {}
      BY <2>2 DEF Issued, Restart
    <3>2. QED
      BY <1>0, <1>3, <3>1 DEF Accounted
  <2>3. QED
    BY <2>1, <2>2
<1>9. QED
  BY <1>4, <1>5, <1>7, <1>8 DEF IInv

\* Whatever happens to the queue keeps the inductive invariant.
LEMMA StepKeepsIInv ==
  ASSUME IInv, [Next]_vars
  PROVE  IInv'
<1>1. TypeOK /\ BoundedRun
  BY DEF IInv
<1>2. ASSUME Add, refused' \in SUBSET Message
      PROVE  IInv'
  <2>1. LeftFromFront' /\ Accounted' /\ displaced' \subseteq Message
    BY <1>2, AddKeepsIInv
  <2>2. items' \in Seq(Message) /\ nextId' \in 1..(MaxId + 1) /\ BoundedRun'
    BY <1>1, <1>2, AddKeepsRun
  <2>3. dropped' \in Nat
    BY <1>1, <1>2, OverflowIsOne DEF Add, TypeOK
  <2>4. TypeOK'
    BY <1>1, <1>2, <2>1, <2>2, <2>3 DEF TypeOK, Add
  <2>5. QED
    BY <2>1, <2>2, <2>4 DEF IInv
<1>3. ASSUME NEW d \in MaxDropped, Notify(d)
      PROVE  IInv'
  <2>1. Add /\ NewMessage \in Message
    BY <1>1, <1>3, AddKeepsRun DEF Notify
  <2>2. refused' \in SUBSET Message
    BY <1>1, <1>3, <2>1 DEF Notify, TypeOK
  <2>3. QED
    BY <1>2, <2>1, <2>2
<1>4. CASE McpNotify
  <2>1. Add /\ refused' \in SUBSET Message
    BY <1>1, <1>4 DEF McpNotify, TypeOK
  <2>2. QED
    BY <1>2, <2>1
<1>5. ASSUME NEW limit \in Limits, Consume(limit)
      PROVE  IInv'
  BY <1>5, LimitsAssumption, ConsumeKeepsIInv
<1>6. CASE Clear \/ Restart
  BY <1>6, EmptyingKeepsIInv
<1>7. CASE UNCHANGED vars
  BY <1>7
  DEF IInv, TypeOK, BoundedRun, LeftFromFront, Gone, Accounted, Issued, Elements, vars
<1>8. QED
  BY <1>3, <1>4, <1>5, <1>6, <1>7 DEF Next

LEMMA StartsInIInv ==
  ASSUME Init
  PROVE  IInv
<1>1. items = <<>> /\ Len(items) = 0 /\ Elements(items) = {}
  BY DEF Init, Elements
<1>2. TypeOK
  BY <1>1, BoundsAssumption DEF Init, TypeOK
<1>3. BoundedRun /\ LeftFromFront /\ Accounted
  BY <1>1, CapacityAssumption
  DEF Init, BoundedRun, LeftFromFront, Gone, Accounted, Issued
<1>4. QED
  BY <1>2, <1>3 DEF IInv

\* Every reachable state satisfies the inductive invariant.
THEOREM Invariance == Spec => []IInv
<1>1. Init => IInv
  BY StartsInIInv
<1>2. IInv /\ [Next]_vars => IInv'
  BY StepKeepsIInv
<1>3. QED
  BY <1>1, <1>2, PTL DEF Spec

\* Type correctness, for every capacity and every bound.
THEOREM TypeCorrect == Spec => []TypeOK
BY Invariance, PTL DEF IInv

\* The queue never grows past its capacity and never holds anything but the
\* newest messages of this process in the order they were accepted.
THEOREM QueueIsBoundedRun == Spec => []BoundedRun
BY Invariance, PTL DEF IInv

\* No message is handed out twice or lost without being accounted for.
THEOREM EveryMessageAccounted == Spec => []Accounted
BY Invariance, PTL DEF IInv

\* Only a full queue displaces, one message at a time, the oldest.
THEOREM DisplacementRule == Spec => DisplacesOldestWhenFull
<1>1. IInv /\ [Next]_vars =>
        [displaced' # displaced =>
           Len(items) = Capacity /\ displaced' = displaced \cup {items[1]}]_vars
  <2>1. SUFFICES ASSUME IInv, Next, displaced' # displaced
                 PROVE  /\ Len(items) = Capacity
                        /\ displaced' = displaced \cup {items[1]}
    BY DEF vars
  <2>2. TypeOK /\ BoundedRun /\ items \in Seq(Message)
    BY <2>1 DEF IInv, TypeOK
  <2>3. Add
    BY <2>1 DEF Next, Notify, McpNotify, Consume, Clear, Restart
  <2>4. displaced' = displaced \cup Elements(First(items, Overflow(items)))
    BY <2>3 DEF Add
  <2>5. Overflow(items) \in {0, 1} /\ (Overflow(items) = 1 <=> Len(items) = Capacity)
    BY <2>2, OverflowIsOne
  <2>6. CASE Overflow(items) = 0
    <3>1. Elements(First(items, 0)) = {}
      BY <2>2 DEF Elements, First
    <3>2. QED
      BY <2>1, <2>4, <2>6, <3>1
  <2>7. CASE Overflow(items) = 1
    <3>1. Len(items) = Capacity /\ 1 \in 0..Len(items)
      BY <2>2, <2>5, <2>7, CapacityAssumption
    <3>2. /\ Len(First(items, 1)) = 1
          /\ \A i \in 1..1 : First(items, 1)[i] = items[i]
      BY <2>2, <3>1, FirstFacts
    <3>3. Elements(First(items, 1)) = {items[1]}
      BY <3>2 DEF Elements
    <3>4. QED
      BY <2>4, <2>7, <3>1, <3>3
  <2>8. QED
    BY <2>5, <2>6, <2>7
<1>2. QED
  BY <1>1, Invariance, PTL DEF Spec, DisplacesOldestWhenFull

----
(* The drop counter. *)

DisplacedNow == {m \in displaced : m.epoch = epoch}

CountInv == IsFiniteSet(DisplacedNow) /\ dropped = Cardinality(DisplacedNow)

LEMMA StepKeepsCount ==
  ASSUME IInv, CountInv, [Next]_vars
  PROVE  CountInv'
<1>0. /\ TypeOK /\ BoundedRun /\ Accounted /\ LeftFromFront
      /\ items \in Seq(Message) /\ Len(items) \in Nat /\ dropped \in Nat
  BY DEF IInv, TypeOK
<1>1. CASE Add /\ Overflow(items) = 0
  <2>1. Elements(First(items, 0)) = {}
    BY <1>0 DEF Elements, First
  <2>2. dropped' = dropped /\ DisplacedNow' = DisplacedNow
    BY <1>0, <1>1, <2>1 DEF Add, DisplacedNow
  <2>3. QED
    BY <2>2 DEF CountInv
<1>2. CASE Add /\ Overflow(items) = 1
  <2>1. 1 \in 0..Len(items)
    BY <1>0, <1>2, OverflowIsOne
  <2>2. /\ Len(First(items, 1)) = 1
        /\ \A i \in 1..1 : First(items, 1)[i] = items[i]
    BY <1>0, <2>1, FirstFacts
  <2>3. Elements(First(items, 1)) = {items[1]}
    BY <2>2 DEF Elements
  <2>4. items[1].epoch = epoch /\ items[1] \in Elements(items)
    <3>1. 1 \in 1..Len(items)
      BY <1>0, <2>1
    <3>2. items[1] = [epoch |-> epoch, id |-> nextId - Len(items) + 1 - 1]
      BY <1>0, <3>1 DEF BoundedRun
    <3>3. QED
      BY <3>1, <3>2 DEF Elements
  <2>5. items[1] \notin displaced
    BY <1>0, <2>4 DEF Accounted
  <2>6. /\ DisplacedNow' = DisplacedNow \cup {items[1]}
        /\ dropped' = dropped + 1
        /\ items[1] \notin DisplacedNow
    BY <1>2, <2>3, <2>4, <2>5 DEF Add, DisplacedNow
  <2>7. /\ IsFiniteSet(DisplacedNow \cup {items[1]})
        /\ Cardinality(DisplacedNow \cup {items[1]}) = Cardinality(DisplacedNow) + 1
    BY <2>6, FS_AddElement DEF CountInv
  <2>8. QED
    BY <2>6, <2>7 DEF CountInv
<1>3. CASE Restart
  <2>1. DisplacedNow' = {}
    <3>1. \A m \in displaced : m.epoch \in Nat /\ m.epoch <= epoch
      BY <1>0, BoundsAssumption DEF LeftFromFront, Gone, TypeOK, Message
    <3>2. QED
      BY <1>0, <1>3, <3>1, BoundsAssumption DEF Restart, DisplacedNow, TypeOK
  <2>2. dropped' = 0
    BY <1>3 DEF Restart
  <2>3. QED
    BY <2>1, <2>2, FS_EmptySet DEF CountInv
<1>4. CASE UNCHANGED <<dropped, displaced, epoch>>
  BY <1>4 DEF CountInv, DisplacedNow
<1>5. QED
  BY <1>0, <1>1, <1>2, <1>3, <1>4, OverflowIsOne
  DEF Next, Notify, McpNotify, Consume, Clear, vars

\* dropped_total is the number of messages this process displaced.
THEOREM DropCounterIsExact == Spec => []DropsCounted
<1>1. Init => CountInv
  <2>1. Init => DisplacedNow = {} /\ dropped = 0
    BY DEF Init, DisplacedNow
  <2>2. QED
    BY <2>1, FS_EmptySet DEF CountInv
<1>2. IInv /\ CountInv /\ [Next]_vars => CountInv'
  BY StepKeepsCount
<1>3. CountInv => DropsCounted
  BY DEF CountInv, DropsCounted, DisplacedNow
<1>4. QED
  BY <1>1, <1>2, <1>3, Invariance, PTL DEF Spec

----
(* The queue implements the mailbox. *)

LEMMA InitImplements == Init => Promise!Init
BY DEF Init, Promise!Init, Elements

LEMMA StepImplements ==
  ASSUME IInv, IInv', [Next]_vars
  PROVE  [Promise!Next]_(Promise!mailbox)
<1> DEFINE W == Elements(items)
           L == displaced \cup discarded
<1>0. /\ TypeOK /\ BoundedRun /\ Accounted /\ LeftFromFront
      /\ TypeOK' /\ BoundedRun' /\ Accounted'
      /\ items \in Seq(Message) /\ Len(items) \in Nat /\ nextId \in Nat
  BY DEF IInv, TypeOK
<1>1. /\ W \cap taken = {} /\ W \cap L = {} /\ taken \cap L = {}
      /\ W' \cap taken' = {} /\ W' \cap L' = {} /\ taken' \cap L' = {}
  BY <1>0 DEF Accounted
<1>2. CASE Add
  <2> DEFINE D == Elements(First(items, Overflow(items)))
  <2>1. Overflow(items) \in 0..Len(items)
    BY <1>0, OverflowIsOne
  <2>2. /\ W = Numbered(nextId - Len(items), nextId - 1)
        /\ D = Numbered(nextId - Len(items), nextId - Len(items) + Overflow(items) - 1)
        /\ Elements(Skip(items, Overflow(items)))
             = Numbered(nextId - Len(items) + Overflow(items), nextId - 1)
    BY <1>0, <2>1, RunSplits
  <2>3. D \subseteq W /\ W \ D = Elements(Skip(items, Overflow(items)))
    BY <1>0, <2>1, <2>2 DEF Numbered
  <2>4. NewMessage \in Message
    BY <1>0, <1>2, AddKeepsRun
  <2>5. W' = Elements(Skip(items, Overflow(items))) \cup {NewMessage}
    <3> DEFINE kept == Skip(items, Overflow(items))
    <3>1. kept \in Seq(Message) /\ items' = Append(kept, NewMessage)
      BY <1>0, <1>2, <2>1, SkipFacts DEF Add, Enqueue
    <3> HIDE DEF kept
    <3>2. /\ Len(items') = Len(kept) + 1 /\ Len(kept) \in Nat
          /\ \A i \in 1..Len(kept) : items'[i] = kept[i]
          /\ items'[Len(kept) + 1] = NewMessage
      BY <2>4, <3>1
    <3>3. Elements(items') = Elements(kept) \cup {NewMessage}
      BY <3>2 DEF Elements
    <3>4. QED
      BY <3>3 DEF kept
  <2>6. NewMessage \notin W \cup taken \cup L
    <3>1. ASSUME NEW m \in W \cup taken \cup L
          PROVE  m.epoch < epoch \/ (m.epoch = epoch /\ m.id < nextId)
      <4>1. CASE m \in W
        BY <1>0, <2>2, <4>1 DEF Numbered
      <4>2. CASE m \in taken \cup L
        <5>1. m \in Message /\ m \in Gone
          BY <1>0, <4>2 DEF TypeOK, Gone
        <5>2. m.epoch < epoch \/ (m.epoch = epoch /\ m.id < nextId - Len(items))
          BY <1>0, <5>1 DEF LeftFromFront
        <5>3. QED
          BY <1>0, <5>1, <5>2, BoundsAssumption DEF Message
      <4>3. QED
        BY <3>1, <4>1, <4>2
    <3>2. QED
      BY <1>0, <3>1, BoundsAssumption DEF NewMessage, TypeOK
  <2>7. taken' = taken /\ L' = L \cup D
    BY <1>2 DEF Add
  <2>8. Promise!Post(NewMessage, D)
    BY <2>3, <2>5, <2>6, <2>7 DEF Promise!Post, Promise!Known
  <2>9. QED
    BY <2>3, <2>4, <2>8 DEF Promise!Next
<1>3. ASSUME NEW limit \in Limits, Consume(limit)
      PROVE  Promise!Next
  <2>0. limit \in Int
    BY LimitsAssumption
  <2> DEFINE n == TakeCount(items, limit)
             D == Elements(First(items, n))
  <2>1. n \in 0..Len(items)
    BY <1>0, <2>0, TakeCountInRange
  <2>2. /\ W = Numbered(nextId - Len(items), nextId - 1)
        /\ D = Numbered(nextId - Len(items), nextId - Len(items) + n - 1)
        /\ Elements(Skip(items, n)) = Numbered(nextId - Len(items) + n, nextId - 1)
    BY <1>0, <2>1, RunSplits
  <2>3. D \subseteq W /\ W \ D = Elements(Skip(items, n))
    BY <1>0, <2>1, <2>2 DEF Numbered
  <2>4. W' = W \ D /\ taken' = taken \cup D /\ L' = L
    BY <1>3, <2>3 DEF Consume
  <2>5. QED
    BY <2>3, <2>4 DEF Promise!Next, Promise!Deliver
<1>4. CASE Clear \/ Restart
  <2>1. W' = {} /\ taken' = taken /\ L' = L \cup W
    BY <1>4 DEF Clear, Restart, Elements
  <2>2. Promise!GiveUp(W)
    BY <2>1 DEF Promise!GiveUp
  <2>3. QED
    BY <2>2 DEF Promise!Next
<1>5. CASE UNCHANGED vars
  BY <1>5 DEF vars, Promise!mailbox, Elements
<1>6. QED
  BY <1>2, <1>3, <1>4, <1>5 DEF Next, Notify, McpNotify

\* Every behaviour of the queue is a behaviour of the mailbox: at most one
\* delivery of each message, and nothing that was given up comes back.
THEOREM QueueImplementsMailbox == Spec => MailboxPromise
<1>1. Spec => [][Promise!Next]_(Promise!mailbox)
  <2>1. IInv /\ IInv' /\ [Next]_vars => [Promise!Next]_(Promise!mailbox)
    BY StepImplements
  <2>2. QED
    BY <2>1, Invariance, PTL DEF Spec
<1>2. QED
  BY <1>1, InitImplements, PTL DEF Spec, MailboxPromise, Promise!Spec

----
(* What the queue's users build on. *)

\* A step of the queue, seen as what it does to the messages that wait.
LEMMA StepOfMailbox ==
  ASSUME IInv, IInv', [Next]_vars
  PROVE  LET waiting == Elements(items)
             lost    == displaced \cup discarded
         IN  \/ /\ taken' = taken
                /\ \E m \in Message, pushed \in SUBSET waiting :
                     /\ m \notin waiting \cup taken \cup lost
                     /\ waiting' = (waiting \ pushed) \cup {m}
                     /\ lost' = lost \cup pushed
             \/ \E ms \in SUBSET waiting :
                  /\ waiting' = waiting \ ms
                  /\ taken' = taken \cup ms /\ lost' = lost
             \/ \E ms \in SUBSET waiting :
                  /\ waiting' = waiting \ ms
                  /\ lost' = lost \cup ms /\ taken' = taken
             \/ waiting' = waiting /\ taken' = taken /\ lost' = lost
BY StepImplements
DEF Promise!Next, Promise!Post, Promise!Known, Promise!Deliver, Promise!GiveUp, Promise!mailbox

\* A consume without a limit empties the queue and hands over what waited.
LEMMA ConsumeTakesAll ==
  ASSUME TypeOK, Consume(0)
  PROVE  items' = <<>> /\ taken' = taken \cup Elements(items)
<1>1. items \in Seq(Message) /\ TakeCount(items, 0) = Len(items)
  BY DEF TypeOK, TakeCount
<1>2. Skip(items, Len(items)) = <<>> /\ First(items, Len(items)) = items
  BY <1>1 DEF Skip, First
<1>3. QED
  BY <1>1, <1>2 DEF Consume
====
