---- MODULE NotificationQueue ----
(***************************************************************************)
(* The announcement queue of the TTS backend: class NotificationQueue of  *)
(* tts/backend/notifications.py, and the handlers that call it, in        *)
(* routes/notifications.py (REST) and routes/mcp.py (MCP tools).          *)
(*                                                                         *)
(* Every queue operation is one critical section under the queue's lock,  *)
(* and the handlers are coroutines that do not await between their first  *)
(* queue call and their reply, so each handler is one action.  A message  *)
(* is its identity: the counter itertools.count(1) restarts with the      *)
(* process, so the identity also carries the process's epoch.             *)
(***************************************************************************)
EXTENDS Integers, Sequences, FiniteSets

CONSTANTS
  Capacity,      \* _capacity, after max(1, int(capacity))
  Limits,        \* the limits callers pass; 0 stands for None or 0, both falsy
  MaxDropped,    \* the max_dropped values REST callers pass
  MaxId,         \* bound: messages accepted per process
  MaxRestarts    \* bound: restarts of the backend process

ASSUME CapacityAssumption == Capacity \in Nat \ {0}
ASSUME LimitsAssumption == Limits \subseteq Int
ASSUME MaxDroppedAssumption == MaxDropped \subseteq Nat
ASSUME BoundsAssumption == MaxId \in Nat /\ MaxRestarts \in Nat

VARIABLES
  items,      \* _items, oldest first
  nextId,     \* what next(_ids) returns
  dropped,    \* _dropped
  epoch,      \* which run of the process this is
  taken,      \* history: returned by consume
  displaced,  \* history: popped by add to make room
  discarded,  \* history: cleared, or in memory when the process died
  refused     \* history: their POST was answered 409

vars == <<items, nextId, dropped, epoch, taken, displaced, discarded, refused>>

Message == [epoch : 0..MaxRestarts, id : 1..MaxId]

Elements(q) == {q[i] : i \in 1..Len(q)}

\* The first n entries, and what n calls of popleft() leave.
First(q, n) == SubSeq(q, 1, n)
Skip(q, n) == SubSeq(q, n + 1, Len(q))

----
(* add *)

\* Mutants of Overflow: the capacity is compared with > ; a slot is always freed.
OverflowLate(q) == IF Len(q) > Capacity THEN Len(q) - Capacity ELSE 0
OverflowEarly(q) == IF Len(q) > 0 THEN 1 ELSE 0

\* `while len(_items) >= _capacity: popleft()` -- how many that drops.
Overflow(q) == IF Len(q) >= Capacity THEN Len(q) - Capacity + 1 ELSE 0

Enqueue(q, m) == Append(Skip(q, Overflow(q)), m)

\* Mutant of NewMessage: ids counted from 0.
NewMessageFromZero == [epoch |-> epoch, id |-> nextId - 1]

NewMessage == [epoch |-> epoch, id |-> nextId]

\* A message with text reaches add; blank text is refused before the lock is
\* taken and changes nothing.
Add ==
  /\ nextId <= MaxId
  /\ items' = Enqueue(items, NewMessage)
  /\ nextId' = nextId + 1
  /\ dropped' = dropped + Overflow(items)
  /\ displaced' = displaced \cup Elements(First(items, Overflow(items)))
  /\ UNCHANGED <<epoch, taken, discarded>>

\* POST /v1/notify: the message is queued first; a caller who tolerates fewer
\* drops than it caused is then answered 409.
Notify(maxDropped) ==
  /\ Add
  /\ refused' = IF Overflow(items) > maxDropped
                THEN refused \cup {NewMessage}
                ELSE refused

\* The MCP tool `notify` only reports the count in its reply.
McpNotify ==
  /\ Add
  /\ UNCHANGED refused

----
(* consume, clear, and the end of the process *)

\* `min(limit, len) if limit else len`, as range(count) uses it: a negative
\* limit, which the MCP tool lets through, takes nothing.
TakeCount(q, limit) ==
  CASE limit = 0 -> Len(q)
    [] limit < 0 -> 0
    [] OTHER     -> IF limit < Len(q) THEN limit ELSE Len(q)

\* Mutant of Consume: the messages are returned and stay.
ConsumeKeeping(limit) ==
  /\ taken' = taken \cup Elements(First(items, TakeCount(items, limit)))
  /\ UNCHANGED <<items, nextId, dropped, epoch, displaced, discarded, refused>>

\* GET /v1/notifications and the MCP tool get_notifications.
Consume(limit) ==
  LET n == TakeCount(items, limit)
  IN  /\ items' = Skip(items, n)
      /\ taken' = taken \cup Elements(First(items, n))
      /\ UNCHANGED <<nextId, dropped, epoch, displaced, discarded, refused>>

\* Mutant of Clear: what is cleared is counted as dropped.
ClearCounting ==
  /\ items' = <<>>
  /\ dropped' = dropped + Len(items)
  /\ discarded' = discarded \cup Elements(items)
  /\ UNCHANGED <<nextId, epoch, taken, displaced, refused>>

\* DELETE /v1/notifications and the MCP tool clear_notifications.
Clear ==
  /\ items' = <<>>
  /\ discarded' = discarded \cup Elements(items)
  /\ UNCHANGED <<nextId, dropped, epoch, taken, displaced, refused>>

\* The queue lives in memory: a restart of the backend forgets all of it.
Restart ==
  /\ epoch < MaxRestarts
  /\ epoch' = epoch + 1
  /\ items' = <<>>
  /\ nextId' = 1
  /\ dropped' = 0
  /\ discarded' = discarded \cup Elements(items)
  /\ UNCHANGED <<taken, displaced, refused>>

Init ==
  /\ items = <<>>
  /\ nextId = 1
  /\ dropped = 0
  /\ epoch = 0
  /\ taken = {}
  /\ displaced = {}
  /\ discarded = {}
  /\ refused = {}

Next ==
  \/ \E d \in MaxDropped : Notify(d)
  \/ McpNotify
  \/ \E limit \in Limits : Consume(limit)
  \/ Clear
  \/ Restart

Spec == Init /\ [][Next]_vars

----
(* Properties *)

TypeOK ==
  /\ items \in Seq(Message)
  /\ nextId \in 1..(MaxId + 1)
  /\ dropped \in Nat
  /\ epoch \in 0..MaxRestarts
  /\ taken \subseteq Message
  /\ displaced \subseteq Message
  /\ discarded \subseteq Message
  /\ refused \subseteq Message

\* The queue is bounded ("The queue cannot grow with uptime"), and what waits
\* is an unbroken run of the newest messages of this process, oldest first.
BoundedRun ==
  /\ Len(items) <= Capacity
  /\ \A i \in 1..Len(items) :
       items[i] = [epoch |-> epoch, id |-> nextId - Len(items) + i - 1]
  /\ Len(items) < nextId

Issued == {[epoch |-> epoch, id |-> i] : i \in 1..(nextId - 1)}

\* Nothing vanishes and nothing is handed out twice: a message this process
\* accepted is waiting, taken, displaced or discarded, and only one of these.
Accounted ==
  /\ Issued \subseteq Elements(items) \cup taken \cup displaced \cup discarded
  /\ (taken \cup displaced \cup discarded) \cap Elements(items) = {}
  /\ taken \cap displaced = {}
  /\ (taken \cup displaced) \cap discarded = {}

\* `dropped_total` in every reply is the number of messages this process has
\* displaced, neither more (a clear, a consume) nor fewer.
DropsCounted ==
  dropped = Cardinality({m \in displaced : m.epoch = epoch})

\* "drops the oldest when full": a message is displaced only by a full queue,
\* one at a time, and it is the oldest one.
DisplacesOldestWhenFull ==
  [][displaced' # displaced =>
       /\ Len(items) = Capacity
       /\ displaced' = displaced \cup {items[1]}]_vars

\* Taken at most once, given up for good: the queue implements the mailbox.
Promise == INSTANCE Mailbox WITH
  waiting <- Elements(items), delivered <- taken, lost <- displaced \cup discarded
MailboxPromise == Promise!Spec

\* What the text of the 409 answer says ("older message(s) would be dropped"):
\* a refused POST drops nothing.  The code drops first and answers afterwards.
RefusalDropsNothing ==
  [][refused' # refused => displaced' = displaced]_vars
====
