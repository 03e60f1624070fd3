---- MODULE Mailbox ----
(***************************************************************************)
(* What the announcement path promises, whoever implements it: a message  *)
(* waits until it is handed over or given up, it is handed over at most   *)
(* once, and one that was given up never comes back.                      *)
(*                                                                         *)
(* The promise is the one notifications.py states for NotificationQueue:  *)
(* "a message cannot be spoken twice", and "a client that dies            *)
(* mid-delivery loses what it took".  NotificationQueue and SpeechClient  *)
(* are shown to implement this module.                                     *)
(***************************************************************************)

CONSTANT Message   \* everything a producer may ever leave

VARIABLES
  waiting,    \* left by a producer, not handed over yet
  delivered,  \* handed over
  lost        \* given up: displaced, cleared, or dropped with its holder

mailbox == <<waiting, delivered, lost>>

Known == waiting \cup delivered \cup lost

Init ==
  /\ waiting = {}
  /\ delivered = {}
  /\ lost = {}

\* A new message arrives; making room for it may give up older ones.
Post(m, displaced) ==
  /\ m \notin Known
  /\ displaced \subseteq waiting
  /\ waiting' = (waiting \ displaced) \cup {m}
  /\ lost' = lost \cup displaced
  /\ UNCHANGED delivered

Deliver(ms) ==
  /\ ms \subseteq waiting
  /\ waiting' = waiting \ ms
  /\ delivered' = delivered \cup ms
  /\ UNCHANGED lost

GiveUp(ms) ==
  /\ ms \subseteq waiting
  /\ waiting' = waiting \ ms
  /\ lost' = lost \cup ms
  /\ UNCHANGED delivered

Next ==
  \/ \E m \in Message, displaced \in SUBSET waiting : Post(m, displaced)
  \/ \E ms \in SUBSET waiting : Deliver(ms) \/ GiveUp(ms)

Spec == Init /\ [][Next]_mailbox
====
