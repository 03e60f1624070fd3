---- MODULE SpeechClientProofs ----
(***************************************************************************)
(* Proofs about SpeechClient, for every set of tasks and keys, every bound *)
(* and whatever the backend does.                                          *)
(*                                                                         *)
(* First the control: at most one task runs uncancelled, and the client is *)
(* never busy with no answer to come.  Each needs the other handlers to     *)
(* leave alone what it is about: the two are inductive together with the   *)
(* shape of the tasks and of the channel.                                  *)
(*                                                                         *)
(* Then the announcements: every message that left the backend's queue is  *)
(* with exactly one holder, which makes queue and client together a        *)
(* mailbox.  What the queue does is taken from NotificationQueueProofs,     *)
(* whose lemmas are instantiated here with the client's variables.         *)
(***************************************************************************)
EXTENDS SpeechClient, TLAPS

\* What the proofs need of the types: a batch may be anything.
TasksOf(B) ==
  [kind : {"speech", "announce", "none"}, phase : {"fetch", "next", "speak", "over"},
   cancelled : BOOLEAN, batch : B]
TasksShape == \E B : tasks \in [Task -> TasksOf(B)]
ChannelShape == \E E : channel \in Seq(E)

Inv ==
  /\ TasksShape /\ ChannelShape /\ cancelTx \in Task \cup {NoTask}
  /\ OnlyOneRuns /\ BusyIsAnswered

----
(* The tasks.                                                              *)

\* Cancelling stops one task and leaves the others as they are.
LEMMA CancelFacts ==
  ASSUME TasksShape, NEW c
  PROVE  /\ \E B : CancelTask(c) \in [Task -> TasksOf(B)]
         /\ \A t \in Task : CancelTask(c)[t].phase = tasks[t].phase
         /\ \A t \in Task \ {c} : CancelTask(c)[t] = tasks[t]
         /\ c \in Task /\ c # NoTask => tasks[c].phase = "over" \/ CancelTask(c)[c].cancelled
<1>1. PICK B : tasks \in [Task -> TasksOf(B)]
  BY DEF TasksShape
<1>2. CASE c = NoTask \/ c \notin Task
  <2>1. c \notin Task
    BY <1>2, NoTaskAssumption
  <2>2. CancelTask(c) = tasks
    BY <1>1, <2>1 DEF CancelTask
  <2> QED  BY <1>1, <2>1, <2>2
<1>3. CASE c \in Task /\ c # NoTask
  <2>1. CASE tasks[c].phase = "over"
    BY <1>1, <1>3, <2>1 DEF CancelTask
  <2>2. CASE tasks[c].phase # "over"
    <3>1. CancelTask(c) = [tasks EXCEPT ![c].cancelled = TRUE]
      BY <1>3, <2>2 DEF CancelTask
    <3>2. [tasks[c] EXCEPT !.cancelled = TRUE] \in TasksOf(B)
      BY <1>1, <1>3 DEF TasksOf
    <3>3. CancelTask(c) \in [Task -> TasksOf(B)] /\ CancelTask(c)[c].phase = tasks[c].phase
          /\ CancelTask(c)[c].cancelled
      BY <1>1, <1>3, <3>1, <3>2 DEF TasksOf
    <3> QED  BY <1>1, <1>3, <3>1, <3>3
  <2> QED  BY <2>1, <2>2
<1> QED  BY <1>2, <1>3

\* A new task is the only one that runs, and cancel_tx reaches it.
LEMMA SpawnRunsAlone ==
  ASSUME Inv, NEW t \in Task, NEW kind \in {"speech", "announce"},
         NEW phase \in {"fetch", "next", "speak"}, Spawn(t, kind, phase)
  PROVE  TasksShape' /\ OnlyOneRuns' /\ cancelTx' \in Task /\ Running(cancelTx)'
<1> DEFINE cancelled == CancelTask(cancelTx)
           new == [Over EXCEPT !.kind = kind, !.phase = phase]
<1>1. PICK B : cancelled \in [Task -> TasksOf(B)]
  BY CancelFacts DEF Inv
<1>2. new \in TasksOf(B \cup {<<>>}) /\ new.phase # "over" /\ ~new.cancelled
  BY DEF TasksOf, Over
<1>3. tasks' = [cancelled EXCEPT ![t] = new] /\ cancelTx' = t
  BY DEF Spawn
<1>4. tasks' \in [Task -> TasksOf(B \cup {<<>>})]
  <2>1. cancelled \in [Task -> TasksOf(B \cup {<<>>})]
    BY <1>1 DEF TasksOf
  <2> QED  BY <1>2, <1>3, <2>1
<1>5. tasks'[t] = new /\ \A q \in Task \ {t} : tasks'[q] = cancelled[q]
  BY <1>1, <1>3
<1>6. ASSUME NEW q \in Task \ {t} PROVE ~Running(q)'
  <2>1. CASE q = cancelTx
    <3>1. cancelled[q].phase = "over" \/ cancelled[q].cancelled
      BY <2>1, CancelFacts, NoTaskAssumption DEF Inv
    <3> QED  BY <1>5, <3>1 DEF Running, Live
  <2>2. CASE q # cancelTx
    <3>1. ~Running(q)
      BY <2>2 DEF Inv, OnlyOneRuns
    <3>2. tasks'[q] = tasks[q]
      BY <1>5, <2>2, CancelFacts DEF Inv
    <3> QED  BY <3>1, <3>2 DEF Running, Live
  <2> QED  BY <2>1, <2>2
<1>7. Running(t)'
  BY <1>2, <1>5 DEF Running, Live
<1> QED  BY <1>3, <1>4, <1>6, <1>7, NoTaskAssumption DEF TasksShape, OnlyOneRuns

\* One task moves on, neither cancelled nor revived; the others stay.
TaskMoves(t, new) ==
  /\ \E B : new \in TasksOf(B)
  /\ new.cancelled = tasks[t].cancelled \/ new.phase = "over"
  /\ new.phase # "over" => tasks[t].phase # "over"
  /\ tasks' = [tasks EXCEPT ![t] = new]

LEMMA MoveFacts ==
  ASSUME TasksShape, NEW t \in Task, NEW new, TaskMoves(t, new)
  PROVE  /\ TasksShape' /\ tasks'[t] = new
         /\ \A q \in Task \ {t} : tasks'[q] = tasks[q]
         /\ \A q \in Task : Running(q)' => Running(q)
<1>1. PICK B, C : tasks \in [Task -> TasksOf(B)] /\ new \in TasksOf(C)
  BY DEF TasksShape, TaskMoves
<1>2. tasks \in [Task -> TasksOf(B \cup C)] /\ new \in TasksOf(B \cup C)
  BY <1>1 DEF TasksOf
<1>3. tasks' \in [Task -> TasksOf(B \cup C)]
  BY <1>2 DEF TaskMoves
<1>4. tasks'[t] = new /\ \A q \in Task \ {t} : tasks'[q] = tasks[q]
  BY <1>1 DEF TaskMoves
<1>5. Running(t)' => Running(t)
  BY <1>4 DEF TaskMoves, Running, Live
<1>6. \A q \in Task \ {t} : Running(q)' => Running(q)
  BY <1>4 DEF Running, Live
<1> QED  BY <1>3, <1>4, <1>5, <1>6 DEF TasksShape

----
(* The channel.                                                            *)

\* What is sent is in the channel, and what was there stays.
LEMMA SendFacts ==
  ASSUME ChannelShape, NEW e, Send(e)
  PROVE  ChannelShape' /\ InChannel(e.type)' /\ \A type : InChannel(type) => InChannel(type)'
<1>1. PICK E : channel \in Seq(E)
  BY DEF ChannelShape
<1>2. channel \in Seq(E \cup {e}) /\ channel' = Append(channel, e)
  BY <1>1 DEF Send
<1>3. channel' \in Seq(E \cup {e}) /\ Len(channel') = Len(channel) + 1 /\ channel'[Len(channel')] = e
      /\ \A i \in 1..Len(channel) : channel'[i] = channel[i]
  BY <1>2
<1>4. Len(channel) \in Nat /\ Len(channel') \in 1..Len(channel')
  BY <1>1, <1>3
<1>5. InChannel(e.type)'
  BY <1>3, <1>4 DEF InChannel
<1>6. ASSUME NEW type, InChannel(type) PROVE InChannel(type)'
  BY <1>3, <1>4, <1>6 DEF InChannel
<1> QED  BY <1>3, <1>5, <1>6 DEF ChannelShape

\* Receiving an event takes that event away, and no other.
LEMMA ReceiveFacts ==
  ASSUME ChannelShape, NEW type, Receive(type)
  PROVE  ChannelShape' /\ \A other : other # type /\ InChannel(other) => InChannel(other)'
<1>1. PICK E : channel \in Seq(E)
  BY DEF ChannelShape
<1>2. channel # <<>> /\ channel' = Tail(channel) /\ Head(channel).type = type
  BY DEF Receive
<1>3. channel' \in Seq(E) /\ Len(channel') = Len(channel) - 1 /\ Len(channel) \in Nat \ {0}
      /\ \A i \in 1..Len(channel') : channel'[i] = channel[i + 1]
  BY <1>1, <1>2
<1>4. channel[1].type = type
  BY <1>1, <1>2
<1>5. ASSUME NEW other, other # type, InChannel(other) PROVE InChannel(other)'
  <2>1. PICK i \in 1..Len(channel) : channel[i].type = other
    BY <1>5 DEF InChannel
  <2>2. i - 1 \in 1..Len(channel') /\ channel'[i - 1] = channel[i]
    BY <1>3, <1>4, <1>5, <2>1
  <2> QED  BY <2>1, <2>2 DEF InChannel
<1> QED  BY <1>3, <1>5 DEF ChannelShape

----
(* Steps, by what they may change.                                         *)

\* Nothing happens to the tasks and the mode.  An answer may not be lost.
LEMMA QuietKeeps ==
  ASSUME Inv, UNCHANGED <<tasks, cancelTx, mode>>, ChannelShape',
         InChannel("StreamDone") => InChannel("StreamDone")', InChannel("Error") => InChannel("Error")'
  PROVE  Inv'
BY DEF Inv, TasksShape, OnlyOneRuns, BusyIsAnswered, Running, Live

\* A handler leaves the client in a mode that is not busy.
LEMMA UnbusyKeeps ==
  ASSUME Inv, UNCHANGED <<tasks, cancelTx>>, ChannelShape', mode' \notin Busy
  PROVE  Inv'
BY DEF Inv, TasksShape, OnlyOneRuns, BusyIsAnswered, Running, Live

\* A handler starts a task.
LEMMA SpawnKeeps ==
  ASSUME Inv, NEW t \in Task, NEW kind \in {"speech", "announce"},
         NEW phase \in {"fetch", "next", "speak"}, Spawn(t, kind, phase), ChannelShape'
  PROVE  Inv'
BY SpawnRunsAlone, NoTaskAssumption DEF Inv, BusyIsAnswered

\* A task moves on, and if it ends it has answered.
LEMMA MoveKeeps ==
  ASSUME Inv, NEW t \in Task, NEW new, TaskMoves(t, new), UNCHANGED <<cancelTx, mode>>,
         ChannelShape', \A type : InChannel(type) => InChannel(type)',
         new.phase = "over" => InChannel("StreamDone")' \/ InChannel("Error")'
  PROVE  Inv'
<1>1. /\ TasksShape' /\ tasks'[t] = new /\ \A q \in Task \ {t} : tasks'[q] = tasks[q]
      /\ \A q \in Task : Running(q)' => Running(q)
  BY MoveFacts DEF Inv
<1>2. OnlyOneRuns'
  BY <1>1 DEF Inv, OnlyOneRuns
<1>3. ASSUME mode \in Busy, ~InChannel("StreamDone")', ~InChannel("Error")'
      PROVE  cancelTx # NoTask /\ Running(cancelTx)'
  <2>1. cancelTx # NoTask /\ Running(cancelTx)
    BY <1>3 DEF Inv, BusyIsAnswered
  <2>2. CASE cancelTx = t
    BY <1>1, <1>3, <2>1, <2>2 DEF TaskMoves, Running, Live
  <2>3. CASE cancelTx # t
    BY <1>1, <2>1, <2>3 DEF Inv, Running, Live
  <2> QED  BY <2>1, <2>2, <2>3
<1> QED  BY <1>1, <1>2, <1>3 DEF Inv, BusyIsAnswered

----
(* The actions.                                                            *)

LEMMA OutsideKeeps ==
  ASSUME Inv, BackendStep \/ PressKey \/ CopyText \/ CheckHealth \/ PollNotices PROVE Inv'
<1>1. UNCHANGED <<tasks, cancelTx, mode>>
  BY DEF BackendStep, PressKey, CopyText, CheckHealth, PollNotices, appVars
<1>2. CASE BackendStep
  <2>1. channel' = channel
    BY <1>2 DEF BackendStep
  <2> QED  BY <1>1, <2>1, QuietKeeps DEF Inv, ChannelShape, InChannel
<1>3. CASE PressKey \/ CopyText \/ CheckHealth \/ PollNotices
  <2>1. \E e : Send(e)
    BY <1>3 DEF PressKey, CopyText, CheckHealth, PollNotices
  <2>2. ChannelShape' /\ \A type : InChannel(type) => InChannel(type)'
    BY <2>1, SendFacts DEF Inv
  <2> QED  BY <1>1, <2>2, QuietKeeps
<1> QED  BY <1>2, <1>3

\* A handler, once its event is off the channel: it leaves the tasks alone, or
\* starts one; and if it takes an answer, it ends the busy mode.
LEMMA HandlerKeeps ==
  ASSUME Inv, NEW type, Receive(type),
         \/ tasks' = tasks /\ cancelTx' = cancelTx /\ (mode' = mode \/ mode' \notin Busy)
         \/ \E t \in Task, kind \in {"speech", "announce"}, phase \in {"fetch", "next", "speak"} :
              Spawn(t, kind, phase),
         type \in {"StreamDone", "Error"} => tasks' = tasks /\ cancelTx' = cancelTx /\ mode' \notin Busy
  PROVE  Inv'
<1>1. ChannelShape' /\ \A other : other # type /\ InChannel(other) => InChannel(other)'
  BY ReceiveFacts DEF Inv
<1>2. CASE tasks' = tasks /\ cancelTx' = cancelTx /\ mode' \notin Busy
  BY <1>1, <1>2, UnbusyKeeps
<1>3. CASE /\ tasks' = tasks /\ cancelTx' = cancelTx /\ mode' = mode
           /\ type \notin {"StreamDone", "Error"}
  BY <1>1, <1>3, QuietKeeps
<1>4. CASE \E t \in Task, kind \in {"speech", "announce"}, phase \in {"fetch", "next", "speak"} :
             Spawn(t, kind, phase)
  BY <1>1, <1>4, SpawnKeeps
<1> QED  BY <1>2, <1>3, <1>4

\* Esc in a busy mode.
LEMMA CancelKeeps ==
  ASSUME Inv, Cancel, ChannelShape' PROVE Inv'
<1>1. tasks' = CancelTask(cancelTx) /\ cancelTx' = NoTask /\ mode' = "Normal"
  BY DEF Cancel
<1>2. TasksShape'
  BY <1>1, CancelFacts DEF Inv, TasksShape
<1>3. ASSUME NEW q \in Task PROVE ~Running(q)'
  <2>1. CASE q = cancelTx
    <3>1. tasks'[q].phase = "over" \/ tasks'[q].cancelled
      BY <1>1, <2>1, CancelFacts, NoTaskAssumption DEF Inv
    <3> QED  BY <3>1 DEF Running, Live
  <2>2. CASE q # cancelTx
    <3>1. ~Running(q) /\ tasks'[q] = tasks[q]
      BY <1>1, <2>2, CancelFacts DEF Inv, OnlyOneRuns
    <3> QED  BY <3>1 DEF Running, Live
  <2> QED  BY <2>1, <2>2
<1> QED  BY <1>1, <1>2, <1>3 DEF OnlyOneRuns, BusyIsAnswered, Busy, Inv

LEMMA KeyKeeps == ASSUME Inv, HandleKey PROVE Inv'
<1> DEFINE k == Head(channel).key
           Still == tasks' = tasks /\ cancelTx' = cancelTx /\ (mode' = mode \/ mode' \notin Busy)
<1>1. Receive("Key") /\ ChannelShape'
  BY ReceiveFacts DEF HandleKey, Inv
<1>2. \A m : SwitchTo(m) /\ (m = mode \/ m \notin Busy) => Still
  BY DEF SwitchTo
<1>3. Still => Inv'
  BY <1>1, HandlerKeeps
<1>4. CASE mode \in Busy /\ k = "esc" /\ Cancel
  BY <1>1, <1>4, CancelKeeps
<1>5. CASE mode = "Normal" /\ NormalKey(k)
  <2>1. CASE StartGeneration
    <3>1. \E t \in Task : Spawn(t, "speech", "speak")
      BY <2>1 DEF StartGeneration
    <3> QED  BY <1>1, <3>1, SpawnKeeps
  <2>2. CASE \E m \in {"Normal", "VoiceMenu", "Settings", "Help"} : SwitchTo(m)
    BY <1>2, <1>3, <2>2 DEF Busy
  <2> QED  BY <1>5, <2>1, <2>2 DEF NormalKey
<1>6. CASE mode = "VoiceMenu" /\ VoiceMenuKey(k)
  BY <1>2, <1>3, <1>6 DEF VoiceMenuKey, Busy
<1>7. CASE EditUrlKey(k)
  BY <1>3, <1>7 DEF EditUrlKey
<1>8. CASE SettingsKey(k)
  <2>1. CASE SwitchTo("Normal") \/ SwitchTo("Settings")
    BY <1>2, <1>3, <2>1 DEF Busy
  <2>2. CASE UNCHANGED <<mode, cancelTx, tasks>>
    BY <1>3, <2>2
  <2> QED  BY <1>8, <2>1, <2>2 DEF SettingsKey
<1>9. CASE SwitchTo("Normal") \/ SwitchTo(mode)
  BY <1>2, <1>3, <1>9 DEF Busy
<1> QED  BY <1>4, <1>5, <1>6, <1>7, <1>8, <1>9 DEF HandleKey

LEMMA HandleKeeps == ASSUME Inv, Handle PROVE Inv'
<1>1. CASE HandleKey
  BY <1>1, KeyKeeps
<1>2. CASE HandleClip
  <2>1. Receive("Clip")
    BY <1>2 DEF HandleClip
  <2>2. \/ tasks' = tasks /\ cancelTx' = cancelTx /\ mode' = mode
        \/ \E t \in Task : Spawn(t, "speech", "speak")
    BY <1>2 DEF HandleClip, SwitchTo, StartGeneration
  <2> QED  BY <2>1, <2>2, HandlerKeeps
<1>3. CASE HandleNoticesWaiting
  <2>1. Receive("NoticesWaiting")
    BY <1>3 DEF HandleNoticesWaiting
  <2>2. \/ tasks' = tasks /\ cancelTx' = cancelTx /\ mode' = mode
        \/ \E t \in Task : Spawn(t, "announce", "fetch")
    BY <1>3 DEF HandleNoticesWaiting, SwitchTo, StartAnnouncing
  <2> QED  BY <2>1, <2>2, HandlerKeeps
<1>4. CASE HandleServerStatus
  BY <1>4, HandlerKeeps DEF HandleServerStatus
<1>5. CASE HandleNotice
  BY <1>5, HandlerKeeps DEF HandleNotice, appVars
<1>6. CASE HandleStreamDone
  <2>1. Receive("StreamDone") /\ tasks' = tasks /\ cancelTx' = cancelTx /\ mode' \notin Busy
    BY <1>6 DEF HandleStreamDone, Busy
  <2> QED  BY <2>1, HandlerKeeps
<1>7. CASE HandleError
  <2>1. Receive("Error") /\ tasks' = tasks /\ cancelTx' = cancelTx /\ mode' \notin Busy
    BY <1>7 DEF HandleError, SwitchTo, Busy
  <2> QED  BY <2>1, HandlerKeeps
<1> QED  BY <1>1, <1>2, <1>3, <1>4, <1>5, <1>6, <1>7 DEF Handle

LEMMA ReconnectKeeps == ASSUME Inv, Reconnect PROVE Inv'
BY QuietKeeps DEF Reconnect, Inv, ChannelShape, InChannel

LEMMA ExitKeeps == ASSUME Inv, Exit PROVE Inv'
<1>1. Over \in TasksOf({<<>>}) /\ Over.phase = "over"
  BY DEF Over, TasksOf
<1>2. tasks' = [t \in Task |-> Over] /\ mode' = "Normal" /\ cancelTx' = NoTask /\ channel' = <<>>
  BY DEF Exit
<1>3. TasksShape' /\ ChannelShape' /\ \A t \in Task : ~Running(t)'
  <2>1. tasks' \in [Task -> TasksOf({<<>>})] /\ channel' \in Seq({})
    BY <1>1, <1>2
  <2> QED  BY <1>1, <1>2, <2>1 DEF TasksShape, ChannelShape, Running, Live
<1> QED  BY <1>2, <1>3 DEF Inv, OnlyOneRuns, BusyIsAnswered, Busy

\* A task that returns sends its answer with it.
LEMMA ReturnKeeps ==
  ASSUME Inv, NEW t \in Task, NEW e, e.type \in {"StreamDone", "Error"}, Return(t, e)
  PROVE  Inv'
<1>1. Over \in TasksOf({<<>>}) /\ Over.phase = "over"
  BY DEF Over, TasksOf
<1>2. TaskMoves(t, Over) /\ UNCHANGED <<cancelTx, mode>> /\ Send(e)
  BY <1>1 DEF TaskMoves, Return, appVars
<1>3. ChannelShape' /\ InChannel(e.type)' /\ \A type : InChannel(type) => InChannel(type)'
  BY <1>2, SendFacts DEF Inv
<1> QED  BY <1>1, <1>2, <1>3, MoveKeeps

\* A task that goes on to another phase, with some batch, and sends or does not.
LEMMA GoesOnKeeps ==
  ASSUME Inv, NEW t \in Task, NEW phase \in {"next", "speak"}, NEW batch,
         Live(t), tasks' = [tasks EXCEPT ![t] = [tasks[t] EXCEPT !.phase = phase, !.batch = batch]],
         UNCHANGED <<cancelTx, mode>>, channel' = channel \/ \E e : Send(e)
  PROVE  Inv'
<1> DEFINE new == [tasks[t] EXCEPT !.phase = phase, !.batch = batch]
<1>1. PICK B : tasks \in [Task -> TasksOf(B)]
  BY DEF Inv, TasksShape
<1>2. new \in TasksOf({batch}) /\ new.phase # "over" /\ new.cancelled = tasks[t].cancelled
  BY <1>1 DEF TasksOf
<1>3. TaskMoves(t, new)
  BY <1>2 DEF TaskMoves, Live
<1>4. ChannelShape' /\ \A type : InChannel(type) => InChannel(type)'
  <2>1. CASE channel' = channel
    BY <2>1 DEF Inv, ChannelShape, InChannel
  <2>2. CASE \E e : Send(e)
    BY <2>2, SendFacts DEF Inv
  <2> QED  BY <2>1, <2>2
<1> QED  BY <1>2, <1>3, <1>4, MoveKeeps

LEMMA SpeechKeeps ==
  ASSUME Inv, NEW t \in Task, SpeechCancelled(t) \/ SpeechDone(t) \/ SpeechFailed(t)
  PROVE  Inv'
<1>1. Return(t, StreamDone) \/ Return(t, Error)
  BY DEF SpeechCancelled, SpeechDone, SpeechFailed
<1> QED  BY <1>1, ReturnKeeps DEF StreamDone, Error

LEMMA AnnounceKeeps == ASSUME Inv, NEW t \in Task, AnnounceStep(t) PROVE Inv'
<1>1. PICK B : tasks \in [Task -> TasksOf(B)]
  BY DEF Inv, TasksShape
<1>2. tasks[t].phase \in {"fetch", "next", "speak"} => Live(t)
  BY DEF Live
<1>3. CASE FetchAnswered(t)
  <2>1. tasks' = [tasks EXCEPT ![t] = [tasks[t] EXCEPT !.phase = "next", !.batch = items]]
    BY <1>1, <1>3 DEF FetchAnswered, TasksOf
  <2> QED  BY <1>2, <1>3, <2>1, GoesOnKeeps DEF FetchAnswered, appVars
<1>4. CASE FetchFailed(t)
  <2>1. tasks' = [tasks EXCEPT ![t] = [tasks[t] EXCEPT !.phase = "next", !.batch = tasks[t].batch]]
    BY <1>1, <1>4 DEF FetchFailed, TasksOf
  <2> QED  BY <1>2, <1>4, <2>1, GoesOnKeeps DEF FetchFailed, appVars
<1>5. CASE NextItem(t)
  <2>1. tasks' = [tasks EXCEPT ![t] =
                    [tasks[t] EXCEPT !.phase = "speak", !.batch = Tail(tasks[t].batch)]]
    BY <1>1, <1>5 DEF NextItem, TasksOf
  <2> QED  BY <1>2, <1>5, <2>1, GoesOnKeeps DEF NextItem, appVars
<1>6. CASE AnnouncementOver(t)
  BY <1>6, ReturnKeeps DEF AnnouncementOver, StreamDone
<1>7. CASE ItemSpoken(t)
  <2>1. tasks' = [tasks EXCEPT ![t] = [tasks[t] EXCEPT !.phase = "next", !.batch = tasks[t].batch]]
    BY <1>1, <1>7 DEF ItemSpoken, TasksOf
  <2> QED  BY <1>2, <1>7, <2>1, GoesOnKeeps DEF ItemSpoken, Speaking, appVars
<1>8. CASE ItemCancelled(t) \/ ItemFailed(t)
  <2>1. tasks' = [tasks EXCEPT ![t] = [tasks[t] EXCEPT !.phase = "next", !.batch = <<>>]]
    BY <1>1, <1>8 DEF ItemCancelled, ItemFailed, DropRest, TasksOf
  <2> QED  BY <1>2, <1>8, <2>1, GoesOnKeeps DEF ItemCancelled, ItemFailed, DropRest, Speaking, appVars
<1> QED  BY <1>3, <1>4, <1>5, <1>6, <1>7, <1>8 DEF AnnounceStep

----
(* The theorems.                                                           *)

LEMMA Start == Init => Inv
<1> SUFFICES ASSUME Init PROVE Inv
  OBVIOUS
<1>1. Over \in TasksOf({<<>>}) /\ Over.phase = "over"
  BY DEF Over, TasksOf
<1>2. tasks = [t \in Task |-> Over] /\ channel = <<>> /\ mode = "Normal" /\ cancelTx = NoTask
  BY DEF Init
<1>3. tasks \in [Task -> TasksOf({<<>>})] /\ channel \in Seq({})
  BY <1>1, <1>2
<1>4. \A t \in Task : ~Running(t)
  BY <1>1, <1>2 DEF Running, Live
<1> QED  BY <1>2, <1>3, <1>4 DEF Inv, TasksShape, ChannelShape, OnlyOneRuns, BusyIsAnswered, Busy

\* Every step of the loop, the tasks, the user and the backend.
THEOREM Invariance == Spec => []Inv
<1>1. Inv /\ [Next]_vars => Inv'
  <2> SUFFICES ASSUME Inv, [Next]_vars PROVE Inv'
    OBVIOUS
  <2>1. CASE Next
    BY <2>1, OutsideKeeps, HandleKeeps, ReconnectKeeps, ExitKeeps, SpeechKeeps, AnnounceKeeps
    DEF Next
  <2>2. CASE UNCHANGED vars
    BY <2>2, QuietKeeps DEF Inv, ChannelShape, InChannel, vars, appVars
  <2> QED  BY <2>1, <2>2
<1> QED  BY Start, <1>1, PTL DEF Spec

\* However requests, clips, announcements and cancellations interleave, the
\* one task that runs uncancelled is the one cancel_tx reaches.
THEOREM OneTaskRuns == Spec => []OnlyOneRuns
BY Invariance, PTL DEF Inv

\* A client that is Generating or Streaming has an answer waiting in its
\* channel, or a task that will send one.
THEOREM BusyHasAnswer == Spec => []BusyIsAnswered
BY Invariance, PTL DEF Inv

----
(* Who holds which message.                                                *)
(*                                                                         *)
(* A message the client took is in the batch of one task or in one Notice  *)
(* of the channel until it is shown or dropped.  The queue's own proofs say *)
(* what the backend does to the messages that still wait.                  *)

Backend == INSTANCE NotificationQueueProofs

Hands(t) == Queue!Elements(tasks[t].batch)

Notices == {i \in 1..Len(channel) : channel[i].type = "Notice"}
Told == {channel[i].message : i \in Notices}
TellsOnce == \A i, j \in Notices : channel[i].message = channel[j].message => i = j

\* Only an announcement that has its answer has a batch.
Batches ==
  \A t \in Task :
    /\ tasks[t].phase = "fetch" => tasks[t].kind = "announce"
    /\ tasks[t].kind # "announce" \/ tasks[t].phase \in {"fetch", "over"} => tasks[t].batch = <<>>

Distinct(q) == \A i, j \in 1..Len(q) : q[i] = q[j] => i = j

\* No message is held twice.
OneHolder ==
  /\ \A t \in Task : Distinct(tasks[t].batch)
  /\ \A t, u \in Task : t # u => Hands(t) \cap Hands(u) = {}
  /\ \A t \in Task : Hands(t) \cap Told = {}
  /\ TellsOnce

\* What the client has, has shown or has lost it took off the queue.
AllTaken == InHand \cup shown \cup unspoken \subseteq taken

AppTypes ==
  /\ mode \in Mode
  /\ online \in BOOLEAN /\ announcing \in BOOLEAN
  /\ editing \in BOOLEAN /\ urlChanged \in BOOLEAN
  /\ cancelTx \in Task \cup {NoTask}
  /\ reachable \in BOOLEAN
Shapes == tasks \in [Task -> TaskState] /\ channel \in Seq(Event)

HoldInv == Backend!IInv /\ AppTypes /\ Shapes /\ Batches /\ OneHolder /\ AllTaken

----
(* The queue, as the client sees it.                                       *)

LEMMA NumberOf ==
  ASSUME NEW e, NEW a, NEW b, [epoch |-> e, id |-> a] = [epoch |-> e, id |-> b]
  PROVE  a = b
<1>1. [epoch |-> e, id |-> a].id = a /\ [epoch |-> e, id |-> b].id = b
  OBVIOUS
<1> QED  BY <1>1

LEMMA QueueFacts ==
  ASSUME Backend!IInv
  PROVE  /\ items \in Seq(Queue!Message) /\ Distinct(items)
         /\ Queue!Elements(items) \cap taken = {}
         /\ taken \subseteq Queue!Message
<1>1. Backend!TypeOK /\ Backend!BoundedRun /\ Backend!Accounted
  BY DEF Backend!IInv
<1>2. items \in Seq(Queue!Message) /\ taken \subseteq Queue!Message /\ nextId \in Int
  BY <1>1, QueueAssumption DEF Backend!TypeOK, Backend!Message, Queue!Message
<1>3. Distinct(items)
  <2> SUFFICES ASSUME NEW i \in 1..Len(items), NEW j \in 1..Len(items), items[i] = items[j]
               PROVE  i = j
    BY DEF Distinct
  <2> DEFINE number(k) == nextId - Len(items) + k - 1
  <2>1. /\ items[i] = [epoch |-> epoch, id |-> number(i)]
        /\ items[j] = [epoch |-> epoch, id |-> number(j)]
    BY <1>1 DEF Backend!BoundedRun
  <2> HIDE DEF number
  <2>2. [epoch |-> epoch, id |-> number(i)] = [epoch |-> epoch, id |-> number(j)]
    BY <2>1, Zenon
  <2>3. number(i) = number(j)
    BY <2>2, NumberOf, Zenon
  <2> QED  BY <1>2, <2>3 DEF number
<1>4. Queue!Elements(items) \cap taken = {}
  BY <1>1 DEF Backend!Accounted, Backend!Elements, Queue!Elements
<1> QED  BY <1>2, <1>3, <1>4

LEMMA SameQueue == Queue!Next <=> Backend!Next
BY DEF Backend!Next, Queue!Next, Backend!Notify, Queue!Notify, Backend!McpNotify,
  Queue!McpNotify, Backend!Consume, Queue!Consume, Backend!Clear, Queue!Clear,
  Backend!Restart, Queue!Restart, Backend!Add, Queue!Add, Backend!Overflow, Queue!Overflow,
  Backend!NewMessage, Queue!NewMessage, Backend!Elements, Queue!Elements, Backend!First,
  Queue!First, Backend!Skip, Queue!Skip, Backend!Enqueue, Queue!Enqueue,
  Backend!TakeCount, Queue!TakeCount

\* A step of the backend's own.
LEMMA QueueSteps ==
  ASSUME Backend!IInv, Queue!Next \/ UNCHANGED queueVars
  PROVE  LET waiting == Queue!Elements(items)
             lost    == displaced \cup discarded
         IN  /\ Backend!IInv'
             /\ \/ /\ taken' = taken
                   /\ \E m \in Queue!Message, pushed \in SUBSET waiting :
                        /\ m \notin waiting \cup taken \cup lost
                        /\ waiting' = (waiting \ pushed) \cup {m}
                        /\ lost' = lost \cup pushed
                \/ \E ms \in SUBSET waiting :
                     /\ waiting' = waiting \ ms
                     /\ taken' = taken \cup ms /\ lost' = lost
                \/ \E ms \in SUBSET waiting :
                     /\ waiting' = waiting \ ms
                     /\ lost' = lost \cup ms /\ taken' = taken
                \/ waiting' = waiting /\ taken' = taken /\ lost' = lost
<1>1. [Backend!Next]_(Backend!vars)
  BY SameQueue DEF Backend!vars, queueVars
<1>2. Backend!IInv'
  BY <1>1, QueueAssumption, Backend!StepKeepsIInv
<1> QED
  BY <1>1, <1>2, QueueAssumption, Backend!StepOfMailbox
  DEF Backend!Elements, Queue!Elements, Backend!Message, Queue!Message

\* The client takes everything that waits.
LEMMA QueueEmptied ==
  ASSUME Backend!IInv, Queue!Consume(0)
  PROVE  /\ Backend!IInv'
         /\ items' = <<>> /\ taken' = taken \cup Queue!Elements(items)
         /\ UNCHANGED <<displaced, discarded>>
<1>1. Backend!Consume(0)
  BY DEF Backend!Consume, Queue!Consume, Backend!TakeCount, Queue!TakeCount, Backend!Skip,
    Queue!Skip, Backend!First, Queue!First, Backend!Elements, Queue!Elements
<1>2. Backend!IInv'
  BY <1>1, QueueAssumption, Backend!ConsumeKeepsIInv
<1>3. items' = <<>> /\ taken' = taken \cup Queue!Elements(items)
  BY <1>1, QueueAssumption, Backend!ConsumeTakesAll DEF Backend!IInv, Backend!Elements, Queue!Elements
<1> QED  BY <1>2, <1>3 DEF Queue!Consume

----
(* What a step does with the messages in hand: nothing, take them all from  *)
(* the queue, lose them on the way, show one, or drop some.                *)

Leaves == InHand' = InHand /\ UNCHANGED history /\ (Queue!Next \/ UNCHANGED queueVars)
Takes ==
  /\ Queue!Consume(0)
  /\ InHand' = InHand \cup Queue!Elements(items)
  /\ UNCHANGED history
Loses ==
  /\ Queue!Consume(0)
  /\ InHand' = InHand /\ shown' = shown
  /\ unspoken' = unspoken \cup Queue!Elements(items)
Shows ==
  \E m \in InHand :
    /\ InHand' = InHand \ {m} /\ shown' = shown \cup {m}
    /\ UNCHANGED <<queueVars, unspoken>>
Drops ==
  \E ms \in SUBSET InHand :
    /\ InHand' = InHand \ ms /\ unspoken' = unspoken \cup ms
    /\ UNCHANGED <<queueVars, shown>>

Movement == Leaves \/ Takes \/ Loses \/ Shows \/ Drops

\* Each of these is a step of the mailbox, or none; and what the client has
\* was taken.
LEMMA MovementImplements ==
  ASSUME Backend!IInv, AllTaken, Movement
  PROVE  Backend!IInv' /\ AllTaken' /\ [Promise!Next]_(Promise!mailbox)
<1> DEFINE waiting == Queue!Elements(items)
           lost == displaced \cup discarded
           W == waiting \cup InHand
           D == shown \cup (taken \ (InHand \cup unspoken))
           L == displaced \cup discarded \cup unspoken
<1>1. /\ InHand \subseteq taken /\ shown \subseteq taken /\ unspoken \subseteq taken
      /\ waiting \cap taken = {}
  BY QueueFacts DEF AllTaken
<1>2. ASSUME NEW ms \in SUBSET W, W' = W \ ms, L' = L,  D' = D \cup ms
      PROVE  [Promise!Next]_(Promise!mailbox)
  BY <1>2 DEF Promise!Next, Promise!Deliver
<1>3. ASSUME NEW ms \in SUBSET W, W' = W \ ms, D' = D,  L' = L \cup ms
      PROVE  [Promise!Next]_(Promise!mailbox)
  BY <1>3 DEF Promise!Next, Promise!GiveUp
<1>4. ASSUME W' = W, D' = D,  L' = L
      PROVE  [Promise!Next]_(Promise!mailbox)
  BY <1>4 DEF Promise!mailbox
<1>5. CASE Leaves
  <2>1. InHand' = InHand /\ shown' = shown /\ unspoken' = unspoken
    BY <1>5 DEF Leaves, history
  <2>2. /\ Backend!IInv'
        /\ \/ /\ taken' = taken
              /\ \E m \in Queue!Message, pushed \in SUBSET waiting :
                   /\ m \notin waiting \cup taken \cup lost
                   /\ waiting' = (waiting \ pushed) \cup {m}
                   /\ lost' = lost \cup pushed
           \/ \E ms \in SUBSET waiting :
                waiting' = waiting \ ms /\ taken' = taken \cup ms /\ lost' = lost
           \/ \E ms \in SUBSET waiting :
                waiting' = waiting \ ms /\ lost' = lost \cup ms /\ taken' = taken
           \/ waiting' = waiting /\ taken' = taken /\ lost' = lost
    BY <1>5, QueueSteps DEF Leaves
  <2>3. AllTaken'
    BY <1>1, <2>1, <2>2 DEF AllTaken
  <2>4. ASSUME taken' = taken, NEW m \in Queue!Message, NEW pushed \in SUBSET waiting,
               m \notin waiting \cup taken \cup lost,
               waiting' = (waiting \ pushed) \cup {m}, lost' = lost \cup pushed
        PROVE  [Promise!Next]_(Promise!mailbox)
    <3>1. m \notin W \cup D \cup L /\ pushed \in SUBSET W
      BY <1>1, <2>4
    <3>2. W' = (W \ pushed) \cup {m} /\ L' = L \cup pushed /\ D' = D
      BY <1>1, <2>1, <2>4
    <3>3. Promise!Post(m, pushed)
      BY <3>1, <3>2 DEF Promise!Post, Promise!Known
    <3> QED  BY <3>1, <3>3 DEF Promise!Next
  <2>5. ASSUME NEW ms \in SUBSET waiting, waiting' = waiting \ ms, taken' = taken \cup ms,
               lost' = lost
        PROVE  [Promise!Next]_(Promise!mailbox)
    <3>1. W' = W \ ms /\ D' = D \cup ms /\ L' = L
      BY <1>1, <2>1, <2>5
    <3> QED  BY <1>2, <3>1
  <2>6. ASSUME NEW ms \in SUBSET waiting, waiting' = waiting \ ms, lost' = lost \cup ms,
               taken' = taken
        PROVE  [Promise!Next]_(Promise!mailbox)
    <3>1. W' = W \ ms /\ D' = D /\ L' = L \cup ms
      BY <1>1, <2>1, <2>6
    <3> QED  BY <1>3, <3>1
  <2>7. ASSUME waiting' = waiting, taken' = taken, lost' = lost
        PROVE  [Promise!Next]_(Promise!mailbox)
    <3>1. W' = W /\ D' = D /\ L' = L
      BY <2>1, <2>7
    <3> QED  BY <1>4, <3>1
  <2> QED  BY <2>2, <2>3, <2>4, <2>5, <2>6, <2>7
<1>6. CASE Takes \/ Loses
  <2>1. /\ Backend!IInv' /\ taken' = taken \cup waiting /\ displaced' = displaced
        /\ discarded' = discarded /\ waiting' = {}
    BY <1>6, QueueEmptied DEF Takes, Loses, Queue!Elements
  <2>2. CASE Takes
    <3>1. InHand' = InHand \cup waiting /\ shown' = shown /\ unspoken' = unspoken
      BY <2>2 DEF Takes, history
    <3>2. W' = W /\ D' = D /\ L' = L
      BY <1>1, <2>1, <3>1
    <3>3. AllTaken'
      BY <1>1, <2>1, <3>1 DEF AllTaken
    <3> QED  BY <1>4, <2>1, <3>2, <3>3
  <2>3. CASE Loses
    <3>1. InHand' = InHand /\ shown' = shown /\ unspoken' = unspoken \cup waiting
      BY <2>3 DEF Loses
    <3>2. W' = W \ waiting /\ D' = D /\ L' = L \cup waiting
      BY <1>1, <2>1, <3>1
    <3>3. AllTaken'
      BY <1>1, <2>1, <3>1 DEF AllTaken
    <3> QED  BY <1>3, <2>1, <3>2, <3>3
  <2> QED  BY <1>6, <2>2, <2>3
<1>7. ASSUME UNCHANGED queueVars
      PROVE  /\ Backend!IInv' /\ taken' = taken /\ lost' = lost /\ waiting' = waiting
             /\ displaced' = displaced /\ discarded' = discarded
  BY <1>7, QueueSteps DEF queueVars, Queue!Elements
<1>8. CASE Shows
  <2>1. PICK m \in InHand : /\ InHand' = InHand \ {m} /\ shown' = shown \cup {m}
                            /\ UNCHANGED <<queueVars, unspoken>>
    BY <1>8 DEF Shows
  <2>2. W' = W \ {m} /\ D' = D \cup {m} /\ L' = L /\ {m} \in SUBSET W
    BY <1>1, <1>7, <2>1
  <2>3. AllTaken'
    BY <1>1, <1>7, <2>1 DEF AllTaken
  <2> QED  BY <1>2, <1>7, <2>1, <2>2, <2>3
<1>9. CASE Drops
  <2>1. PICK ms \in SUBSET InHand : /\ InHand' = InHand \ ms /\ unspoken' = unspoken \cup ms
                                    /\ UNCHANGED <<queueVars, shown>>
    BY <1>9 DEF Drops
  <2>2. W' = W \ ms /\ D' = D /\ L' = L \cup ms /\ ms \in SUBSET W
    BY <1>1, <1>7, <2>1
  <2>3. AllTaken'
    BY <1>1, <1>7, <2>1 DEF AllTaken
  <2> QED  BY <1>3, <1>7, <2>1, <2>2, <2>3
<1> QED  BY <1>5, <1>6, <1>8, <1>9 DEF Movement

----
(* The channel and the batches, by what they hold.                         *)

\* A message is in hand if it is in a batch or in a Notice.
LEMMA HeldBy ==
  /\ \A m : m \in InHand <=> m \in Told \/ \E t \in Task : m \in Hands(t)
  /\ \A m : m \in InHand' <=> m \in Told' \/ \E t \in Task : m \in Hands(t)'
<1>1. ASSUME NEW m PROVE m \in InHand <=> m \in Told \/ \E t \in Task : m \in Hands(t)
  BY DEF InHand, Hands, Told, Notices
<1>2. ASSUME NEW m PROVE m \in InHand' <=> m \in Told' \/ \E t \in Task : m \in Hands(t)'
  BY DEF InHand, Hands, Told, Notices
<1> QED  BY <1>1, <1>2

LEMMA SendTells ==
  ASSUME channel \in Seq(Event), TellsOnce, NEW e \in Event, Send(e)
  PROVE  /\ channel' \in Seq(Event)
         /\ e.type # "Notice" => Told' = Told /\ TellsOnce'
         /\ e.type = "Notice" =>
              Told' = Told \cup {e.message} /\ (e.message \notin Told => TellsOnce')
<1> DEFINE n == Len(channel)
<1>1. /\ n \in Nat /\ channel' \in Seq(Event) /\ Len(channel') = n + 1
      /\ channel'[n + 1] = e /\ \A i \in 1..n : channel'[i] = channel[i]
  BY DEF Send
<1>2. 1..(n + 1) = (1..n) \cup {n + 1} /\ n + 1 \notin 1..n
  BY <1>1
<1>3. Notices \subseteq 1..n
  BY DEF Notices
<1> HIDE DEF n
<1>4. CASE e.type # "Notice"
  <2>1. Notices' = Notices
    BY <1>1, <1>2, <1>4 DEF Notices, n
  <2>2. Told' = Told /\ TellsOnce'
    BY <1>1, <1>3, <2>1 DEF Told, TellsOnce
  <2> QED  BY <1>1, <1>4, <2>2
<1>5. CASE e.type = "Notice"
  <2>1. Notices' = Notices \cup {n + 1}
    BY <1>1, <1>2, <1>5 DEF Notices, n
  <2>2. Told' = Told \cup {e.message}
    BY <1>1, <1>3, <2>1 DEF Told
  <2>3. ASSUME e.message \notin Told PROVE TellsOnce'
    BY <1>1, <1>3, <2>1, <2>3 DEF TellsOnce, Told
  <2> QED  BY <1>1, <1>5, <2>2, <2>3
<1> QED  BY <1>4, <1>5

LEMMA ReceiveTells ==
  ASSUME channel \in Seq(Event), TellsOnce, NEW type, Receive(type)
  PROVE  /\ channel' \in Seq(Event) /\ TellsOnce'
         /\ Head(channel) \in Event /\ Head(channel).type = type
         /\ type # "Notice" => Told' = Told
         /\ type = "Notice" =>
              Head(channel).message \in Told /\ Told' = Told \ {Head(channel).message}
<1> DEFINE n == Len(channel)
           first == Head(channel)
<1>1. /\ n \in Nat \ {0} /\ channel' \in Seq(Event) /\ Len(channel') = n - 1
      /\ first = channel[1] /\ first \in Event /\ first.type = type
      /\ \A i \in 1..(n - 1) : channel'[i] = channel[i + 1]
  BY DEF Receive
<1> HIDE DEF n, first
<1>2. \A i \in 1..(n - 1) : i + 1 \in 1..n
  BY <1>1
<1>3. \A i \in Notices' : i \in 1..(n - 1) /\ i + 1 \in Notices /\ channel'[i] = channel[i + 1]
  BY <1>1, <1>2 DEF Notices, n
<1>4. ASSUME NEW i \in Notices, i # 1
      PROVE  i - 1 \in Notices' /\ channel'[i - 1] = channel[i]
  <2>1. i \in 1..n /\ channel[i].type = "Notice"
    BY DEF Notices, n
  <2>2. i - 1 \in 1..(n - 1) /\ (i - 1) + 1 = i
    BY <1>1, <1>4, <2>1
  <2>3. channel'[i - 1] = channel[i]
    BY <1>1, <2>2
  <2> QED  BY <1>1, <2>1, <2>2, <2>3 DEF Notices
<1>5. TellsOnce'
  <2> SUFFICES ASSUME NEW i \in Notices', NEW j \in Notices',
                      channel'[i].message = channel'[j].message
               PROVE  i = j
    BY DEF TellsOnce
  <2>1. i + 1 = j + 1
    BY <1>3 DEF TellsOnce
  <2> QED  BY <1>1, <1>3, <2>1
<1>6. Told' \subseteq Told
  BY <1>3 DEF Told
<1>7. ASSUME NEW m \in Told PROVE m \in Told' \/ (type = "Notice" /\ m = first.message)
  <2>1. PICK i \in Notices : channel[i].message = m
    BY DEF Told
  <2>2. CASE i = 1
    BY <1>1, <2>1, <2>2 DEF Notices
  <2>3. CASE i # 1
    BY <1>4, <2>1, <2>3 DEF Told
  <2> QED  BY <2>2, <2>3
<1>8. ASSUME type = "Notice" PROVE first.message \in Told /\ first.message \notin Told'
  <2>1. 1 \in Notices
    BY <1>1, <1>8 DEF Notices, n
  <2>2. first.message \in Told
    BY <1>1, <2>1 DEF Told
  <2>3. ASSUME first.message \in Told' PROVE FALSE
    <3>1. PICK i \in Notices' : channel'[i].message = first.message
      BY <2>3 DEF Told
    <3>2. i + 1 \in Notices /\ channel[i + 1].message = channel[1].message
      BY <1>1, <1>3, <3>1
    <3>3. i + 1 = 1
      BY <2>1, <3>2 DEF TellsOnce
    <3> QED  BY <1>1, <1>3, <3>1, <3>3
  <2> QED  BY <2>2, <2>3
<1> QED  BY <1>1, <1>5, <1>6, <1>7, <1>8 DEF first

\* One task's record is replaced.
LEMMA OneTaskChanges ==
  ASSUME tasks \in [Task -> TaskState], NEW t \in Task, NEW new \in TaskState,
         tasks' = [tasks EXCEPT ![t] = new]
  PROVE  /\ tasks' \in [Task -> TaskState] /\ tasks'[t] = new
         /\ \A u \in Task \ {t} : tasks'[u] = tasks[u] /\ Hands(u)' = Hands(u)
         /\ Hands(t)' = Queue!Elements(new.batch)
<1>1. /\ tasks' \in [Task -> TaskState] /\ tasks'[t] = new
      /\ \A u \in Task \ {t} : tasks'[u] = tasks[u]
  OBVIOUS
<1> QED  BY <1>1 DEF Hands

\* No batch changes, and no Notice comes or goes.
LEMMA NobodyMoves ==
  ASSUME OneHolder, \A t \in Task : tasks'[t].batch = tasks[t].batch, Told' = Told, TellsOnce'
  PROVE  OneHolder' /\ InHand' = InHand
<1>1. \A t \in Task : Hands(t)' = Hands(t)
  BY DEF Hands
<1>2. InHand' = InHand
  BY <1>1, HeldBy
<1> QED  BY <1>1, <1>2 DEF OneHolder

----
(* Actions that leave the messages in hand where they are.                 *)

Kept == AppTypes' /\ Shapes' /\ Batches' /\ OneHolder' /\ Movement

LEMMA EventFacts ==
  /\ \A k \in Key : [type |-> "Key", key |-> k] \in Event
  /\ \A up \in BOOLEAN : [type |-> "ServerStatus", online |-> up] \in Event
  /\ \A m \in Queue!Message : [type |-> "Notice", message |-> m] \in Event
  /\ \A type \in {"Clip", "NoticesWaiting", "StreamDone", "Error"} : [type |-> type] \in Event
  /\ StreamDone \in Event /\ StreamDone.type = "StreamDone"
  /\ Error \in Event /\ Error.type = "Error"
  /\ \A e \in Event : e.type = "ServerStatus" => e.online \in BOOLEAN
BY DEF Event, StreamDone, Error

LEMMA CancelLeavesBatches ==
  ASSUME tasks \in [Task -> TaskState], NEW c
  PROVE  /\ CancelTask(c) \in [Task -> TaskState]
         /\ \A t \in Task : /\ CancelTask(c)[t].batch = tasks[t].batch
                            /\ CancelTask(c)[t].kind = tasks[t].kind
                            /\ CancelTask(c)[t].phase = tasks[t].phase
<1>1. CASE c \in Task
  <2> DEFINE new == [tasks[c] EXCEPT !.cancelled = TRUE]
  <2>1. /\ new \in TaskState /\ new.batch = tasks[c].batch
        /\ new.kind = tasks[c].kind /\ new.phase = tasks[c].phase
    BY <1>1 DEF TaskState
  <2>2. CancelTask(c) \in {tasks, [tasks EXCEPT ![c] = new]}
    BY <1>1 DEF CancelTask
  <2> HIDE DEF new
  <2>3. CASE CancelTask(c) = [tasks EXCEPT ![c] = new]
    BY <1>1, <2>1, <2>3
  <2> QED  BY <2>2, <2>3
<1>2. CASE c \notin Task
  <2>1. CancelTask(c) = tasks
    BY <1>2 DEF CancelTask
  <2> QED  BY <2>1
<1> QED  BY <1>1, <1>2

\* A new task has no batch, and takes the place of one that had none.
LEMMA SpawnLeavesBatches ==
  ASSUME Shapes, Batches, NEW t \in Task, NEW kind, NEW phase, Spawn(t, kind, phase),
         \/ kind = "speech" /\ phase = "speak"
         \/ kind = "announce" /\ phase = "fetch"
  PROVE  /\ tasks' \in [Task -> TaskState] /\ cancelTx' \in Task /\ Batches'
         /\ \A u \in Task : tasks'[u].batch = tasks[u].batch
<1> DEFINE cancelled == CancelTask(cancelTx)
           new == [Over EXCEPT !.kind = kind, !.phase = phase]
<1>1. /\ cancelled \in [Task -> TaskState]
      /\ \A u \in Task : /\ cancelled[u].batch = tasks[u].batch
                         /\ cancelled[u].kind = tasks[u].kind
                         /\ cancelled[u].phase = tasks[u].phase
  BY CancelLeavesBatches DEF Shapes
<1>2. new \in TaskState /\ new.kind = kind /\ new.phase = phase /\ new.batch = <<>>
  <2>1. Over \in TaskState /\ Over.batch = <<>>
    BY DEF Over, TaskState
  <2>2. kind \in {"speech", "announce"} /\ phase \in {"speak", "fetch"}
    OBVIOUS
  <2> QED  BY <2>1, <2>2 DEF TaskState
<1>3. tasks[t].batch = <<>>
  BY DEF Spawn, Live, Batches
<1>4. tasks' = [cancelled EXCEPT ![t] = new] /\ cancelTx' = t
  BY DEF Spawn
<1> HIDE DEF cancelled, new
<1>5. /\ tasks' \in [Task -> TaskState] /\ tasks'[t] = new
      /\ \A u \in Task \ {t} : tasks'[u] = cancelled[u]
  BY <1>1, <1>2, <1>4
<1>6. \A u \in Task : tasks'[u].batch = tasks[u].batch
  BY <1>1, <1>2, <1>3, <1>5
<1>7. Batches'
  <2> SUFFICES ASSUME NEW u \in Task
               PROVE  /\ tasks'[u].phase = "fetch" => tasks'[u].kind = "announce"
                      /\ tasks'[u].kind # "announce" \/ tasks'[u].phase \in {"fetch", "over"}
                           => tasks'[u].batch = <<>>
    BY DEF Batches
  <2>1. CASE u = t
    BY <1>2, <1>5, <2>1
  <2>2. CASE u # t
    BY <1>1, <1>5, <2>2 DEF Batches
  <2> QED  BY <2>1, <2>2
<1> QED  BY <1>4, <1>5, <1>6, <1>7

LEMMA LeavesKept ==
  ASSUME HoldInv, AppTypes', Shapes', Batches', TellsOnce', Told' = Told,
         \A t \in Task : tasks'[t].batch = tasks[t].batch,
         UNCHANGED history, Queue!Next \/ UNCHANGED queueVars
  PROVE  Kept
BY NobodyMoves DEF HoldInv, Kept, Movement, Leaves

LEMMA OutsideKept ==
  ASSUME HoldInv, BackendStep \/ PressKey \/ CopyText \/ CheckHealth \/ PollNotices
  PROVE  Kept
<1>1. /\ tasks' = tasks /\ UNCHANGED history /\ (Queue!Next \/ UNCHANGED queueVars)
      /\ tasks \in [Task -> TaskState] /\ channel \in Seq(Event) /\ TellsOnce
  BY DEF HoldInv, Shapes, OneHolder, BackendStep, PressKey, CopyText, CheckHealth, PollNotices
<1>2. AppTypes'
  BY DEF HoldInv, AppTypes, BackendStep, PressKey, CopyText, CheckHealth, PollNotices,
    appVars, settingsVars
<1>3. Batches'
  BY <1>1 DEF HoldInv, Batches
<1>4. channel' \in Seq(Event) /\ TellsOnce' /\ Told' = Told
  <2>1. CASE BackendStep
    BY <1>1, <2>1 DEF BackendStep, TellsOnce, Told, Notices
  <2>2. CASE PressKey \/ CopyText \/ CheckHealth \/ PollNotices
    <3>1. \E e \in Event : Send(e) /\ e.type # "Notice"
      <4>1. CASE PressKey
        BY <4>1, EventFacts DEF PressKey
      <4>2. CASE CopyText
        BY <4>2, EventFacts DEF CopyText
      <4>3. CASE CheckHealth
        BY <4>3, EventFacts DEF CheckHealth
      <4>4. CASE PollNotices
        BY <4>4, EventFacts DEF PollNotices
      <4> QED  BY <2>2, <4>1, <4>2, <4>3, <4>4
    <3> QED  BY <1>1, <3>1, SendTells
  <2> QED  BY <2>1, <2>2
<1> QED  BY <1>1, <1>2, <1>3, <1>4, LeavesKept DEF Shapes

\* A handler of any event but a Notice: it may cancel a task or start one.
LEMMA HandlerKept ==
  ASSUME HoldInv, NEW type, type # "Notice", Receive(type), AppTypes', UNCHANGED history,
         \/ tasks' = tasks
         \/ tasks' = CancelTask(cancelTx)
         \/ \E t \in Task : Spawn(t, "speech", "speak") \/ Spawn(t, "announce", "fetch")
  PROVE  Kept
<1>1. Shapes /\ Batches /\ TellsOnce /\ UNCHANGED queueVars
  BY DEF HoldInv, OneHolder, Receive
<1>2. channel' \in Seq(Event) /\ TellsOnce' /\ Told' = Told
  BY <1>1, ReceiveTells DEF Shapes
<1>3. /\ tasks' \in [Task -> TaskState] /\ Batches'
      /\ \A t \in Task : tasks'[t].batch = tasks[t].batch
  <2>1. CASE tasks' = tasks
    BY <1>1, <2>1 DEF Shapes, Batches
  <2>2. CASE tasks' = CancelTask(cancelTx)
    <3>1. /\ tasks' \in [Task -> TaskState]
          /\ \A t \in Task : /\ tasks'[t].batch = tasks[t].batch
                             /\ tasks'[t].kind = tasks[t].kind
                             /\ tasks'[t].phase = tasks[t].phase
      BY <1>1, <2>2, CancelLeavesBatches DEF Shapes
    <3> QED  BY <1>1, <3>1 DEF Batches
  <2>3. CASE \E t \in Task : Spawn(t, "speech", "speak") \/ Spawn(t, "announce", "fetch")
    BY <1>1, <2>3, SpawnLeavesBatches
  <2> QED  BY <2>1, <2>2, <2>3
<1> QED  BY <1>1, <1>2, <1>3, LeavesKept DEF Shapes

LEMMA HandleKept ==
  ASSUME HoldInv, Handle, ~HandleNotice PROVE Kept
<1> USE DEF HoldInv
<1>1. ASSUME NEW m \in Mode, SwitchTo(m), reachable' = reachable
      PROVE  AppTypes' /\ tasks' = tasks /\ UNCHANGED history
  BY <1>1 DEF SwitchTo, AppTypes, settingsVars
<1>2. ASSUME StartGeneration, reachable' = reachable
      PROVE  /\ AppTypes' /\ UNCHANGED history
             /\ \E t \in Task : Spawn(t, "speech", "speak")
  BY <1>2 DEF StartGeneration, Spawn, AppTypes, settingsVars, Mode
<1>3. ASSUME NEW type, Receive(type) PROVE reachable' = reachable
  BY <1>3 DEF Receive
<1>4. CASE HandleKey
  <2> DEFINE k == Head(channel).key
  <2>0. Receive("Key") /\ reachable' = reachable
    BY <1>3, <1>4 DEF HandleKey
  <2>1. CASE \E m \in Mode : SwitchTo(m)
    BY <1>1, <2>0, <2>1, HandlerKept
  <2>2. CASE StartGeneration
    BY <1>2, <2>0, <2>2, HandlerKept
  <2>3. CASE Cancel
    <3>1. AppTypes' /\ tasks' = CancelTask(cancelTx) /\ UNCHANGED history
      BY <2>0, <2>3 DEF Cancel, AppTypes, settingsVars, Mode
    <3> QED  BY <2>0, <3>1, HandlerKept
  <2>4. CASE mode = "Settings" /\ editing /\ EditUrlKey(k)
    <3>1. AppTypes' /\ tasks' = tasks /\ UNCHANGED history
      BY <2>0, <2>4 DEF EditUrlKey, AppTypes
    <3> QED  BY <2>0, <3>1, HandlerKept
  <2>5. CASE /\ editing' = TRUE
             /\ UNCHANGED <<mode, online, announcing, urlChanged, cancelTx, tasks, history>>
    <3>1. AppTypes' /\ tasks' = tasks /\ UNCHANGED history
      BY <2>0, <2>5 DEF AppTypes
    <3> QED  BY <2>0, <3>1, HandlerKept
  <2>6. mode \in Mode /\ {"Normal", "VoiceMenu", "Settings", "Help"} \subseteq Mode
    BY DEF AppTypes, Mode
  <2>7. NormalKey(k) => StartGeneration \/ \E m \in Mode : SwitchTo(m)
    BY <2>6 DEF NormalKey
  <2>8. VoiceMenuKey(k) => \E m \in Mode : SwitchTo(m)
    BY <2>6 DEF VoiceMenuKey
  <2>9. SettingsKey(k) =>
          \/ \E m \in Mode : SwitchTo(m)
          \/ /\ editing' = TRUE
             /\ UNCHANGED <<mode, online, announcing, urlChanged, cancelTx, tasks, history>>
    BY <2>6 DEF SettingsKey
  <2> QED
    BY <1>4, <2>1, <2>2, <2>3, <2>4, <2>5, <2>6, <2>7, <2>8, <2>9 DEF HandleKey
<1>5. CASE HandleClip
  <2>0. Receive("Clip") /\ reachable' = reachable
    BY <1>3, <1>5 DEF HandleClip
  <2>1. CASE StartGeneration
    BY <1>2, <2>0, <2>1, HandlerKept
  <2>2. CASE SwitchTo(mode)
    BY <1>1, <2>0, <2>2, HandlerKept DEF AppTypes
  <2> QED  BY <1>5, <2>1, <2>2 DEF HandleClip
<1>6. CASE HandleServerStatus
  <2>1. Receive("ServerStatus") /\ reachable' = reachable
    BY <1>3, <1>6 DEF HandleServerStatus
  <2>2. Head(channel) \in Event /\ Head(channel).type = "ServerStatus"
    BY <2>1, ReceiveTells DEF Shapes, OneHolder
  <2>3. online' \in BOOLEAN
    BY <1>6, <2>2, EventFacts DEF HandleServerStatus
  <2>4. AppTypes' /\ tasks' = tasks /\ UNCHANGED history
    BY <1>6, <2>1, <2>3 DEF HandleServerStatus, AppTypes, settingsVars
  <2> QED  BY <2>1, <2>4, HandlerKept
<1>7. CASE HandleNoticesWaiting
  <2>0. Receive("NoticesWaiting") /\ reachable' = reachable
    BY <1>3, <1>7 DEF HandleNoticesWaiting
  <2>1. CASE StartAnnouncing
    <3>1. /\ AppTypes' /\ UNCHANGED history
          /\ \E t \in Task : Spawn(t, "announce", "fetch")
      BY <2>0, <2>1 DEF StartAnnouncing, Spawn, AppTypes, settingsVars, Mode, Busy
    <3> QED  BY <2>0, <3>1, HandlerKept
  <2>2. CASE SwitchTo(mode)
    BY <1>1, <2>0, <2>2, HandlerKept DEF AppTypes
  <2> QED  BY <1>7, <2>1, <2>2 DEF HandleNoticesWaiting
<1>8. CASE HandleStreamDone
  <2>1. Receive("StreamDone") /\ reachable' = reachable
    BY <1>3, <1>8 DEF HandleStreamDone
  <2>2. AppTypes' /\ tasks' = tasks /\ UNCHANGED history
    BY <1>8, <2>1 DEF HandleStreamDone, AppTypes, settingsVars, Mode
  <2> QED  BY <2>1, <2>2, HandlerKept
<1>9. CASE HandleError
  <2>1. Receive("Error") /\ reachable' = reachable /\ "Error" \in Mode /\ SwitchTo("Error")
    BY <1>3, <1>9 DEF HandleError, Mode
  <2> QED  BY <1>1, <2>1, HandlerKept
<1> QED  BY <1>4, <1>5, <1>6, <1>7, <1>8, <1>9 DEF Handle

LEMMA ReconnectKept ==
  ASSUME HoldInv, Reconnect PROVE Kept
<1>1. /\ tasks' = tasks /\ channel' = channel /\ UNCHANGED history /\ UNCHANGED queueVars
      /\ AppTypes'
  BY DEF Reconnect, HoldInv, AppTypes, history
<1>2. Shapes' /\ Batches' /\ TellsOnce' /\ Told' = Told
  BY <1>1 DEF HoldInv, Shapes, Batches, OneHolder, TellsOnce, Told, Notices
<1> QED  BY <1>1, <1>2, LeavesKept

\* A task that returns has nothing in hand, and what it sends is no Notice.
LEMMA ReturnKept ==
  ASSUME HoldInv, NEW t \in Task, NEW e \in Event, e.type # "Notice", Return(t, e),
         tasks[t].batch = <<>>
  PROVE  Kept
<1>1. Shapes /\ Batches /\ TellsOnce /\ AppTypes
  BY DEF HoldInv, OneHolder
<1>2. /\ tasks' = [tasks EXCEPT ![t] = Over] /\ Send(e) /\ UNCHANGED queueVars
      /\ UNCHANGED history /\ AppTypes'
  BY <1>1 DEF Return, AppTypes, appVars, settingsVars
<1>3. Over \in TaskState /\ Over.batch = <<>> /\ Over.kind = "none" /\ Over.phase = "over"
  BY DEF TaskState, Over
<1>4. channel' \in Seq(Event) /\ TellsOnce' /\ Told' = Told
  BY <1>1, <1>2, SendTells DEF Shapes
<1>5. /\ tasks' \in [Task -> TaskState] /\ tasks'[t] = Over
      /\ \A u \in Task \ {t} : tasks'[u] = tasks[u]
  BY <1>1, <1>2, <1>3, OneTaskChanges DEF Shapes
<1>6. Batches' /\ \A u \in Task : tasks'[u].batch = tasks[u].batch
  <2>1. \A u \in Task : tasks'[u] = tasks[u] \/ (tasks'[u] = Over /\ u = t)
    BY <1>5
  <2>2. \A u \in Task : tasks'[u].batch = tasks[u].batch
    BY <1>3, <2>1
  <2> QED  BY <1>1, <1>3, <2>1, <2>2 DEF Batches
<1> QED  BY <1>2, <1>4, <1>5, <1>6, LeavesKept DEF Shapes

LEMMA SpeechKept ==
  ASSUME HoldInv, NEW t \in Task, SpeechCancelled(t) \/ SpeechDone(t) \/ SpeechFailed(t)
  PROVE  Kept
<1>1. tasks[t].kind = "speech" /\ (Return(t, StreamDone) \/ Return(t, Error))
  BY DEF SpeechCancelled, SpeechDone, SpeechFailed
<1>2. tasks[t].batch = <<>>
  BY <1>1 DEF HoldInv, Batches
<1> QED  BY <1>1, <1>2, ReturnKept, EventFacts

----
(* Actions that move messages.                                             *)

LEMMA NoticeKept ==
  ASSUME HoldInv, HandleNotice PROVE Kept
<1> DEFINE m == Head(channel).message
<1>1. /\ Receive("Notice") /\ UNCHANGED <<appVars, tasks, unspoken, queueVars, reachable>>
      /\ shown' = shown \cup {m}
      /\ tasks \in [Task -> TaskState] /\ channel \in Seq(Event) /\ OneHolder /\ Batches
  BY DEF HandleNotice, Receive, HoldInv, Shapes
<1>2. /\ channel' \in Seq(Event) /\ TellsOnce' /\ m \in Told /\ Told' = Told \ {m}
  BY <1>1, ReceiveTells DEF OneHolder
<1> HIDE DEF m
<1>3. AppTypes' /\ Batches'
  BY <1>1 DEF HoldInv, AppTypes, appVars, settingsVars, Batches
<1>4. \A t \in Task : Hands(t)' = Hands(t) /\ m \notin Hands(t)
  BY <1>1, <1>2 DEF Hands, OneHolder
<1>5. OneHolder'
  BY <1>1, <1>2, <1>4 DEF OneHolder
<1>6. m \in InHand /\ InHand' = InHand \ {m}
  BY <1>2, <1>4, HeldBy
<1>7. Shows
  BY <1>1, <1>6 DEF Shows
<1> QED  BY <1>1, <1>2, <1>3, <1>5, <1>7 DEF Kept, Shapes, Movement

LEMMA ExitKept ==
  ASSUME HoldInv, Exit PROVE Kept
<1>1. /\ tasks' = [t \in Task |-> Over] /\ channel' = <<>> /\ unspoken' = unspoken \cup InHand
      /\ UNCHANGED <<queueVars, shown>>
  BY DEF Exit
<1>2. Over \in TaskState /\ Over.batch = <<>> /\ Over.phase = "over"
  BY DEF Over, TaskState
<1>3. AppTypes'
  BY DEF Exit, AppTypes, Mode
<1>4. Shapes' /\ \A t \in Task : tasks'[t] = Over
  BY <1>1, <1>2 DEF Shapes
<1>5. Batches'
  BY <1>2, <1>4 DEF Batches
<1>6. Told' = {} /\ TellsOnce' /\ \A t \in Task : Hands(t)' = {}
  BY <1>1, <1>2, <1>4 DEF Told, TellsOnce, Notices, Hands, Queue!Elements
<1>7. OneHolder'
  BY <1>2, <1>4, <1>6 DEF OneHolder, Distinct
<1>8. InHand' = InHand \ InHand
  BY <1>6, HeldBy
<1>9. Drops
  BY <1>1, <1>8 DEF Drops
<1> QED  BY <1>3, <1>4, <1>5, <1>7, <1>9 DEF Kept, Movement

\* What is left of a batch when its first message has been sent off.
LEMMA TailFacts ==
  ASSUME NEW S, NEW q \in Seq(S), q # <<>>, Distinct(q)
  PROVE  /\ Tail(q) \in Seq(S) /\ Distinct(Tail(q)) /\ Head(q) \in Queue!Elements(q)
         /\ Queue!Elements(Tail(q)) = Queue!Elements(q) \ {Head(q)}
<1> DEFINE n == Len(q)
           rest == Tail(q)
           first == Head(q)
<1>1. /\ n \in Nat \ {0} /\ rest \in Seq(S) /\ Len(rest) = n - 1 /\ first = q[1]
      /\ \A i \in 1..(n - 1) : rest[i] = q[i + 1]
  OBVIOUS
<1>2. \A i, j \in 1..n : q[i] = q[j] => i = j
  BY DEF Distinct
<1>3. Queue!Elements(q) = {q[i] : i \in 1..n} /\ Queue!Elements(rest) = {rest[i] : i \in 1..(n - 1)}
  BY <1>1 DEF Queue!Elements
<1> HIDE DEF n, rest, first
<1>4. \A i \in 1..(n - 1) : i + 1 \in 1..n /\ i + 1 # 1
  BY <1>1
<1>5. \A i \in 1..n : i = 1 \/ (i - 1 \in 1..(n - 1) /\ (i - 1) + 1 = i)
  BY <1>1
<1>6. 1 \in 1..n
  BY <1>1
<1>7. Distinct(rest)
  <2> SUFFICES ASSUME NEW i \in 1..(n - 1), NEW j \in 1..(n - 1), rest[i] = rest[j] PROVE i = j
    BY <1>1 DEF Distinct
  <2>1. i + 1 = j + 1
    BY <1>1, <1>2, <1>4
  <2> QED  BY <1>1, <2>1
<1>8. Queue!Elements(rest) \subseteq Queue!Elements(q) \ {first}
  BY <1>1, <1>2, <1>3, <1>4, <1>6
<1>9. Queue!Elements(q) \ {first} \subseteq Queue!Elements(rest)
  <2> SUFFICES ASSUME NEW i \in 1..n, q[i] # first PROVE q[i] \in Queue!Elements(rest)
    BY <1>3
  <2>1. i - 1 \in 1..(n - 1) /\ (i - 1) + 1 = i
    BY <1>1, <1>5
  <2>2. rest[i - 1] = q[i]
    BY <1>1, <2>1
  <2> QED  BY <1>3, <2>1, <2>2
<1> QED  BY <1>1, <1>3, <1>6, <1>7, <1>8, <1>9 DEF first, rest

\* An announcement goes on; what it has in hand may change.
LEMMA AnnouncementGoesOn ==
  ASSUME HoldInv, NEW t \in Task, tasks[t].kind = "announce",
         NEW phase \in {"next", "speak"}, NEW batch \in Seq(Queue!Message),
         tasks' = [tasks EXCEPT ![t] = [tasks[t] EXCEPT !.phase = phase, !.batch = batch]]
  PROVE  /\ tasks' \in [Task -> TaskState] /\ Batches'
         /\ tasks'[t].batch = batch /\ Hands(t)' = Queue!Elements(batch)
         /\ \A u \in Task \ {t} : tasks'[u] = tasks[u] /\ Hands(u)' = Hands(u)
<1> DEFINE new == [tasks[t] EXCEPT !.phase = phase, !.batch = batch]
<1>1. tasks \in [Task -> TaskState] /\ Batches
  BY DEF HoldInv, Shapes
<1>2. /\ new \in TaskState /\ new.kind = "announce" /\ new.phase = phase /\ new.batch = batch
  BY <1>1 DEF TaskState
<1>3. tasks' = [tasks EXCEPT ![t] = new]
  OBVIOUS
<1> HIDE DEF new
<1>4. /\ tasks' \in [Task -> TaskState] /\ tasks'[t] = new
      /\ \A u \in Task \ {t} : tasks'[u] = tasks[u] /\ Hands(u)' = Hands(u)
      /\ Hands(t)' = Queue!Elements(new.batch)
  BY <1>1, <1>2, <1>3, OneTaskChanges
<1>5. \A u \in Task : tasks'[u] = tasks[u] \/ tasks'[u] = new
  BY <1>4
<1>6. Batches'
  BY <1>1, <1>2, <1>5 DEF Batches
<1> QED  BY <1>2, <1>4, <1>6

\* No message is held twice if the one task that changes takes nobody else's.
LEMMA OneChangedHand ==
  ASSUME OneHolder, NEW t \in Task, Distinct(tasks'[t].batch), TellsOnce',
         \A u \in Task \ {t} : tasks'[u] = tasks[u] /\ Hands(u)' = Hands(u),
         \A u \in Task \ {t} : Hands(t)' \cap Hands(u) = {} /\ Hands(u) \cap Told' = {},
         Hands(t)' \cap Told' = {}
  PROVE  OneHolder'
<1>1. \A u \in Task : Distinct(tasks'[u].batch)
  BY DEF OneHolder
<1>2. ASSUME NEW u \in Task, NEW w \in Task, u # w PROVE Hands(u)' \cap Hands(w)' = {}
  <2>1. CASE u = t
    BY <1>2, <2>1
  <2>2. CASE w = t
    BY <1>2, <2>2
  <2>3. CASE u # t /\ w # t
    BY <1>2, <2>3 DEF OneHolder
  <2> QED  BY <2>1, <2>2, <2>3
<1>3. \A u \in Task : Hands(u)' \cap Told' = {}
  OBVIOUS
<1> QED  BY <1>1, <1>2, <1>3 DEF OneHolder

LEMMA AnnounceKept ==
  ASSUME HoldInv, NEW t \in Task, AnnounceStep(t) PROVE Kept
<1>1. /\ tasks \in [Task -> TaskState] /\ channel \in Seq(Event) /\ Batches /\ OneHolder
      /\ TellsOnce /\ AppTypes /\ Backend!IInv /\ tasks[t] \in TaskState
      /\ tasks[t].batch \in Seq(Queue!Message)
  BY DEF HoldInv, Shapes, OneHolder, TaskState
<1>2. ASSUME UNCHANGED <<appVars, reachable>> PROVE AppTypes'
  BY <1>1, <1>2 DEF AppTypes, appVars, settingsVars
<1>3. ASSUME channel' = channel PROVE Told' = Told /\ TellsOnce' /\ channel' \in Seq(Event)
  BY <1>1, <1>3 DEF Told, TellsOnce, Notices
<1>4. ASSUME Send(Error) PROVE Told' = Told /\ TellsOnce' /\ channel' \in Seq(Event)
  BY <1>1, <1>4, SendTells, EventFacts
<1>5. CASE FetchAnswered(t)
  <2>1. /\ Queue!Consume(0) /\ channel' = channel /\ UNCHANGED history /\ AppTypes'
        /\ tasks' = [tasks EXCEPT ![t] = [tasks[t] EXCEPT !.phase = "next", !.batch = items]]
        /\ tasks[t].phase = "fetch"
    BY <1>1, <1>2, <1>5 DEF FetchAnswered, TaskState
  <2>2. tasks[t].kind = "announce" /\ tasks[t].batch = <<>>
    BY <1>1, <2>1 DEF Batches
  <2>3. /\ items \in Seq(Queue!Message) /\ Distinct(items)
        /\ Queue!Elements(items) \cap taken = {} /\ InHand \subseteq taken
    BY <1>1, QueueFacts DEF HoldInv, AllTaken
  <2>4. /\ tasks' \in [Task -> TaskState] /\ Batches'
        /\ tasks'[t].batch = items /\ Hands(t)' = Queue!Elements(items)
        /\ \A u \in Task \ {t} : tasks'[u] = tasks[u] /\ Hands(u)' = Hands(u)
    BY <2>1, <2>2, <2>3, AnnouncementGoesOn
  <2>5. Hands(t) = {}
    BY <2>2 DEF Hands, Queue!Elements
  <2>6. Told' = Told /\ TellsOnce' /\ channel' \in Seq(Event)
    BY <1>3, <2>1
  <2>7. InHand' = InHand \cup Queue!Elements(items)
    BY <2>4, <2>5, <2>6, HeldBy
  <2>8. Told \subseteq taken /\ \A u \in Task : Hands(u) \subseteq taken
    BY <2>3, HeldBy
  <2>9. OneHolder'
    <3>1. \A u \in Task \ {t} : Hands(t)' \cap Hands(u) = {} /\ Hands(u) \cap Told' = {}
      BY <1>1, <2>3, <2>4, <2>6, <2>8 DEF OneHolder
    <3>2. Hands(t)' \cap Told' = {} /\ Distinct(tasks'[t].batch)
      BY <2>3, <2>4, <2>6, <2>8
    <3> QED  BY <1>1, <2>4, <2>6, <3>1, <3>2, OneChangedHand
  <2>10. Takes
    BY <2>1, <2>7 DEF Takes
  <2> QED  BY <2>1, <2>4, <2>6, <2>9, <2>10 DEF Kept, Shapes, Movement
<1>6. ASSUME NEW phase \in {"next", "speak"}, tasks[t].kind = "announce",
             tasks' = [tasks EXCEPT ![t] = [tasks[t] EXCEPT !.phase = phase,
                                                            !.batch = tasks[t].batch]]
      PROVE  /\ tasks' \in [Task -> TaskState] /\ Batches'
             /\ \A u \in Task : tasks'[u].batch = tasks[u].batch
  BY <1>1, <1>6, AnnouncementGoesOn
<1>7. CASE FetchFailed(t)
  <2>1. /\ Send(Error) /\ AppTypes' /\ shown' = shown /\ tasks[t].phase = "fetch"
        /\ tasks' = [tasks EXCEPT ![t] = [tasks[t] EXCEPT !.phase = "next",
                                                          !.batch = tasks[t].batch]]
        /\ \/ Queue!Consume(0) /\ unspoken' = unspoken \cup Queue!Elements(items)
           \/ UNCHANGED <<queueVars, unspoken>>
    BY <1>1, <1>2, <1>7 DEF FetchFailed, TaskState
  <2>2. tasks[t].kind = "announce"
    BY <1>1, <2>1 DEF Batches
  <2>3. /\ tasks' \in [Task -> TaskState] /\ Batches'
        /\ \A u \in Task : tasks'[u].batch = tasks[u].batch
    BY <1>6, <2>1, <2>2
  <2>4. Told' = Told /\ TellsOnce' /\ channel' \in Seq(Event)
    BY <1>4, <2>1
  <2>5. OneHolder' /\ InHand' = InHand
    BY <1>1, <2>3, <2>4, NobodyMoves
  <2>6. Loses \/ Leaves
    BY <2>1, <2>5 DEF Loses, Leaves, history
  <2> QED  BY <2>1, <2>3, <2>4, <2>5, <2>6 DEF Kept, Shapes, Movement
<1>8. CASE NextItem(t)
  <2> DEFINE q == tasks[t].batch
             m == Head(q)
             e == [type |-> "Notice", message |-> m]
  <2>1. /\ Send(e) /\ AppTypes' /\ UNCHANGED history /\ UNCHANGED queueVars
        /\ tasks[t].phase = "next" /\ q # <<>>
        /\ tasks' = [tasks EXCEPT ![t] = [tasks[t] EXCEPT !.phase = "speak", !.batch = Tail(q)]]
    BY <1>1, <1>2, <1>8 DEF NextItem, TaskState
  <2>2. tasks[t].kind = "announce" /\ Distinct(q) /\ q \in Seq(Queue!Message)
    BY <1>1, <2>1 DEF Batches, OneHolder
  <2>3. /\ Tail(q) \in Seq(Queue!Message) /\ Distinct(Tail(q)) /\ m \in Hands(t)
        /\ Queue!Elements(Tail(q)) = Hands(t) \ {m}
    BY <2>1, <2>2, TailFacts DEF Hands
  <2>4. /\ tasks' \in [Task -> TaskState] /\ Batches'
        /\ tasks'[t].batch = Tail(q) /\ Hands(t)' = Queue!Elements(Tail(q))
        /\ \A u \in Task \ {t} : tasks'[u] = tasks[u] /\ Hands(u)' = Hands(u)
    BY <2>1, <2>2, <2>3, AnnouncementGoesOn
  <2>5. m \in Queue!Message /\ m \notin Told
    BY <1>1, <2>1, <2>2, <2>3 DEF OneHolder
  <2>6. e \in Event /\ e.type = "Notice" /\ e.message = m
    BY <2>5, EventFacts
  <2>7. Told' = Told \cup {m} /\ TellsOnce' /\ channel' \in Seq(Event)
    BY <1>1, <2>1, <2>5, <2>6, SendTells
  <2> HIDE DEF q, m, e
  <2>8. Hands(t)' = Hands(t) \ {m} /\ m \in Hands(t)
    BY <2>3, <2>4
  <2>9. InHand' = InHand
    <3>1. ASSUME NEW x PROVE x \in InHand' <=> x \in InHand
      <4>1. x \in Told' <=> x \in Told \/ x = m
        BY <2>7
      <4>2. (\E u \in Task : x \in Hands(u)') <=>
              (x \in Hands(t)' \/ \E u \in Task \ {t} : x \in Hands(u))
        BY <2>4
      <4>3. (\E u \in Task : x \in Hands(u)) <=>
              (x \in Hands(t) \/ \E u \in Task \ {t} : x \in Hands(u))
        OBVIOUS
      <4> QED  BY <2>8, <4>1, <4>2, <4>3, HeldBy
    <3> QED  BY <3>1
  <2>10. OneHolder'
    <3>1. \A u \in Task \ {t} : Hands(t)' \cap Hands(u) = {} /\ Hands(u) \cap Told' = {}
      BY <1>1, <2>7, <2>8 DEF OneHolder
    <3>2. Hands(t)' \cap Told' = {}
      BY <1>1, <2>7, <2>8 DEF OneHolder
    <3>3. Distinct(tasks'[t].batch)
      BY <2>3, <2>4
    <3> QED  BY <1>1, <2>4, <2>7, <3>1, <3>2, <3>3, OneChangedHand
  <2>11. Leaves
    BY <2>1, <2>9 DEF Leaves
  <2> QED  BY <2>1, <2>4, <2>7, <2>10, <2>11 DEF Kept, Shapes, Movement
<1>9. CASE AnnouncementOver(t)
  BY <1>9, ReturnKept, EventFacts DEF AnnouncementOver
<1>10. CASE ItemSpoken(t)
  <2>1. /\ channel' = channel /\ AppTypes' /\ UNCHANGED history /\ UNCHANGED queueVars
        /\ tasks[t].kind = "announce"
        /\ tasks' = [tasks EXCEPT ![t] = [tasks[t] EXCEPT !.phase = "next",
                                                          !.batch = tasks[t].batch]]
    BY <1>1, <1>2, <1>10 DEF ItemSpoken, Speaking, TaskState
  <2>2. /\ tasks' \in [Task -> TaskState] /\ Batches'
        /\ \A u \in Task : tasks'[u].batch = tasks[u].batch
    BY <1>6, <2>1
  <2> QED  BY <1>3, <2>1, <2>2, LeavesKept DEF Shapes
<1>11. CASE ItemCancelled(t) \/ ItemFailed(t)
  <2>1. /\ AppTypes' /\ UNCHANGED <<queueVars, shown>> /\ tasks[t].kind = "announce"
        /\ unspoken' = unspoken \cup Hands(t)
        /\ tasks' = [tasks EXCEPT ![t] = [tasks[t] EXCEPT !.phase = "next", !.batch = <<>>]]
        /\ channel' = channel \/ Send(Error)
    BY <1>1, <1>2, <1>11 DEF ItemCancelled, ItemFailed, DropRest, Speaking, Hands, TaskState
  <2>2. /\ tasks' \in [Task -> TaskState] /\ Batches'
        /\ tasks'[t].batch = <<>> /\ Hands(t)' = Queue!Elements(<<>>)
        /\ \A u \in Task \ {t} : tasks'[u] = tasks[u] /\ Hands(u)' = Hands(u)
    <3>1. <<>> \in Seq(Queue!Message)
      OBVIOUS
    <3> QED  BY <2>1, <3>1, AnnouncementGoesOn
  <2>3. Hands(t)' = {} /\ Distinct(<<>>)
    BY <2>2 DEF Queue!Elements, Distinct
  <2>4. Told' = Told /\ TellsOnce' /\ channel' \in Seq(Event)
    BY <1>3, <1>4, <2>1
  <2>5. OneHolder'
    BY <1>1, <2>2, <2>3, <2>4 DEF OneHolder
  <2>6. InHand' = InHand \ Hands(t) /\ Hands(t) \subseteq InHand
    <3>1. Hands(t) \cap Told = {} /\ \A u \in Task \ {t} : Hands(t) \cap Hands(u) = {}
      BY <1>1 DEF OneHolder
    <3>2. t \in Task /\ Told' = Told /\ Hands(t)' = {}
          /\ \A u \in Task \ {t} : Hands(u)' = Hands(u)
      BY <2>2, <2>3, <2>4
    <3>3. \A m : m \in InHand' <=> m \in InHand /\ m \notin Hands(t)
      BY <3>1, <3>2, HeldBy
    <3>4. Hands(t) \subseteq InHand
      BY <3>2, HeldBy
    <3> QED  BY <3>3, <3>4
  <2>7. Drops
    BY <2>1, <2>6 DEF Drops
  <2> QED  BY <2>1, <2>2, <2>4, <2>5, <2>7 DEF Kept, Shapes, Movement
<1> QED  BY <1>5, <1>7, <1>8, <1>9, <1>10, <1>11 DEF AnnounceStep

----
(* The theorems about the announcements.                                   *)

LEMMA StartsHolding == ASSUME Init PROVE HoldInv /\ Promise!Init
<1>1. /\ Queue!Init /\ tasks = [t \in Task |-> Over] /\ channel = <<>>
      /\ shown = {} /\ unspoken = {}
  BY DEF Init
<1>2. Backend!IInv
  <2>1. Backend!Init
    BY <1>1 DEF Queue!Init, Backend!Init
  <2> QED  BY <2>1, QueueAssumption, Backend!StartsInIInv
<1>3. AppTypes
  BY DEF Init, AppTypes, Mode
<1>4. Over \in TaskState /\ Over.batch = <<>> /\ Over.phase = "over"
  BY DEF Over, TaskState
<1>5. Shapes /\ \A t \in Task : tasks[t] = Over
  BY <1>1, <1>4 DEF Shapes
<1>6. Batches /\ \A t \in Task : Hands(t) = {} /\ Distinct(tasks[t].batch)
  BY <1>4, <1>5 DEF Batches, Hands, Queue!Elements, Distinct
<1>7. Told = {} /\ TellsOnce
  BY <1>1 DEF Told, TellsOnce, Notices
<1>8. OneHolder /\ InHand = {}
  BY <1>6, <1>7, HeldBy DEF OneHolder
<1>9. /\ Queue!Elements(items) = {} /\ taken = {} /\ displaced = {} /\ discarded = {}
  BY <1>1 DEF Queue!Init, Queue!Elements
<1>10. AllTaken /\ Promise!Init
  BY <1>1, <1>8, <1>9 DEF AllTaken, Promise!Init
<1> QED  BY <1>2, <1>3, <1>5, <1>6, <1>8, <1>10 DEF HoldInv

LEMMA StepHolds ==
  ASSUME HoldInv, [Next]_vars
  PROVE  HoldInv' /\ [Promise!Next]_(Promise!mailbox)
<1>1. CASE Next
  <2>1. Kept
    BY <1>1, OutsideKept, HandleKept, NoticeKept, ReconnectKept, ExitKept, SpeechKept, AnnounceKept
    DEF Next
  <2> QED  BY <2>1, MovementImplements DEF Kept, HoldInv
<1>2. CASE UNCHANGED vars
  <2>1. /\ UNCHANGED queueVars /\ UNCHANGED appVars /\ UNCHANGED history
        /\ tasks' = tasks /\ channel' = channel /\ reachable' = reachable
    BY <1>2 DEF vars
  <2>2. AppTypes' /\ Shapes' /\ Batches' /\ TellsOnce' /\ Told' = Told
    BY <2>1 DEF HoldInv, AppTypes, appVars, settingsVars, Shapes, Batches, OneHolder, TellsOnce,
      Told, Notices
  <2>3. Kept
    BY <2>1, <2>2, LeavesKept
  <2> QED  BY <2>3, MovementImplements DEF Kept, HoldInv
<1> QED  BY <1>1, <1>2

\* At every moment a message the client took is in one batch or one Notice,
\* shown, or dropped; and the types are kept.
THEOREM EveryMessageHasOneHolder == Spec => []HoldInv
<1>1. Init => HoldInv
  BY StartsHolding
<1>2. HoldInv /\ [Next]_vars => HoldInv'
  BY StepHolds
<1> QED  BY <1>1, <1>2, PTL DEF Spec

\* Tasks, channel and the record of what was shown and dropped keep their
\* types: no batch and no Notice ever carries anything but messages.
THEOREM TypeCorrect == Spec => []TypeOK
<1>1. HoldInv => TypeOK
  BY QueueFacts DEF HoldInv, AppTypes, Shapes, AllTaken, TypeOK
<1> QED  BY <1>1, EveryMessageHasOneHolder, PTL

\* Queue, request, batch and channel together are a mailbox: every behaviour
\* of the client and the backend shows each announcement at most once, and
\* never one that was displaced, cleared or dropped.
THEOREM ClientImplementsMailbox == Spec => MailboxPromise
<1>1. Init => Promise!Init
  BY StartsHolding
<1>2. HoldInv /\ [Next]_vars => [Promise!Next]_(Promise!mailbox)
  BY StepHolds
<1> QED
  BY <1>1, <1>2, EveryMessageHasOneHolder, PTL DEF Spec, MailboxPromise, Promise!Spec
====
