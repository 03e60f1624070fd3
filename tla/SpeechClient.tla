---- MODULE SpeechClient ----
(***************************************************************************)
(* The voice client (tts/tui): its event loop, the tasks it spawns to have *)
(* text spoken, and the announcements it fetches from the backend's       *)
(* NotificationQueue.                                                      *)
(*                                                                         *)
(* main.rs runs one loop that drains a FIFO channel of AppEvents; every   *)
(* handler runs to completion, so handling an event is one action.  The   *)
(* tasks run on other threads and only ever append to the channel; a task *)
(* step ends where the task awaits or sends.  Events do not say which     *)
(* task sent them, and neither do the ones here.  Audio, text, voices and *)
(* status lines are left out: AudioChunk, VoicesLoaded and                *)
(* LanguageVoicesLoaded change none of the state below.                   *)
(***************************************************************************)
EXTENDS Integers, Sequences, FiniteSets

CONSTANTS
  Capacity, Limits, MaxDropped, MaxId, MaxRestarts,  \* of NotificationQueue
  Key,         \* bound: the keys the user presses, of AllKeys
  Task,        \* bound: tasks that have not returned yet
  Backlog,     \* bound: the events already waiting when one arrives from outside
  NoTask       \* cancel_tx when it is None

ASSUME QueueAssumption ==
  /\ Capacity \in Nat \ {0} /\ MaxId \in Nat /\ MaxRestarts \in Nat
  /\ Limits \subseteq Int /\ MaxDropped \subseteq Nat
ASSUME NoTaskAssumption == NoTask \notin Task
ASSUME BacklogAssumption == Backlog \in Nat

VARIABLES
  items, nextId, dropped, epoch, taken, displaced, discarded, refused,
  mode,         \* app.mode
  online,       \* app.server_online
  announcing,   \* app.announcing
  editing,      \* app.settings_editing_url
  urlChanged,   \* app.url_changed
  cancelTx,     \* the task app.cancel_tx would cancel
  tasks,        \* the spawned tasks
  channel,      \* AppEvents sent and not handled yet, oldest first
  reachable,    \* the watch channel the announcement poll looks at
  shown,        \* history: messages that reached the notice area
  unspoken      \* history: messages taken off the queue and then dropped

queueVars == <<items, nextId, dropped, epoch, taken, displaced, discarded, refused>>
settingsVars == <<editing, urlChanged>>
appVars == <<mode, online, announcing, settingsVars, cancelTx>>
history == <<shown, unspoken>>
vars == <<queueVars, appVars, tasks, channel, reachable, history>>

Queue == INSTANCE NotificationQueue

\* Enter is Ctrl-P's twin in Normal and in the voice menu.
AllKeys == {"esc", "enter", "voices", "settings", "help"}
ASSUME KeyAssumption == Key \subseteq AllKeys

Event ==
  [type : {"Key"}, key : Key] \cup
  [type : {"ServerStatus"}, online : BOOLEAN] \cup
  [type : {"Notice"}, message : Queue!Message] \cup
  [type : {"Clip", "NoticesWaiting", "StreamDone", "Error"}]

Busy == {"Generating", "Streaming"}
Mode == {"Normal", "Help", "VoiceMenu", "Settings", "Error"} \cup Busy

----
(* Tasks *)

\* phase: "fetch" -- the consuming request is out; "next" -- at the head of
\* the loop over the items; "speak" -- in a request for audio; "over" --
\* returned.  A task that returned leaves nothing behind but its events.
TaskState ==
  [kind : {"speech", "announce", "none"},
   phase : {"fetch", "next", "speak", "over"},
   cancelled : BOOLEAN,
   batch : Seq(Queue!Message)]

Over == [kind |-> "none", phase |-> "over", cancelled |-> FALSE, batch |-> <<>>]

Live(t) == tasks[t].phase # "over"
Running(t) == Live(t) /\ ~tasks[t].cancelled

\* Sending on the oneshot, or dropping its sender, ends the receiver's wait.
\* A task that returned has dropped its receiver, and hears neither.
CancelTask(t) ==
  IF t = NoTask \/ tasks[t].phase = "over"
  THEN tasks
  ELSE [tasks EXCEPT ![t].cancelled = TRUE]

\* Mutant of Spawn: the old sender is kept alive.
SpawnBeside(t, kind, phase) ==
  /\ ~Live(t)
  /\ tasks' = [tasks EXCEPT ![t] = [Over EXCEPT !.kind = kind, !.phase = phase]]
  /\ cancelTx' = t

\* `app.cancel_tx = Some(cancel_tx)` drops the sender that was there.
Spawn(t, kind, phase) ==
  /\ ~Live(t)
  /\ tasks' = [CancelTask(cancelTx) EXCEPT
                 ![t] = [Over EXCEPT !.kind = kind, !.phase = phase]]
  /\ cancelTx' = t

InChannel(type) == \E i \in 1..Len(channel) : channel[i].type = type

Send(e) == channel' = Append(channel, e)

\* Messages the client took and has neither shown nor dropped.
InHand ==
  (UNION {Queue!Elements(tasks[t].batch) : t \in Task}) \cup
  {channel[i].message : i \in {j \in 1..Len(channel) : channel[j].type = "Notice"}}

----
(* What enters the channel from outside.  Bounds: one event of each of these *)
(* types at a time, each having a sender that is slower than the loop; and   *)
(* the user and the health check are quiet while Backlog events wait.        *)

Room == Len(channel) <= Backlog

\* The loop polls the keyboard only after it has drained the channel and dealt
\* with a changed URL.
PressKey ==
  /\ Room /\ ~InChannel("Key") /\ ~urlChanged
  /\ \E k \in Key : Send([type |-> "Key", key |-> k])
  /\ UNCHANGED <<queueVars, appVars, tasks, reachable, history>>

CopyText ==
  /\ Room /\ ~InChannel("Clip")
  /\ Send([type |-> "Clip"])
  /\ UNCHANGED <<queueVars, appVars, tasks, reachable, history>>

\* The health check reports to the loop and to the announcement poll.  A report
\* that tells neither anything new is left out.
CheckHealth ==
  /\ Room /\ ~InChannel("ServerStatus")
  /\ \E up \in BOOLEAN :
       /\ up # online \/ up # reachable
       /\ Send([type |-> "ServerStatus", online |-> up])
       /\ reachable' = up
  /\ UNCHANGED <<queueVars, appVars, tasks, history>>

\* The announcement poll peeks, and says that something waits.
PollNotices ==
  /\ reachable /\ items # <<>>
  /\ ~InChannel("NoticesWaiting")
  /\ Send([type |-> "NoticesWaiting"])
  /\ UNCHANGED <<queueVars, appVars, tasks, reachable, history>>

----
(* The event loop *)

Receive(type) ==
  /\ channel # <<>>
  /\ Head(channel).type = type
  /\ channel' = Tail(channel)
  /\ UNCHANGED <<queueVars, reachable>>

\* A handler that changes nothing but the mode.
SwitchTo(m) ==
  /\ mode' = m
  /\ UNCHANGED <<online, announcing, settingsVars, cancelTx, tasks, history>>

\* start_generation.  Long text is streamed, short text generated whole.
StartGeneration ==
  /\ \E t \in Task : Spawn(t, "speech", "speak")
  /\ mode' \in Busy
  /\ UNCHANGED <<online, announcing, settingsVars, history>>

\* app.cancel(): tell the task, and be Normal without waiting for its answer.
Cancel ==
  /\ tasks' = CancelTask(cancelTx)
  /\ cancelTx' = NoTask
  /\ mode' = "Normal"
  /\ UNCHANGED <<online, announcing, settingsVars, history>>

\* Text to speak, or an empty text area: either may be.
NormalKey(k) ==
  \/ k = "voices" /\ SwitchTo("VoiceMenu")
  \/ k = "settings" /\ SwitchTo("Settings")
  \/ k = "help" /\ SwitchTo("Help")
  \/ k = "enter" /\ online /\ StartGeneration
  \/ k \in {"enter", "esc"} /\ SwitchTo("Normal")

\* Enter picks the voice under the cursor, if there is one.
VoiceMenuKey(k) ==
  \/ k \in {"esc", "enter"} /\ SwitchTo("Normal")
  \/ k # "esc" /\ SwitchTo("VoiceMenu")

\* While the URL is edited, Esc abandons it and Enter takes it unless blank.
EditUrlKey(k) ==
  /\ editing' = (k \notin {"esc", "enter"})
  /\ urlChanged' \in IF k = "enter" THEN {urlChanged, TRUE} ELSE {urlChanged}
  /\ UNCHANGED <<mode, online, announcing, cancelTx, tasks, history>>

\* Enter on the first row starts editing; on the others it runs an action.
SettingsKey(k) ==
  \/ k = "esc" /\ SwitchTo("Normal")
  \/ k # "esc" /\ SwitchTo("Settings")
  \/ /\ k = "enter"
     /\ editing' = TRUE
     /\ UNCHANGED <<mode, online, announcing, urlChanged, cancelTx, tasks, history>>

HandleKey ==
  /\ Receive("Key")
  /\ LET k == Head(channel).key
     IN  \/ mode \in {"Help", "Error"} /\ SwitchTo("Normal")
         \/ mode = "VoiceMenu" /\ VoiceMenuKey(k)
         \/ mode = "Settings" /\ editing /\ EditUrlKey(k)
         \/ mode = "Settings" /\ ~editing /\ SettingsKey(k)
         \/ mode = "Normal" /\ NormalKey(k)
         \/ mode \in Busy /\ k = "esc" /\ Cancel
         \/ mode \in Busy /\ k # "esc" /\ SwitchTo(mode)

\* A new clip is spoken at once when auto-play is on; app.cancel() and then
\* start_generation replace the cancel sender once.
HandleClip ==
  /\ Receive("Clip")
  /\ \/ online /\ mode # "VoiceMenu" /\ StartGeneration
     \/ SwitchTo(mode)

HandleServerStatus ==
  /\ Receive("ServerStatus")
  /\ online' = Head(channel).online
  /\ UNCHANGED <<mode, announcing, settingsVars, cancelTx, tasks, history>>

\* Mutant of ReadyForNotice: busy is told by cancel_tx, which outlives its task.
ReadyWhenUncancellable == ~announcing /\ online /\ ~editing /\ cancelTx = NoTask

ReadyForNotice ==
  /\ ~announcing
  /\ online
  /\ ~editing
  /\ mode = "Normal"

\* Mutant of StartAnnouncing: a mode the handlers do not know.
StartAnnouncingAsMode ==
  /\ ReadyForNotice
  /\ announcing' = TRUE
  /\ mode' = "Announcing"
  /\ \E t \in Task : Spawn(t, "announce", "fetch")
  /\ UNCHANGED <<online, settingsVars, history>>

StartAnnouncing ==
  /\ ReadyForNotice
  /\ announcing' = TRUE
  /\ mode' = "Streaming"
  /\ \E t \in Task : Spawn(t, "announce", "fetch")
  /\ UNCHANGED <<online, settingsVars, history>>

HandleNoticesWaiting ==
  /\ Receive("NoticesWaiting")
  /\ \/ StartAnnouncing
     \/ ~ReadyForNotice /\ SwitchTo(mode)

HandleNotice ==
  /\ Receive("Notice")
  /\ shown' = shown \cup {Head(channel).message}
  /\ UNCHANGED <<appVars, tasks, unspoken>>

HandleStreamDone ==
  /\ Receive("StreamDone")
  /\ mode' = "Normal"
  /\ announcing' = FALSE
  /\ UNCHANGED <<online, settingsVars, cancelTx, tasks, history>>

HandleError ==
  /\ Receive("Error")
  /\ SwitchTo("Error")

Handle ==
  \/ HandleKey \/ HandleClip \/ HandleServerStatus \/ HandleNoticesWaiting
  \/ HandleNotice \/ HandleStreamDone \/ HandleError

\* Once the channel is drained: reconnect to a changed URL.
Reconnect ==
  /\ channel = <<>>
  /\ urlChanged
  /\ urlChanged' = FALSE
  /\ online' = FALSE
  /\ UNCHANGED <<queueVars, mode, announcing, editing, cancelTx, tasks, channel,
                 reachable, history>>

\* Ctrl-Q, or the process killed: main returns and its tasks die with it.
Exit ==
  /\ mode' = "Normal"
  /\ online' = FALSE /\ announcing' = FALSE /\ editing' = FALSE /\ urlChanged' = FALSE
  /\ cancelTx' = NoTask
  /\ tasks' = [t \in Task |-> Over]
  /\ channel' = <<>>
  /\ reachable' = FALSE
  /\ unspoken' = unspoken \cup InHand
  /\ UNCHANGED <<queueVars, shown>>

----
(* The tasks *)

Return(t, e) ==
  /\ Send(e)
  /\ tasks' = [tasks EXCEPT ![t] = Over]
  /\ UNCHANGED <<queueVars, appVars, reachable, history>>

StreamDone == [type |-> "StreamDone"]
Error == [type |-> "Error"]

\* Mutant of SpeechCancelled: cancellation is seen only between requests.
SpeechCancelledBetween(t) ==
  /\ tasks[t].kind = "speech" /\ tasks[t].cancelled /\ tasks[t].phase = "next"
  /\ Return(t, StreamDone)

\* What the user asked for.  Cancellation races the whole request, and
\* `select!` may take either when both are ready.
SpeechCancelled(t) ==
  /\ tasks[t].kind = "speech" /\ tasks[t].cancelled
  /\ Return(t, StreamDone)

SpeechDone(t) ==
  /\ tasks[t].kind = "speech"
  /\ Return(t, StreamDone)

\* Mutant of SpeechFailed: the error is swallowed.
SpeechFailedSilently(t) ==
  /\ tasks[t].kind = "speech"
  /\ tasks' = [tasks EXCEPT ![t] = Over]
  /\ UNCHANGED <<queueVars, appVars, channel, reachable, history>>

SpeechFailed(t) ==
  /\ tasks[t].kind = "speech"
  /\ Return(t, Error)

\* Mutant of FetchAnswered: the announcement peeks, as the poll does.
FetchPeeked(t) ==
  /\ tasks[t].phase = "fetch"
  /\ tasks' = [tasks EXCEPT ![t].phase = "next", ![t].batch = items]
  /\ UNCHANGED <<queueVars, appVars, channel, reachable, history>>

\* The consuming request.  Nothing races it: a cancelled announcement waits
\* for the answer like any other.
FetchAnswered(t) ==
  /\ tasks[t].phase = "fetch"
  /\ Queue!Consume(0)
  /\ tasks' = [tasks EXCEPT ![t].phase = "next", ![t].batch = items]
  /\ UNCHANGED <<appVars, channel, reachable, history>>

\* Mutant of FetchFailed: the early return forgets the StreamDone.
FetchFailedReturns(t) ==
  /\ tasks[t].phase = "fetch"
  /\ Return(t, Error)

\* The answer is lost on its way, after the server took the messages off; or
\* the request never reached a server that answers.
FetchFailed(t) ==
  /\ tasks[t].phase = "fetch"
  /\ Send(Error)
  /\ tasks' = [tasks EXCEPT ![t].phase = "next"]
  /\ \/ Queue!Consume(0) /\ unspoken' = unspoken \cup Queue!Elements(items)
     \/ UNCHANGED <<queueVars, unspoken>>
  /\ UNCHANGED <<appVars, reachable, shown>>

NextItem(t) ==
  /\ tasks[t].phase = "next" /\ tasks[t].batch # <<>>
  /\ Send([type |-> "Notice", message |-> Head(tasks[t].batch)])
  /\ tasks' = [tasks EXCEPT ![t].phase = "speak", ![t].batch = Tail(@)]
  /\ UNCHANGED <<queueVars, appVars, reachable, history>>

AnnouncementOver(t) ==
  /\ tasks[t].phase = "next" /\ tasks[t].batch = <<>>
  /\ Return(t, StreamDone)

Speaking(t) == tasks[t].kind = "announce" /\ tasks[t].phase = "speak"

ItemSpoken(t) ==
  /\ Speaking(t)
  /\ tasks' = [tasks EXCEPT ![t].phase = "next"]
  /\ UNCHANGED <<queueVars, appVars, channel, reachable, history>>

\* `break`: what is left of the batch is dropped with the loop.
DropRest(t) ==
  /\ tasks' = [tasks EXCEPT ![t].phase = "next", ![t].batch = <<>>]
  /\ unspoken' = unspoken \cup Queue!Elements(tasks[t].batch)
  /\ UNCHANGED <<queueVars, appVars, reachable, shown>>

ItemCancelled(t) ==
  /\ Speaking(t) /\ tasks[t].cancelled
  /\ DropRest(t)
  /\ UNCHANGED channel

ItemFailed(t) ==
  /\ Speaking(t)
  /\ DropRest(t)
  /\ Send(Error)

AnnounceStep(t) ==
  \/ FetchAnswered(t) \/ FetchFailed(t)
  \/ NextItem(t) \/ AnnouncementOver(t)
  \/ ItemSpoken(t) \/ ItemCancelled(t) \/ ItemFailed(t)

----
(* The client and the backend together *)

Init ==
  /\ Queue!Init
  /\ mode = "Normal"
  /\ online = FALSE /\ announcing = FALSE /\ editing = FALSE /\ urlChanged = FALSE
  /\ cancelTx = NoTask
  /\ tasks = [t \in Task |-> Over]
  /\ channel = <<>>
  /\ reachable = FALSE
  /\ shown = {} /\ unspoken = {}

\* Agents post messages, and may take or clear them too.
BackendStep ==
  /\ Queue!Next
  /\ UNCHANGED <<appVars, tasks, channel, reachable, history>>

Next ==
  \/ BackendStep
  \/ PressKey \/ CopyText \/ CheckHealth \/ PollNotices
  \/ Handle \/ Reconnect \/ Exit
  \/ \E t \in Task :
       SpeechCancelled(t) \/ SpeechDone(t) \/ SpeechFailed(t) \/ AnnounceStep(t)

Spec == Init /\ [][Next]_vars

\* The loop and the runtime keep running, the poll comes round again, and the
\* backend answers what the announcements ask of it, if only with an error.
\* Nothing is assumed of requests the user made: those may stall for ever.
Fairness ==
  /\ WF_vars(Handle \/ Reconnect)
  /\ WF_vars(PollNotices)
  /\ \A t \in Task : WF_vars(SpeechCancelled(t) \/ AnnounceStep(t))

FairSpec == Spec /\ Fairness

----
(* Properties *)

TypeOK ==
  /\ mode \in Mode
  /\ online \in BOOLEAN /\ announcing \in BOOLEAN
  /\ editing \in BOOLEAN /\ urlChanged \in BOOLEAN
  /\ cancelTx \in Task \cup {NoTask}
  /\ tasks \in [Task -> TaskState]
  /\ channel \in Seq(Event)
  /\ reachable \in BOOLEAN
  /\ shown \subseteq Queue!Message
  /\ unspoken \subseteq Queue!Message

\* Every task that still runs uncancelled is the one cancel_tx reaches: a new
\* request never leaves an older one speaking where nothing can stop it.
OnlyOneRuns == \A t \in Task : Running(t) => cancelTx = t

\* The client never sits in Generating or Streaming, deaf to every key but
\* Esc, with nobody left to send the StreamDone or Error that ends it.
BusyIsAnswered ==
  mode \in Busy =>
    \/ InChannel("StreamDone") \/ InChannel("Error")
    \/ cancelTx # NoTask /\ Running(cancelTx)

\* Across the queue, the request, the batch and the channel, an announcement
\* is shown at most once and never both shown and lost.
Promise == INSTANCE Mailbox WITH
  Message   <- Queue!Message,
  waiting   <- Queue!Elements(items) \cup InHand,
  delivered <- shown \cup (taken \ (InHand \cup unspoken)),
  lost      <- displaced \cup discarded \cup unspoken
MailboxPromise == Promise!Spec

\* An announcement, spoken, failed or cancelled, frees the way for the next:
\* `announcing` does not stay set.
AnnouncingEnds == announcing ~> ~announcing

\* "the queue keeps it": a message does not wait for ever before a client
\* that is idle and online.
IdleClientCollects ==
  []<>~(items # <<>> /\ online /\ mode = "Normal" /\ ~editing /\ ~announcing)

\* "Esc aborts even when the server is stalled": a cancelled request ends
\* although the backend never answers it.
EscAborts ==
  \A t \in Task :
    tasks[t].kind = "speech" /\ tasks[t].cancelled ~> tasks[t].phase = "over"

\* "Spoken only when nothing else is happening": an announcement does not start
\* while another request is still being generated or spoken.
SpokenOnlyWhenIdle ==
  [][announcing' /\ ~announcing => \A t \in Task : ~Running(t)]_vars
====
