# stables in TLA+

Specifications of the programs in this repository, kept beside the code: what
each part does, what must never happen, what must eventually happen, TLC
configurations that check it on small instances and TLAPS proofs of the parts
that hold for every instance.

A definition carries the name of the code it translates where TLA+ allows it,
and `PROJECT.json` names the lines.  Read a module beside those lines.

## 1. The system

Four programs live in this repository.

| part | where | state it keeps | operations |
|---|---|---|---|
| **stables**, the installer | `cmd/stables`, `internal/cli`, `internal/components`, `internal/tunnel`, `internal/state` | `installs.json`, one tunnel file per service, the compose stacks on the docker host, `ssh` child processes | install, update, remove, up, down, `tunnel <target>`, `tunnel down`, ping |
| **stab**, the runtime | `stab/` | store of projects and deployments, `images.json`, images and containers in docker, tmux sessions in the containers, layered configuration, `models.json`, secrets | start/attach, bash, update, fetch, kill, install, settings, refresh, merge |
| **TTS backend** | `tts/backend` | the announcement queue; per engine, the voices loaded or resident | REST and MCP: notify, pending, consume, clear; speak, voices, stretch |
| **voice client** | `tts/tui` | `AppState`: mode, text, cursor, undo and redo, voices, settings; the cancel sender; preferences file; audio buffer | keys, clipboard, health and announcement polls, streaming requests |

How they interact:

- The voice client talks HTTP to the backend.  Agents in stab's containers post
  announcements to the backend (`/v1/notifications`, or the MCP tool); the
  client takes them off the queue and has them spoken.
- In the client, `main.rs` runs one loop over an unbounded FIFO channel of
  `AppEvent`s.  Everything else is a task that appends to the channel: the
  keyboard poll, the clipboard watcher, the health check, the announcement poll
  and one task per request.  A request is cancelled through the one-shot sender
  in `cancel_tx`.
- `stables` puts compose stacks up and down and replaces a local stack by an
  `ssh -N -L` tunnel to another machine.  Files under the state directory are
  the only link between one command and the next.
- `stab` is run as often as the user has terminals.  Two commands share the
  docker daemon, the store and `images.json`, without any lock.
- `models.json` and `secrets.env` of `~/.stables` have four writers: the installer
  and `stab install` merge what is baked into each, `stab start` and `stab update`
  refresh the providers of the tunnel, and the user edits them.  `stab` copies
  the first into every project; Open WebUI gets endpoints resolved from both.
- The port of the voice stack is in its compose file, in the manifest, in the
  client's preferences, and in the memory of a client that is open.

### What is hard, and what must be true

| component | hard behaviour | what makes it correct |
|---|---|---|
| announcement queue | two front ends, a full queue, limits of any sign, restarts | bounded; oldest first; a message ends in one place only; the drop counter is exact |
| client loop | results of tasks that were cancelled, server changes, Esc against a stalled server | one request at a time; never busy for nothing; announcements neither repeated nor started over speech; polls are not blocked for ever |
| text area | caps on two stacks, cursors in snapshots, wrapped lines | the cursor stays inside; every edit can be taken back; undo and redo are inverse |
| tunnels | commands that fail half way, the upgrade from the old state file, pids, a port still held | no process outlives its record; the local service that was stopped comes back; `down` closes all |
| stab controller | concurrent commands, docker failing between any two steps, a record that may not match the image, mode switches, GPU changes | a stale image is rebuilt; the record never runs ahead; a start that succeeds has reconciled; re-attaching never costs the session |
| TTS engines | worker threads without a lock: lazy loads, eviction, a checkpoint swapped under a request | Piper's cap is kept; a clone is spoken by the checkpoint asked for |
| speech pipeline | text cut at sentences and commas, audio cut into windows, clients that leave | every clause is heard, once and in order, and every sample of it |
| installer and manifest | failure or interrupt after any call, torn files, other ports and names, a client that is open | what runs can be removed; record, client and ports agree; installing again heals |
| configuration, models, secrets | merging what the user changed, a refresh over a live file, copies | user edits survive; an update reaches the agent |
| preferences, voice menu | favourites, recents, speeds per voice, clamps | what is saved is what is loaded; cursors stay inside lists |

The list of hazards with their lines is in `PROJECT.json`.

## 2. The modules

| module | models | composes |
|---|---|---|
| `Mailbox` | the abstract promise of the announcement path: a message waits, is delivered at most once or is given up, and then never comes back | |
| `NotificationQueue` | `tts/backend/notifications.py` and both front ends | implements `Mailbox` |
| `SpeechClient` | the client's event loop, its modes, tasks and announcements | instantiates `NotificationQueue` as the backend; implements `Mailbox` |
| `Editor` | the client's text area | |
| `Tunnel` | `internal/tunnel` and the commands of `internal/cli` that use it | |
| `StabController` | `stab/internal/project/controller.go`, `imagemeta.go` and the stab commands | |
| `Providers` | what is done to `models.json` and `secrets.env`: merging, templates, refreshing, copying, resolving keys | |
| `Installer` | `internal/cli` and `internal/components`, the `stab` commands that share their files, the user between commands | extends `Providers` |
| `Speech` | a request to speak: `text.py`, `registry.py`, `engines/`, `stretch.py`, `routes/tts.py` | |
| `NotificationQueueProofs`, `EditorProofs`, `SpeechClientProofs`, `TunnelProofs`, `StabControllerProofs`, `SpeechProofs`, `InstallerProofs`, `InstallerStackProofs` | theorems about them | |
| `MC*` | small instances for TLC | |

### NotificationQueue

`items`, `nextId`, `dropped` are `_items`, `_next_id`, `_dropped` of the class;
a lock makes each method atomic.  `epoch` counts restarts, because the queue is
in memory and ids begin again at 1.  `taken`, `displaced`, `discarded` and
`refused` are history.  `Notify` is the REST route with its `max_dropped`,
`McpNotify` the tool, `Consume` and `Clear` the other operations that change
anything (`pending` only reads), and `Restart` a new process.  A limit may be absent, zero or negative: `TakeCount`
does what `if limit` and Python's slices do with each.  For a negative one, which
only the MCP tool lets through, `consume` takes nothing and `pending` shows
all but the newest; no property is about that, as no text says what it should do.

### SpeechClient

A handler of the loop runs to its end before the next event is taken, so one
handler is one action (`HandleKey`, `HandleNotice`, ...).  A task runs on
another thread and only sends; its step ends where it awaits or sends
(`FetchAnswered`, `ItemSpoken`, `SpeechDone`, ...).  Events carry no task id,
here as in the code; most of what is interesting follows from that.
`PressKey`, `CopyText`, `CheckHealth` and `PollNotices` are the four producers
outside.  The backend is the queue module itself, stepping on its own.
`AudioChunk`, `VoicesLoaded` and `LanguageVoicesLoaded` change none of the
state modelled and are left out; the text is in `Editor`.

### Editor

`text`, `cursor`, `undo`, `redo` are the four fields of `AppState`; each key
of `handle_normal_key` that touches one of them is an action, and so is a paste.
`LineStarts`, `Up` and `Down` translate the wrapping and the cursor's moves over
wrapped lines, for whatever width the area has at that moment.

### Tunnel

`record` is the state file of each service and `legacy` the old single one,
`stack` the compose stacks, `ssh` the processes, `cmd` the command being run
with its program counter.  `Get` reads the new file, then, for Ollama, the old
one, as `tunnel.Get` does; a file that cannot be parsed is `Torn`, which is an error for
the new file and as good as none for the old.  Each effect outside the process is a
step: stopping a stack (`StopLocal`), signalling ssh (`Close`), removing the kind's file
(`Unlink`) and the old one (`Retire`), trying the target (`Reach`), starting ssh, writing
the file (`Save`), starting the stack again.  Each may fail, except the signal, which is sent without
looking at the answer; a removal fails only on a file that is there.  `Close`, `Unlink` and
`Retire` are `tunnel.Down`, which `tunnel.Up` begins with: `Downed` and `DownFails` say
where its caller goes on.  `owed` and `repointed` are history: whether a tunnel command
stopped the stack, and whether the tunnel was pointed elsewhere since.  `mishaps` says
whether a command was ever killed, or a new file not written (or torn).

### StabController

`template` is the version the running stab binary embeds, `gpu` what profile and
machine say, `images`, `container` docker's state, `meta` the file
`images.json` (`None` while it is truncated), `recorded` and `deployment` the
store, `inv` each running command with its program counter and what it has read.
A step is one call to docker or one access to a file, so commands interleave
between any two of them and any of them may fail or be the last.

### Providers

Each file of providers is a function from a provider's name to who wrote the
entry (`"baked"`, `"user"`, or `"ollama"` for what a tunnel answered), or `None`
while there is no file, or `Torn` when a write was cut short and nothing parses.
One operator per function of the code gives what the file holds after it, so
`stables`, `stab` and their different callers share them in the model as their
copies of the code agree.

### Installer

`home` is `~/.stables`: models, secrets, configuration, manifest, the compose file of each
stack, weights, preferences, and the client's fallback copy.  `bin` is
`~/.local/bin` with stab, the client and who executes them, `container` what docker runs,
`project` one project's `.stables` directory and the keys its agent was given.
`Calls` gives for a command line the calls it makes, in the order of the
source; `cmd` holds those still to come, so each action is one call
(`WriteCompose`, `Enter`, `Up`, ...).  A failing call ends the command where the code
returns its error, and does not where it is dropped.  Calls whose effects lie outside the
model can only fail (`Tries`: the source of the voice image that is staged, the look for docker,
pi's agent, the image that `stab update` builds).  `stab update` goes through
`ensureProjectConfig` twice, so refresh and copy are made again before `RunAgent`.  The
look at the voice port before `compose up` is part of `Up`.  `reinstall --clean` is a hard
removal and no more, since `cmdInstall` refuses the flag that it is passed.  `stab install`
puts its own binary in place by a rename, in the place it runs from: nothing changes.  `Interrupt` ends a command
between two calls, `Tear` within a write that truncates in place.
The user edits files, gets a newer release, opens and closes the client, and
changes the mode of `~/.local/bin` (`"ok"`; `"readonly"`: only files that exist can be
written; `"blocked"`: it cannot be created, the one case in which the client falls back).

`history.mishaps` is what the properties need to say where they stop:
`failed` (a call to docker or the net failed), `kept` (an agent's container that docker would
not remove), `interrupted`, `torn`, `renamed`
(the voice stack was installed under another name while it ran under the first), `staged`
(`--no-container` over a running stack), `overwritten` (the client was open while
the port changed), `unwritten` (the client's file could not be written or removed),
`no-weights` (`--no-models` without models), `wiped` (stab was removed hard while other
components were installed).

### Speech

A text is a sequence of clauses, each with its length and whether a sentence ends
there; `SplitSentences`, `ClauseCut` and `SplitForStreaming` translate `text.py`,
`StretchBounds` and `TimeStretch` the windows of `stretch.py`, as the input
samples one hears.  A request goes through `Ask`, then for every chunk through the calls
of its engine, one action per access to what requests share: Piper's
`_cache` (`voices`, in order of use) from `GetVoice` to `EvictVoice` (without Piper's
Python API, `LoadVoice` ends in the CLI and no voice is kept), Qwen's `_model`
and `_loaded_size` (`model`, `size`) from `Check` to `Label`.  `Speak` stretches
and sends.  `Disconnect` only marks the request: the worker thread goes on.
`EditClones` is the voices directory, which is the registry.

## 3. The runs

Every constant that bounds a run is named in its `.cfg`.

| run | what it shows | states |
|---|---|---|
| `queue` | all invariants of the queue, both action properties, and that it implements `Mailbox` | 9 thousand |
| `queue_refusal` | *violated as expected:* a refused POST drops messages | |
| `client` | never two uncancelled tasks; never busy with no answer to come; at most one delivery end to end, through queue, request, batch and channel | 1.7 million |
| `client_live` | announcing ends; an idle client collects; Esc ends a request that is never answered | 225 thousand |
| `client_idle` | *violated as expected:* an announcement starts over a request that still speaks | |
| `editor` | cursor, the bound on both stacks, undo and redo, and Up over wrapped lines | 21 thousand |
| `tunnel` | no orphan process; the stopped stack is on record; the old file is retired; `tunnel down` closes all | 1.5 million |
| `tunnel_repoint` | *violated as expected:* a second `tunnel <target>` forgets that the local stack is owed | |
| `stab` | the record never runs ahead; stale images are rebuilt; starts reconcile; updates take effect; sessions survive | 2.2 million |
| `stab_gpu` | *violated as expected:* a container that is given the GPU runs an image without CUDA | |
| `installer` | what runs can be removed; record, client and ports agree; an installation that ends well heals what came before; user entries survive; an update reaches the agent | 2.2 million |
| `speech` | Piper's cap; every clause and sample heard, in order; the checkpoint asked for | 1.7 million |

### The bounds, and why they are enough

- **queue**: capacity 2 and four messages make the queue full, displace once and
  again after a consume; one restart puts two messages with the same id side by
  side.  The limits run from -1 to 3, which is beyond the capacity.
- **client**: two tasks are a cancelled request and its successor, or an
  announcement that meets either; a third is never alive before one of the
  two has sent its last event, except cancelled ones, which do nothing but send.
  `Backlog = 0` lets an outside event arrive only at an empty channel.  This loses no
  order of handling: what comes from outside depends on none of the client's
  state, so an event that arrives early and waits has the same effect as the
  same event arriving later; what the tasks send queues up without bound.
  The safety run has two messages, so that a batch can be cut short, and
  the Settings screen; the live run has one message and the menus.
- **editor**: texts of three characters have an empty, a full and a wrapped line
  at widths 1 to 3; a history of two is full after two edits.
- **tunnel**: both services and three ssh processes (the one on record, its
  successor, and one still closing).  Commands and faults are not bounded: any number of
  them, and any number of killed commands, failing removals and files torn.
- **stab**: two processes, three commands (one before an upgrade, two
  interleaving after it), two template versions, and one thing that goes wrong.
  One project has two tags, which share `images.json` just as two projects do.
- **installer**: three commands, one act of the user and one fault.  Two commands
  leave something behind and meet it; the third heals it or trips over it; the act
  in between is an edit, a newer release or a client that is opened (which closes
  for free).  Eighteen command lines reach every call; Ollama's are in `update all`
  and `remove all`, since its calls are those of the other stacks.  One provider is
  baked and one is not, so that an entry of the user's meets both.
- **speech**: two requests are enough for every race between two calls; one voice
  in memory makes every second load evict.  Five texts take each branch of the
  splitting (empty, cut at a comma with and without a successor, merged sentences,
  a remainder too short), and their chunks have one window and several, the last
  pushed back or not.

### Fairness

Only `client_live` assumes any.  The loop and the runtime keep running
(weak fairness of handling events), the announcement poll comes round again (a
loop over `sleep`), a task that was cancelled notices it (`select!` on the
one-shot), and the backend answers the requests an announcement makes, if only
with an error.  Nothing is assumed of the backend's answer to a request of the
user: it may stall for ever, and `EscAborts` is about that case.

### Other assumptions

- `stables tunnel` commands are run one at a time by hand; process ids are unique.
- A new stab is not installed while a command of the old one runs.
- `NoOrphan` is stated for histories without a killed command or an unwritten file,
  `OwedIsRecorded` for those without a killed command: with one, the code leaves an orphan
  or forgets the stack.  Removals, targets and stacks may fail in both.
- `StartReconciles` and `UpdateTakesEffect` are stated for a command nothing
  interfered with (`clean`): no fault, and no other command or outside event
  on its project while it ran.  It may start from whatever earlier faults and
  interleavings left behind.
- `UpdateReachesAgent` has one exception: when docker does not remove the old container
  the code ignores the error, and the old one lives on with the keys it had (`kept`).  It
  says nothing while `models.json` names no provider: a file that is missing when it is
  copied may be written by the refresh that follows.
- `SizeAsked` is stated until two calls have been inside Qwen's `_load` at once,
  `StackIsRemovable`, `ClientFollowsRecord` and `PortsAgree` without the mishaps each
  names (section 2).  Where they stop, the code does what section 4 says.
- Docker starts what a compose file says or fails; containers are not changed behind its back.
- `StaleIsRebuilt` is about a container made where there was none.  A container
  recreated to change the super mode skips the check for a stale image.

## 4. What the code does that its text does not say

Four runs are expected to fail; each is a step-by-step counterexample.

1. `routes/notifications.py` adds a message before it looks at `max_dropped`: the
   409 says messages "would be dropped", but they were, and the refused message
   is in the queue.
2. A `StreamDone` left over from a cancelled request makes the client `Normal`
   while the next one is speaking; an announcement then speaks over it.
3. Pointing a tunnel elsewhere while it is up forgets that the local stack was
   stopped for it; `down` does not put it back.
4. `StartOrAttach` stores the tag it chose, which it later takes for the user's
   own: a project started on the CPU stays on the CPU image when the GPU appears.

Seen while reading, and not the subject of a run:

- `reinstall --clean` wipes, and then passes `--clean` to an installation that does not
  know it (`cli.go:316-317`, `106-110`): everything is gone and nothing installed.  The
  model does the same, and no property asks for more.
- `GET /v1/notifications?peek=true` "reads without taking" (`routes/notifications.py:5`),
  but the handler knows only `consume`: the messages that it shows are taken.
- `cursor_move_down` lacks the `- 1` of `cursor_move_up`: from a longer column it
  lands on the start of the line after the next.
- `ensureTmuxSession` shadows `err`, so a repair that failed is reported as done;
  `Kill` ignores the errors of `docker stop` and `docker rm`.
- `update` prints `recreated` when `docker rm` failed; `fetch` leaves the
  deployment `running` after it removed the container.
- `stables tunnel down` stops at the first tunnel whose local stack does not
  come back.
- The request that consumes announcements has no timeout and is not raced
  with the cancellation; against a server that never answers, `announcing`
  stays set.
- When the client's file in `~/.local/bin` is busy or read-only, `Install` records
  `~/.stables/tts/bin/ratts-cli`, which was never written (`tts.go:149`); the
  fallback of `installTUI` is taken only when the directory cannot be created.
- A client that is open during an installation on another port writes its old URL
  back when it closes (`main.rs:383-397`), over what `writeTuiPrefs` wrote.
- `install tts --name` over a running stack leaves the old container to nobody: the
  compose file that knew its name is gone.
- `removeLocal` ignores what docker answers and strikes the component off the
  manifest all the same; and with an `installs.json` that does not parse, it
  writes one that has forgotten everything.
- A hard removal of stab removes the whole of `~/.stables`, with the compose files of
  what still runs and the cloned voices that "are never removed" (`cli.go:362`).
- `components/stab` writes over the stab binary in place, which fails while it is
  executed; `stab install` has `writeFileAtomic` for that reason (`install.go:111`).
- A first `install tts` that fails leaves the client behind, and `remove tts` looks
  for it only when there is a record.
- The refresh of the tunnel's models reads only the old state file
  `tunnels/current` (`refresh.go:108`), which new tunnels no longer write.
- In `unblockOwnedAncestors` the loop's condition is inverted: under the home
  directory it never runs (`preflight.go:158`).
- The last window of a stretch may share more with the one before than `fade`, and
  only `fade` is blended: those samples are heard twice (`stretch.py:220`).
- Piper's `get` and `move_to_end` are two steps: a voice evicted between them is a
  `KeyError`, and two threads may load the same voice "at most once"
  (`piper.py:217-229`).  Overlapping calls of Qwen's `_load` hold two checkpoints, or
  one under the other's name.
- `known_voice` expects `VoiceNotFound`, but `_engine_for` has turned it into an
  HTTP error: a voice's menu name is never looked up (`routes/tts.py:134`).
- Leaving Settings by a stale `StreamDone` leaves the URL editor's flag set, and
  no announcement is taken until the editor is opened and left again.

## 5. What is proved

TLAPS checks these for every value of the constants, under the named assumptions
in the modules and nothing else.

**NotificationQueueProofs.**  The invariant that is inductive is `TypeOK`, `BoundedRun`,
`Accounted` and one more part, `LeftFromFront`: what left the queue is older
than everything that waits.  `Accounted` alone is not inductive, since a new
message could have the identity of one that left; `LeftFromFront` and the
unbroken run of ids rule this out.  From it follow `TypeCorrect`,
`QueueIsBoundedRun`, `EveryMessageAccounted`, `DisplacementRule`,
`DropCounterIsExact` (with the finiteness of what was displaced) and
`QueueImplementsMailbox`: initial states map to initial states of `Mailbox`, and
each step to a `Post`, `Deliver`, `GiveUp` or a stutter.

**EditorProofs.**  `TypeOK`, `CursorInside` and `HistoryBounded` are inductive
together: the live cursor comes from snapshots, the snapshots from live cursors,
and the bound on both stacks keeps either cap from biting when a snapshot moves
from one to the other.  `CursorStaysInside` and `HistoryIsBounded` are its parts;
`UndoIsInverse` and `EveryEditCanBeTakenBack` are action properties from the same
invariant.  `CappedPush` says what a push leaves on a stack, `Cut` and `Insert`
what an edit leaves of the text, `LineAtExists`, `NextLineExists` and `SameLine`
(from the well-foundedness of the naturals) what the choice of a line returns;
`UpIsOneLine` follows from the last.

**StabControllerProofs.**  That `images.json` never runs ahead of the images
(`RecordNeverAhead`) holds although nothing locks it.  The inductive invariant adds
what commands carry between their steps: no record, in the file or in a
command's memory, is newer than the template or than its image, no image is newer than the
template, and between a build and the write of its record the image has the
current template (`Fresh`), because the binary is replaced only when no command
runs.  Steps that touch neither images nor record (`Plain`) are dealt with in one
lemma.

`StartReconciles` and `UpdateTakesEffect` speak of the last step of
a command; the invariant says what a clean one knows at every step before it
(`Reconciled`, `Updated`).  That this survives the other commands rests on two facts:
whoever begins on a project ends the cleanness of all that work there (`CleanIsAlone`),
and every command keeps to the container, the records and the tags of its own project
(`TagsAreOwn`, `Local`), which is where "each project gets its own image" is used.
`UndisturbedKnows` then covers everything that happens elsewhere at once, a pruned image
and a harness that exits included; each step of a command has a lemma of its own.

`KeepsSession` and `StaleIsRebuilt` are action properties, about a step in the middle
of a command.  `StepInv` adds what such a step rests on.  `Careful`: a clean start is
never about to stop or remove a container, except where the mode it was asked for differs;
and a clean command is alone at its project, so nobody else's step takes the session
that it attaches to.  `Built`: when `docker run` is reached by a command that
had a record, its image is of the current template or gone, since the command
either found it so or has just built it and saved the record.

**SpeechClientProofs.**  `OnlyOneRuns` and `BusyIsAnswered` are inductive together with the
shapes of the tasks and of the channel and with the type of `cancel_tx`.  The first needs that
whoever starts a task has cancelled the one before, or is idle with none running
(`CancelFacts`, `SpawnRunsAlone`).  The second follows an answer from the task to the
channel to the mode (`SendFacts`, `ReceiveFacts`): a step may end the task or take the
event only if it leaves the busy modes, or if something else still answers.
Steps that touch none of this are dealt with at once (`QuietKeeps`).

The refinement follows the messages.  `HoldInv` says that each message that left the
queue by `consume` has exactly one holder: the batch of one task, a `Notice` in the
channel, what was shown, or what was dropped with its holder (`Batches`, `OneHolder`, `AllTaken`).
It is the queue's own invariant with more, and what a step of the queue does is taken
from `NotificationQueueProofs` by `INSTANCE`, with the client's variables.
`ClientImplementsMailbox` then maps each step to a step of `Mailbox` or a stutter: a
message that moves from batch to channel stutters, one that is shown is delivered, and those
whose task or channel ends are given up.  `EveryMessageHasOneHolder` and `TypeCorrect` (no
batch and no event carries anything but messages) are the invariant and its types.

**TunnelProofs.**  Between commands, `NoOrphan` and `OwedIsRecorded` are about the state
files; while a command runs, what it knows stands in for them.  So the invariant says that a live
process is on record or in the hands of the `up` about to save it (`AliveIsKnown`), and
that an owed stack is on record or will be put back by the running command
(`OwedIsKnown`, with `OpeningOwesNothing` for an `up` that stopped nothing).  A file may
then go, or be left behind by a removal that fails: the process it names has been
told to go (`RemovedIsSilent`), and what it says of the stack is what the
closing command remembers, for as long as a file still says it (`ClosingKnows`).  `Save`
keeps all of it because nothing is on record for its kind any more (`ClosedIsUnrecorded`), which
is also why `OldFileRetired` holds: `Up` ends where a removal failed.  For
`DownAllCloses` the invariant says that what is still on record belongs to the tunnel being
closed or to one of those listed (`DownIsListed`): the list was read when the command
began, or is that of all kinds if none was up, and only that command writes files until it
ends.  No bound on processes or faults is used.

**SpeechProofs.**  `VoicesStayBounded` counts the calls that have inserted a voice and
not yet made room: inserting adds one voice and one such call, and a call leaves only
after it has read a length within the cap, or popped.  The invariant adds
where each request may be, and that one which was not refused has an engine to go
on with (`Speak` sends it back to that engine).  For
`SizeIsAsked` the invariant says, at every point of `_load`, how `model` and
`size` relate while one call alone is inside (`reuse`: both are what the request asks;
`forget`: nothing is loaded; `name`: what is loaded is what will be named), and that
outside they agree; a request that speaks holds the checkpoint it asked
for.  `overlapped` is the one escape, and once set it stays.

`TextIsSpokenInOrder` is about what the pure functions compute, for every text of any
length and every value of `MinChars`, `FirstChars`, `MinHead`, `Window` and `Overlap < Window`.
`Orders` is the invariant of the requests: what was sent is a prefix of the chunks, each
stretched, and the chunks put together are the text.  Under it are two lemmas.
`SplitIsWhole`: whatever the lengths of the clauses, the merging of
sentences (`SentencesAreWhole`), the early cut of the first and the merging of a remainder
too short lose no clause, move none and leave no chunk empty.
`EverySampleIsHeard`: the windows of `StretchBounds` begin at the first sample, each reaches
the next, the last ends at the last, whether or not it was pushed back; what remains of
each window after the overlap is taken off covers 1 to the total (`WindowsCover`, `PiecesCover`, with
`DivisionBounds` for the count of windows).  The sums, the merging and the concatenation
are folds, which choose a recursive function; `FoldExists` shows that there is one, by
induction on the indices folded over, and `FoldSteps` gives its two equations, from
which `FlattenAppend`, `FlattenConcat` and the rest follow.

**InstallerProofs.**  `EditsSurvive` needs that the files never leave their form (`Shape`:
a file of providers is absent, torn or a function on the names), and three lemmas
about the operators of `Providers`: merging without force keeps what
is there, of models and of secrets, and a refresh touches no provider of the user's
(`MergeKeepsModels`, `MergeKeepsSecrets`, `RefreshKeepsModels`; the last is where
`BakedAssumption`, that the two kinds of names differ, is used).  Every other
call leaves both files alone, except a torn write, a hard removal and a command with
`--force`, which the property excludes.

The rest of the module is what the next one goes by.  A command is a list of calls of which the head
is made next; what is true in the middle of it depends on the calls that were made, which
the state does not hold.  But all commands make their calls in one order, `RankOf`, so of
a call that is not among those that remain, and is older than one that is, one knows that
it was made if the command makes it at all; `Complete` says which calls come together (a stack that is
started is put on record, a client that is removed belongs to a stack that was stopped first).
`Ground` is the types with this order; `InstallerTypes` follows.

**InstallerStackProofs.**  Five properties, each with the invariant that says what it means
while a command is under way.  `Past(c, x)`: call x of component c is no longer to be made.

- `RunningStacksAreRemovable`: what runs was started from the compose file that is there,
  and is on record or about to be (`Safe`); a stack that a removal strikes off the list is down before
  its files go (`Gone`); the manifest can be read unless a write of it was interrupted
  (`Legible`).
- `VoiceInstallHeals`: each call of an install that was made has left what it is for, the
  client in its place, the port in the preferences, the file, the record, the container
  (`Progress`), whatever was there before.
- `UpdatedAgentHasKeys`: from the copy of the files to the start of the container the
  project has what the user's files say, the second refresh and copy included (`Synced`),
  and once the old container was to be removed it is gone, or docker kept it (`Stopped`).
- `ClientIsWhereRecorded`: outside the calls of an install between client and record
  (`Entering`), the client is where the record says that the command will leave it
  (`Standing`: what the file says, or what a removal is about to save).
- `VoicePortsAgree`: outside the calls of an install from the preferences on (`Window`), the
  port on record, of the compose file, of the one container and of the client agree
  (`Agree`, `OneContainer`), and an open client knows that port (`OpenAgrees`), so that what it
  writes when it closes changes nothing.

No bound on commands, edits or faults is used in either module.

**What is only model-checked.**  Each invariant and each action property of the passing runs
has a theorem.  What is left to TLC is liveness under fairness (`AnnouncingEnds`,
`IdleClientCollects`, `EscAborts`), which needs `ENABLED`.  The proofs avoid induction
theorems that take a predicate: an induction is made on a set of numbers (`Induction`: a set
that has 0 and each successor is `Nat`), and the recursive operators of the models are
recursive functions or folds.

## 6. Not modelled, and the plan

Left for an extension, in this order:

1. **Audio of the client**: the carry of an odd byte in `forward_stream` and the
   chunks of a cancelled stream that still wait in the channel.
2. **Menus and preferences** of the client: favourites, recents, speeds per voice;
   the editor's flag when Settings are left.
3. **Layering** of stab's settings over profile, project and command line.
4. **Tunnels and installer together**: an installation or an update of a stack whose
   port a tunnel holds.

Proofs to come: those of the extensions, along the invariants that are there; for the
tunnels with the installer, `Standing` of the one and `OwedIsKnown` of the other.

Left out for good: cryptographic sealing, file copying and embedded assets (no state
to get wrong), probes that print what they find, developer scripts, and what the
engines compute from a chunk.
