---- MODULE Installer ----
(***************************************************************************)
(* `stables install`, `update`, `remove`, `reinstall`, `clean-install`,     *)
(* `up`, `down` and `fetch` (internal/cli, internal/components), and the    *)
(* `stab` commands they run or that share their files (stab/internal/cli),  *)
(* over what outlives a command: the files of ~/.stables, ~/.local/bin, the *)
(* containers, and one project's .stables directory.                       *)
(*                                                                         *)
(* Commands are run by hand, one at a time.  A command is the sequence of   *)
(* calls it has still to make; each call is an action, may fail, and ends   *)
(* the command when it does unless the code ignores the error.  Between two *)
(* of them the command may be interrupted, also while a file is written.   *)
(***************************************************************************)
EXTENDS Providers, Sequences

CONSTANTS
  Port,         \* ports a stack may be published on
  DefaultPort,
  StackName,    \* values of --name
  DefaultName,
  Releases,     \* bound: versions of stables, each with its stab and templates
  Commands,     \* the command lines that are run
  Modes,        \* what ~/.local/bin may be like at the beginning
  MaxCommands,  \* bound: commands run
  MaxEdits,     \* bound: what the user does between them
  MaxFaults     \* bound: interrupts, and calls to docker or the net that fail

Stack == {"ollama", "webui", "tts"}
Component == Stack \cup {"stab"}
Legacy == "stb"   \* a component name of an older manifest
Release == 1..Releases

Option == [force : BOOLEAN, password : BOOLEAN, port : Port, name : StackName,
           container : BOOLEAN, models : BOOLEAN, clean : BOOLEAN]
Compose == [name : StackName, port : Port]   \* a rendered compose file
Place == {"path", "base"}                    \* ~/.local/bin, ~/.stables/tts/bin
Record == [port : Port \cup {None}, client : Place \cup {None}]
Manifest == [Component \cup {Legacy} -> Record \cup {None}]
NoManifest == [c \in Component \cup {Legacy} |-> None]

\* What main dispatches, and a command on its way: the calls it has still to
\* make, the manifest it will save, and where it has put the client.
CommandLine ==
  [op : {"install", "remove", "reinstall", "clean-install", "update"},
   component : Component \cup {"all"}, opts : Option]
  \cup [op : {"up", "down"}, component : {"ollama", "tts"}, opts : Option]
  \cup [op : {"fetch"}, component : {"stab", "webui"}, opts : Option]
  \cup [op : {"start"}, component : {"stab"}, opts : Option]
CallName == {"binary", "models", "secrets", "check", "docker", "stab-models", "stab-secrets",
             "templates", "pi-agent", "load", "files", "marker", "refresh", "seed", "sync",
             "build", "stop", "refresh-again", "seed-again", "run", "attach", "stage",
             "client", "prefs", "weights", "require", "take-over", "healthy", "env",
             "compose", "up", "down", "update", "record", "remove", "no-client", "wipe", "save"}
Call == (Component \cup {"all"}) \X CallName
Running == [calls : Seq(Call), opts : Option, left : Manifest, place : Place \cup {None}]

ASSUME InstallerAssumption ==
  /\ DefaultPort \in Port /\ DefaultName \in StackName
  /\ Releases \in Nat \ {0} /\ MaxCommands \in Nat /\ MaxEdits \in Nat /\ MaxFaults \in Nat
  /\ Commands \subseteq CommandLine /\ \A c \in Commands : c.opts.clean => c.op = "reinstall"
  /\ Modes \subseteq {"ok", "readonly", "blocked"}
  /\ None \notin Record /\ None \notin Port /\ None \notin Release /\ None \notin Compose
  /\ None \notin Place /\ None \notin Running /\ {None, Torn} \cap Manifest = {}
  /\ Torn \notin Compose

VARIABLES
  home,      \* the files of ~/.stables
  bin,       \* ~/.local/bin: its mode, stab and the client, and who runs them
  container, \* the containers of each stack
  project,   \* a project's .stables directory, and the keys its agent was given
  release,   \* the version of the stables binary at hand
  cmd,       \* the command that is running
  history    \* what befell so far, and what the bounds count

vars == <<home, bin, container, project, release, cmd, history>>

EmptyHome == [models |-> None, secrets |-> None, config |-> None, manifest |-> NoManifest,
              connections |-> None, weights |-> FALSE, prefs |-> None, client |-> None,
              ollama |-> None, webui |-> None, tts |-> None]

Init ==
  /\ \E old \in {None, [port |-> None, client |-> None]}, config \in {None, "private"} :
       home = [EmptyHome EXCEPT !.manifest[Legacy] = old, !.config = config]
  /\ \E mode \in Modes :
       bin = [mode |-> mode, stab |-> None, client |-> None, attached |-> FALSE, open |-> None]
  /\ container = [s \in Stack |-> {}]
  /\ project = [marker |-> None, dockerfile |-> None, models |-> None, agent |-> None]
  /\ release = 1
  /\ cmd = None
  /\ history = [mishaps |-> {}, commands |-> 0, edits |-> 0, faults |-> 0]

----------------------------------------------------------------------------
(* The calls of each command, in order.                                    *)

On(c, calls) == [i \in 1..Len(calls) |-> <<c, calls[i]>>]
When(condition, calls) == IF condition THEN calls ELSE <<>>
Covers(c, component) == c.component \in {component, "all"}

\* Mutant: on record once it is healthy.
VoiceCallsLate(opts) ==
  <<"stage", "client", "prefs">> \o When(opts.models, <<"weights">>) \o <<"require", "compose">>
  \o When(opts.container, <<"take-over", "up", "healthy">>) \o <<"record">>

\* components/tts Install: on record before the container is started.
VoiceCalls(opts) ==
  <<"stage", "client", "prefs">> \o When(opts.models, <<"weights">>)
  \o <<"require", "compose", "record">>
  \o When(opts.container, <<"take-over", "up", "healthy">>)

\* cmdInstall: each component's Install.  The baked files of a sealed installer
\* are skipped without its password.
InstallCalls(c) ==
  When(Covers(c, "stab"),
       On("stab", <<"binary">> \o When(c.opts.password, <<"models", "secrets">>)
                  \o <<"check", "docker", "stab-models", "stab-secrets", "templates",
                       "pi-agent", "record">>))
  \o When(Covers(c, "ollama"), On("ollama", <<"compose", "up", "record">>))
  \o When(Covers(c, "webui"), On("webui", <<"compose", "env", "up", "record">>))
  \o When(Covers(c, "tts"), On("tts", VoiceCalls(c.opts)))

\* removeLocal
RemoveCalls(c, hard) ==
  When(Covers(c, "ollama"), On("ollama", <<"remove">>))
  \o When(Covers(c, "webui"), On("webui", <<"remove">>))
  \o When(Covers(c, "tts"), On("tts", <<"remove", "no-client">> \o When(hard, <<"wipe">>)))
  \o When(Covers(c, "stab"), On("stab", <<"remove">> \o When(hard, <<"wipe">>)))
  \o On("all", <<"save">>)

\* cmdUpdate: `stab update` in the project, then each stack.  Starting the
\* container goes through ensureProjectConfig a second time, where files and
\* marker are as the first left them.
UpdateCalls(c) ==
  When(Covers(c, "stab"),
       On("stab", <<"load", "files", "marker", "refresh", "seed", "sync", "build", "stop",
                    "refresh-again", "seed-again", "run">>))
  \o When(Covers(c, "ollama"), On("ollama", <<"update">>))
  \o When(Covers(c, "tts"), On("tts", <<"update">>))
  \o When(Covers(c, "webui"), On("webui", <<"update">>))

\* cmdInstall does not know --clean: a reinstall that is given it ends where the
\* installation should begin, and so does a clean-install with any flag that
\* install does not know.  A reinstall with such a flag is a remove.
Calls(c) ==
  CASE c.op = "install" -> InstallCalls(c)
    [] c.op = "remove" -> RemoveCalls(c, FALSE)
    [] c.op = "reinstall" -> RemoveCalls(c, c.opts.clean) \o When(~c.opts.clean, InstallCalls(c))
    [] c.op = "clean-install" -> RemoveCalls(c, TRUE) \o InstallCalls(c)
    [] c.op = "update" -> UpdateCalls(c)
    [] c.op = "up" -> On(c.component, <<"up">>)
    [] c.op = "down" -> On(c.component, <<"down">>)
    [] c.op = "fetch" /\ c.component = "webui" -> On("webui", <<"env", "up">>)
    [] c.op = "fetch" /\ c.component = "stab" -> On("stab", <<"load", "refresh", "sync", "stop">>)
    [] c.op = "start" -> On("stab", <<"load", "files", "marker", "refresh", "seed", "attach">>)

NeedsRecord(c) == c.op \in {"up", "down"} \/ (c.op = "fetch" /\ c.component = "webui")

----------------------------------------------------------------------------
(* The manifest, installs.json.                                            *)

\* state.Load, with the renaming of a legacy entry.  Only install and list
\* look at its error; the other commands go on with nothing installed.
Migrated(m) ==
  IF m[Legacy] = None THEN m
  ELSE [m EXCEPT ![Legacy] = None, !["stab"] = IF @ = None THEN m[Legacy] ELSE @]
Loaded == IF home.manifest = Torn THEN NoManifest ELSE Migrated(home.manifest)

At(c, call) == cmd # None /\ Head(cmd.calls) = <<c, call>>
After(c) == IF Len(c.calls) = 1 THEN None ELSE [c EXCEPT !.calls = Tail(@)]
Done == cmd' = After(cmd)
Fails == cmd' = None

Befalls(mishaps) == history' = [history EXCEPT !.mishaps = @ \cup mishaps]
Fault(mishaps) ==
  /\ history.faults < MaxFaults
  /\ history' = [history EXCEPT !.mishaps = @ \cup mishaps, !.faults = @ + 1]

\* A call that leaves nothing behind that is kept here, and may fail.
Tries(c, call) ==
  /\ At(c, call)
  /\ \/ Done /\ UNCHANGED history
     \/ Fault({"failed"}) /\ Fails
  /\ UNCHANGED <<home, bin, container, project, release>>

Begin(c) ==
  /\ cmd = None /\ history.commands < MaxCommands
  /\ NeedsRecord(c) => Loaded[c.component] # None
  /\ cmd' = [calls |-> Calls(c), opts |-> c.opts, left |-> Loaded, place |-> None]
  /\ home' = IF c.op \in {"install", "start"} \/ home.manifest = Torn THEN home
             ELSE [home EXCEPT !.manifest = Migrated(@)]
  /\ history' = [history EXCEPT !.commands = @ + 1]
  /\ UNCHANGED <<bin, container, project, release>>

\* The end of every Install: the component is on record from here on.
Enter(c) ==
  /\ At(c, "record")
  /\ IF home.manifest = Torn THEN Fails /\ UNCHANGED home
     ELSE /\ home' = [home EXCEPT !.manifest = [Migrated(@) EXCEPT ![c] =
                        [port |-> IF c = "stab" THEN None ELSE cmd.opts.port,
                         client |-> cmd.place]]]
          /\ Done
  /\ Befalls(IF c = "tts" /\ ~cmd.opts.container /\ container["tts"] # {}
             THEN {"staged"} ELSE {})
  /\ UNCHANGED <<bin, container, project, release>>

\* The end of removeLocal.
Save ==
  /\ At("all", "save")
  /\ home' = [home EXCEPT !.manifest = cmd.left]
  /\ Done
  /\ UNCHANGED <<bin, container, project, release, history>>

----------------------------------------------------------------------------
(* Stacks.                                                                 *)

\* The containers compose takes for its own: those of the directory, except
\* that the voice stack names its project, and so does not know them under
\* another name.
Own(s, file) == {k \in container[s] : s = "tts" => k.name = file.name}
PortFree(s, file) == \A k \in container[s] \ Own(s, file) : k.port # file.port
Downed(s, file) == [container EXCEPT ![s] = @ \ Own(s, file)]
Upped(s, file) == [container EXCEPT ![s] = (@ \ Own(s, file)) \cup {file}]
Startable(s) == home[s] \in Compose /\ PortFree(s, home[s])

\* Mutant: a compose file that is there already is kept.
WriteComposeOnce(s) ==
  /\ At(s, "compose")
  /\ home' = [home EXCEPT ![s] = IF @ \in Compose THEN @
                                 ELSE [name |-> cmd.opts.name, port |-> cmd.opts.port]]
  /\ Befalls({})
  /\ Done
  /\ UNCHANGED <<bin, container, project, release>>

WriteCompose(s) ==
  /\ At(s, "compose")
  /\ home' = [home EXCEPT ![s] = [name |-> cmd.opts.name, port |-> cmd.opts.port]]
  /\ Befalls(IF s = "tts" /\ \E k \in container["tts"] : k.name # cmd.opts.name
             THEN {"renamed"} ELSE {})
  /\ Done
  /\ UNCHANGED <<bin, container, project, release>>

\* compose up, with the look at the port before it for the voice stack, and for
\* ollama the wait after it: failing, it may have replaced the container, or
\* removed the old one, or neither.
Up(s) ==
  /\ At(s, "up")
  /\ \/ Startable(s) /\ container' = Upped(s, home[s]) /\ Done /\ UNCHANGED history
     \/ ~Startable(s) /\ Fails /\ UNCHANGED <<container, history>>
     \/ /\ Startable(s) /\ Fault({"failed"}) /\ Fails
        /\ container' \in {container, Downed(s, home[s]), Upped(s, home[s])}
  /\ UNCHANGED <<home, bin, project, release>>

\* The same in `stables update`, which ignores its errors.
UpdateStack(s) ==
  /\ At(s, "update")
  /\ IF cmd.left[s] = None \/ ~Startable(s) THEN UNCHANGED <<container, history>>
     ELSE \/ container' = Upped(s, home[s]) /\ UNCHANGED history
          \/ Fault({"failed"}) /\ container' \in {container, Downed(s, home[s])}
  /\ Done
  /\ UNCHANGED <<home, bin, project, release>>

Down(s) ==
  /\ At(s, "down")
  /\ \/ home[s] \in Compose /\ container' = Downed(s, home[s]) /\ Done /\ UNCHANGED history
     \/ home[s] \notin Compose /\ Fails /\ UNCHANGED <<container, history>>
     \/ home[s] \in Compose /\ Fault({"failed"}) /\ Fails /\ UNCHANGED container
  /\ UNCHANGED <<home, bin, project, release>>

\* removeLocal takes the stack down, whatever docker says, and strikes it off.
\* The voice stack stays on the list until its client is gone.
RemoveStack(s) ==
  /\ At(s, "remove")
  /\ IF cmd.left[s] = None \/ home[s] \notin Compose THEN UNCHANGED <<container, history>>
     ELSE \/ container' = Downed(s, home[s]) /\ UNCHANGED history
          \/ Fault({"failed"}) /\ UNCHANGED container
  /\ cmd' = After(IF s = "tts" THEN cmd ELSE [cmd EXCEPT !.left[s] = None])
  /\ UNCHANGED <<home, bin, project, release>>

\* writeConnectionsEnv
WriteEnv ==
  /\ At("webui", "env")
  /\ IF home.models = Torn \/ home.webui = None THEN Fails /\ UNCHANGED home
     ELSE /\ home' = [home EXCEPT !.connections = Endpoints(home.models, home.secrets)]
          /\ Done
  /\ UNCHANGED <<bin, container, project, release, history>>

----------------------------------------------------------------------------
(* The voice stack.                                                        *)

\* The source the image is built from, taken away and written again.
StageSource == Tries("tts", "stage")

ClientAt(place) == IF place = "path" THEN bin.client ELSE home.client
Busy(place) == bin.open # None /\ bin.open.place = place
\* A file of ~/.local/bin that os.WriteFile can write: not one being executed.
Writable(file, busy) == ~busy /\ (bin.mode = "ok" \/ (bin.mode = "readonly" /\ file # None))

\* installTUI falls back when the directory cannot be created.  When only the
\* file cannot be written, Install goes on as if it were in the fallback place.
InstallClient ==
  /\ At("tts", "client")
  /\ LET path == Writable(bin.client, Busy("path"))
         base == bin.mode = "blocked" /\ ~Busy("base")
     IN /\ bin' = IF path THEN [bin EXCEPT !.client = release] ELSE bin
        /\ home' = IF base THEN [home EXCEPT !.client = release] ELSE home
        /\ cmd' = After([cmd EXCEPT !.place = IF path THEN "path" ELSE "base"])
        /\ Befalls(IF path \/ base THEN {} ELSE {"unwritten"})
  /\ UNCHANGED <<container, project, release>>

\* Mutant: preferences that are there already are kept.
WritePrefsOnce ==
  /\ At("tts", "prefs")
  /\ home' = [home EXCEPT !.prefs = IF @ = None THEN cmd.opts.port ELSE @]
  /\ Befalls(IF bin.open # None /\ bin.open.port # cmd.opts.port THEN {"overwritten"} ELSE {})
  /\ Done
  /\ UNCHANGED <<bin, container, project, release>>

\* writeTuiPrefs
WritePrefs ==
  /\ At("tts", "prefs")
  /\ home' = [home EXCEPT !.prefs = cmd.opts.port]
  /\ Befalls(IF bin.open # None /\ bin.open.port # cmd.opts.port THEN {"overwritten"} ELSE {})
  /\ Done
  /\ UNCHANGED <<bin, container, project, release>>

\* fetchModels: only complete downloads get their names.
FetchWeights ==
  /\ At("tts", "weights")
  /\ \/ home' = [home EXCEPT !.weights = TRUE] /\ Done /\ UNCHANGED history
     \/ ~home.weights /\ Fault({"failed"}) /\ Fails /\ UNCHANGED home
  /\ UNCHANGED <<bin, container, project, release>>

RequireModels ==
  /\ At("tts", "require")
  /\ IF home.weights THEN Done /\ UNCHANGED history ELSE Fails /\ Befalls({"no-weights"})
  /\ UNCHANGED <<home, bin, container, project, release>>

\* takeOverPort: compose down, or docker rm -f on the name.
TakeOver ==
  /\ At("tts", "take-over")
  /\ \/ container' = Downed("tts", cmd.opts) /\ Done /\ UNCHANGED history
     \/ Fault({"failed"}) /\ Fails /\ UNCHANGED container
  /\ UNCHANGED <<home, bin, project, release>>

\* waitHealthy, verifyVoices, preloadQwen
WaitHealthy == Tries("tts", "healthy")

\* An unlinked file is no longer busy, whoever executes it.
Unlinked(places) ==
  IF bin.open # None /\ bin.open.place \in places THEN [bin.open EXCEPT !.place = None]
  ELSE bin.open

\* Mutant: only the copy the record names is removed.
RemoveRecordedClient ==
  /\ At("tts", "no-client")
  /\ IF cmd.left["tts"] = None THEN UNCHANGED <<home, bin, history>>
     ELSE /\ home' = IF cmd.left["tts"].client = "base" THEN [home EXCEPT !.client = None] ELSE home
          /\ bin' = IF bin.mode = "ok" /\ cmd.left["tts"].client = "path"
                    THEN [bin EXCEPT !.client = None, !.open = Unlinked({"path"})] ELSE bin
          /\ Befalls(IF bin.mode # "ok" /\ bin.client # None THEN {"unwritten"} ELSE {})
  /\ cmd' = After([cmd EXCEPT !.left["tts"] = None])
  /\ UNCHANGED <<container, project, release>>

\* ClientPaths, RemoveClient: a copy in a directory that cannot be written stays.
RemoveClient ==
  /\ At("tts", "no-client")
  /\ IF cmd.left["tts"] = None THEN UNCHANGED <<home, bin, history>>
     ELSE /\ home' = [home EXCEPT !.client = None]
          /\ bin' = IF bin.mode = "ok"
                    THEN [bin EXCEPT !.client = None, !.open = Unlinked(Place)]
                    ELSE [bin EXCEPT !.open = Unlinked({"base"})]
          /\ Befalls(IF bin.mode # "ok" /\ bin.client # None THEN {"unwritten"} ELSE {})
  /\ cmd' = After([cmd EXCEPT !.left["tts"] = None])
  /\ UNCHANGED <<container, project, release>>

WipeTts ==
  /\ At("tts", "wipe")
  /\ home' = [home EXCEPT !.tts = None, !.weights = FALSE, !.prefs = None, !.client = None]
  /\ bin' = [bin EXCEPT !.open = Unlinked({"base"})]
  /\ Done
  /\ UNCHANGED <<container, project, release, history>>

----------------------------------------------------------------------------
(* stab: installing it, and its own commands.                              *)

Runs == bin.stab \in Release
Configured == [home EXCEPT !.config = "current"]   \* config.Load of a readable file

\* components/stab Install writes over the binary in place.
InstallStab ==
  /\ At("stab", "binary")
  /\ IF Writable(bin.stab, bin.attached)
     THEN bin' = [bin EXCEPT !.stab = release] /\ Done
     ELSE UNCHANGED bin /\ Fails
  /\ UNCHANGED <<home, container, project, release, history>>

\* writeStablesHome, and extractConfig of `stab install`: the models, then the
\* secrets, that are baked into stables or into stab.
Merges == {<<"models", Baked>>, <<"stab-models", StabBaked>>}
Keys == {<<"secrets", Baked>>, <<"stab-secrets", StabBaked>>}

BakedModels(call, baked) ==
  /\ At("stab", call)
  /\ IF MergeStuck(home.models, baked, cmd.opts.force) THEN Fails /\ UNCHANGED home
     ELSE /\ home' = [home EXCEPT !.models = MergeModels(@, baked, cmd.opts.force)]
          /\ Done
  /\ UNCHANGED <<bin, container, project, release, history>>

BakedSecrets(call, baked) ==
  /\ At("stab", call)
  /\ home' = [home EXCEPT !.secrets = MergeSecrets(@, baked, cmd.opts.force)]
  /\ Done
  /\ UNCHANGED <<bin, container, project, release, history>>

\* `stab check --fs --repair`
CheckStab ==
  /\ At("stab", "check")
  /\ IF home.config = Torn THEN Fails /\ UNCHANGED <<home, bin>>
     ELSE /\ home' = Configured
          /\ bin' = [bin EXCEPT !.mode = "ok"]
          /\ Done
  /\ UNCHANGED <<container, project, release, history>>

\* `stab install` needs docker.  It then puts itself in the place it runs from,
\* by a rename, and that place on the PATH.
NeedsDocker == Tries("stab", "docker")

\* It ends with a template of what is missing.
Templates ==
  /\ At("stab", "templates")
  /\ home' = [home EXCEPT !.models = Template(@, NoModels), !.secrets = Template(@, NoSecrets)]
  /\ Done
  /\ UNCHANGED <<bin, container, project, release, history>>

\* piagent.Install, in ~/.pi
InstallPiAgent == Tries("stab", "pi-agent")

RemoveStab ==
  /\ At("stab", "remove")
  /\ bin' = IF bin.mode = "ok" THEN [bin EXCEPT !.stab = None, !.attached = FALSE] ELSE bin
  /\ cmd' = After([cmd EXCEPT !.left["stab"] = None])
  /\ UNCHANGED <<home, container, project, release, history>>

\* A hard removal of stab takes all of ~/.stables, whoever else lives there.
WipeHome ==
  /\ At("stab", "wipe")
  /\ home' = EmptyHome
  /\ bin' = [bin EXCEPT !.open = Unlinked({"base"})]
  /\ Befalls(IF \E s \in Stack : cmd.left[s] # None \/ container[s] # {}
             THEN {"wiped"} ELSE {})
  /\ Done
  /\ UNCHANGED <<container, project, release>>

\* cli.New, at the beginning of every stab command.
LoadConfig ==
  /\ At("stab", "load")
  /\ IF Runs /\ home.config # Torn THEN home' = Configured /\ Done ELSE UNCHANGED home /\ Fails
  /\ UNCHANGED <<bin, container, project, release, history>>

\* ensureProjectConfig: the templates, then the marker that says which.
SeedFiles ==
  /\ At("stab", "files")
  /\ project' = [project EXCEPT !.dockerfile =
                   IF project.marker # bin.stab \/ @ = None THEN bin.stab ELSE @]
  /\ Done
  /\ UNCHANGED <<home, bin, container, release, history>>

SeedMarker ==
  /\ At("stab", "marker")
  /\ project' = [project EXCEPT !.marker = bin.stab]
  /\ Done
  /\ UNCHANGED <<home, bin, container, release, history>>

Refreshes == At("stab", "refresh") \/ At("stab", "refresh-again")
Seeds == At("stab", "seed") \/ At("stab", "seed-again")

RefreshTunnels ==
  /\ Refreshes
  /\ \E answering \in BOOLEAN, host \in Tunnelled :
       home' = [home EXCEPT !.models = Refresh(@, answering, host)]
  /\ Done
  /\ UNCHANGED <<bin, container, project, release, history>>

CopyModels ==
  /\ \/ Seeds /\ project' = [project EXCEPT !.models = Seed(@, home.models)]
     \/ At("stab", "sync") /\ project' = [project EXCEPT !.models = Sync(@, home.models)]
  /\ Done
  /\ UNCHANGED <<home, bin, container, release, history>>

\* buildProjectImageFresh
BuildImage == Tries("stab", "build")

\* cmdFetch and cmdUpdate remove the container, and ignore the errors.
StopAgent ==
  /\ At("stab", "stop")
  /\ \/ project' = [project EXCEPT !.agent = None] /\ UNCHANGED history
     \/ project.agent # None /\ Fault({"failed", "kept"}) /\ UNCHANGED project
  /\ Done
  /\ UNCHANGED <<home, bin, container, release>>

\* envInjectForProject: keys go in when the container is made, and stay.
RunAgent ==
  /\ At("stab", "run") \/ At("stab", "attach")
  /\ \/ /\ project' = [project EXCEPT !.agent =
                        IF @ = None THEN Resolved(project.models, home.secrets) ELSE @]
        /\ bin' = [bin EXCEPT !.attached = @ \/ At("stab", "attach")]
        /\ Done /\ UNCHANGED history
     \/ Fault({"failed"}) /\ Fails /\ UNCHANGED <<project, bin>>
  /\ UNCHANGED <<home, container, release>>

----------------------------------------------------------------------------
(* Interrupts: ^C, a reboot, or the half hour a command may take.           *)

Interrupt ==
  /\ cmd # None /\ Fails
  /\ Fault({"interrupted"})
  /\ UNCHANGED <<home, bin, container, project, release>>

\* The calls that write a file in place, by what an interrupt makes of it.
TearsModels ==
  \/ \E m \in Merges : /\ At("stab", m[1]) /\ m[2] # {}
                       /\ ~MergeStuck(home.models, m[2], cmd.opts.force)
  \/ Refreshes /\ home.models # Torn
  \/ At("stab", "templates") /\ home.models = None
TearsSecrets ==
  \E k \in Keys : /\ At("stab", k[1]) /\ k[2] \cap Provider # {}
                 /\ \/ cmd.opts.force
                    \/ MergeSecrets(home.secrets, k[2], FALSE) # home.secrets
TearsConfig ==
  /\ home.config \in {None, "private"}
  /\ At("stab", "check") \/ (At("stab", "load") /\ Runs)
TearsManifest == At("all", "save") \/ \E c \in Component : At(c, "record")

TornHome ==
  IF TearsModels THEN [home EXCEPT !.models = Torn]
  ELSE IF TearsConfig THEN [home EXCEPT !.config = Torn]
  ELSE IF TearsManifest THEN [home EXCEPT !.manifest = Torn]
  ELSE IF TearsSecrets THEN [home EXCEPT !.secrets = NoSecrets]
  ELSE IF At("webui", "env") /\ home.webui # None THEN [home EXCEPT !.connections = {}]
  ELSE IF At("tts", "prefs") THEN [home EXCEPT !.prefs = None]
  ELSE [s \in DOMAIN home |-> IF s \in Stack /\ At(s, "compose") THEN Torn ELSE home[s]]

TornBin ==
  IF At("stab", "binary") /\ Writable(bin.stab, bin.attached) THEN [bin EXCEPT !.stab = Torn]
  ELSE IF At("tts", "client") /\ Writable(bin.client, Busy("path"))
  THEN [bin EXCEPT !.client = Torn] ELSE bin

TornProject ==
  IF At("stab", "files") /\ (project.marker # bin.stab \/ project.dockerfile = None)
  THEN [project EXCEPT !.dockerfile = Torn]
  ELSE IF At("stab", "marker") /\ project.marker # bin.stab THEN [project EXCEPT !.marker = Torn]
  ELSE IF \/ Seeds /\ project.models = None /\ home.models # None
          \/ At("stab", "sync") /\ home.models # None
  THEN [project EXCEPT !.models = Torn] ELSE project

Tear ==
  /\ cmd # None /\ Fails
  /\ home' = TornHome /\ bin' = TornBin /\ project' = TornProject
  /\ <<home', bin', project'>> # <<home, bin, project>>
  /\ Fault({"interrupted", "torn"})
  /\ UNCHANGED <<container, release>>

----------------------------------------------------------------------------
(* What the user does.                                                     *)

Edit ==
  /\ cmd = None /\ history.edits < MaxEdits
  /\ history' = [history EXCEPT !.edits = @ + 1]
  /\ UNCHANGED <<container, cmd>>

\* The user writes an entry, or deletes one.
EditModels(p, entry) ==
  /\ Edit /\ home.models # Torn /\ Models(home.models)[p] # entry
  /\ home' = [home EXCEPT !.models = [Models(@) EXCEPT ![p] = entry]]
  /\ UNCHANGED <<bin, project, release>>

EditSecrets(p, entry) ==
  /\ Edit /\ Secrets(home.secrets)[p] # entry
  /\ home' = [home EXCEPT !.secrets = [Secrets(@) EXCEPT ![p] = entry]]
  /\ UNCHANGED <<bin, project, release>>

EditDockerfile ==
  /\ Edit /\ project.dockerfile # None
  /\ project' = [project EXCEPT !.dockerfile = None]
  /\ UNCHANGED <<home, bin, release>>

GetRelease ==
  /\ Edit /\ release < Releases
  /\ release' = release + 1
  /\ UNCHANGED <<home, bin, project>>

Chmod(mode) ==
  /\ Edit /\ bin.mode # mode
  /\ bin' = [bin EXCEPT !.mode = mode]
  /\ UNCHANGED <<home, project, release>>

\* Mutant: a client without preferences has no URL to ask.
OpenClientRaw(place) ==
  /\ Edit /\ bin.open = None
  /\ ClientAt(place) \in Release
  /\ place = "path"
  /\ bin' = [bin EXCEPT !.open = [place |-> place, port |-> home.prefs]]
  /\ UNCHANGED <<home, project, release>>

\* `stables tts`, or the client by its name.
OpenClient(place) ==
  /\ Edit /\ bin.open = None
  /\ ClientAt(place) \in Release
  /\ \/ place = "path"
     \/ home.manifest # Torn /\ home.manifest["tts"] # None /\ home.manifest["tts"].client = place
  /\ bin' = [bin EXCEPT !.open = [place |-> place,
                                 port |-> IF home.prefs = None THEN DefaultPort ELSE home.prefs]]
  /\ UNCHANGED <<home, project, release>>

\* save_prefs: on its way out the client writes back the URL it has known.
CloseClient ==
  /\ bin.open # None
  /\ home' = [home EXCEPT !.prefs = bin.open.port]
  /\ bin' = [bin EXCEPT !.open = None]
  /\ UNCHANGED <<container, project, release, cmd, history>>

Detach ==
  /\ bin.attached
  /\ bin' = [bin EXCEPT !.attached = FALSE]
  /\ UNCHANGED <<home, container, project, release, cmd, history>>

----------------------------------------------------------------------------
StackCall ==
  \/ \E s \in Stack : WriteCompose(s) \/ Up(s) \/ UpdateStack(s) \/ Down(s) \/ RemoveStack(s)
  \/ WriteEnv
VoiceCall ==
  \/ StageSource \/ InstallClient \/ WritePrefs \/ FetchWeights \/ RequireModels
  \/ TakeOver \/ WaitHealthy \/ RemoveClient \/ WipeTts
StabCall ==
  \/ InstallStab \/ CheckStab \/ NeedsDocker \/ Templates \/ InstallPiAgent
  \/ \E m \in Merges : BakedModels(m[1], m[2])
  \/ \E k \in Keys : BakedSecrets(k[1], k[2])
  \/ RemoveStab \/ WipeHome
  \/ LoadConfig \/ SeedFiles \/ SeedMarker \/ RefreshTunnels \/ CopyModels
  \/ BuildImage \/ StopAgent \/ RunAgent
User ==
  \/ \E p \in Provider, entry \in {"user", None} : EditModels(p, entry) \/ EditSecrets(p, entry)
  \/ EditDockerfile \/ GetRelease
  \/ \E mode \in {"ok", "readonly"} : Chmod(mode)
  \/ \E place \in Place : OpenClient(place)
  \/ CloseClient \/ Detach

Next ==
  \/ \E c \in Commands : Begin(c)
  \/ \E c \in Component : Enter(c)
  \/ Save \/ StackCall \/ VoiceCall \/ StabCall
  \/ Interrupt \/ Tear \/ User

Spec == Init /\ [][Next]_vars

----------------------------------------------------------------------------
(* What must be true.                                                      *)

Without(mishaps) == history.mishaps \cap mishaps = {}

TypeOK ==
  /\ home \in [models : ModelsFile, secrets : SecretsFile,
               config : {None, Torn, "private", "current"},
               manifest : Manifest \cup {Torn}, connections : (SUBSET Provider) \cup {None},
               weights : BOOLEAN, prefs : Port \cup {None}, client : Release \cup {None, Torn},
               ollama : Compose \cup {None, Torn}, webui : Compose \cup {None, Torn},
               tts : Compose \cup {None, Torn}]
  /\ bin \in [mode : {"ok", "readonly", "blocked"}, stab : Release \cup {None, Torn},
              client : Release \cup {None, Torn}, attached : BOOLEAN,
              open : [place : Place \cup {None}, port : Port] \cup {None}]
  /\ container \in [Stack -> SUBSET Compose]
  /\ project \in [marker : Release \cup {None, Torn}, dockerfile : Release \cup {None, Torn},
                  models : ModelsFile, agent : (SUBSET Provider) \cup {None}]
  /\ release \in Release
  /\ cmd # None => cmd \in Running /\ cmd.calls # <<>>

\* What runs can be removed again: a running stack is on record, and its
\* compose file is the one of its project.  The voice stack is recorded before
\* it is started, so this holds through interrupts; the others afterwards.  It
\* is not claimed once docker failed, a file was torn, the voice stack was
\* installed again under another name while it ran, or stab was removed hard.
StackIsRemovable ==
  \A s \in Stack : \A k \in container[s] :
    /\ Without({"torn", "failed", "renamed", "wiped"})
    /\ s # "tts" => cmd = None /\ Without({"interrupted"})
    => /\ home.manifest[s] # None
       /\ home[s] \in Compose /\ k \in Own(s, home[s])

\* A recorded voice stack has a client where the record says, and without a
\* record there is none: between commands, unless the client could not be
\* written or removed, or a command ended early.
ClientFollowsRecord ==
  (cmd = None /\ Without({"failed", "interrupted", "wiped", "unwritten", "no-weights"})) =>
    LET record == home.manifest["tts"]
    IN IF record = None THEN bin.client = None /\ home.client = None
       ELSE ClientAt(record.client) # None

\* The port a running voice stack is published on is the one on record and the
\* one its client asks: through reinstalls, restarts and updates, unless the
\* client was open while it changed or the container was left alone on purpose.
PortsAgree ==
  (cmd = None /\ Without({"failed", "interrupted", "wiped", "renamed", "staged", "overwritten"})) =>
    \A k \in container["tts"] : home.manifest["tts"].port = k.port /\ home.prefs = k.port

\* Whatever mishaps came before, an install of the voice stack that gets to its
\* end heals them: the stack runs from its compose file, on the port on record,
\* the client there is this release's (if it could be written) and asks that
\* port (unless one that was open writes its own back), and the weights are there.
InstallHeals ==
  [][(At("tts", "healthy") /\ cmd' # cmd /\ history' = history) =>
       LET record == home'.manifest["tts"]
       IN /\ home'.tts \in container'["tts"] /\ home'.weights
          /\ record.port = cmd.opts.port /\ home'.tts.port = record.port
          /\ Without({"overwritten"}) => home'.prefs = record.port
          /\ Without({"unwritten"}) => ClientAt(record.client) = release]_vars

\* No merge, refresh or copy of a command takes away a provider or a key the
\* user wrote: only --force, a hard removal of stab, or a torn write does.
UserEditsSurvive ==
  [][cmd # None /\ ~cmd.opts.force /\ ~At("stab", "wipe") /\ "torn" \notin history'.mishaps =>
       \A p \in Provider :
         /\ Models(home.models)[p] = "user" => Models(home'.models)[p] = "user"
         /\ Secrets(home.secrets)[p] = "user" => Secrets(home'.secrets)[p] = "user"]_vars

\* A `stab update` that gets to its end gives the agent the keys of the
\* providers that the user's own files name and no others, whatever its
\* project's copy said before.  The exception is a container that could not be
\* removed, for docker's error is ignored: it lives on with the keys it had.
\* Nothing is said of a models.json that names no provider, for one that was
\* missing when it was copied may be written by the refresh that follows.
UpdateReachesAgent ==
  [][(At("stab", "run") /\ cmd' # cmd /\ history' = history /\ References(home.models) # {}) =>
       \/ project'.agent = Resolved(home.models, home.secrets)
       \/ project.agent # None /\ "kept" \in history.mishaps]_vars
====
