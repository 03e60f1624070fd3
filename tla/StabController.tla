---- MODULE StabController ----
(***************************************************************************)
(* `stab`: the commands that start, update, fetch into and kill the        *)
(* container of a project (stab/internal/project/controller.go and         *)
(* stab/internal/cli), over what they share: the docker daemon, the        *)
(* store's tables, and images.json, where the template version each image  *)
(* was built from is written down (imagemeta.go).                          *)
(*                                                                         *)
(* Commands are processes: any two run side by side, and nothing is        *)
(* locked.  A step ends at a call to docker, the file or the store.        *)
(* Mounts, labels but stab.super, environment and ports are left out; so   *)
(* is the seeding of the config directory, which always leaves there the   *)
(* template of the binary that runs.  Each call can fail: see Abandon.     *)
(***************************************************************************)
EXTENDS Naturals

CONSTANTS
  Project,
  Process,      \* bound: commands running at a time
  None,         \* no image, no container, no command
  MaxTemplate,  \* bound: template versions
  MaxCommands,  \* bound: commands started
  MaxFaults     \* bound: failing calls, killed commands, outside interference,
                \* changes of the GPU setting

ASSUME BoundsAssumption ==
  MaxTemplate \in Nat \ {0} /\ MaxCommands \in Nat /\ MaxFaults \in Nat

VARIABLES
  template,    \* TemplateVersion of the installed binary
  gpu,         \* what gpuSpec finds: a GPU, and a profile that wants it
  images,      \* docker's images, by tag
  meta,        \* images.json: the version recorded for each tag, 0 when none
  container,   \* docker's container of each project
  recorded,    \* projects.image
  deployment,  \* deployments.observed_state
  inv,         \* the command each process runs
  commands, faults   \* history, for the bounds

bounds == <<commands, faults>>
docker == <<images, container>>
tables == <<recorded, deployment>>
host == <<template, gpu>>
vars == <<host, docker, meta, tables, inv, bounds>>

Variant == {"cpu", "gpu"}
Tag == Project \X Variant
Version == 1..MaxTemplate

Image == [template : Version, dockerfile : Variant]

\* session: none, one without its main window, or one with the harness in it.
Container ==
  [image : Image, gpus : BOOLEAN, super : BOOLEAN,
   status : {"created", "running", "exited"}, session : {"none", "bare", "main"}]

Meta == [Tag -> 0..MaxTemplate]
NoMeta == [tag \in Tag |-> 0]

\* readImageMeta: a file caught between truncation and write does not parse,
\* and that is an empty map.
ReadMeta == IF meta = None THEN NoMeta ELSE meta

Command ==
  [op : {"start", "update", "fetch", "kill"},
   project : Project,
   super : BOOLEAN,
   starting : BOOLEAN,          \* inside StartOrAttach
   pc : {"resolve", "exists", "image", "build", "read", "truncate", "write", "run",
         "labels", "recreate", "rerun", "start", "wait", "session", "store",
         "record", "stop", "remove", "mark"},
   tag : Tag, gpus : BOOLEAN,   \* what ResolveImage returned
   known : BOOLEAN,             \* the image's version was known when it was looked at
   map : Meta,                  \* what was read from images.json
   clean : BOOLEAN]             \* history: no interference, no call ignored that failed

ASSUME NoneAssumption == None \notin Container /\ None \notin Command

Dockerfile(on) == IF on THEN "gpu" ELSE "cpu"

----
(* Steps of a command *)

At(i, pc) == inv[i] # None /\ inv[i].pc = pc
Goto(i, pc) == inv' = [inv EXCEPT ![i].pc = pc]
Return(i) == inv' = [inv EXCEPT ![i] = None]

\* The command's own project.
Own(i) == container[inv[i].project]
SetOwn(i, c) == container' = [container EXCEPT ![inv[i].project] = c]

Running(p) == container[p] # None /\ container[p].status = "running"

\* What else happens to a project disturbs the commands that work on it.
Disturbed(p) ==
  [i \in Process |->
     IF inv[i] = None \/ inv[i].project # p THEN inv[i]
     ELSE [inv[i] EXCEPT !.clean = FALSE]]

FirstStep(op) == IF op \in {"start", "update"} THEN "resolve" ELSE "stop"

Begin(i, op, p, super) ==
  /\ inv[i] = None
  /\ commands < MaxCommands /\ commands' = commands + 1
  /\ inv' = [Disturbed(p) EXCEPT ![i] =
               [op |-> op, project |-> p, super |-> super, starting |-> op = "start",
                pc |-> FirstStep(op), tag |-> <<p, "cpu">>, gpus |-> FALSE,
                known |-> FALSE, map |-> NoMeta,
                clean |-> \A j \in Process : inv[j] = None \/ inv[j].project # p]]
  /\ UNCHANGED <<host, docker, meta, tables, faults>>

\* An error return, Ctrl-C or the end of the process: what was done stays done.
Abandon(i) ==
  /\ inv[i] # None
  /\ faults < MaxFaults /\ faults' = faults + 1
  /\ Return(i)
  /\ UNCHANGED <<host, docker, meta, tables, commands>>

\* ResolveImage: the tag on record, or the one the GPU calls for; the
\* Dockerfile follows the GPU alone.
ImageFor(p) == IF recorded[p] # None THEN recorded[p] ELSE <<p, Dockerfile(gpu)>>

Resolve(i) ==
  /\ At(i, "resolve")
  /\ inv' = [inv EXCEPT ![i].tag = ImageFor(inv[i].project), ![i].gpus = gpu,
                        ![i].pc = IF inv[i].starting THEN "exists" ELSE "build"]
  /\ UNCHANGED <<host, docker, meta, tables, bounds>>

CheckContainer(i) ==
  /\ At(i, "exists")
  /\ Goto(i, IF Own(i) = None THEN "image" ELSE "labels")
  /\ UNCHANGED <<host, docker, meta, tables, bounds>>

\* Mutant of Stale: every image is good enough.
StaleNever(tag) == FALSE

\* Known to have been built with another template.
Stale(tag) == ReadMeta[tag] \notin {0, template}

CheckImage(i) ==
  /\ At(i, "image")
  /\ inv' = [inv EXCEPT
               ![i].known = ReadMeta[inv[i].tag] # 0,
               ![i].pc = IF images[inv[i].tag] = None \/ Stale(inv[i].tag)
                         THEN "build" ELSE "run"]
  /\ UNCHANGED <<host, docker, meta, tables, bounds>>

\* Mutant of Build: a build that fails goes unnoticed.
BuildUnchecked(i) ==
  /\ At(i, "build")
  /\ images' \in {images, [images EXCEPT ![inv[i].tag] =
                  [template |-> template, dockerfile |-> Dockerfile(inv[i].gpus)]]}
  /\ Goto(i, "read")
  /\ UNCHANGED <<host, container, meta, tables, bounds>>

\* `docker build`, of the seeded files.
Build(i) ==
  /\ At(i, "build")
  /\ images' = [images EXCEPT ![inv[i].tag] =
                  [template |-> template, dockerfile |-> Dockerfile(inv[i].gpus)]]
  /\ Goto(i, "read")
  /\ UNCHANGED <<host, container, meta, tables, bounds>>

\* RecordImageTemplate: the whole map is read, the file is truncated, and the
\* map is written back with one entry changed.
RecordRead(i) ==
  /\ At(i, "read")
  /\ inv' = [inv EXCEPT ![i].map = ReadMeta, ![i].pc = "truncate"]
  /\ UNCHANGED <<host, docker, meta, tables, bounds>>

RecordTruncate(i) ==
  /\ At(i, "truncate")
  /\ meta' = None
  /\ Goto(i, "write")
  /\ UNCHANGED <<host, docker, tables, bounds>>

RecordWrite(i) ==
  /\ At(i, "write")
  /\ meta' = [inv[i].map EXCEPT ![inv[i].tag] = template]
  /\ inv' = [inv EXCEPT ![i].map = NoMeta,
                        ![i].pc = IF inv[i].starting THEN "run" ELSE "stop"]
  /\ UNCHANGED <<host, docker, tables, bounds>>

\* `docker run`.  It fails when the name is taken or the image is gone; when the
\* port was taken since findFreePort, it leaves a created container behind.
RunContainer(i) ==
  /\ At(i, "run") \/ At(i, "rerun")
  /\ IF Own(i) # None \/ images[inv[i].tag] = None
     THEN Return(i) /\ UNCHANGED container
     ELSE \E status \in {"running", "created"} :
            /\ SetOwn(i, [image |-> images[inv[i].tag], gpus |-> inv[i].gpus,
                          super |-> inv[i].super, status |-> status, session |-> "none"])
            /\ IF status = "running" THEN Goto(i, "wait") ELSE Return(i)
  /\ UNCHANGED <<host, images, meta, tables, bounds>>

\* Mutants of WrongMode: every container is made anew; the label is not read.
RecreateAlways(i) == TRUE
ModeIgnored(i) == FALSE

\* A container that went meanwhile has no labels, and is not in super mode.
WrongMode(i) == (Own(i) # None /\ Own(i).super) # inv[i].super

CheckLabels(i) ==
  /\ At(i, "labels")
  /\ Goto(i, IF WrongMode(i) THEN "recreate" ELSE "start")
  /\ UNCHANGED <<host, docker, meta, tables, bounds>>

Recreate(i) ==
  /\ At(i, "recreate")
  /\ SetOwn(i, None)
  /\ Goto(i, "rerun")
  /\ UNCHANGED <<host, images, meta, tables, bounds>>

\* The status is read, and `docker start` follows unless it is running.
StartContainer(i) ==
  /\ At(i, "start")
  /\ \/ Running(inv[i].project) /\ Goto(i, "wait") /\ UNCHANGED container
     \/ /\ Own(i) # None /\ Own(i).status # "running"
        /\ SetOwn(i, [Own(i) EXCEPT !.status = "running"])
        /\ Goto(i, "wait")
     \/ ~Running(inv[i].project) /\ Return(i) /\ UNCHANGED container
  /\ UNCHANGED <<host, images, meta, tables, bounds>>

\* waitRunning gives up after 30 s; the probes of the agent directory and of the
\* harness change nothing and, like npm, may fail.
WaitRunning(i) ==
  /\ At(i, "wait")
  /\ IF Running(inv[i].project) THEN Goto(i, "session") ELSE Return(i)
  /\ UNCHANGED <<host, docker, meta, tables, bounds>>

\* ensureTmuxSession: the session is created, or its main window repaired.  The
\* harness may exit at once and take its window along; and when every repair
\* fails, lastErr is the nil of the shadowed err and the result is success.
EnsureTmuxSession(i) ==
  /\ At(i, "session")
  /\ IF ~Running(inv[i].project)
     THEN Return(i) /\ UNCHANGED container
     ELSE /\ \E session \in {"bare", "main"} :
               /\ Own(i).session = "main" => session = "main"
               /\ SetOwn(i, [Own(i) EXCEPT !.session = session])
          /\ Goto(i, "store")
  /\ UNCHANGED <<host, images, meta, tables, bounds>>

StoreDeployment(i) ==
  /\ At(i, "store")
  /\ deployment' = [deployment EXCEPT ![inv[i].project] = "running"]
  /\ Goto(i, "record")
  /\ UNCHANGED <<host, docker, meta, recorded, bounds>>

\* Mutant of StoreProject: the name of the Dockerfile for the tag.
StoreDockerfile(i) ==
  /\ At(i, "record")
  /\ recorded' = [recorded EXCEPT ![inv[i].project] = Dockerfile(inv[i].gpus)]
  /\ Return(i)
  /\ UNCHANGED <<host, docker, meta, deployment, bounds>>

\* UpsertProject writes the tag that was used where a custom image would be.
StoreProject(i) ==
  /\ At(i, "record")
  /\ recorded' = [recorded EXCEPT ![inv[i].project] = inv[i].tag]
  /\ Return(i)
  /\ UNCHANGED <<host, docker, meta, deployment, bounds>>

\* `docker stop`, of kill, fetch and update.  Errors are ignored: here and in
\* RemoveContainer the fault leaves the container and goes on.
StopContainer(i) ==
  /\ At(i, "stop")
  /\ IF Own(i) = None THEN UNCHANGED container
     ELSE SetOwn(i, [Own(i) EXCEPT
                       !.status = IF @ = "running" THEN "exited" ELSE @,
                       !.session = "none"])
  /\ Goto(i, "remove")
  /\ UNCHANGED <<host, images, meta, tables, bounds>>

\* What is left to do once the container is removed, or not: nothing for fetch.
AfterRemove(i, ok) ==
  CASE inv[i].op = "kill"   -> Goto(i, "mark")
    [] inv[i].op = "update" ->
         inv' = [inv EXCEPT ![i].pc = "resolve", ![i].starting = TRUE, ![i].clean = @ /\ ok]
    [] OTHER -> Return(i)

\* Mutant of RemoveContainer: stopping is taken to be enough.
RemoveForgotten(i) ==
  /\ At(i, "remove")
  /\ UNCHANGED container
  /\ AfterRemove(i, TRUE)
  /\ UNCHANGED <<host, images, meta, tables, bounds>>

RemoveContainer(i) ==
  /\ At(i, "remove")
  /\ SetOwn(i, None)
  /\ AfterRemove(i, TRUE)
  /\ UNCHANGED <<host, images, meta, tables, bounds>>

RemoveFails(i) ==
  /\ At(i, "remove")
  /\ faults < MaxFaults /\ faults' = faults + 1
  /\ AfterRemove(i, FALSE)
  /\ UNCHANGED <<host, docker, meta, tables, commands>>

StopFails(i) ==
  /\ At(i, "stop")
  /\ faults < MaxFaults /\ faults' = faults + 1
  /\ Goto(i, "remove")
  /\ UNCHANGED <<host, docker, meta, tables, commands>>

\* Kill marks the deployment, if there is one, whatever became of the container.
MarkStopped(i) ==
  /\ At(i, "mark")
  /\ deployment' = [deployment EXCEPT ![inv[i].project] = IF @ = "none" THEN @ ELSE "stopped"]
  /\ Return(i)
  /\ UNCHANGED <<host, docker, meta, recorded, bounds>>

StartStep(i) ==
  \/ Resolve(i) \/ CheckContainer(i) \/ CheckImage(i)
  \/ Build(i) \/ RecordRead(i) \/ RecordTruncate(i) \/ RecordWrite(i)
  \/ RunContainer(i) \/ CheckLabels(i) \/ Recreate(i) \/ StartContainer(i)
  \/ WaitRunning(i) \/ EnsureTmuxSession(i) \/ StoreDeployment(i) \/ StoreProject(i)

RemoveStep(i) ==
  StopContainer(i) \/ StopFails(i) \/ RemoveContainer(i) \/ RemoveFails(i) \/ MarkStopped(i)

----
(* Around the commands *)

\* A new binary.  Assumed not to be installed under a running command.
Upgrade ==
  /\ template < MaxTemplate
  /\ \A i \in Process : inv[i] = None
  /\ template' = template + 1
  /\ UNCHANGED <<gpu, docker, meta, tables, inv, bounds>>

\* The profile's GPU setting, or the driver.  Disturbs every command.
GpuChanges ==
  /\ faults < MaxFaults /\ faults' = faults + 1
  /\ gpu' = ~gpu
  /\ inv' = [i \in Process |->
               IF inv[i] = None THEN None ELSE [inv[i] EXCEPT !.clean = FALSE]]
  /\ UNCHANGED <<template, docker, meta, tables, commands>>

\* The user quits the harness: tmux deletes its window.
HarnessExits(p) ==
  /\ Running(p) /\ container[p].session = "main"
  /\ container' = [container EXCEPT ![p].session = "bare"]
  /\ UNCHANGED <<host, images, meta, tables, inv, bounds>>

\* Somebody stops the container behind stab's back.
ContainerExits(p) ==
  /\ Running(p)
  /\ faults < MaxFaults /\ faults' = faults + 1
  /\ container' = [container EXCEPT ![p].status = "exited", ![p].session = "none"]
  /\ inv' = Disturbed(p)
  /\ UNCHANGED <<host, images, meta, tables, commands>>

\* `docker rmi`, `docker image prune`: images.json keeps its entry.
PruneImage(tag) ==
  /\ images[tag] # None
  /\ faults < MaxFaults /\ faults' = faults + 1
  /\ images' = [images EXCEPT ![tag] = None]
  /\ UNCHANGED <<host, container, meta, tables, inv, commands>>

----

Init ==
  /\ template = 1
  /\ gpu \in BOOLEAN
  /\ images = [tag \in Tag |-> None]
  /\ meta = NoMeta
  /\ container = [p \in Project |-> None]
  /\ recorded = [p \in Project |-> None]
  /\ deployment = [p \in Project |-> "none"]
  /\ inv = [i \in Process |-> None]
  /\ commands = 0 /\ faults = 0

Next ==
  \/ \E i \in Process, p \in Project :
       \/ \E op \in {"start", "update"}, super \in BOOLEAN : Begin(i, op, p, super)
       \/ \E op \in {"fetch", "kill"} : Begin(i, op, p, FALSE)
  \/ \E i \in Process : StartStep(i) \/ RemoveStep(i) \/ Abandon(i)
  \/ Upgrade \/ GpuChanges
  \/ \E p \in Project : HarnessExits(p) \/ ContainerExits(p)
  \/ \E tag \in Tag : PruneImage(tag)

Spec == Init /\ [][Next]_vars

----
(* Properties *)

TypeOK ==
  /\ template \in Version
  /\ gpu \in BOOLEAN
  /\ images \in [Tag -> Image \cup {None}]
  /\ meta \in Meta \cup {None}
  /\ container \in [Project -> Container \cup {None}]
  /\ recorded \in [Project -> Tag \cup {None}]
  /\ deployment \in [Project -> {"none", "running", "stopped"}]
  /\ inv \in [Process -> Command \cup {None}]

\* However the read-modify-writes of images.json interleave, tear or stop half
\* way, it never calls an image newer than it is: a stale entry costs a rebuild,
\* an entry ahead of its image would hide that one is due.
MetaNeverAhead ==
  \A tag \in Tag : images[tag] # None => ReadMeta[tag] <= images[tag].template

\* "An image known to predate it is rebuilt automatically on start": a container
\* made where there was none runs the current template, if the image's version
\* was known.  (Recreated for the super mode, it may run an older one.)
StaleIsRebuilt ==
  [][\A i \in Process :
       At(i, "run") /\ inv'[i] # inv[i] /\ inv[i].known /\ Own(i) = None =>
         \/ container'[inv[i].project] = None
         \/ container'[inv[i].project].image.template = template]_vars

\* "StartOrAttach reconciles": a start or update that succeeds, nothing having
\* interfered with it, leaves a running container in the mode that was
\* asked for with a session in it, whatever it started from.
StartReconciles ==
  \A i \in Process :
    At(i, "record") /\ inv[i].clean =>
      LET p == inv[i].project
      IN  /\ Running(p)
          /\ container[p].super = inv[i].super
          /\ container[p].session # "none"
          /\ deployment[p] = "running"

\* "Recreate the container so it picks up the new image": after an update that
\* succeeds, not interfered with and with no failure ignored, the container runs
\* the current template, from the Dockerfile the GPU calls for.
UpdateTakesEffect ==
  \A i \in Process :
    At(i, "record") /\ inv[i].op = "update" /\ inv[i].clean =>
      container[inv[i].project].image =
        [template |-> template, dockerfile |-> Dockerfile(gpu)]

\* The process's command, a start that is alone on its project and asks for the
\* mode the container runs in, takes a step.
ReattachStep(i) ==
  /\ inv[i] # None /\ inv'[i] # inv[i]
  /\ inv[i].op = "start" /\ inv[i].clean
  /\ inv'[i] # None => inv'[i].clean
  /\ Running(inv[i].project) /\ Own(i).super = inv[i].super

\* "recreating an attached container would close the user's terminal": such a
\* start never costs the container its session.
KeepsSession ==
  [][\A i \in Process :
       ReattachStep(i) /\ Own(i).session # "none" =>
         container'[inv[i].project] # None /\ container'[inv[i].project].session # "none"]_vars

\* "each project gets its own image built from its config dir (the GPU variant
\* when gpu is true)": a container that is given the GPU is made from an image
\* of Dockerfile.gpu.
GpuRunsGpuImage ==
  \A p \in Project :
    container[p] # None /\ container[p].gpus => container[p].image.dockerfile = "gpu"
====
