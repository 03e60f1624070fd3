---- MODULE StabControllerProofs ----
(***************************************************************************)
(* images.json never runs ahead of the images, and a start or an update     *)
(* that nothing interfered with does what it says: for any number of        *)
(* projects, commands running side by side, upgrades and faults, whatever   *)
(* commands of other projects do meanwhile, and whatever the container, its *)
(* session, its image and the records were.                                *)
(*                                                                         *)
(* A command is clean as long as it is alone on its project and no call    *)
(* that it ignores has failed.  What it has learned at each point stays    *)
(* true, because other commands keep to their own projects.  From that     *)
(* follow what the commands promise at their end, and what a step may      *)
(* never do: take the session of a container that runs as asked, or make   *)
(* a container from an image known to be old.                              *)
(***************************************************************************)
EXTENDS StabController, TLAPS

----
(* Types *)

\* What a step of one command does to `inv`: its own entry alone changes, to a
\* command or to None.
Moves(i) ==
  /\ inv' \in [Process -> Command \cup {None}]
  /\ \A j \in Process \ {i} : inv'[j] = inv[j]

LEMMA CommandAt ==
  ASSUME TypeOK, NEW i \in Process, inv[i] # None
  PROVE  /\ inv[i] \in Command
         /\ inv[i].project \in Project /\ inv[i].tag \in Tag /\ inv[i].map \in Meta
         /\ inv[i].super \in BOOLEAN /\ inv[i].gpus \in BOOLEAN
<1>1. inv[i] \in Command
  BY DEF TypeOK
<1> QED  BY <1>1 DEF Command

LEMMA GotoMoves ==
  ASSUME TypeOK, NEW i \in Process, inv[i] # None,
         NEW pc \in {"resolve", "exists", "image", "build", "read", "truncate", "write",
                     "run", "labels", "recreate", "rerun", "start", "wait", "session",
                     "store", "record", "stop", "remove", "mark"},
         Goto(i, pc)
  PROVE  /\ Moves(i)
         /\ inv'[i] = [inv[i] EXCEPT !.pc = pc]
<1>1. inv[i] \in Command
  BY CommandAt
<1>2. [inv[i] EXCEPT !.pc = pc] \in Command
  BY <1>1 DEF Command
<1>3. inv' = [inv EXCEPT ![i] = [inv[i] EXCEPT !.pc = pc]]
  BY DEF Goto
<1> HIDE DEF Goto
<1> QED  BY <1>2, <1>3 DEF TypeOK, Moves

LEMMA ReturnMoves ==
  ASSUME TypeOK, NEW i \in Process, Return(i)
  PROVE  Moves(i) /\ inv'[i] = None
  BY DEF TypeOK, Return, Moves

\* A disturbed command is as it was, but no longer clean.
LEMMA DisturbedTyped ==
  ASSUME TypeOK, NEW p \in Project
  PROVE  /\ Disturbed(p) \in [Process -> Command \cup {None}]
         /\ \A i \in Process :
              \/ Disturbed(p)[i] = inv[i]
              \/ inv[i] # None /\ Disturbed(p)[i] = [inv[i] EXCEPT !.clean = FALSE]
<1>1. \A i \in Process : inv[i] # None => [inv[i] EXCEPT !.clean = FALSE] \in Command
  BY DEF TypeOK, Command
<1> QED  BY <1>1 DEF Disturbed, TypeOK

LEMMA ReadMetaTyped == TypeOK => ReadMeta \in Meta /\ NoMeta \in Meta
  BY BoundsAssumption DEF TypeOK, ReadMeta, NoMeta, Meta

LEMMA BeginTyped ==
  ASSUME TypeOK, NEW i \in Process, NEW p \in Project, NEW super \in BOOLEAN,
         NEW op \in {"start", "update", "fetch", "kill"}, Begin(i, op, p, super)
  PROVE  /\ inv' \in [Process -> Command \cup {None}]
         /\ inv'[i].map = NoMeta /\ inv'[i].pc \in {"resolve", "stop"}
         /\ \A j \in Process \ {i} : inv'[j] = Disturbed(p)[j]
<1> DEFINE c == [op |-> op, project |-> p, super |-> super, starting |-> op = "start",
                 pc |-> FirstStep(op), tag |-> <<p, "cpu">>, gpus |-> FALSE,
                 known |-> FALSE, map |-> NoMeta,
                 clean |-> \A j \in Process : inv[j] = None \/ inv[j].project # p]
<1>1. inv' = [Disturbed(p) EXCEPT ![i] = c]
  BY DEF Begin
<1>2. <<p, "cpu">> \in Tag /\ NoMeta \in Meta
  BY ReadMetaTyped DEF Tag, Variant
<1>3. FirstStep(op) \in {"resolve", "stop"}
  BY DEF FirstStep
<1>4. (op = "start") \in BOOLEAN
  OBVIOUS
<1>5. (\A j \in Process : inv[j] = None \/ inv[j].project # p) \in BOOLEAN
  OBVIOUS
<1>6. c \in Command
  BY <1>2, <1>3, <1>4, <1>5 DEF Command
<1>7. c.map = NoMeta /\ c.pc \in {"resolve", "stop"}
  BY <1>3
<1> HIDE DEF c
<1> QED  BY <1>1, <1>6, <1>7, DisturbedTyped

----
(* Most steps leave the template, the images and images.json alone, and have *)
(* nothing to record.                                                        *)

Recording == {"read", "truncate", "write"}

Plain(i) ==
  /\ TypeOK'
  /\ Moves(i)
  /\ UNCHANGED <<template, images, meta>>
  /\ \/ inv'[i] = None
     \/ inv[i] # None /\ inv'[i].map = inv[i].map /\ inv'[i].pc \notin Recording

Pc == {"resolve", "exists", "image", "build", "run", "labels", "recreate", "rerun", "start",
       "wait", "session", "store", "record", "stop", "remove", "mark"}

\* The control part of a plain step: it goes on or returns.
LEMMA PlainControl ==
  ASSUME TypeOK, NEW i \in Process, inv[i] # None,
         Return(i) \/ \E pc \in Pc : Goto(i, pc)
  PROVE  /\ Moves(i)
         /\ inv' \in [Process -> Command \cup {None}]
         /\ \/ inv'[i] = None
            \/ inv[i] # None /\ inv'[i].map = inv[i].map /\ inv'[i].pc \notin Recording
<1>1. CASE Return(i)
  BY <1>1, ReturnMoves DEF Moves
<1>2. ASSUME NEW pc \in Pc, Goto(i, pc)
      PROVE  Moves(i) /\ inv'[i].map = inv[i].map /\ inv'[i].pc \notin Recording
  <2>1. pc \in {"resolve", "exists", "image", "build", "read", "truncate", "write",
                "run", "labels", "recreate", "rerun", "start", "wait", "session",
                "store", "record", "stop", "remove", "mark"}
    BY DEF Pc
  <2>2. Moves(i) /\ inv'[i] = [inv[i] EXCEPT !.pc = pc]
    BY <1>2, <2>1, GotoMoves
  <2>3. inv[i] \in Command
    BY CommandAt
  <2> QED  BY <2>2, <2>3 DEF Command, Pc, Recording
<1> QED  BY <1>1, <1>2 DEF Moves

LEMMA ResolvePlain == ASSUME TypeOK, NEW i \in Process, Resolve(i) PROVE Plain(i)
<1> DEFINE c == [inv[i] EXCEPT !.tag = ImageFor(inv[i].project), !.gpus = gpu,
                               !.pc = IF inv[i].starting THEN "exists" ELSE "build"]
<1>1. inv[i] # None /\ inv[i] \in Command /\ inv[i].project \in Project
  BY CommandAt DEF Resolve, At
<1>2. ImageFor(inv[i].project) \in Tag
  BY <1>1 DEF ImageFor, TypeOK, Tag, Variant, Dockerfile
<1>3. gpu \in BOOLEAN
  BY DEF TypeOK
<1>4. c \in Command /\ c.map = inv[i].map /\ c.pc \notin Recording
  BY <1>1, <1>2, <1>3 DEF Command, Recording
<1>5. inv' = [inv EXCEPT ![i] = c]
  BY DEF Resolve
<1> HIDE DEF c
<1>6. Moves(i) /\ inv'[i] = c
  BY <1>4, <1>5 DEF Moves, TypeOK
<1> QED  BY <1>1, <1>4, <1>6 DEF Resolve, Plain, Moves, TypeOK, host, docker, tables

LEMMA CheckImagePlain == ASSUME TypeOK, NEW i \in Process, CheckImage(i) PROVE Plain(i)
<1> DEFINE c == [inv[i] EXCEPT
                   !.known = ReadMeta[inv[i].tag] # 0,
                   !.pc = IF images[inv[i].tag] = None \/ Stale(inv[i].tag)
                          THEN "build" ELSE "run"]
<1>1. inv[i] # None /\ inv[i] \in Command
  BY CommandAt DEF CheckImage, At
<1>2. c \in Command /\ c.map = inv[i].map /\ c.pc \notin Recording
  BY <1>1 DEF Command, Recording
<1>3. inv' = [inv EXCEPT ![i] = c]
  BY DEF CheckImage
<1> HIDE DEF c
<1>4. Moves(i) /\ inv'[i] = c
  BY <1>2, <1>3 DEF Moves, TypeOK
<1> QED  BY <1>1, <1>2, <1>4 DEF CheckImage, Plain, Moves, TypeOK, host, docker, tables

LEMMA RunContainerPlain == ASSUME TypeOK, NEW i \in Process, RunContainer(i) PROVE Plain(i)
<1>1. inv[i] # None /\ inv[i] \in Command /\ inv[i].project \in Project /\ inv[i].tag \in Tag
        /\ inv[i].super \in BOOLEAN /\ inv[i].gpus \in BOOLEAN
  BY CommandAt DEF RunContainer, At
<1>2. container' \in [Project -> Container \cup {None}]
  <2>1. CASE UNCHANGED container
    BY <2>1 DEF TypeOK
  <2>2. ASSUME NEW status \in {"running", "created"}, images[inv[i].tag] # None,
               SetOwn(i, [image |-> images[inv[i].tag], gpus |-> inv[i].gpus,
                          super |-> inv[i].super, status |-> status, session |-> "none"])
        PROVE  container' \in [Project -> Container \cup {None}]
    <3>1. images[inv[i].tag] \in Image
      BY <1>1, <2>2 DEF TypeOK
    <3>2. [image |-> images[inv[i].tag], gpus |-> inv[i].gpus, super |-> inv[i].super,
           status |-> status, session |-> "none"] \in Container
      BY <1>1, <3>1 DEF Container
    <3> QED  BY <1>1, <2>2, <3>2 DEF SetOwn, TypeOK
  <2> QED  BY <2>1, <2>2 DEF RunContainer
<1>3. Return(i) \/ Goto(i, "wait")
  BY DEF RunContainer
<1> QED  BY <1>1, <1>2, <1>3, PlainControl
         DEF RunContainer, Plain, TypeOK, host, tables, Pc

\* What a step makes of the container: another status or session, or nothing.
LEMMA ContainerTyped ==
  ASSUME TypeOK, NEW p \in Project,
         \/ UNCHANGED container
         \/ container' = [container EXCEPT ![p] = None]
         \/ /\ container[p] # None
            /\ \E status \in {"created", "running", "exited"},
                  session \in {"none", "bare", "main"} :
                 container' = [container EXCEPT
                   ![p] = [container[p] EXCEPT !.status = status, !.session = session]]
  PROVE  container' \in [Project -> Container \cup {None}]
<1>1. ASSUME container[p] # None,
             NEW status \in {"created", "running", "exited"},
             NEW session \in {"none", "bare", "main"}
      PROVE  [container[p] EXCEPT !.status = status, !.session = session] \in Container
  BY <1>1 DEF TypeOK, Container
<1> QED  BY <1>1 DEF TypeOK

LEMMA StartStepPlain ==
  ASSUME TypeOK, NEW i \in Process,
         \/ CheckContainer(i) \/ CheckLabels(i) \/ Recreate(i) \/ StartContainer(i)
         \/ WaitRunning(i) \/ EnsureTmuxSession(i) \/ StoreDeployment(i) \/ StoreProject(i)
  PROVE  Plain(i)
<1>0. inv[i] # None /\ inv[i].project \in Project /\ inv[i].tag \in Tag
  BY CommandAt
     DEF CheckContainer, CheckLabels, Recreate, StartContainer, WaitRunning,
         EnsureTmuxSession, StoreDeployment, StoreProject, At
<1>1. CASE CheckContainer(i)
  BY <1>0, <1>1, PlainControl
     DEF CheckContainer, Plain, TypeOK, host, docker, tables, Pc
<1>2. CASE CheckLabels(i)
  BY <1>0, <1>2, PlainControl
     DEF CheckLabels, Plain, TypeOK, host, docker, tables, Pc
<1>3. CASE Recreate(i)
  <2>1. container' \in [Project -> Container \cup {None}]
    BY <1>0, <1>3, ContainerTyped DEF Recreate, SetOwn
  <2> QED  BY <1>0, <1>3, <2>1, PlainControl DEF Recreate, Plain, TypeOK, host, tables, Pc
<1>4. CASE StartContainer(i)
  <2>1. container' \in [Project -> Container \cup {None}]
    <3>1. CASE UNCHANGED container
      BY <3>1 DEF TypeOK
    <3>2. CASE /\ Own(i) # None
               /\ SetOwn(i, [Own(i) EXCEPT !.status = "running"])
      <4>1. [Own(i) EXCEPT !.status = "running"] \in Container
        BY <1>0, <3>2 DEF TypeOK, Own, Container
      <4> QED  BY <1>0, <3>2, <4>1 DEF TypeOK, SetOwn
    <3> QED  BY <1>4, <3>1, <3>2 DEF StartContainer
  <2>2. Return(i) \/ Goto(i, "wait")
    BY <1>4 DEF StartContainer
  <2> QED  BY <1>0, <1>4, <2>1, <2>2, PlainControl
           DEF StartContainer, Plain, TypeOK, host, tables, Pc
<1>5. CASE WaitRunning(i)
  BY <1>0, <1>5, PlainControl
     DEF WaitRunning, Plain, TypeOK, host, docker, tables, Pc
<1>6. CASE EnsureTmuxSession(i)
  <2>1. container' \in [Project -> Container \cup {None}]
    <3>1. CASE UNCHANGED container
      BY <3>1 DEF TypeOK
    <3>2. ASSUME NEW session \in {"bare", "main"}, Running(inv[i].project),
                 SetOwn(i, [Own(i) EXCEPT !.session = session])
          PROVE  container' \in [Project -> Container \cup {None}]
      <4>1. [Own(i) EXCEPT !.session = session] \in Container
        BY <1>0, <3>2 DEF TypeOK, Own, Container, Running
      <4> QED  BY <1>0, <3>2, <4>1 DEF TypeOK, SetOwn
    <3> QED  BY <1>6, <3>1, <3>2 DEF EnsureTmuxSession
  <2>2. Return(i) \/ Goto(i, "store")
    BY <1>6 DEF EnsureTmuxSession
  <2> QED  BY <1>0, <1>6, <2>1, <2>2, PlainControl
           DEF EnsureTmuxSession, Plain, TypeOK, host, tables, Pc
<1>7. CASE StoreDeployment(i)
  <2>1. deployment' \in [Project -> {"none", "running", "stopped"}]
    BY <1>0, <1>7 DEF StoreDeployment, TypeOK
  <2> QED  BY <1>0, <1>7, <2>1, PlainControl
           DEF StoreDeployment, Plain, TypeOK, host, docker, Pc
<1>8. CASE StoreProject(i)
  <2>1. recorded' \in [Project -> Tag \cup {None}]
    BY <1>0, <1>8 DEF StoreProject, TypeOK
  <2> QED  BY <1>0, <1>8, <2>1, PlainControl
           DEF StoreProject, Plain, TypeOK, host, docker
<1> QED  BY <1>1, <1>2, <1>3, <1>4, <1>5, <1>6, <1>7, <1>8

\* What follows the removal of the container is plain control, or an update that
\* begins to start.
LEMMA AfterRemoveControl ==
  ASSUME TypeOK, NEW i \in Process, inv[i] # None, NEW ok \in BOOLEAN,
         AfterRemove(i, ok)
  PROVE  /\ Moves(i)
         /\ inv' \in [Process -> Command \cup {None}]
         /\ \/ inv'[i] = None
            \/ inv[i] # None /\ inv'[i].map = inv[i].map /\ inv'[i].pc \notin Recording
<1>1. inv[i] \in Command
  BY CommandAt
<1>2. CASE inv[i].op = "update"
  <2> DEFINE c == [inv[i] EXCEPT !.pc = "resolve", !.starting = TRUE, !.clean = @ /\ ok]
  <2>1. inv' = [inv EXCEPT ![i] = c]
    BY <1>2 DEF AfterRemove
  <2>2. c \in Command /\ c.map = inv[i].map /\ c.pc \notin Recording
    BY <1>1 DEF Command, Recording
  <2> HIDE DEF c
  <2> QED  BY <2>1, <2>2 DEF Moves, TypeOK
<1>3. CASE inv[i].op = "kill"
  <2>1. Goto(i, "mark")
    BY <1>3 DEF AfterRemove
  <2> QED  BY <2>1, PlainControl DEF Pc
<1>4. CASE inv[i].op \notin {"kill", "update"}
  <2>1. Return(i)
    BY <1>4 DEF AfterRemove
  <2> QED  BY <2>1, PlainControl
<1> QED  BY <1>1, <1>2, <1>3, <1>4

LEMMA RemoveStepPlain ==
  ASSUME TypeOK, NEW i \in Process, RemoveStep(i)
  PROVE  Plain(i)
<1>0. inv[i] # None /\ inv[i].project \in Project
  BY CommandAt
     DEF RemoveStep, StopContainer, StopFails, RemoveContainer, RemoveFails, MarkStopped, At
<1>1. CASE StopContainer(i)
  <2>1. container' \in [Project -> Container \cup {None}]
    <3>1. CASE UNCHANGED container
      BY <3>1 DEF TypeOK
    <3>2. CASE /\ Own(i) # None
               /\ SetOwn(i, [Own(i) EXCEPT
                               !.status = IF @ = "running" THEN "exited" ELSE @,
                               !.session = "none"])
      <4>1. [Own(i) EXCEPT !.status = IF @ = "running" THEN "exited" ELSE @,
                           !.session = "none"] \in Container
        BY <1>0, <3>2 DEF TypeOK, Own, Container
      <4> QED  BY <1>0, <3>2, <4>1 DEF TypeOK, SetOwn
    <3> QED  BY <1>1, <3>1, <3>2 DEF StopContainer
  <2>2. Goto(i, "remove")
    BY <1>1 DEF StopContainer
  <2> QED  BY <1>0, <1>1, <2>1, <2>2, PlainControl
           DEF StopContainer, Plain, TypeOK, host, tables, Pc
<1>2. CASE StopFails(i)
  BY <1>0, <1>2, PlainControl
     DEF StopFails, Plain, TypeOK, host, docker, tables, Pc
<1>3. CASE RemoveContainer(i)
  <2>1. container' \in [Project -> Container \cup {None}]
    BY <1>0, <1>3, ContainerTyped DEF RemoveContainer, SetOwn
  <2> QED  BY <1>0, <1>3, <2>1, AfterRemoveControl
           DEF RemoveContainer, Plain, TypeOK, host, tables
<1>4. CASE RemoveFails(i)
  BY <1>0, <1>4, AfterRemoveControl
     DEF RemoveFails, Plain, TypeOK, host, docker, tables
<1>5. CASE MarkStopped(i)
  <2>1. deployment' \in [Project -> {"none", "running", "stopped"}]
    BY <1>0, <1>5 DEF MarkStopped, TypeOK
  <2> QED  BY <1>0, <1>5, <2>1, PlainControl
           DEF MarkStopped, Plain, TypeOK, host, docker
<1> QED  BY <1>1, <1>2, <1>3, <1>4, <1>5 DEF RemoveStep

LEMMA AbandonPlain == ASSUME TypeOK, NEW i \in Process, Abandon(i) PROVE Plain(i)
  BY PlainControl DEF Abandon, Plain, TypeOK, host, docker, tables

----
(* The invariant *)

\* A record, read or written, that no image is older than.
NotAhead(m) ==
  \A tag \in Tag :
    /\ m[tag] <= template
    /\ images[tag] # None => m[tag] <= images[tag].template

\* Between a build and the record of it, the image is of this very template:
\* no command can have built it with another, since the binary is replaced
\* only when none runs.
Fresh(i) ==
  inv[i].pc \in Recording /\ images[inv[i].tag] # None =>
    images[inv[i].tag].template = template

Inv ==
  /\ TypeOK
  /\ \A tag \in Tag : images[tag] # None => images[tag].template <= template
  /\ NotAhead(ReadMeta)
  /\ \A i \in Process : inv[i] # None => NotAhead(inv[i].map) /\ Fresh(i)

\* The version of an image is a number that can be compared.
Aged(tag) == images[tag] # None => images[tag].template \in Nat

LEMMA InvNumbers ==
  ASSUME Inv
  PROVE  /\ template \in Nat \ {0}
         /\ \A tag \in Tag : Aged(tag)
         /\ \A m \in Meta, tag \in Tag : m[tag] \in Nat
  BY BoundsAssumption DEF Inv, TypeOK, Version, Image, Aged, Meta

LEMMA NoMetaNotAhead == Inv => NotAhead(NoMeta)
  BY InvNumbers DEF NotAhead, NoMeta, Aged

LEMMA PlainKeepsInv ==
  ASSUME Inv, NEW i \in Process, Plain(i)
  PROVE  Inv'
<1>1. UNCHANGED <<template, images, meta>> /\ TypeOK'
  BY DEF Plain
<1>2. NotAhead(ReadMeta)'
  BY <1>1 DEF Inv, NotAhead, ReadMeta
<1>3. ASSUME NEW j \in Process, inv'[j] # None
      PROVE  NotAhead(inv[j].map)' /\ Fresh(j)'
  <2>1. CASE j = i
    BY <1>1, <1>3, <2>1 DEF Inv, Plain, NotAhead, Fresh
  <2>2. CASE j # i
    BY <1>1, <1>3, <2>2 DEF Inv, Plain, Moves, NotAhead, Fresh
  <2> QED  BY <2>1, <2>2
<1> QED  BY <1>1, <1>2, <1>3 DEF Inv

----
(* The other steps *)

\* Steps of the world outside, and a new command: no command's map or place in
\* the recording changes, except that the new command has read nothing yet.
LEMMA OutsideKeepsInv ==
  ASSUME Inv, TypeOK', UNCHANGED <<template, images, meta>>,
         \A j \in Process :
           \/ inv'[j] = inv[j]
           \/ inv'[j] = [inv[j] EXCEPT !.clean = FALSE] /\ inv[j] # None
           \/ inv'[j].map = NoMeta /\ inv'[j].pc \notin Recording
  PROVE  Inv'
<1>1. NotAhead(ReadMeta)'
  BY DEF Inv, NotAhead, ReadMeta
<1>2. ASSUME NEW j \in Process, inv'[j] # None
      PROVE  NotAhead(inv[j].map)' /\ Fresh(j)'
  <2>1. CASE inv'[j] = inv[j]
    BY <1>2, <2>1 DEF Inv, NotAhead, Fresh
  <2>2. CASE inv'[j] = [inv[j] EXCEPT !.clean = FALSE] /\ inv[j] # None
    <3>1. inv[j] \in Command
      BY <2>2 DEF Inv, TypeOK
    <3>2. inv'[j].map = inv[j].map /\ inv'[j].pc = inv[j].pc /\ inv'[j].tag = inv[j].tag
      BY <2>2, <3>1 DEF Command
    <3> QED  BY <2>2, <3>2 DEF Inv, NotAhead, Fresh
  <2>3. CASE inv'[j].map = NoMeta /\ inv'[j].pc \notin Recording
    BY <2>3, NoMetaNotAhead DEF NotAhead, Fresh
  <2> QED  BY <2>1, <2>2, <2>3
<1> QED  BY <1>1, <1>2 DEF Inv

LEMMA BeginKeepsInv ==
  ASSUME Inv, NEW i \in Process, NEW p \in Project, NEW super \in BOOLEAN,
         NEW op \in {"start", "update", "fetch", "kill"}, Begin(i, op, p, super)
  PROVE  Inv'
<1>1. TypeOK
  BY DEF Inv
<1>2. TypeOK'
  BY <1>1, BeginTyped DEF Begin, TypeOK, host, docker, tables
<1>3. \A j \in Process :
        \/ inv'[j] = inv[j]
        \/ inv'[j] = [inv[j] EXCEPT !.clean = FALSE] /\ inv[j] # None
        \/ inv'[j].map = NoMeta /\ inv'[j].pc \notin Recording
  BY <1>1, BeginTyped, DisturbedTyped DEF Recording
<1>4. UNCHANGED <<template, images, meta>>
  BY DEF Begin, host, docker
<1> QED  BY <1>2, <1>3, <1>4, OutsideKeepsInv

LEMMA GpuChangesKeepsInv == ASSUME Inv, GpuChanges PROVE Inv'
<1>1. \A j \in Process : inv[j] # None => [inv[j] EXCEPT !.clean = FALSE] \in Command
  BY DEF Inv, TypeOK, Command
<1>2. inv' \in [Process -> Command \cup {None}]
  BY <1>1 DEF GpuChanges
<1>3. \A j \in Process :
        \/ inv'[j] = inv[j]
        \/ inv'[j] = [inv[j] EXCEPT !.clean = FALSE] /\ inv[j] # None
  BY DEF GpuChanges
<1>4. TypeOK' /\ UNCHANGED <<template, images, meta>>
  BY <1>2 DEF GpuChanges, Inv, TypeOK, docker, tables
<1> QED  BY <1>3, <1>4, OutsideKeepsInv

LEMMA ExitsKeepInv ==
  ASSUME Inv, NEW p \in Project, HarnessExits(p) \/ ContainerExits(p)
  PROVE  Inv'
<1>0. TypeOK
  BY DEF Inv
<1>1. CASE HarnessExits(p)
  <2>1. container' \in [Project -> Container \cup {None}]
    <3>1. [container[p] EXCEPT !.session = "bare"] \in Container
      BY <1>0, <1>1 DEF HarnessExits, Running, TypeOK, Container
    <3> QED  BY <1>0, <1>1, <3>1 DEF HarnessExits, TypeOK
  <2>2. TypeOK' /\ UNCHANGED <<template, images, meta, inv>>
    BY <1>0, <1>1, <2>1 DEF HarnessExits, TypeOK, host, tables
  <2> QED  BY <2>2, OutsideKeepsInv
<1>2. CASE ContainerExits(p)
  <2>1. container' \in [Project -> Container \cup {None}]
    <3>1. [container[p] EXCEPT !.status = "exited", !.session = "none"] \in Container
      BY <1>0, <1>2 DEF ContainerExits, Running, TypeOK, Container
    <3> QED  BY <1>0, <1>2, <3>1 DEF ContainerExits, TypeOK
  <2>2. TypeOK' /\ UNCHANGED <<template, images, meta>>
    BY <1>0, <1>2, <2>1, DisturbedTyped DEF ContainerExits, TypeOK, host, tables
  <2>3. \A j \in Process :
        \/ inv'[j] = inv[j]
        \/ inv'[j] = [inv[j] EXCEPT !.clean = FALSE] /\ inv[j] # None
    BY <1>0, <1>2, DisturbedTyped DEF ContainerExits
  <2> QED  BY <2>2, <2>3, OutsideKeepsInv
<1> QED  BY <1>1, <1>2

\* An image that is gone has no age, and its entry says nothing wrong.
LEMMA PruneKeepsInv == ASSUME Inv, NEW tag \in Tag, PruneImage(tag) PROVE Inv'
<1>1. TypeOK' /\ UNCHANGED <<template, meta, inv>>
  BY DEF PruneImage, Inv, TypeOK, host, tables
<1>2. \A t \in Tag : images'[t] # None => images'[t] = images[t] /\ images[t] # None
  BY DEF PruneImage, Inv, TypeOK
<1>3. NotAhead(ReadMeta)'
  BY <1>1, <1>2 DEF Inv, NotAhead, ReadMeta
<1>4. ASSUME NEW j \in Process, inv'[j] # None
      PROVE  NotAhead(inv[j].map)' /\ Fresh(j)'
  <2>1. inv[j].tag \in Tag /\ inv[j] # None
    BY <1>1, <1>4, CommandAt DEF Inv
  <2> QED  BY <1>1, <1>2, <2>1 DEF Inv, NotAhead, Fresh
<1> QED  BY <1>1, <1>2, <1>3, <1>4 DEF Inv

\* No command runs, so nothing is being recorded; everything there is only
\* gets older.
LEMMA UpgradeKeepsInv == ASSUME Inv, Upgrade PROVE Inv'
<1>1. template' \in Version
  BY BoundsAssumption DEF Upgrade, Inv, TypeOK, Version
<1>2. TypeOK'
  BY <1>1 DEF Upgrade, Inv, TypeOK, docker, tables
<1>3. template \in Nat /\ template' = template + 1
  BY InvNumbers DEF Upgrade
<1>4. UNCHANGED <<images, meta, inv>> /\ \A j \in Process : inv[j] = None
  BY DEF Upgrade, docker
<1>5. \A tag \in Tag : images'[tag] # None => images'[tag].template <= template'
  BY <1>3, <1>4, InvNumbers DEF Inv, Aged
<1>6. NotAhead(ReadMeta)'
  <2>1. \A tag \in Tag : ReadMeta[tag] \in Nat
    BY InvNumbers, ReadMetaTyped DEF Inv
  <2> QED  BY <1>3, <1>4, <2>1 DEF Inv, NotAhead, ReadMeta
<1> QED  BY <1>2, <1>4, <1>5, <1>6 DEF Inv

LEMMA BuildKeepsInv == ASSUME Inv, NEW i \in Process, Build(i) PROVE Inv'
<1> DEFINE img == [template |-> template, dockerfile |-> Dockerfile(inv[i].gpus)]
           tg == inv[i].tag
<1>0. TypeOK /\ inv[i] # None
  BY DEF Inv, Build, At
<1>1. inv[i] \in Command /\ tg \in Tag
  BY <1>0, CommandAt
<1>2. img \in Image /\ img.template = template
  BY <1>0 DEF TypeOK, Image, Dockerfile, Variant
<1>3. images' = [images EXCEPT ![tg] = img] /\ UNCHANGED <<template, meta>>
  BY DEF Build, host
<1>4. Moves(i) /\ inv'[i] = [inv[i] EXCEPT !.pc = "read"]
  BY <1>0, GotoMoves DEF Build
<1> HIDE DEF img, tg
<1>5. images' \in [Tag -> Image \cup {None}]
  BY <1>0, <1>1, <1>2, <1>3 DEF TypeOK
<1>6. TypeOK'
  BY <1>0, <1>4, <1>5 DEF Build, TypeOK, Moves, host, tables
<1>7. \A t \in Tag : images'[t] = IF t = tg THEN img ELSE images[t]
  BY <1>0, <1>3 DEF TypeOK
<1>8. template \in Nat
  BY InvNumbers
<1>9. \A t \in Tag : images'[t] # None => images'[t].template <= template'
  BY <1>2, <1>3, <1>7, <1>8 DEF Inv
<1>10. NotAhead(ReadMeta)'
  BY <1>2, <1>3, <1>7 DEF Inv, NotAhead, ReadMeta
<1>11. ASSUME NEW j \in Process, inv'[j] # None
       PROVE  NotAhead(inv[j].map)' /\ Fresh(j)'
  <2>1. inv[j] # None /\ inv'[j].map = inv[j].map /\ inv'[j].tag = inv[j].tag
          /\ inv[j].tag \in Tag
    <3>1. CASE j = i
      BY <1>0, <1>1, <1>4, <3>1, CommandAt DEF Command
    <3>2. CASE j # i
      BY <1>0, <1>4, <1>11, <3>2, CommandAt DEF Moves
    <3> QED  BY <3>1, <3>2
  <2>2. NotAhead(inv[j].map)'
    BY <1>2, <1>3, <1>7, <2>1 DEF Inv, NotAhead
  <2>3. Fresh(j)'
    <3>1. CASE j = i
      BY <1>2, <1>3, <1>7, <2>1, <3>1 DEF Fresh, tg
    <3>2. CASE j # i
      BY <1>2, <1>3, <1>4, <1>7, <2>1, <3>2 DEF Fresh, Inv, Moves
    <3> QED  BY <3>1, <3>2
  <2> QED  BY <2>2, <2>3
<1> QED  BY <1>6, <1>9, <1>10, <1>11 DEF Inv

\* What is read is the file, or nothing when it is torn.
LEMMA RecordReadKeepsInv == ASSUME Inv, NEW i \in Process, RecordRead(i) PROVE Inv'
<1> DEFINE c == [inv[i] EXCEPT !.map = ReadMeta, !.pc = "truncate"]
<1>0. TypeOK /\ inv[i] # None /\ inv[i] \in Command /\ inv[i].pc = "read"
  BY CommandAt DEF Inv, RecordRead, At
<1>1. ReadMeta \in Meta
  BY <1>0, ReadMetaTyped
<1>2. /\ c \in Command /\ c.map = ReadMeta /\ c.pc = "truncate" /\ c.tag = inv[i].tag
  BY <1>0, <1>1 DEF Command
<1>3. inv' = [inv EXCEPT ![i] = c] /\ UNCHANGED <<template, images, meta>>
  BY DEF RecordRead, host, docker
<1> HIDE DEF c
<1>4. Moves(i) /\ inv'[i] = c
  BY <1>0, <1>2, <1>3 DEF Moves, TypeOK
<1>5. TypeOK'
  BY <1>0, <1>4 DEF RecordRead, TypeOK, Moves, host, docker, tables
<1>6. NotAhead(ReadMeta)'
  BY <1>3 DEF Inv, NotAhead, ReadMeta
<1>7. ASSUME NEW j \in Process, inv'[j] # None
      PROVE  NotAhead(inv[j].map)' /\ Fresh(j)'
  <2>1. CASE j = i
    BY <1>0, <1>2, <1>3, <1>4, <2>1 DEF Inv, NotAhead, Fresh, Recording
  <2>2. CASE j # i
    BY <1>3, <1>4, <1>7, <2>2 DEF Inv, NotAhead, Fresh, Moves
  <2> QED  BY <2>1, <2>2
<1> QED  BY <1>3, <1>5, <1>6, <1>7 DEF Inv

\* A torn file is an empty record.
LEMMA RecordTruncateKeepsInv == ASSUME Inv, NEW i \in Process, RecordTruncate(i) PROVE Inv'
<1>0. TypeOK /\ inv[i] # None /\ inv[i] \in Command /\ inv[i].pc = "truncate"
  BY CommandAt DEF Inv, RecordTruncate, At
<1>1. Moves(i) /\ inv'[i] = [inv[i] EXCEPT !.pc = "write"]
  BY <1>0, GotoMoves DEF RecordTruncate
<1>2. inv'[i].map = inv[i].map /\ inv'[i].tag = inv[i].tag
  BY <1>0, <1>1 DEF Command
<1>3. meta' = None /\ UNCHANGED <<template, images>>
  BY DEF RecordTruncate, host, docker
<1>4. TypeOK'
  BY <1>0, <1>1, <1>3 DEF RecordTruncate, TypeOK, Moves, host, docker, tables
<1>5. NotAhead(ReadMeta)'
  BY <1>3, NoMetaNotAhead DEF NotAhead, ReadMeta, NoMeta
<1>6. ASSUME NEW j \in Process, inv'[j] # None
      PROVE  NotAhead(inv[j].map)' /\ Fresh(j)'
  <2>1. CASE j = i
    BY <1>0, <1>2, <1>3, <2>1 DEF Inv, NotAhead, Fresh, Recording
  <2>2. CASE j # i
    BY <1>1, <1>3, <1>6, <2>2 DEF Inv, NotAhead, Fresh, Moves
  <2> QED  BY <2>1, <2>2
<1> QED  BY <1>3, <1>4, <1>5, <1>6 DEF Inv

\* The entry written is the template's, which is the image's; the others come
\* from a record that was not ahead.
LEMMA RecordWriteKeepsInv == ASSUME Inv, NEW i \in Process, RecordWrite(i) PROVE Inv'
<1> DEFINE c == [inv[i] EXCEPT !.map = NoMeta,
                               !.pc = IF inv[i].starting THEN "run" ELSE "stop"]
           tg == inv[i].tag
           m == [inv[i].map EXCEPT ![tg] = template]
<1>0. /\ TypeOK /\ inv[i] # None /\ inv[i] \in Command /\ inv[i].pc = "write"
      /\ tg \in Tag /\ inv[i].map \in Meta
  BY CommandAt DEF Inv, RecordWrite, At
<1>1. c \in Command /\ c.map = NoMeta /\ c.pc \notin Recording
  BY <1>0, ReadMetaTyped DEF Command, Recording
<1>2. inv' = [inv EXCEPT ![i] = c] /\ meta' = m /\ UNCHANGED <<template, images>>
  BY DEF RecordWrite, host, docker
<1>3. m \in Meta /\ \A t \in Tag : m[t] = IF t = tg THEN template ELSE inv[i].map[t]
  BY <1>0 DEF Meta, TypeOK, Version
<1>4. images[tg] # None => images[tg].template = template
  BY <1>0 DEF Inv, Fresh, Recording
<1>5. NotAhead(inv[i].map)
  BY <1>0 DEF Inv
<1> HIDE DEF c, m, tg
<1>6. Moves(i) /\ inv'[i] = c
  BY <1>0, <1>1, <1>2 DEF Moves, TypeOK
<1>7. TypeOK'
  BY <1>0, <1>2, <1>3, <1>6 DEF RecordWrite, TypeOK, Moves, host, docker, tables
<1>8. NotAhead(m)
  BY <1>3, <1>4, <1>5, InvNumbers DEF NotAhead
<1>9. NotAhead(ReadMeta)'
  BY <1>2, <1>8, NoMetaNotAhead DEF NotAhead, ReadMeta, NoMeta
<1>10. ASSUME NEW j \in Process, inv'[j] # None
       PROVE  NotAhead(inv[j].map)' /\ Fresh(j)'
  <2>1. CASE j = i
    BY <1>1, <1>2, <1>6, <2>1, NoMetaNotAhead DEF NotAhead, Fresh
  <2>2. CASE j # i
    BY <1>2, <1>6, <1>10, <2>2 DEF Inv, NotAhead, Fresh, Moves
  <2> QED  BY <2>1, <2>2
<1> QED  BY <1>2, <1>7, <1>9, <1>10 DEF Inv

----
(* The theorems *)

LEMMA InitInv == Init => Inv
<1> SUFFICES ASSUME Init PROVE Inv
  OBVIOUS
<1>1. TypeOK
  BY BoundsAssumption DEF Init, TypeOK, Version, NoMeta, Meta
<1>2. NotAhead(ReadMeta)
  BY BoundsAssumption DEF Init, NotAhead, ReadMeta, NoMeta
<1> QED  BY <1>1, <1>2 DEF Init, Inv

LEMMA NextKeepsInv == Inv /\ [Next]_vars => Inv'
<1> SUFFICES ASSUME Inv, [Next]_vars PROVE Inv'
  OBVIOUS
<1>0. TypeOK
  BY DEF Inv
<1>1. ASSUME NEW i \in Process, NEW p \in Project,
             \/ \E op \in {"start", "update"}, super \in BOOLEAN : Begin(i, op, p, super)
             \/ \E op \in {"fetch", "kill"} : Begin(i, op, p, FALSE)
      PROVE  Inv'
  BY <1>1, BeginKeepsInv
<1>2. ASSUME NEW i \in Process, StartStep(i) PROVE Inv'
  <2>1. CASE Build(i) \/ RecordRead(i) \/ RecordTruncate(i) \/ RecordWrite(i)
    BY <2>1, BuildKeepsInv, RecordReadKeepsInv, RecordTruncateKeepsInv, RecordWriteKeepsInv
  <2>2. CASE Resolve(i) \/ CheckImage(i) \/ RunContainer(i)
    BY <1>0, <2>2, ResolvePlain, CheckImagePlain, RunContainerPlain, PlainKeepsInv
  <2>3. CASE \/ CheckContainer(i) \/ CheckLabels(i) \/ Recreate(i) \/ StartContainer(i)
             \/ WaitRunning(i) \/ EnsureTmuxSession(i) \/ StoreDeployment(i) \/ StoreProject(i)
    BY <1>0, <2>3, StartStepPlain, PlainKeepsInv
  <2> QED  BY <1>2, <2>1, <2>2, <2>3 DEF StartStep
<1>3. ASSUME NEW i \in Process, RemoveStep(i) \/ Abandon(i) PROVE Inv'
  BY <1>0, <1>3, RemoveStepPlain, AbandonPlain, PlainKeepsInv
<1>4. CASE Upgrade \/ GpuChanges
  BY <1>4, UpgradeKeepsInv, GpuChangesKeepsInv
<1>5. ASSUME NEW p \in Project, HarnessExits(p) \/ ContainerExits(p) PROVE Inv'
  BY <1>5, ExitsKeepInv
<1>6. ASSUME NEW tag \in Tag, PruneImage(tag) PROVE Inv'
  BY <1>6, PruneKeepsInv
<1>7. CASE UNCHANGED vars
  <2>1. TypeOK' /\ UNCHANGED <<template, images, meta, inv>>
    BY <1>0, <1>7 DEF vars, host, docker, tables, TypeOK
  <2> QED  BY <2>1, OutsideKeepsInv
<1> QED  BY <1>1, <1>2, <1>3, <1>4, <1>5, <1>6, <1>7 DEF Next

\* Types, ages of images and records, and what commands carry from one to the
\* other, as one inductive invariant.
THEOREM Invariance == Spec => []Inv
<1>1. Init => Inv
  BY InitInv
<1>2. Inv /\ [Next]_vars => Inv'
  BY NextKeepsInv
<1> QED  BY <1>1, <1>2, PTL DEF Spec

\* Host, docker, images.json, the store and the commands keep their types.
THEOREM TypeCorrect == Spec => []TypeOK
<1>1. Inv => TypeOK
  BY DEF Inv
<1> QED  BY <1>1, Invariance, PTL

\* images.json never calls an image newer than it is, however many commands read
\* and write it without a lock, and whichever of them stop half way.
THEOREM RecordNeverAhead == Spec => []MetaNeverAhead
<1>1. Inv => MetaNeverAhead
  BY DEF Inv, NotAhead, MetaNeverAhead
<1> QED  BY <1>1, Invariance, PTL

----
(* What the commands of one project know of it. *)

Clean(i) == inv[i] # None /\ inv[i].clean = TRUE

\* No other command works on the project of a clean one.
CleanIsAlone ==
  \A i, j \in Process :
    i # j /\ Clean(i) /\ inv[j] # None => inv[j].project # inv[i].project

\* The tags a project's commands use, and the one on record, are its own.
TagsAreOwn ==
  /\ \A p \in Project : recorded[p] # None => recorded[p][1] = p
  /\ \A i \in Process : inv[i] # None => inv[i].tag[1] = inv[i].project

\* What a start knows at each point.
InMode(i) == Running(inv[i].project) /\ (Own(i).super <=> inv[i].super)

Reconciled(i) ==
  Clean(i) =>
    /\ inv[i].pc = "start" => ~WrongMode(i)
    /\ inv[i].pc \in {"wait", "session", "store", "record"} => InMode(i)
    /\ inv[i].pc \in {"store", "record"} => Own(i).session # "none"
    /\ inv[i].pc = "record" => deployment[inv[i].project] = "running"

\* What an update knows: once it has built, the image is that of the template
\* or has been pruned; once it has removed the container, there is none until
\* it runs one from that image.
Current == [template |-> template, dockerfile |-> Dockerfile(gpu)]
Started == {"wait", "session", "store", "record"}
Starting == {"resolve", "exists", "image", "build", "read", "truncate", "write", "run"}

Updated(i) ==
  Clean(i) /\ inv[i].op = "update" =>
    /\ inv[i].starting \/ inv[i].pc \in
         {"resolve", "build", "read", "truncate", "write", "stop", "remove"}
    /\ inv[i].starting => inv[i].pc \in Starting \cup Started
    /\ inv[i].pc \in Starting \ {"resolve"} =>
         inv[i].tag = ImageFor(inv[i].project) /\ inv[i].gpus = gpu
    /\ inv[i].starting \/ inv[i].pc \notin {"resolve", "build"} =>
         images[ImageFor(inv[i].project)] \in {None, Current}
    /\ inv[i].starting /\ inv[i].pc \in Starting => Own(i) = None
    /\ inv[i].starting /\ inv[i].pc \in Started => Own(i).image = Current

Knows(i) == Reconciled(i) /\ Updated(i)
KInv == Inv /\ CleanIsAlone /\ TagsAreOwn /\ \A i \in Process : Knows(i)

----
(* Other commands, and the world outside, leave what a command knows.      *)

\* The project as a command that works on it sees it: the same container, with
\* a session if it had one; the same records; no other image than it had.
Undisturbed(p) ==
  /\ container'[p] = None <=> container[p] = None
  /\ container[p] # None =>
       /\ container'[p].image = container[p].image
       /\ container'[p].super = container[p].super
       /\ container'[p].status = container[p].status
       /\ container[p].session # "none" => container'[p].session # "none"
  /\ recorded'[p] = recorded[p] /\ deployment'[p] = deployment[p]
  /\ \A tag \in Tag : tag[1] = p => images'[tag] \in {images[tag], None}

LEMMA ImageForOwn ==
  ASSUME TypeOK, TagsAreOwn, NEW p \in Project
  PROVE  ImageFor(p) \in Tag /\ ImageFor(p)[1] = p
<1>1. <<p, Dockerfile(gpu)>> \in Tag /\ <<p, Dockerfile(gpu)>>[1] = p
  BY DEF Tag, Variant, Dockerfile
<1> QED  BY <1>1 DEF ImageFor, TypeOK, TagsAreOwn

LEMMA UndisturbedKnows ==
  ASSUME KInv, NEW i \in Process, NEW p \in Project, inv[i] # None, inv[i].project = p,
         inv'[i] = inv[i], Undisturbed(p), UNCHANGED host
  PROVE  Knows(i)'
<1>1. ImageFor(p) \in Tag /\ ImageFor(p)[1] = p /\ ImageFor(p)' = ImageFor(p)
  BY ImageForOwn DEF KInv, Inv, ImageFor, Undisturbed, host
<1>2. Current' = Current
  BY DEF Current, host
<1>3. images[ImageFor(p)] \in {None, Current} => images'[ImageFor(p)] \in {None, Current}
  BY <1>1 DEF Undisturbed
<1>4. Reconciled(i)'
  BY DEF KInv, Knows, Reconciled, Clean, InMode, WrongMode, Own, Running, Undisturbed
<1>5. Updated(i)'
  BY <1>1, <1>2, <1>3 DEF KInv, Knows, Updated, Clean, Own, Undisturbed, host, Started, Starting
<1> QED  BY <1>4, <1>5 DEF Knows

\* A step of one command stays within its project.
Local(i) ==
  /\ inv[i] # None /\ UNCHANGED host
  /\ \A j \in Process \ {i} : inv'[j] = inv[j]
  /\ inv'[i] # None =>
       /\ inv'[i].project = inv[i].project /\ inv'[i].tag[1] = inv[i].project
       /\ inv'[i].clean = TRUE => inv[i].clean = TRUE
  /\ \A p \in Project \ {inv[i].project} :
       container'[p] = container[p] /\ recorded'[p] = recorded[p] /\ deployment'[p] = deployment[p]
  /\ recorded'[inv[i].project] # None => recorded'[inv[i].project][1] = inv[i].project
  /\ \A tag \in Tag : tag[1] # inv[i].project => images'[tag] = images[tag]

LEMMA LocalKeeps ==
  ASSUME KInv, NEW i \in Process, Local(i), Knows(i)', Inv'
  PROVE  KInv'
<1>1. CleanIsAlone'
  BY DEF KInv, Local, CleanIsAlone, Clean
<1>2. TagsAreOwn'
  <2>1. \A p \in Project : recorded'[p] # None => recorded'[p][1] = p
    BY DEF KInv, Local, TagsAreOwn
  <2>2. \A j \in Process : inv'[j] # None => inv'[j].tag[1] = inv'[j].project
    BY DEF KInv, Local, TagsAreOwn
  <2> QED  BY <2>1, <2>2 DEF TagsAreOwn
<1>3. ASSUME NEW j \in Process, j # i PROVE Knows(j)'
  <2>1. inv'[j] = inv[j]
    BY <1>3 DEF Local
  <2>2. CASE Clean(j)
    <3>1. PICK p \in Project : inv[j].project = p
      BY <2>2, CommandAt DEF KInv, Inv, Clean
    <3>2. p # inv[i].project
      BY <1>3, <2>2, <3>1 DEF KInv, CleanIsAlone, Local
    <3>3. Undisturbed(p) /\ UNCHANGED host
      BY <3>2 DEF Local, Undisturbed
    <3> QED  BY <2>1, <2>2, <3>1, <3>3, UndisturbedKnows DEF Clean
  <2>3. CASE ~Clean(j)
    BY <2>1, <2>3 DEF Knows, Reconciled, Updated, Clean
  <2> QED  BY <2>2, <2>3
<1> QED  BY <1>1, <1>2, <1>3 DEF KInv

\* The command goes on, and remembers what it did.
Advances(i, pc) ==
  /\ \A j \in Process \ {i} : inv'[j] = inv[j]
  /\ inv'[i].pc = pc /\ inv'[i].op = inv[i].op /\ inv'[i].project = inv[i].project
  /\ inv'[i].super = inv[i].super /\ inv'[i].starting = inv[i].starting
  /\ inv'[i].tag = inv[i].tag /\ inv'[i].gpus = inv[i].gpus /\ inv'[i].clean = inv[i].clean

LEMMA GotoAdvances ==
  ASSUME Inv, NEW i \in Process, inv[i] # None,
         NEW pc \in Starting \cup Started \cup {"labels", "recreate", "rerun", "start",
                                                "stop", "remove", "mark"},
         Goto(i, pc)
  PROVE  Advances(i, pc)
<1>1. inv[i] \in Command /\ TypeOK
  BY CommandAt DEF Inv
<1>2. Moves(i) /\ inv'[i] = [inv[i] EXCEPT !.pc = pc]
  BY <1>1, GotoMoves DEF Starting, Started
<1> QED  BY <1>1, <1>2 DEF Moves, Command, Advances

\* Either way, the step is local if its effects are.
OwnEffects(i) ==
  /\ UNCHANGED host
  /\ \A p \in Project \ {inv[i].project} :
       container'[p] = container[p] /\ recorded'[p] = recorded[p] /\ deployment'[p] = deployment[p]
  /\ recorded'[inv[i].project] # None => recorded'[inv[i].project][1] = inv[i].project
  /\ \A tag \in Tag : tag[1] # inv[i].project => images'[tag] = images[tag]

LEMMA EffectsLocal ==
  ASSUME KInv, NEW i \in Process, inv[i] # None, OwnEffects(i),
         \/ \E pc : Advances(i, pc)
         \/ inv'[i] = None /\ \A j \in Process \ {i} : inv'[j] = inv[j]
  PROVE  Local(i)
BY DEF OwnEffects, Advances, Local, KInv, TagsAreOwn

LEMMA NoEffectsOwn ==
  ASSUME KInv, NEW i \in Process, inv[i] # None, UNCHANGED <<host, docker, tables>>
  PROVE  OwnEffects(i)
<1>1. inv[i].project \in Project
  BY CommandAt DEF KInv, Inv
<1> QED  BY <1>1 DEF OwnEffects, docker, tables, KInv, TagsAreOwn

LEMMA ReturnKnows ==
  ASSUME Inv, NEW i \in Process, Return(i)
  PROVE  (\A j \in Process \ {i} : inv'[j] = inv[j]) /\ inv'[i] = None /\ Knows(i)'
BY DEF Inv, TypeOK, Return, Knows, Reconciled, Updated, Clean

----
(* The steps of a start                                                    *)

LEMMA ResolveKnows ==
  ASSUME KInv, NEW i \in Process, Resolve(i) PROVE Local(i) /\ Knows(i)'
<1> DEFINE c == [inv[i] EXCEPT !.tag = ImageFor(inv[i].project), !.gpus = gpu,
                               !.pc = IF inv[i].starting THEN "exists" ELSE "build"]
<1>1. PICK p \in Project : inv[i] # None /\ inv[i] \in Command /\ inv[i].project = p
  BY CommandAt DEF KInv, Inv, Resolve, At
<1>2. ImageFor(p) \in Tag /\ ImageFor(p)[1] = p
  BY ImageForOwn DEF KInv, Inv
<1>3. UNCHANGED <<host, docker, meta, tables, bounds>> /\ inv[i].pc = "resolve"
  BY DEF Resolve, At
<1>4. inv' = [inv EXCEPT ![i] = c]
  BY DEF Resolve
<1>5. /\ c.op = inv[i].op /\ c.project = p /\ c.super = inv[i].super /\ c.clean = inv[i].clean
      /\ c.starting = inv[i].starting
      /\ c.tag = ImageFor(p) /\ c.gpus = gpu
      /\ c.pc = IF inv[i].starting THEN "exists" ELSE "build"
  BY <1>1 DEF Command
<1> HIDE DEF c
<1>6. inv'[i] = c /\ \A j \in Process \ {i} : inv'[j] = inv[j]
  BY <1>4 DEF KInv, Inv, TypeOK
<1>7. Local(i)
  BY <1>1, <1>2, <1>3, <1>5, <1>6 DEF Local, KInv, TagsAreOwn, docker, tables
<1>8. Reconciled(i)'
  BY <1>5, <1>6 DEF Reconciled
<1>9. ImageFor(p)' = ImageFor(p) /\ Current' = Current /\ UNCHANGED <<container, images, gpu>>
  BY <1>3 DEF ImageFor, Current, host, tables, docker
<1>10. Updated(i)'
  <2>1. SUFFICES ASSUME Clean(i), inv[i].op = "update"
                 PROVE  Updated(i)'
    BY <1>1, <1>5, <1>6 DEF Updated, Clean
  <2>2. inv[i].starting => images[ImageFor(p)] \in {None, Current} /\ container[p] = None
    BY <1>1, <1>3, <2>1 DEF KInv, Knows, Updated, Own, Starting
  <2>3. c.starting \/ c.pc = "build"
    BY <1>1, <1>5 DEF Command
  <2> QED  BY <1>5, <1>6, <1>9, <2>2, <2>3 DEF Updated, Own, Started, Starting
<1> QED  BY <1>7, <1>8, <1>10 DEF Knows

LEMMA CheckContainerKnows ==
  ASSUME KInv, NEW i \in Process, CheckContainer(i) PROVE Local(i) /\ Knows(i)'
<1>1. PICK p \in Project : inv[i] # None /\ inv[i] \in Command /\ inv[i].project = p
  BY CommandAt DEF KInv, Inv, CheckContainer, At
<1>2. UNCHANGED <<host, docker, tables>> /\ inv[i].pc = "exists"
  BY DEF CheckContainer, At
<1>3. Goto(i, IF Own(i) = None THEN "image" ELSE "labels")
  BY DEF CheckContainer
<1>4. PICK pc \in {"image", "labels"} : Advances(i, pc) /\ (pc = "labels" => Own(i) # None)
  BY <1>1, <1>3, GotoAdvances DEF KInv, Starting
<1>5. Local(i)
  BY <1>1, <1>2, <1>4, NoEffectsOwn, EffectsLocal
<1>6. Reconciled(i)'
  BY <1>4 DEF Advances, Reconciled
<1>7. Updated(i)'
  <2>1. SUFFICES ASSUME Clean(i), inv[i].op = "update" PROVE Updated(i)'
    BY <1>1, <1>4 DEF Updated, Clean, Advances
  <2>2. /\ inv[i].starting /\ inv[i].tag = ImageFor(p) /\ inv[i].gpus = gpu
        /\ images[ImageFor(p)] \in {None, Current} /\ container[p] = None
    BY <1>1, <1>2, <2>1 DEF KInv, Knows, Updated, Own, Starting
  <2>3. pc = "image"
    BY <1>1, <1>4, <2>2 DEF Own
  <2>4. ImageFor(p)' = ImageFor(p) /\ Current' = Current /\ UNCHANGED <<container, images, gpu>>
    BY <1>2 DEF ImageFor, Current, host, tables, docker
  <2> QED  BY <1>1, <1>4, <2>2, <2>3, <2>4 DEF Advances, Updated, Own, Started, Starting
<1> QED  BY <1>5, <1>6, <1>7 DEF Knows

LEMMA CheckImageKnows ==
  ASSUME KInv, NEW i \in Process, CheckImage(i) PROVE Local(i) /\ Knows(i)'
<1> DEFINE c == [inv[i] EXCEPT
                   !.known = ReadMeta[inv[i].tag] # 0,
                   !.pc = IF images[inv[i].tag] = None \/ Stale(inv[i].tag)
                          THEN "build" ELSE "run"]
<1>1. PICK p \in Project : inv[i] # None /\ inv[i] \in Command /\ inv[i].project = p
  BY CommandAt DEF KInv, Inv, CheckImage, At
<1>2. UNCHANGED <<host, docker, tables>> /\ inv[i].pc = "image"
  BY DEF CheckImage, At
<1>3. inv' = [inv EXCEPT ![i] = c]
  BY DEF CheckImage
<1>4. PICK pc \in {"build", "run"} :
        /\ c.pc = pc /\ c.op = inv[i].op /\ c.project = inv[i].project /\ c.super = inv[i].super
        /\ c.starting = inv[i].starting /\ c.tag = inv[i].tag /\ c.gpus = inv[i].gpus
        /\ c.clean = inv[i].clean
  BY <1>1 DEF Command
<1> HIDE DEF c
<1>5. Advances(i, pc)
  BY <1>3, <1>4 DEF Advances, KInv, Inv, TypeOK
<1>6. Local(i)
  BY <1>1, <1>2, <1>5, NoEffectsOwn, EffectsLocal
<1>7. Reconciled(i)'
  BY <1>5 DEF Advances, Reconciled
<1>8. Updated(i)'
  <2>1. SUFFICES ASSUME Clean(i), inv[i].op = "update" PROVE Updated(i)'
    BY <1>1, <1>5 DEF Updated, Clean, Advances
  <2>2. /\ inv[i].starting /\ inv[i].tag = ImageFor(p) /\ inv[i].gpus = gpu
        /\ images[ImageFor(p)] \in {None, Current} /\ container[p] = None
    BY <1>1, <1>2, <2>1 DEF KInv, Knows, Updated, Own, Starting
  <2>4. ImageFor(p)' = ImageFor(p) /\ Current' = Current /\ UNCHANGED <<container, images, gpu>>
    BY <1>2 DEF ImageFor, Current, host, tables, docker
  <2> QED  BY <1>1, <1>5, <2>2, <2>4 DEF Advances, Updated, Own, Started, Starting
<1> QED  BY <1>6, <1>7, <1>8 DEF Knows

LEMMA BuildKnows ==
  ASSUME KInv, NEW i \in Process, Build(i) PROVE Local(i) /\ Knows(i)'
<1> DEFINE img == [template |-> template, dockerfile |-> Dockerfile(inv[i].gpus)]
<1>1. PICK p \in Project : /\ inv[i] # None /\ inv[i] \in Command /\ inv[i].project = p
                           /\ inv[i].tag \in Tag /\ inv[i].tag[1] = p
  BY CommandAt DEF KInv, Inv, Build, At, TagsAreOwn
<1>2. UNCHANGED <<host, container, tables>> /\ inv[i].pc = "build"
      /\ images' = [images EXCEPT ![inv[i].tag] = img]
  BY DEF Build, At
<1> HIDE DEF img
<1>3. Advances(i, "read")
  BY <1>1, GotoAdvances DEF KInv, Starting, Build
<1>4. images'[inv[i].tag] = img /\ \A tag \in Tag : tag[1] # p => images'[tag] = images[tag]
  BY <1>1, <1>2 DEF KInv, Inv, TypeOK
<1>5. Local(i)
  <2>1. OwnEffects(i)
    BY <1>1, <1>2, <1>4 DEF OwnEffects, tables, KInv, TagsAreOwn
  <2> QED  BY <1>1, <1>3, <2>1, EffectsLocal
<1>6. Reconciled(i)'
  BY <1>3 DEF Advances, Reconciled
<1>7. Updated(i)'
  <2>1. SUFFICES ASSUME Clean(i), inv[i].op = "update" PROVE Updated(i)'
    BY <1>1, <1>3 DEF Updated, Clean, Advances
  <2>2. /\ inv[i].tag = ImageFor(p) /\ inv[i].gpus = gpu
        /\ inv[i].starting => container[p] = None
    BY <1>1, <1>2, <2>1 DEF KInv, Knows, Updated, Own, Starting
  <2>3. ImageFor(p)' = ImageFor(p) /\ Current' = Current /\ UNCHANGED <<container, gpu>>
    BY <1>2 DEF ImageFor, Current, host, tables
  <2>4. images'[ImageFor(p)] = Current
    BY <1>4, <2>2 DEF img, Current
  <2> QED  BY <1>1, <1>3, <2>2, <2>3, <2>4 DEF Advances, Updated, Own, Started, Starting
<1> QED  BY <1>5, <1>6, <1>7 DEF Knows

\* The three steps of the record change nothing that a command knows.
LEMMA RecordKnows ==
  ASSUME KInv, NEW i \in Process, RecordRead(i) \/ RecordTruncate(i) \/ RecordWrite(i)
  PROVE  Local(i) /\ Knows(i)'
<1>1. PICK p \in Project : inv[i] # None /\ inv[i] \in Command /\ inv[i].project = p
  BY CommandAt DEF KInv, Inv, RecordRead, RecordTruncate, RecordWrite, At
<1>2. UNCHANGED <<host, docker, tables>> /\ inv[i].pc \in {"read", "truncate", "write"}
  BY DEF RecordRead, RecordTruncate, RecordWrite, At
<1>3. PICK pc \in {"truncate", "write", "run", "stop"} :
        /\ Advances(i, pc)
        /\ pc = "run" => inv[i].starting
        /\ pc = "stop" => ~inv[i].starting
  <2>1. CASE RecordTruncate(i)
    <3>1. Advances(i, "write")
      BY <1>1, <2>1, GotoAdvances DEF KInv, Starting, RecordTruncate
    <3> QED  BY <3>1
  <2>2. CASE RecordRead(i)
    <3> DEFINE c == [inv[i] EXCEPT !.map = ReadMeta, !.pc = "truncate"]
    <3>1. inv' = [inv EXCEPT ![i] = c]
      BY <2>2 DEF RecordRead
    <3>2. /\ c.pc = "truncate" /\ c.op = inv[i].op /\ c.project = inv[i].project
          /\ c.super = inv[i].super /\ c.starting = inv[i].starting /\ c.tag = inv[i].tag
          /\ c.gpus = inv[i].gpus /\ c.clean = inv[i].clean
      BY <1>1 DEF Command
    <3> HIDE DEF c
    <3>3. Advances(i, "truncate")
      BY <3>1, <3>2 DEF Advances, KInv, Inv, TypeOK
    <3> QED  BY <3>3
  <2>3. CASE RecordWrite(i)
    <3> DEFINE c == [inv[i] EXCEPT !.map = NoMeta, !.pc = IF inv[i].starting THEN "run" ELSE "stop"]
    <3>1. inv' = [inv EXCEPT ![i] = c]
      BY <2>3 DEF RecordWrite
    <3>2. /\ c.pc = IF inv[i].starting THEN "run" ELSE "stop"
          /\ c.op = inv[i].op /\ c.project = inv[i].project
          /\ c.super = inv[i].super /\ c.starting = inv[i].starting /\ c.tag = inv[i].tag
          /\ c.gpus = inv[i].gpus /\ c.clean = inv[i].clean
      BY <1>1 DEF Command
    <3> HIDE DEF c
    <3>3. Advances(i, IF inv[i].starting THEN "run" ELSE "stop")
      BY <3>1, <3>2 DEF Advances, KInv, Inv, TypeOK
    <3> QED  BY <3>3
  <2> QED  BY <2>1, <2>2, <2>3
<1>4. Local(i)
  BY <1>1, <1>2, <1>3, NoEffectsOwn, EffectsLocal
<1>5. Reconciled(i)'
  BY <1>3 DEF Advances, Reconciled
<1>6. Updated(i)'
  <2>1. SUFFICES ASSUME Clean(i), inv[i].op = "update" PROVE Updated(i)'
    BY <1>1, <1>3 DEF Updated, Clean, Advances
  <2>2. /\ inv[i].tag = ImageFor(p) /\ inv[i].gpus = gpu
        /\ images[ImageFor(p)] \in {None, Current}
        /\ inv[i].starting => container[p] = None
    BY <1>1, <1>2, <2>1 DEF KInv, Knows, Updated, Own, Starting
  <2>3. ImageFor(p)' = ImageFor(p) /\ Current' = Current /\ UNCHANGED <<container, images, gpu>>
    BY <1>2 DEF ImageFor, Current, host, tables, docker
  <2> QED  BY <1>1, <1>3, <2>2, <2>3 DEF Advances, Updated, Own, Started, Starting
<1> QED  BY <1>4, <1>5, <1>6 DEF Knows

\* A container is made in the mode and from the image that the command has.
LEMMA RunContainerKnows ==
  ASSUME KInv, NEW i \in Process, RunContainer(i) PROVE Local(i) /\ Knows(i)'
<1>1. PICK p \in Project : /\ inv[i] # None /\ inv[i] \in Command /\ inv[i].project = p
                           /\ inv[i].tag \in Tag /\ inv[i].super \in BOOLEAN /\ inv[i].gpus \in BOOLEAN
  BY CommandAt DEF KInv, Inv, RunContainer, At
<1>2. UNCHANGED <<host, images, tables>> /\ inv[i].pc \in {"run", "rerun"}
  BY DEF RunContainer, At
<1>3. CASE Return(i) /\ UNCHANGED container
  <2>1. inv'[i] = None /\ (\A j \in Process \ {i} : inv'[j] = inv[j]) /\ Knows(i)'
    BY <1>3, ReturnKnows DEF KInv
  <2>2. OwnEffects(i)
    BY <1>1, <1>2, <1>3, NoEffectsOwn DEF docker
  <2> QED  BY <1>1, <2>1, <2>2, EffectsLocal
<1>4. ASSUME NEW status \in {"running", "created"}, images[inv[i].tag] # None,
             SetOwn(i, [image |-> images[inv[i].tag], gpus |-> inv[i].gpus,
                        super |-> inv[i].super, status |-> status, session |-> "none"]),
             IF status = "running" THEN Goto(i, "wait") ELSE Return(i)
      PROVE  Local(i) /\ Knows(i)'
  <2> DEFINE c == [image |-> images[inv[i].tag], gpus |-> inv[i].gpus,
                   super |-> inv[i].super, status |-> status, session |-> "none"]
  <2>1. images[inv[i].tag] \in Image
    BY <1>1, <1>4 DEF KInv, Inv, TypeOK
  <2>2. c \in Container /\ c.image = images[inv[i].tag] /\ c.super = inv[i].super
        /\ c.status = status
    BY <1>1, <2>1 DEF Container
  <2>3. c # None
    BY <2>2, NoneAssumption
  <2>4. container' = [container EXCEPT ![p] = c]
    BY <1>1, <1>4 DEF SetOwn
  <2> HIDE DEF c
  <2>5. container'[p] = c /\ \A q \in Project \ {p} : container'[q] = container[q]
    BY <2>4 DEF KInv, Inv, TypeOK
  <2>6. OwnEffects(i)
    BY <1>1, <1>2, <2>5 DEF OwnEffects, tables, KInv, TagsAreOwn
  <2>7. CASE status = "running"
    <3>1. Advances(i, "wait")
      BY <1>1, <1>4, <2>7, GotoAdvances DEF KInv, Started
    <3>2. Local(i)
      BY <1>1, <2>6, <3>1, EffectsLocal
    <3>3. Reconciled(i)'
      BY <1>1, <2>2, <2>3, <2>5, <2>7, <3>1 DEF Advances, Reconciled, InMode, Running, Own
    <3>4. Updated(i)'
      <4>1. SUFFICES ASSUME Clean(i), inv[i].op = "update" PROVE Updated(i)'
        BY <1>1, <3>1 DEF Updated, Clean, Advances
      <4>2. inv[i].starting /\ inv[i].pc = "run" /\ inv[i].tag = ImageFor(p)
            /\ images[ImageFor(p)] \in {None, Current}
        BY <1>1, <1>2, <4>1 DEF KInv, Knows, Updated, Starting, Started
      <4>3. ImageFor(p)' = ImageFor(p) /\ Current' = Current /\ UNCHANGED <<images, gpu>>
        BY <1>2 DEF ImageFor, Current, host, tables
      <4>4. container'[p].image = Current
        BY <1>4, <2>2, <2>5, <4>2
      <4> QED  BY <1>1, <3>1, <4>2, <4>3, <4>4 DEF Advances, Updated, Own, Started, Starting
    <3> QED  BY <3>2, <3>3, <3>4 DEF Knows
  <2>8. CASE status # "running"
    <3>1. inv'[i] = None /\ (\A j \in Process \ {i} : inv'[j] = inv[j]) /\ Knows(i)'
      BY <1>4, <2>8, ReturnKnows DEF KInv
    <3> QED  BY <1>1, <2>6, <3>1, EffectsLocal
  <2> QED  BY <2>7, <2>8
<1> QED  BY <1>3, <1>4 DEF RunContainer

\* An update never looks at labels: when it starts, it has no container.
LEMMA NotAnUpdate ==
  ASSUME KInv, NEW i \in Process, inv[i] # None,
         inv[i].pc \in {"labels", "recreate", "rerun", "start", "mark"},
         \E pc : Advances(i, pc)
  PROVE  Updated(i)'
<1>1. ~(Clean(i) /\ inv[i].op = "update")
  BY DEF KInv, Knows, Updated, Starting, Started
<1> QED  BY <1>1 DEF Updated, Clean, Advances

LEMMA CheckLabelsKnows ==
  ASSUME KInv, NEW i \in Process, CheckLabels(i) PROVE Local(i) /\ Knows(i)'
<1>1. PICK p \in Project : inv[i] # None /\ inv[i] \in Command /\ inv[i].project = p
  BY CommandAt DEF KInv, Inv, CheckLabels, At
<1>2. UNCHANGED <<host, docker, tables>> /\ inv[i].pc = "labels"
  BY DEF CheckLabels, At
<1>3. PICK pc \in {"recreate", "start"} : Advances(i, pc) /\ (pc = "start" => ~WrongMode(i))
  <2>1. CASE WrongMode(i)
    BY <1>1, <2>1, GotoAdvances DEF KInv, CheckLabels
  <2>2. CASE ~WrongMode(i)
    BY <1>1, <2>2, GotoAdvances DEF KInv, CheckLabels
  <2> QED  BY <2>1, <2>2
<1>4. Local(i)
  BY <1>1, <1>2, <1>3, NoEffectsOwn, EffectsLocal
<1>5. Reconciled(i)'
  BY <1>1, <1>2, <1>3 DEF Advances, Reconciled, WrongMode, Own, docker
<1>6. Updated(i)'
  BY <1>1, <1>2, <1>3, NotAnUpdate
<1> QED  BY <1>4, <1>5, <1>6 DEF Knows

LEMMA RecreateKnows ==
  ASSUME KInv, NEW i \in Process, Recreate(i) PROVE Local(i) /\ Knows(i)'
<1>1. PICK p \in Project : inv[i] # None /\ inv[i] \in Command /\ inv[i].project = p
  BY CommandAt DEF KInv, Inv, Recreate, At
<1>2. UNCHANGED <<host, images, tables>> /\ inv[i].pc = "recreate"
      /\ container' = [container EXCEPT ![p] = None]
  BY <1>1 DEF Recreate, At, SetOwn
<1>3. Advances(i, "rerun")
  BY <1>1, GotoAdvances DEF KInv, Recreate
<1>4. OwnEffects(i)
  BY <1>1, <1>2 DEF OwnEffects, tables, KInv, TagsAreOwn, Inv, TypeOK
<1>5. Local(i)
  BY <1>1, <1>3, <1>4, EffectsLocal
<1>6. Reconciled(i)'
  BY <1>3 DEF Advances, Reconciled
<1>7. Updated(i)'
  BY <1>1, <1>2, <1>3, NotAnUpdate
<1> QED  BY <1>5, <1>6, <1>7 DEF Knows

LEMMA StartContainerKnows ==
  ASSUME KInv, NEW i \in Process, StartContainer(i) PROVE Local(i) /\ Knows(i)'
<1>1. PICK p \in Project : inv[i] # None /\ inv[i] \in Command /\ inv[i].project = p
                           /\ inv[i].super \in BOOLEAN
  BY CommandAt DEF KInv, Inv, StartContainer, At
<1>2. UNCHANGED <<host, images, tables>> /\ inv[i].pc = "start"
  BY DEF StartContainer, At
<1>3. CASE Return(i) /\ UNCHANGED container
  <2>1. inv'[i] = None /\ (\A j \in Process \ {i} : inv'[j] = inv[j]) /\ Knows(i)'
    BY <1>3, ReturnKnows DEF KInv
  <2>2. OwnEffects(i)
    BY <1>1, <1>2, <1>3, NoEffectsOwn DEF docker
  <2> QED  BY <1>1, <2>1, <2>2, EffectsLocal
<1>4. ASSUME Goto(i, "wait"), container[p] # None,
             NEW c \in Container, c.status = "running", c.super = container[p].super,
             container' = [container EXCEPT ![p] = c]
      PROVE  Local(i) /\ Knows(i)'
  <2>1. container'[p] = c /\ c # None /\ \A q \in Project \ {p} : container'[q] = container[q]
    BY <1>4, NoneAssumption DEF KInv, Inv, TypeOK
  <2>2. Advances(i, "wait")
    BY <1>1, <1>4, GotoAdvances DEF KInv, Started
  <2>3. OwnEffects(i)
    BY <1>1, <1>2, <2>1 DEF OwnEffects, tables, KInv, TagsAreOwn
  <2>4. Clean(i) => (container[p].super <=> inv[i].super)
    BY <1>1, <1>2, <1>4 DEF KInv, Knows, Reconciled, WrongMode, Own, Inv, TypeOK, Container
  <2>5. Reconciled(i)'
    BY <1>1, <1>4, <2>1, <2>2, <2>4 DEF Advances, Reconciled, Clean, InMode, Running, Own
  <2>6. Updated(i)'
    BY <1>1, <1>2, <2>2, NotAnUpdate
  <2> QED  BY <1>1, <2>2, <2>3, <2>5, <2>6, EffectsLocal DEF Knows
<1>5. CASE Running(p) /\ Goto(i, "wait") /\ UNCHANGED container
  <2>1. container[p] \in Container /\ container[p] # None /\ container[p].status = "running"
    BY <1>5 DEF Running, KInv, Inv, TypeOK
  <2>2. container' = [container EXCEPT ![p] = container[p]]
    BY <1>5 DEF KInv, Inv, TypeOK
  <2> QED  BY <1>4, <1>5, <2>1, <2>2
<1>6. CASE /\ Own(i) # None
           /\ SetOwn(i, [Own(i) EXCEPT !.status = "running"])
           /\ Goto(i, "wait")
  <2> DEFINE c == [container[p] EXCEPT !.status = "running"]
  <2>1. container[p] \in Container /\ container[p] # None
    BY <1>1, <1>6 DEF Own, KInv, Inv, TypeOK
  <2>2. c \in Container /\ c.status = "running" /\ c.super = container[p].super
    BY <2>1 DEF Container
  <2>3. container' = [container EXCEPT ![p] = c]
    BY <1>1, <1>6 DEF SetOwn, Own
  <2> HIDE DEF c
  <2> QED  BY <1>4, <1>6, <2>1, <2>2, <2>3
<1> QED  BY <1>1, <1>3, <1>5, <1>6 DEF StartContainer

\* A step that returns, and may have touched the store of its project.
LEMMA ReturnsKnows ==
  ASSUME KInv, NEW i \in Process, inv[i] # None, Return(i), OwnEffects(i)
  PROVE  Local(i) /\ Knows(i)'
<1>1. inv'[i] = None /\ (\A j \in Process \ {i} : inv'[j] = inv[j]) /\ Knows(i)'
  BY ReturnKnows DEF KInv
<1> QED  BY <1>1, EffectsLocal

LEMMA WaitRunningKnows ==
  ASSUME KInv, NEW i \in Process, WaitRunning(i) PROVE Local(i) /\ Knows(i)'
<1>1. PICK p \in Project : inv[i] # None /\ inv[i] \in Command /\ inv[i].project = p
  BY CommandAt DEF KInv, Inv, WaitRunning, At
<1>2. UNCHANGED <<host, docker, tables>> /\ inv[i].pc = "wait" /\ OwnEffects(i)
  BY <1>1, NoEffectsOwn DEF WaitRunning, At
<1>3. CASE Return(i)
  BY <1>1, <1>2, <1>3, ReturnsKnows
<1>4. CASE Goto(i, "session")
  <2>1. Advances(i, "session")
    BY <1>1, <1>4, GotoAdvances DEF KInv, Started
  <2>2. Reconciled(i)'
    BY <1>1, <1>2, <2>1
       DEF Advances, Reconciled, KInv, Knows, Clean, InMode, Running, Own, docker
  <2>3. Updated(i)'
    <3>1. SUFFICES ASSUME Clean(i), inv[i].op = "update" PROVE Updated(i)'
      BY <1>1, <2>1 DEF Updated, Clean, Advances
    <3>2. inv[i].starting /\ images[ImageFor(p)] \in {None, Current} /\ container[p].image = Current
      BY <1>1, <1>2, <3>1 DEF KInv, Knows, Updated, Own, Started
    <3>3. ImageFor(p)' = ImageFor(p) /\ Current' = Current /\ UNCHANGED <<container, images, gpu>>
      BY <1>2 DEF ImageFor, Current, host, tables, docker
    <3> QED  BY <1>1, <2>1, <3>2, <3>3 DEF Advances, Updated, Own, Started, Starting
  <2> QED  BY <1>1, <1>2, <2>1, <2>2, <2>3, EffectsLocal DEF Knows
<1> QED  BY <1>3, <1>4 DEF WaitRunning

LEMMA EnsureTmuxSessionKnows ==
  ASSUME KInv, NEW i \in Process, EnsureTmuxSession(i) PROVE Local(i) /\ Knows(i)'
<1>1. PICK p \in Project : inv[i] # None /\ inv[i] \in Command /\ inv[i].project = p
  BY CommandAt DEF KInv, Inv, EnsureTmuxSession, At
<1>2. UNCHANGED <<host, images, tables>> /\ inv[i].pc = "session"
  BY DEF EnsureTmuxSession, At
<1>3. CASE Return(i) /\ UNCHANGED container
  <2>1. OwnEffects(i)
    BY <1>1, <1>2, <1>3, NoEffectsOwn DEF docker
  <2> QED  BY <1>1, <1>3, <2>1, ReturnsKnows
<1>4. ASSUME NEW session \in {"bare", "main"}, Running(p),
             SetOwn(i, [Own(i) EXCEPT !.session = session]), Goto(i, "store")
      PROVE  Local(i) /\ Knows(i)'
  <2> DEFINE c == [container[p] EXCEPT !.session = session]
  <2>1. container[p] \in Container /\ container[p] # None
    BY <1>4 DEF Running, KInv, Inv, TypeOK
  <2>2. /\ c \in Container /\ c.status = container[p].status /\ c.super = container[p].super
        /\ c.image = container[p].image /\ c.session # "none"
    BY <2>1 DEF Container
  <2>3. container' = [container EXCEPT ![p] = c]
    BY <1>1, <1>4 DEF SetOwn, Own
  <2> HIDE DEF c
  <2>4. container'[p] = c /\ c # None /\ \A q \in Project \ {p} : container'[q] = container[q]
    BY <2>2, <2>3, NoneAssumption DEF KInv, Inv, TypeOK
  <2>5. Advances(i, "store")
    BY <1>1, <1>4, GotoAdvances DEF KInv, Started
  <2>6. OwnEffects(i)
    BY <1>1, <1>2, <2>4 DEF OwnEffects, tables, KInv, TagsAreOwn
  <2>7. Clean(i) => Running(p) /\ (container[p].super <=> inv[i].super)
    BY <1>1, <1>2 DEF KInv, Knows, Reconciled, InMode, Own
  <2>8. Reconciled(i)'
    BY <1>1, <2>2, <2>4, <2>5, <2>7 DEF Advances, Reconciled, Clean, InMode, Running, Own
  <2>9. Updated(i)'
    <3>1. SUFFICES ASSUME Clean(i), inv[i].op = "update" PROVE Updated(i)'
      BY <1>1, <2>5 DEF Updated, Clean, Advances
    <3>2. inv[i].starting /\ images[ImageFor(p)] \in {None, Current} /\ container[p].image = Current
      BY <1>1, <1>2, <3>1 DEF KInv, Knows, Updated, Own, Started
    <3>3. ImageFor(p)' = ImageFor(p) /\ Current' = Current /\ UNCHANGED <<images, gpu>>
      BY <1>2 DEF ImageFor, Current, host, tables
    <3> QED  BY <1>1, <2>2, <2>4, <2>5, <3>2, <3>3 DEF Advances, Updated, Own, Started, Starting
  <2> QED  BY <1>1, <2>5, <2>6, <2>8, <2>9, EffectsLocal DEF Knows
<1> QED  BY <1>1, <1>3, <1>4 DEF EnsureTmuxSession

LEMMA StoreDeploymentKnows ==
  ASSUME KInv, NEW i \in Process, StoreDeployment(i) PROVE Local(i) /\ Knows(i)'
<1>1. PICK p \in Project : inv[i] # None /\ inv[i] \in Command /\ inv[i].project = p
  BY CommandAt DEF KInv, Inv, StoreDeployment, At
<1>2. UNCHANGED <<host, docker, recorded>> /\ inv[i].pc = "store"
      /\ deployment' = [deployment EXCEPT ![p] = "running"]
  BY <1>1 DEF StoreDeployment, At
<1>3. deployment'[p] = "running" /\ \A q \in Project \ {p} : deployment'[q] = deployment[q]
  BY <1>2 DEF KInv, Inv, TypeOK
<1>4. Advances(i, "record")
  BY <1>1, GotoAdvances DEF KInv, Started, StoreDeployment
<1>5. OwnEffects(i)
  BY <1>1, <1>2, <1>3 DEF OwnEffects, docker, KInv, TagsAreOwn
<1>6. Reconciled(i)'
  BY <1>1, <1>2, <1>3, <1>4
     DEF Advances, Reconciled, KInv, Knows, Clean, InMode, Running, Own, docker
<1>7. Updated(i)'
  <2>1. SUFFICES ASSUME Clean(i), inv[i].op = "update" PROVE Updated(i)'
    BY <1>1, <1>4 DEF Updated, Clean, Advances
  <2>2. inv[i].starting /\ images[ImageFor(p)] \in {None, Current} /\ container[p].image = Current
    BY <1>1, <1>2, <2>1 DEF KInv, Knows, Updated, Own, Started
  <2>3. ImageFor(p)' = ImageFor(p) /\ Current' = Current /\ UNCHANGED <<container, images, gpu>>
    BY <1>2 DEF ImageFor, Current, host, docker
  <2> QED  BY <1>1, <1>4, <2>2, <2>3 DEF Advances, Updated, Own, Started, Starting
<1> QED  BY <1>1, <1>4, <1>5, <1>6, <1>7, EffectsLocal DEF Knows

LEMMA StoreProjectKnows ==
  ASSUME KInv, NEW i \in Process, StoreProject(i) PROVE Local(i) /\ Knows(i)'
<1>1. PICK p \in Project : inv[i] # None /\ inv[i].project = p /\ inv[i].tag[1] = p
  BY CommandAt DEF KInv, Inv, StoreProject, At, TagsAreOwn
<1>2. UNCHANGED <<host, docker, deployment>> /\ Return(i)
      /\ recorded' = [recorded EXCEPT ![p] = inv[i].tag]
  BY <1>1 DEF StoreProject
<1>3. recorded'[p] = inv[i].tag /\ \A q \in Project \ {p} : recorded'[q] = recorded[q]
  BY <1>2 DEF KInv, Inv, TypeOK
<1>4. OwnEffects(i)
  BY <1>1, <1>2, <1>3 DEF OwnEffects, docker
<1> QED  BY <1>1, <1>2, <1>4, ReturnsKnows

----
(* The steps of a removal                                                  *)

LEMMA StopKnows ==
  ASSUME KInv, NEW i \in Process, StopContainer(i) \/ StopFails(i) PROVE Local(i) /\ Knows(i)'
<1>1. PICK p \in Project : inv[i] # None /\ inv[i] \in Command /\ inv[i].project = p
  BY CommandAt DEF KInv, Inv, StopContainer, StopFails, At
<1>2. UNCHANGED <<host, images, tables>> /\ inv[i].pc = "stop" /\ Goto(i, "remove")
  BY DEF StopContainer, StopFails, At, docker
<1>3. \A q \in Project \ {p} : container'[q] = container[q]
  BY <1>1 DEF StopContainer, StopFails, SetOwn, docker, KInv, Inv, TypeOK
<1>4. Advances(i, "remove")
  BY <1>1, <1>2, GotoAdvances DEF KInv
<1>5. OwnEffects(i)
  BY <1>1, <1>2, <1>3 DEF OwnEffects, tables, KInv, TagsAreOwn
<1>6. Reconciled(i)'
  BY <1>4 DEF Advances, Reconciled
<1>7. Updated(i)'
  <2>1. SUFFICES ASSUME Clean(i), inv[i].op = "update" PROVE Updated(i)'
    BY <1>1, <1>4 DEF Updated, Clean, Advances
  <2>2. ~inv[i].starting /\ images[ImageFor(p)] \in {None, Current}
    BY <1>1, <1>2, <2>1 DEF KInv, Knows, Updated, Started, Starting
  <2>3. ImageFor(p)' = ImageFor(p) /\ Current' = Current /\ UNCHANGED <<images, gpu>>
    BY <1>2 DEF ImageFor, Current, host, tables
  <2> QED  BY <1>1, <1>4, <2>2, <2>3 DEF Advances, Updated, Started, Starting
<1> QED  BY <1>1, <1>4, <1>5, <1>6, <1>7, EffectsLocal DEF Knows

\* The container is gone, unless the call failed, and then the update is not clean.
LEMMA RemoveKnows ==
  ASSUME KInv, NEW i \in Process, RemoveContainer(i) \/ RemoveFails(i)
  PROVE  Local(i) /\ Knows(i)'
<1>1. PICK p \in Project : inv[i] # None /\ inv[i] \in Command /\ inv[i].project = p
                           /\ inv[i].tag[1] = p
  BY CommandAt DEF KInv, Inv, RemoveContainer, RemoveFails, At, TagsAreOwn
<1>2. UNCHANGED <<host, images, tables>> /\ inv[i].pc = "remove"
  BY DEF RemoveContainer, RemoveFails, At, docker
<1>3. PICK ok \in BOOLEAN : AfterRemove(i, ok) /\ (ok => container'[p] = None)
  BY <1>1 DEF RemoveContainer, RemoveFails, SetOwn, KInv, Inv, TypeOK
<1>4. \A q \in Project \ {p} : container'[q] = container[q]
  BY <1>1 DEF RemoveContainer, RemoveFails, SetOwn, docker, KInv, Inv, TypeOK
<1>5. OwnEffects(i)
  BY <1>1, <1>2, <1>4 DEF OwnEffects, tables, KInv, TagsAreOwn
<1>6. CASE inv[i].op = "kill"
  <2>1. Advances(i, "mark")
    BY <1>1, <1>3, <1>6, GotoAdvances DEF KInv, AfterRemove
  <2>2. Reconciled(i)' /\ Updated(i)'
    BY <1>6, <2>1 DEF Advances, Reconciled, Updated
  <2> QED  BY <1>1, <1>5, <2>1, <2>2, EffectsLocal DEF Knows
<1>7. CASE inv[i].op \notin {"kill", "update"}
  BY <1>1, <1>3, <1>5, <1>7, ReturnsKnows DEF AfterRemove
<1>8. CASE inv[i].op = "update"
  <2> DEFINE c == [inv[i] EXCEPT !.pc = "resolve", !.starting = TRUE, !.clean = @ /\ ok]
  <2>1. inv' = [inv EXCEPT ![i] = c]
    BY <1>3, <1>8 DEF AfterRemove
  <2>2. /\ c.pc = "resolve" /\ c.op = "update" /\ c.project = p /\ c.tag = inv[i].tag
        /\ c.starting /\ (c.clean = TRUE => inv[i].clean = TRUE /\ ok)
    BY <1>1, <1>8 DEF Command
  <2> HIDE DEF c
  <2>3. inv'[i] = c /\ \A j \in Process \ {i} : inv'[j] = inv[j]
    BY <2>1 DEF KInv, Inv, TypeOK
  <2>4. Local(i)
    BY <1>1, <1>5, <2>2, <2>3 DEF Local, OwnEffects
  <2>5. Reconciled(i)'
    BY <2>2, <2>3 DEF Reconciled
  <2>6. Updated(i)'
    <3>1. SUFFICES ASSUME c.clean = TRUE PROVE Updated(i)'
      BY <2>3 DEF Updated, Clean
    <3>2. images[ImageFor(p)] \in {None, Current} /\ container'[p] = None
      BY <1>1, <1>2, <1>3, <1>8, <2>2, <3>1 DEF KInv, Knows, Updated, Clean
    <3>3. ImageFor(p)' = ImageFor(p) /\ Current' = Current /\ UNCHANGED <<images, gpu>>
      BY <1>2 DEF ImageFor, Current, host, tables
    <3> QED  BY <2>2, <2>3, <3>2, <3>3 DEF Updated, Own, Started, Starting
  <2> QED  BY <2>4, <2>5, <2>6 DEF Knows
<1> QED  BY <1>6, <1>7, <1>8

LEMMA MarkStoppedKnows ==
  ASSUME KInv, NEW i \in Process, MarkStopped(i) PROVE Local(i) /\ Knows(i)'
<1>1. PICK p \in Project : inv[i] # None /\ inv[i].project = p
  BY CommandAt DEF KInv, Inv, MarkStopped, At
<1>2. UNCHANGED <<host, docker, recorded>> /\ Return(i)
      /\ \A q \in Project \ {p} : deployment'[q] = deployment[q]
  BY <1>1 DEF MarkStopped, KInv, Inv, TypeOK
<1>3. OwnEffects(i)
  BY <1>1, <1>2 DEF OwnEffects, docker, KInv, TagsAreOwn
<1> QED  BY <1>1, <1>2, <1>3, ReturnsKnows

----
(* Around the commands                                                     *)

\* What happens elsewhere: a command is as it was, on a project that is as it
\* was, or is not clean.
LEMMA ElsewhereKnows ==
  ASSUME KInv, UNCHANGED host, NEW i \in Process,
         Clean(i)' => inv'[i] = inv[i] /\ inv[i] # None /\ Undisturbed(inv[i].project)
  PROVE  Knows(i)'
<1>1. CASE Clean(i)'
  <2>1. inv'[i] = inv[i] /\ inv[i] # None
    BY <1>1
  <2>2. PICK p \in Project : inv[i].project = p
    BY <2>1, CommandAt DEF KInv, Inv
  <2>3. Undisturbed(p)
    BY <1>1, <2>2
  <2> QED  BY <2>1, <2>2, <2>3, UndisturbedKnows
<1>2. CASE ~Clean(i)'
  BY <1>2 DEF Knows, Reconciled, Updated
<1> QED  BY <1>1, <1>2

LEMMA SameIsUndisturbed ==
  ASSUME UNCHANGED <<docker, tables>> PROVE \A p : Undisturbed(p)
BY DEF docker, tables, Undisturbed

\* A new command disturbs those on its project, and is clean if there are none.
LEMMA BeginKnows ==
  ASSUME KInv, Inv', NEW i \in Process, NEW p \in Project, NEW super \in BOOLEAN,
         NEW op \in {"start", "update", "fetch", "kill"}, Begin(i, op, p, super)
  PROVE  KInv'
<1> DEFINE alone == \A j \in Process : inv[j] = None \/ inv[j].project # p
           c == [op |-> op, project |-> p, super |-> super, starting |-> op = "start",
                 pc |-> FirstStep(op), tag |-> <<p, "cpu">>, gpus |-> FALSE,
                 known |-> FALSE, map |-> NoMeta, clean |-> alone]
<1>1. inv' = [Disturbed(p) EXCEPT ![i] = c] /\ UNCHANGED <<host, docker, tables>> /\ inv[i] = None
  BY DEF Begin
<1>2. /\ c.op = op /\ c.project = p /\ c.tag = <<p, "cpu">> /\ c.pc = FirstStep(op)
      /\ (c.starting = TRUE => op = "start")
  OBVIOUS
<1>3. c.clean = alone
  OBVIOUS
<1> HIDE DEF c, alone
<1>4. inv'[i] = c /\ \A j \in Process \ {i} : inv'[j] = Disturbed(p)[j]
  BY <1>1, DisturbedTyped DEF KInv, Inv
<1>5. ASSUME NEW j \in Process \ {i}
      PROVE  /\ inv[j] = None \/ inv[j].project # p => inv'[j] = inv[j]
             /\ inv[j] # None /\ inv[j].project = p =>
                  inv'[j].clean = FALSE /\ inv'[j].project = p /\ inv'[j].tag = inv[j].tag
  <2>1. CASE inv[j] = None \/ inv[j].project # p
    BY <1>4, <2>1 DEF Disturbed
  <2>2. CASE inv[j] # None /\ inv[j].project = p
    <3>1. inv'[j] = [inv[j] EXCEPT !.clean = FALSE] /\ inv[j] \in Command
      BY <1>4, <2>2, CommandAt DEF Disturbed, KInv, Inv
    <3> QED  BY <2>2, <3>1 DEF Command
  <2> QED  BY <2>1, <2>2
<1>6. CleanIsAlone'
  <2>1. SUFFICES ASSUME NEW j \in Process, NEW k \in Process, j # k, Clean(j)', inv'[k] # None
                 PROVE  inv'[k].project # inv'[j].project
    BY DEF CleanIsAlone
  <2>2. CASE j = i
    <3>1. alone
      BY <1>3, <1>4, <2>1, <2>2 DEF Clean
    <3> QED  BY <1>2, <1>4, <1>5, <2>1, <2>2, <3>1 DEF alone
  <2>3. CASE j # i
    <3>1. inv'[j] = inv[j] /\ Clean(j) /\ inv[j].project # p
      BY <1>1, <1>5, <2>1, <2>3 DEF Clean
    <3>2. CASE k = i
      BY <1>2, <1>4, <3>1, <3>2
    <3>3. CASE k # i
      BY <1>5, <2>1, <3>1, <3>3 DEF KInv, CleanIsAlone
    <3> QED  BY <3>2, <3>3
  <2> QED  BY <2>2, <2>3
<1>7. TagsAreOwn'
  <2>1. \A q \in Project : recorded'[q] # None => recorded'[q][1] = q
    BY <1>1 DEF KInv, TagsAreOwn, tables
  <2>2. ASSUME NEW j \in Process, inv'[j] # None PROVE inv'[j].tag[1] = inv'[j].project
    <3>1. CASE j = i
      <4>1. <<p, "cpu">>[1] = p
        OBVIOUS
      <4> QED  BY <1>2, <1>4, <3>1, <4>1
    <3>2. CASE j # i /\ (inv[j] = None \/ inv[j].project # p)
      BY <1>5, <2>2, <3>2 DEF KInv, TagsAreOwn
    <3>3. CASE j # i /\ inv[j] # None /\ inv[j].project = p
      <4>1. inv[j].tag[1] = p
        BY <3>3 DEF KInv, TagsAreOwn
      <4> QED  BY <1>5, <3>3, <4>1
    <3> QED  BY <3>1, <3>2, <3>3
  <2> QED  BY <2>1, <2>2 DEF TagsAreOwn
<1>8. ASSUME NEW j \in Process, j # i PROVE Knows(j)'
  <2>1. Clean(j)' => inv'[j] = inv[j] /\ inv[j] # None
    BY <1>5, <1>8 DEF Clean
  <2> QED  BY <1>1, <2>1, SameIsUndisturbed, ElsewhereKnows
<1>9. Knows(i)'
  <2>1. c.pc \in {"resolve", "stop"} /\ (op = "update" => c.pc = "resolve" /\ c.starting # TRUE)
    BY <1>2 DEF FirstStep
  <2>2. Reconciled(i)'
    BY <1>4, <2>1 DEF Reconciled
  <2>3. inv'[i] \in Command \cup {None}
    BY DEF Inv, TypeOK
  <2>4. Updated(i)'
    BY <1>2, <1>4, <2>1, <2>3 DEF Updated, Clean, Command, Starting, Started
  <2> QED  BY <2>2, <2>4 DEF Knows
<1> QED  BY <1>6, <1>7, <1>8, <1>9 DEF KInv

\* The binary changes when no command runs; the GPU changes under all of them.
LEMMA HostKnows == ASSUME KInv, Inv', Upgrade \/ GpuChanges PROVE KInv'
<1>1. UNCHANGED <<docker, tables>>
  BY DEF Upgrade, GpuChanges
<1>2. ASSUME NEW i \in Process
      PROVE  /\ ~Clean(i)'
             /\ inv'[i] # None => inv'[i].project = inv[i].project /\ inv'[i].tag = inv[i].tag
                                  /\ inv[i] # None
  <2>1. CASE Upgrade
    BY <2>1 DEF Upgrade, Clean
  <2>2. CASE GpuChanges /\ inv[i] = None
    BY <2>2 DEF GpuChanges, Clean
  <2>3. CASE GpuChanges /\ inv[i] # None
    <3>1. inv'[i] = [inv[i] EXCEPT !.clean = FALSE] /\ inv[i] \in Command
      BY <2>3, CommandAt DEF GpuChanges, KInv, Inv
    <3>2. inv'[i].clean = FALSE /\ inv'[i].project = inv[i].project /\ inv'[i].tag = inv[i].tag
      BY <3>1 DEF Command
    <3> QED  BY <2>3, <3>2 DEF Clean
  <2> QED  BY <2>1, <2>2, <2>3
<1>3. CleanIsAlone'
  BY <1>2 DEF CleanIsAlone
<1>4. TagsAreOwn'
  <2>1. \A q \in Project : recorded'[q] # None => recorded'[q][1] = q
    BY <1>1 DEF KInv, TagsAreOwn, tables
  <2>2. \A i \in Process : inv'[i] # None => inv'[i].tag[1] = inv'[i].project
    BY <1>2 DEF KInv, TagsAreOwn
  <2> QED  BY <2>1, <2>2 DEF TagsAreOwn
<1>5. \A i \in Process : Knows(i)'
  BY <1>2 DEF Knows, Reconciled, Updated
<1> QED  BY <1>3, <1>4, <1>5 DEF KInv

\* A command is as it was on a project that is as it was, or is not clean.
Spared(i) ==
  /\ Clean(i)' => inv'[i] = inv[i] /\ inv[i] # None /\ Undisturbed(inv[i].project)
  /\ inv'[i] # None =>
       inv[i] # None /\ inv'[i].project = inv[i].project /\ inv'[i].tag = inv[i].tag

\* A harness that exits leaves a session; a container that is stopped disturbs
\* the command that works on it; an image that is pruned was no promise.
LEMMA OutsideKnows ==
  ASSUME KInv, Inv',
         \/ \E p \in Project : HarnessExits(p) \/ ContainerExits(p)
         \/ \E tag \in Tag : PruneImage(tag)
         \/ UNCHANGED vars
  PROVE  KInv'
<1>1. UNCHANGED <<host, tables>>
  BY DEF HarnessExits, ContainerExits, PruneImage, vars
<1>2. ASSUME NEW i \in Process PROVE Spared(i)
  <2>1. CASE UNCHANGED vars \/ \E tag \in Tag : PruneImage(tag)
    <3>1. UNCHANGED <<container, tables, inv>>
      BY <2>1 DEF PruneImage, vars, docker
    <3>2. \A tag \in Tag : images'[tag] \in {images[tag], None}
      BY <2>1 DEF PruneImage, vars, docker, KInv, Inv, TypeOK
    <3> QED  BY <3>1, <3>2 DEF Spared, Clean, Undisturbed, tables
  <2>2. ASSUME NEW p \in Project, HarnessExits(p)
        PROVE  Spared(i)
    <3>1. container[p] # None /\ container[p] \in Container /\ UNCHANGED <<images, tables, inv>>
          /\ container' = [container EXCEPT ![p] = [container[p] EXCEPT !.session = "bare"]]
      BY <2>2 DEF HarnessExits, Running, KInv, Inv, TypeOK
    <3> DEFINE c == [container[p] EXCEPT !.session = "bare"]
    <3>2. c \in Container /\ c.image = container[p].image /\ c.super = container[p].super
          /\ c.status = container[p].status /\ c.session = "bare"
      BY <3>1 DEF Container
    <3> HIDE DEF c
    <3>3. container'[p] = c /\ c # None /\ \A q \in Project \ {p} : container'[q] = container[q]
      BY <3>1, <3>2, NoneAssumption DEF c, KInv, Inv, TypeOK
    <3>4. \A q \in Project : Undisturbed(q)
      BY <3>1, <3>2, <3>3 DEF Undisturbed, tables
    <3> QED  BY <3>1, <3>4, CommandAt DEF Spared, Clean, KInv, Inv
  <2>3. ASSUME NEW p \in Project, ContainerExits(p)
        PROVE  Spared(i)
    <3>1. inv' = Disturbed(p) /\ UNCHANGED <<images, tables>>
          /\ \A q \in Project \ {p} : container'[q] = container[q]
      BY <2>3 DEF ContainerExits, KInv, Inv, TypeOK
    <3>2. CASE inv[i] = None \/ inv[i].project # p
      <4>1. inv'[i] = inv[i]
        BY <3>1, <3>2 DEF Disturbed
      <4>2. inv[i] # None => inv[i].project \in Project \ {p}
        BY <3>2, CommandAt DEF KInv, Inv
      <4> QED  BY <3>1, <4>1, <4>2 DEF Spared, Clean, Undisturbed, tables
    <3>3. CASE inv[i] # None /\ inv[i].project = p
      <4>1. inv'[i] = [inv[i] EXCEPT !.clean = FALSE] /\ inv[i] \in Command
        BY <3>1, <3>3, CommandAt DEF Disturbed, KInv, Inv
      <4>2. inv'[i].clean = FALSE /\ inv'[i].project = inv[i].project /\ inv'[i].tag = inv[i].tag
        BY <4>1 DEF Command
      <4> QED  BY <3>3, <4>2 DEF Spared, Clean
    <3> QED  BY <3>2, <3>3
  <2> QED  BY <2>1, <2>2, <2>3
<1>3. CleanIsAlone'
  BY <1>2 DEF KInv, CleanIsAlone, Clean, Spared
<1>4. TagsAreOwn'
  <2>1. \A q \in Project : recorded'[q] # None => recorded'[q][1] = q
    BY <1>1 DEF KInv, TagsAreOwn, tables
  <2>2. \A i \in Process : inv'[i] # None => inv'[i].tag[1] = inv'[i].project
    BY <1>2 DEF KInv, TagsAreOwn, Spared
  <2> QED  BY <2>1, <2>2 DEF TagsAreOwn
<1>5. \A i \in Process : Knows(i)'
  BY <1>1, <1>2, ElsewhereKnows DEF Spared
<1> QED  BY <1>3, <1>4, <1>5 DEF KInv

----
(* The theorems *)

LEMMA StartKnows == Init => KInv
<1>1. SUFFICES ASSUME Init PROVE KInv
  OBVIOUS
<1>2. Inv
  BY <1>1, InitInv
<1> QED  BY <1>1, <1>2
         DEF Init, KInv, CleanIsAlone, TagsAreOwn, Knows, Reconciled, Updated, Clean

LEMMA StepKnows == KInv /\ [Next]_vars => KInv'
<1>1. SUFFICES ASSUME KInv, [Next]_vars PROVE KInv'
  OBVIOUS
<1>2. Inv'
  BY <1>1, NextKeepsInv DEF KInv
<1>3. ASSUME NEW i \in Process, NEW p \in Project,
             \/ \E op \in {"start", "update"}, super \in BOOLEAN : Begin(i, op, p, super)
             \/ \E op \in {"fetch", "kill"} : Begin(i, op, p, FALSE)
      PROVE  KInv'
  BY <1>1, <1>2, <1>3, BeginKnows
<1>4. ASSUME NEW i \in Process, StartStep(i) \/ RemoveStep(i) \/ Abandon(i) PROVE KInv'
  <2>1. CASE StartStep(i)
    BY <1>1, <1>2, <2>1, LocalKeeps, ResolveKnows, CheckContainerKnows, CheckImageKnows, BuildKnows,
       RecordKnows, RunContainerKnows, CheckLabelsKnows, RecreateKnows, StartContainerKnows,
       WaitRunningKnows, EnsureTmuxSessionKnows, StoreDeploymentKnows, StoreProjectKnows
       DEF StartStep
  <2>2. CASE RemoveStep(i)
    BY <1>1, <1>2, <2>2, LocalKeeps, StopKnows, RemoveKnows, MarkStoppedKnows DEF RemoveStep
  <2>3. CASE Abandon(i)
    <3>1. inv[i] # None /\ Return(i) /\ UNCHANGED <<host, docker, tables>>
      BY <2>3 DEF Abandon
    <3>2. Local(i) /\ Knows(i)'
      BY <1>1, <3>1, NoEffectsOwn, ReturnsKnows
    <3> QED  BY <1>1, <1>2, <3>2, LocalKeeps
  <2> QED  BY <1>4, <2>1, <2>2, <2>3
<1>5. CASE Upgrade \/ GpuChanges
  BY <1>1, <1>2, <1>5, HostKnows
<1>6. CASE \/ \E p \in Project : HarnessExits(p) \/ ContainerExits(p)
           \/ \E tag \in Tag : PruneImage(tag)
           \/ UNCHANGED vars
  BY <1>1, <1>2, <1>6, OutsideKnows
<1> QED  BY <1>1, <1>3, <1>4, <1>5, <1>6 DEF Next

\* What clean commands know, with what keeps it true, as one inductive invariant.
THEOREM KnowledgeIsInvariant == Spec => []KInv
BY StartKnows, StepKnows, PTL DEF Spec

\* A start or an update about to succeed, clean to the end, leaves a running
\* container in the mode that was asked for, with a session, marked as running.
THEOREM StartsReconcile == Spec => []StartReconciles
<1>1. ASSUME KInv, NEW i \in Process, At(i, "record"), inv[i].clean
      PROVE  /\ Running(inv[i].project)
             /\ container[inv[i].project].super = inv[i].super
             /\ container[inv[i].project].session # "none"
             /\ deployment[inv[i].project] = "running"
  <2>1. inv[i] \in Command /\ inv[i].project \in Project /\ inv[i].super \in BOOLEAN /\ inv[i] # None
    BY <1>1, CommandAt DEF KInv, Inv, At
  <2>2. Clean(i)
    BY <1>1, <2>1 DEF Clean, Command
  <2>3. InMode(i) /\ Own(i).session # "none" /\ deployment[inv[i].project] = "running"
    BY <1>1, <2>2 DEF KInv, Knows, Reconciled, At
  <2>4. container[inv[i].project] \in Container
    BY <1>1, <2>1, <2>3 DEF InMode, Running, KInv, Inv, TypeOK
  <2>5. container[inv[i].project].super \in BOOLEAN
    BY <2>4 DEF Container
  <2> QED  BY <2>1, <2>3, <2>5 DEF InMode, Own
<1>2. KInv => StartReconciles
  BY <1>1 DEF StartReconciles
<1> QED  BY <1>2, KnowledgeIsInvariant, PTL

\* An update about to succeed, clean to the end, has the container run an image
\* of the installed template, from the Dockerfile the GPU calls for.
THEOREM UpdatesTakeEffect == Spec => []UpdateTakesEffect
<1>1. ASSUME KInv, NEW i \in Process, At(i, "record"), inv[i].op = "update", inv[i].clean
      PROVE  container[inv[i].project].image = Current
  <2>1. inv[i] \in Command /\ inv[i] # None
    BY <1>1, CommandAt DEF KInv, Inv, At
  <2>2. Clean(i)
    BY <1>1, <2>1 DEF Clean, Command
  <2> QED  BY <1>1, <2>2 DEF KInv, Knows, Updated, At, Own, Started
<1>2. KInv => UpdateTakesEffect
  BY <1>1 DEF UpdateTakesEffect, Current
<1> QED  BY <1>2, KnowledgeIsInvariant, PTL
----
(* What a step may do to a container.                                      *)

\* Of an image that is known and was found good enough, or was just recorded,
\* the version is the installed template's, unless it was pruned since.
Built(i) ==
  inv[i] # None /\ inv[i].pc = "run" /\ inv[i].known =>
    images[inv[i].tag] = None \/ images[inv[i].tag].template = template

\* A clean start removes nothing, but to change the mode.
Careful(i) ==
  Clean(i) /\ inv[i].op = "start" =>
    /\ inv[i].starting
    /\ inv[i].pc \notin {"stop", "remove", "mark"}
    /\ inv[i].pc = "recreate" => WrongMode(i)

StepInv == KInv /\ \A i \in Process : Built(i) /\ Careful(i)

CommandStep(i) == StartStep(i) \/ RemoveStep(i) \/ Abandon(i)

LEMMA CommandStepIsLocal ==
  ASSUME KInv, NEW i \in Process, CommandStep(i)
  PROVE  Local(i)
<1>1. CASE StartStep(i)
  BY <1>1, ResolveKnows, CheckContainerKnows, CheckImageKnows, BuildKnows,
     RecordKnows, RunContainerKnows, CheckLabelsKnows, RecreateKnows, StartContainerKnows,
     WaitRunningKnows, EnsureTmuxSessionKnows, StoreDeploymentKnows, StoreProjectKnows
     DEF StartStep
<1>2. CASE RemoveStep(i)
  BY <1>2, StopKnows, RemoveKnows, MarkStoppedKnows DEF RemoveStep
<1>3. CASE Abandon(i)
  <2>1. inv[i] # None /\ Return(i) /\ UNCHANGED <<host, docker, tables>>
    BY <1>3 DEF Abandon
  <2> QED  BY <2>1, NoEffectsOwn, ReturnsKnows
<1> QED  BY <1>1, <1>2, <1>3 DEF CommandStep

\* Whatever moves, the images that a step leaves are the ones there were or of
\* the installed template, and the template is replaced only when nothing runs.
ImagesKept ==
  /\ template' = template
  /\ \A tag \in Tag : images'[tag] \in {images[tag], None} \/ images'[tag].template = template

LEMMA BuiltKept ==
  ASSUME TypeOK, ImagesKept, NEW i \in Process, Built(i),
         inv'[i] = inv[i] \/ (inv[i] # None /\ inv'[i] = [inv[i] EXCEPT !.clean = FALSE])
  PROVE  Built(i)'
<1>1. CASE inv[i] = None
  BY <1>1 DEF Built
<1>2. CASE inv[i] # None
  <2>1. inv[i] \in Command /\ inv[i].tag \in Tag
    BY <1>2, CommandAt
  <2>2. inv'[i].pc = inv[i].pc /\ inv'[i].known = inv[i].known /\ inv'[i].tag = inv[i].tag
    BY <2>1 DEF Command
  <2> QED  BY <1>2, <2>1, <2>2 DEF Built, ImagesKept
<1> QED  BY <1>1, <1>2

LEMMA SameImagesKept == ASSUME UNCHANGED <<template, images>> PROVE ImagesKept
  BY DEF ImagesKept

LEMMA CommandKeepsImages ==
  ASSUME TypeOK, NEW i \in Process, CommandStep(i)
  PROVE  ImagesKept
<1>1. CASE Build(i)
  <2> DEFINE img == [template |-> template, dockerfile |-> Dockerfile(inv[i].gpus)]
  <2>1. images' = [images EXCEPT ![inv[i].tag] = img] /\ template' = template
    BY <1>1 DEF Build, host
  <2>2. img.template = template
    OBVIOUS
  <2> HIDE DEF img
  <2> QED  BY <2>1, <2>2 DEF TypeOK, ImagesKept
<1>2. CASE RecordRead(i) \/ RecordTruncate(i) \/ RecordWrite(i)
  BY <1>2, SameImagesKept DEF RecordRead, RecordTruncate, RecordWrite, host, docker
<1>3. CASE Resolve(i) \/ CheckImage(i) \/ RunContainer(i)
  BY <1>3, ResolvePlain, CheckImagePlain, RunContainerPlain, SameImagesKept DEF Plain
<1>4. CASE \/ CheckContainer(i) \/ CheckLabels(i) \/ Recreate(i) \/ StartContainer(i)
           \/ WaitRunning(i) \/ EnsureTmuxSession(i) \/ StoreDeployment(i) \/ StoreProject(i)
  BY <1>4, StartStepPlain, SameImagesKept DEF Plain
<1>5. CASE RemoveStep(i) \/ Abandon(i)
  BY <1>5, RemoveStepPlain, AbandonPlain, SameImagesKept DEF Plain
<1> QED  BY <1>1, <1>2, <1>3, <1>4, <1>5 DEF CommandStep, StartStep

\* Where a command's own step leads: it keeps what it was asked for, is no
\* cleaner than it was, and reaches these places only as the code says.
Follows(i) ==
  inv'[i] # None =>
    /\ inv'[i].op = inv[i].op /\ inv'[i].super = inv[i].super
    /\ inv'[i].clean = TRUE => inv[i].clean = TRUE
    /\ inv[i].starting => inv'[i].starting
    /\ inv'[i].pc = "run" => CheckImage(i) \/ RecordWrite(i)
    /\ inv'[i].pc \in {"stop", "remove", "mark"} =>
         ~inv[i].starting \/ inv[i].pc \in {"stop", "remove"}
    /\ inv'[i].pc = "recreate" => WrongMode(i) /\ UNCHANGED container

LEMMA GotoFollows ==
  ASSUME Inv, NEW i \in Process, inv[i] # None,
         NEW pc \in (Starting \ {"run"}) \cup Started \cup {"labels", "recreate", "rerun", "start",
                                                "stop", "remove", "mark"},
         Goto(i, pc),
         pc \in {"stop", "remove", "mark"} => inv[i].pc \in {"stop", "remove"},
         pc = "recreate" => WrongMode(i) /\ UNCHANGED container
  PROVE  Follows(i)
<1>1. Advances(i, pc)
  BY GotoAdvances
<1>2. pc # "run"
  BY DEF Starting, Started
<1> QED  BY <1>1, <1>2 DEF Advances, Follows

LEMMA CommandStepFollows ==
  ASSUME KInv, NEW i \in Process, CommandStep(i)
  PROVE  Follows(i)
<1>0. Inv /\ inv[i] # None /\ inv[i] \in Command
  BY CommandStepIsLocal, CommandAt DEF Local, KInv, Inv
<1>1. CASE Return(i)
  BY <1>0, <1>1, ReturnKnows DEF Follows
<1>2. CASE \E pc \in {"session", "image", "labels", "read", "write", "wait", "start", "rerun",
                      "store", "record"} : Goto(i, pc)
  BY <1>0, <1>2, GotoFollows DEF Starting, Started
<1>3. CASE CheckLabels(i)
  <2>1. UNCHANGED container
    BY <1>3 DEF CheckLabels, docker
  <2>2. Goto(i, IF WrongMode(i) THEN "recreate" ELSE "start")
    BY <1>3 DEF CheckLabels
  <2>3. CASE WrongMode(i)
    <3>1. Goto(i, "recreate")
      BY <2>2, <2>3
    <3> QED  BY <1>0, <2>1, <2>3, <3>1, GotoFollows
  <2>4. CASE ~WrongMode(i)
    <3>1. Goto(i, "start")
      BY <2>2, <2>4
    <3> QED  BY <1>2, <3>1
  <2> QED  BY <2>3, <2>4
<1>4. CASE StopContainer(i) \/ StopFails(i)
  <2>1. Goto(i, "remove") /\ inv[i].pc = "stop"
    BY <1>4 DEF StopContainer, StopFails, At
  <2> QED  BY <1>0, <2>1, GotoFollows
<1>5. CASE RemoveContainer(i) \/ RemoveFails(i)
  <2>1. PICK ok \in BOOLEAN : AfterRemove(i, ok) /\ inv[i].pc = "remove"
    BY <1>5 DEF RemoveContainer, RemoveFails, At
  <2>2. CASE inv[i].op = "kill"
    <3>1. Goto(i, "mark")
      BY <2>1, <2>2 DEF AfterRemove
    <3> QED  BY <1>0, <2>1, <3>1, GotoFollows
  <2>3. CASE inv[i].op = "update"
    <3> DEFINE c == [inv[i] EXCEPT !.pc = "resolve", !.starting = TRUE, !.clean = @ /\ ok]
    <3>1. inv' = [inv EXCEPT ![i] = c]
      BY <2>1, <2>3 DEF AfterRemove
    <3>2. /\ c.pc = "resolve" /\ c.op = inv[i].op /\ c.super = inv[i].super /\ c.starting
          /\ c.clean = TRUE => inv[i].clean = TRUE
      BY <1>0 DEF Command
    <3> HIDE DEF c
    <3>3. inv'[i] = c
      BY <3>1 DEF KInv, Inv, TypeOK
    <3> QED  BY <3>2, <3>3 DEF Follows
  <2>4. CASE inv[i].op \notin {"kill", "update"}
    <3>1. Return(i)
      BY <2>1, <2>4 DEF AfterRemove
    <3> QED  BY <1>1, <3>1
  <2> QED  BY <2>2, <2>3, <2>4
<1>6. CASE Resolve(i)
  <2> DEFINE c == [inv[i] EXCEPT !.tag = ImageFor(inv[i].project), !.gpus = gpu,
                                 !.pc = IF inv[i].starting THEN "exists" ELSE "build"]
  <2>1. inv' = [inv EXCEPT ![i] = c]
    BY <1>6 DEF Resolve
  <2>2. /\ c.pc \in {"exists", "build"} /\ c.op = inv[i].op /\ c.super = inv[i].super
        /\ c.starting = inv[i].starting /\ c.clean = inv[i].clean
    BY <1>0 DEF Command
  <2> HIDE DEF c
  <2>3. inv'[i] = c
    BY <2>1 DEF KInv, Inv, TypeOK
  <2> QED  BY <2>2, <2>3 DEF Follows
<1>7. CASE CheckImage(i)
  <2> DEFINE c == [inv[i] EXCEPT
                     !.known = ReadMeta[inv[i].tag] # 0,
                     !.pc = IF images[inv[i].tag] = None \/ Stale(inv[i].tag)
                            THEN "build" ELSE "run"]
  <2>1. inv' = [inv EXCEPT ![i] = c]
    BY <1>7 DEF CheckImage
  <2>2. /\ c.pc \in {"run", "build"} /\ c.op = inv[i].op /\ c.super = inv[i].super
        /\ c.starting = inv[i].starting /\ c.clean = inv[i].clean
    BY <1>0 DEF Command
  <2> HIDE DEF c
  <2>3. inv'[i] = c
    BY <2>1 DEF KInv, Inv, TypeOK
  <2> QED  BY <1>7, <2>2, <2>3 DEF Follows
<1>8. CASE RecordRead(i)
  <2> DEFINE c == [inv[i] EXCEPT !.map = ReadMeta, !.pc = "truncate"]
  <2>1. inv' = [inv EXCEPT ![i] = c]
    BY <1>8 DEF RecordRead
  <2>2. /\ c.pc = "truncate" /\ c.op = inv[i].op /\ c.super = inv[i].super
        /\ c.starting = inv[i].starting /\ c.clean = inv[i].clean
    BY <1>0 DEF Command
  <2> HIDE DEF c
  <2>3. inv'[i] = c
    BY <2>1 DEF KInv, Inv, TypeOK
  <2> QED  BY <2>2, <2>3 DEF Follows
<1>9. CASE RecordWrite(i)
  <2> DEFINE c == [inv[i] EXCEPT !.map = NoMeta, !.pc = IF inv[i].starting THEN "run" ELSE "stop"]
  <2>1. inv' = [inv EXCEPT ![i] = c]
    BY <1>9 DEF RecordWrite
  <2>2. /\ c.pc \in {"run", "stop"} /\ (c.pc = "stop" => ~inv[i].starting)
        /\ c.op = inv[i].op /\ c.super = inv[i].super
        /\ c.starting = inv[i].starting /\ c.clean = inv[i].clean
    BY <1>0 DEF Command
  <2> HIDE DEF c
  <2>3. inv'[i] = c
    BY <2>1 DEF KInv, Inv, TypeOK
  <2> QED  BY <1>9, <2>2, <2>3 DEF Follows
<1>10. CASE CheckContainer(i)
  BY <1>2, <1>10 DEF CheckContainer
<1>11. CASE Build(i) \/ RecordTruncate(i) \/ Recreate(i) \/ StoreDeployment(i)
  BY <1>2, <1>11 DEF Build, RecordTruncate, Recreate, StoreDeployment
<1>12. CASE RunContainer(i) \/ StartContainer(i) \/ WaitRunning(i) \/ EnsureTmuxSession(i)
  BY <1>1, <1>2, <1>12 DEF RunContainer, StartContainer, WaitRunning, EnsureTmuxSession
<1>13. CASE StoreProject(i) \/ MarkStopped(i) \/ Abandon(i)
  BY <1>1, <1>13 DEF StoreProject, MarkStopped, Abandon
<1> QED  BY <1>3, <1>4, <1>5, <1>6, <1>7, <1>8, <1>9, <1>10, <1>11, <1>12, <1>13
         DEF CommandStep, StartStep, RemoveStep

\* What reaches `docker run` was recorded just now, or known and not stale.
LEMMA CommandStepBuilt ==
  ASSUME Inv, NEW i \in Process, inv[i] # None, Follows(i), CheckImage(i) \/ RecordWrite(i)
  PROVE  Built(i)'
<1>0. TypeOK /\ inv[i] \in Command /\ inv[i].tag \in Tag
  BY CommandAt DEF Inv
<1>1. UNCHANGED <<template, images>>
  BY DEF CheckImage, RecordWrite, host, docker
<1>2. CASE CheckImage(i)
  <2> DEFINE tg == inv[i].tag
             c == [inv[i] EXCEPT
                     !.known = ReadMeta[tg] # 0,
                     !.pc = IF images[tg] = None \/ Stale(tg) THEN "build" ELSE "run"]
  <2>1. inv' = [inv EXCEPT ![i] = c]
    BY <1>2 DEF CheckImage
  <2>2. /\ c.tag = tg
        /\ c.known = (ReadMeta[tg] # 0)
        /\ c.pc = IF images[tg] = None \/ Stale(tg) THEN "build" ELSE "run"
    BY <1>0 DEF Command
  <2> HIDE DEF c
  <2>3. inv'[i] = c
    BY <1>0, <2>1 DEF TypeOK
  <2>4. SUFFICES ASSUME c.pc = "run", c.known, images[tg] # None
                 PROVE  images[tg].template = template
    BY <1>1, <2>2, <2>3 DEF Built
  <2>5. ReadMeta[tg] = template
    BY <2>2, <2>4 DEF Stale
  <2>6. ReadMeta[tg] <= images[tg].template /\ images[tg].template <= template
    BY <1>0, <2>4 DEF Inv, NotAhead
  <2>7. images[tg].template \in Nat /\ template \in Nat
    BY <1>0, <2>4, InvNumbers DEF Aged
  <2> QED  BY <2>5, <2>6, <2>7
<1>3. CASE RecordWrite(i)
  <2> DEFINE c == [inv[i] EXCEPT !.map = NoMeta, !.pc = IF inv[i].starting THEN "run" ELSE "stop"]
  <2>1. inv' = [inv EXCEPT ![i] = c] /\ inv[i].pc = "write"
    BY <1>3 DEF RecordWrite, At
  <2>2. c.tag = inv[i].tag
    BY <1>0 DEF Command
  <2> HIDE DEF c
  <2>3. inv'[i] = c
    BY <1>0, <2>1 DEF TypeOK
  <2>4. images[inv[i].tag] # None => images[inv[i].tag].template = template
    BY <2>1 DEF Inv, Fresh, Recording
  <2> QED  BY <1>1, <2>2, <2>3, <2>4 DEF Built
<1> QED  BY <1>2, <1>3

\* The other commands, and the world outside, leave both as they were.
LEMMA CarefulKept ==
  ASSUME NEW i \in Process, Careful(i), inv'[i] = inv[i],
         Clean(i) /\ WrongMode(i) => WrongMode(i)'
  PROVE  Careful(i)'
  BY DEF Careful, Clean

LEMMA CommandKeepsStepInv ==
  ASSUME StepInv, KInv', NEW i \in Process, CommandStep(i)
  PROVE  StepInv'
<1>0. KInv /\ Inv /\ TypeOK /\ Local(i) /\ Follows(i) /\ ImagesKept
  BY CommandStepIsLocal, CommandStepFollows, CommandKeepsImages DEF StepInv, KInv, Inv
<1>1. inv[i] # None
  BY <1>0 DEF Local
<1>2. ASSUME NEW j \in Process, j # i PROVE Built(j)' /\ Careful(j)'
  <2>1. inv'[j] = inv[j]
    BY <1>0, <1>2 DEF Local
  <2>2. Clean(j) => inv[j].project \in Project \ {inv[i].project}
    BY <1>0, <1>1, <1>2, CommandAt DEF KInv, CleanIsAlone, Clean
  <2>3. Clean(j) /\ WrongMode(j) => WrongMode(j)'
    BY <1>0, <2>1, <2>2 DEF Local, WrongMode, Own
  <2>4. Careful(j)'
    BY <2>1, <2>3, CarefulKept DEF StepInv
  <2>5. Built(j)'
    BY <1>0, <2>1, BuiltKept DEF StepInv
  <2> QED  BY <2>4, <2>5
<1>3. Built(i)'
  <2>1. CASE CheckImage(i) \/ RecordWrite(i)
    BY <1>0, <1>1, <2>1, CommandStepBuilt
  <2>2. CASE ~(CheckImage(i) \/ RecordWrite(i))
    BY <1>0, <2>2 DEF Follows, Built
  <2> QED  BY <2>1, <2>2
<1>4. Careful(i)'
  <2>1. SUFFICES ASSUME inv'[i] # None, inv'[i].clean = TRUE, inv'[i].op = "start"
                 PROVE  /\ inv'[i].starting
                        /\ inv'[i].pc \notin {"stop", "remove", "mark"}
                        /\ inv'[i].pc = "recreate" => WrongMode(i)'
    BY DEF Careful, Clean
  <2>2. Clean(i) /\ inv[i].op = "start"
    BY <1>0, <1>1, <2>1 DEF Follows, Clean
  <2>3. inv[i].starting /\ inv[i].pc \notin {"stop", "remove", "mark"}
    BY <2>2 DEF StepInv, Careful
  <2>4. inv'[i].pc = "recreate" => WrongMode(i) /\ UNCHANGED container
    BY <1>0, <2>1 DEF Follows
  <2>5. inv'[i].project = inv[i].project /\ inv'[i].super = inv[i].super
    BY <1>0, <2>1 DEF Follows, Local
  <2>6. inv'[i].pc = "recreate" => WrongMode(i)'
    BY <2>4, <2>5 DEF WrongMode, Own
  <2> QED  BY <1>0, <2>1, <2>3, <2>6 DEF Follows
<1> QED  BY <1>2, <1>3, <1>4 DEF StepInv

\* What exits is still there, in the mode it was in.
LEMMA ExitsKeepMode ==
  ASSUME TypeOK, \E p \in Project : HarnessExits(p) \/ ContainerExits(p)
  PROVE  \A q \in Project :
           /\ container'[q] = None <=> container[q] = None
           /\ container[q] # None => container'[q].super = container[q].super
<1>1. PICK p \in Project : HarnessExits(p) \/ ContainerExits(p)
  OBVIOUS
<1>2. container[p] # None /\ container[p] \in Container
  BY <1>1 DEF HarnessExits, ContainerExits, Running, TypeOK
<1>3. PICK c \in Container : c.super = container[p].super /\ container' = [container EXCEPT ![p] = c]
  <2>1. CASE HarnessExits(p)
    <3> DEFINE c == [container[p] EXCEPT !.session = "bare"]
    <3>1. c \in Container /\ c.super = container[p].super
      BY <1>2 DEF Container
    <3>2. container' = [container EXCEPT ![p] = c]
      BY <2>1 DEF HarnessExits
    <3> QED  BY <3>1, <3>2
  <2>2. CASE ContainerExits(p)
    <3> DEFINE c == [container[p] EXCEPT !.status = "exited", !.session = "none"]
    <3>1. c \in Container /\ c.super = container[p].super
      BY <1>2 DEF Container
    <3>2. container' = [container EXCEPT ![p] = c]
      BY <2>2 DEF ContainerExits
    <3> QED  BY <3>1, <3>2
  <2> QED  BY <1>1, <2>1, <2>2
<1> QED  BY <1>2, <1>3, NoneAssumption DEF TypeOK

LEMMA OthersKeepStepInv ==
  ASSUME StepInv, KInv',
         \/ \E i \in Process, p \in Project, super \in BOOLEAN,
               op \in {"start", "update", "fetch", "kill"} : Begin(i, op, p, super)
         \/ Upgrade \/ GpuChanges
         \/ \E p \in Project : HarnessExits(p) \/ ContainerExits(p)
         \/ \E tag \in Tag : PruneImage(tag)
         \/ UNCHANGED vars
  PROVE  StepInv'
<1>0. KInv /\ Inv /\ TypeOK
  BY DEF StepInv, KInv, Inv
<1>1. ASSUME NEW i \in Process, NEW p \in Project, NEW super \in BOOLEAN,
             NEW op \in {"start", "update", "fetch", "kill"}, Begin(i, op, p, super),
             NEW j \in Process
      PROVE  Built(j)' /\ Careful(j)'
  <2> DEFINE c == [op |-> op, project |-> p, super |-> super, starting |-> op = "start",
                   pc |-> FirstStep(op), tag |-> <<p, "cpu">>, gpus |-> FALSE,
                   known |-> FALSE, map |-> NoMeta,
                   clean |-> \A k \in Process : inv[k] = None \/ inv[k].project # p]
  <2>1. inv' = [Disturbed(p) EXCEPT ![i] = c] /\ UNCHANGED <<template, images, container>>
    BY <1>1 DEF Begin, host, docker
  <2>2. /\ c.pc = FirstStep(op) /\ c.op = op
        /\ op = "start" => c.starting
    OBVIOUS
  <2> HIDE DEF c
  <2>3. CASE j = i
    <3>1. inv'[j] = c
      BY <1>0, <2>1, <2>3, DisturbedTyped
    <3>2. c.pc \in {"resolve", "stop"} /\ (op = "start" => c.pc = "resolve")
      BY <2>2 DEF FirstStep
    <3> QED  BY <2>2, <3>1, <3>2 DEF Built, Careful
  <2>4. CASE j # i
    <3>1. inv'[j] = Disturbed(p)[j]
      BY <1>0, <2>1, <2>4, DisturbedTyped
    <3>2. inv'[j] = inv[j] \/ (inv[j] # None /\ inv'[j] = [inv[j] EXCEPT !.clean = FALSE])
      BY <1>0, <3>1, DisturbedTyped
    <3>3. Built(j)'
      BY <1>0, <2>1, <3>2, BuiltKept, SameImagesKept DEF StepInv
    <3>4. Careful(j)'
      <4>1. CASE inv'[j] = inv[j]
        <5>1. WrongMode(j) => WrongMode(j)'
          BY <2>1, <4>1 DEF WrongMode, Own
        <5> QED  BY <4>1, <5>1, CarefulKept DEF StepInv
      <4>2. CASE inv[j] # None /\ inv'[j] = [inv[j] EXCEPT !.clean = FALSE]
        <5>1. inv'[j].clean = FALSE
          BY <1>0, <4>2, CommandAt DEF Command
        <5> QED  BY <5>1 DEF Careful, Clean
      <4> QED  BY <3>2, <4>1, <4>2
    <3> QED  BY <3>3, <3>4
  <2> QED  BY <2>3, <2>4
<1>2. ASSUME Upgrade, NEW j \in Process PROVE Built(j)' /\ Careful(j)'
  BY <1>2 DEF Upgrade, Built, Careful, Clean
<1>3. ASSUME GpuChanges \/ (\E p \in Project : HarnessExits(p) \/ ContainerExits(p))
             \/ (\E tag \in Tag : PruneImage(tag)) \/ UNCHANGED vars,
             NEW j \in Process
      PROVE  Built(j)' /\ Careful(j)'
  <2>1. ImagesKept
    <3>1. CASE \E tag \in Tag : PruneImage(tag)
      BY <1>0, <3>1 DEF PruneImage, TypeOK, ImagesKept, host
    <3>2. CASE GpuChanges \/ (\E p \in Project : HarnessExits(p) \/ ContainerExits(p))
               \/ UNCHANGED vars
      BY <3>2, SameImagesKept DEF GpuChanges, HarnessExits, ContainerExits, vars, host, docker
    <3> QED  BY <1>3, <3>1, <3>2
  <2>2. inv'[j] = inv[j] \/ (inv[j] # None /\ inv'[j] = [inv[j] EXCEPT !.clean = FALSE])
    BY <1>0, <1>3, DisturbedTyped
       DEF GpuChanges, HarnessExits, ContainerExits, PruneImage, vars
  <2>3. Built(j)'
    BY <1>0, <2>1, <2>2, BuiltKept DEF StepInv
  <2>4. Careful(j)'
    <3>1. CASE inv[j] # None /\ inv'[j] = [inv[j] EXCEPT !.clean = FALSE]
      <4>1. inv'[j].clean = FALSE
        BY <1>0, <3>1, CommandAt DEF Command
      <4> QED  BY <4>1 DEF Careful, Clean
    <3>2. CASE inv'[j] = inv[j]
      <4>1. Clean(j) /\ WrongMode(j) => WrongMode(j)'
        BY <1>0, <1>3, <3>2, ExitsKeepMode, CommandAt
           DEF GpuChanges, PruneImage, vars, docker, WrongMode, Own, Clean
      <4> QED  BY <3>2, <4>1, CarefulKept DEF StepInv
    <3> QED  BY <2>2, <3>1, <3>2
  <2> QED  BY <2>3, <2>4
<1> QED  BY <1>1, <1>2, <1>3 DEF StepInv

\* What a step may count on, as one inductive invariant.
THEOREM StepsAreFounded == Spec => []StepInv
<1>1. Init => StepInv
  BY StartKnows DEF Init, StepInv, Built, Careful, Clean
<1>2. StepInv /\ [Next]_vars => StepInv'
  <2>1. SUFFICES ASSUME StepInv, [Next]_vars PROVE StepInv'
    OBVIOUS
  <2>2. KInv'
    BY <2>1, StepKnows DEF StepInv
  <2>3. CASE \E i \in Process : CommandStep(i)
    BY <2>1, <2>2, <2>3, CommandKeepsStepInv
  <2>4. CASE ~\E i \in Process : CommandStep(i)
    <3>1. \/ \E i \in Process, p \in Project, super \in BOOLEAN,
               op \in {"start", "update", "fetch", "kill"} : Begin(i, op, p, super)
          \/ Upgrade \/ GpuChanges
          \/ \E p \in Project : HarnessExits(p) \/ ContainerExits(p)
          \/ \E tag \in Tag : PruneImage(tag)
          \/ UNCHANGED vars
      BY <2>1, <2>4 DEF Next, CommandStep
    <3> QED  BY <2>1, <2>2, <3>1, OthersKeepStepInv
  <2> QED  BY <2>3, <2>4
<1> QED  BY <1>1, <1>2, PTL DEF Spec

\* Whose step it is: a command changes only by its own step, or is disturbed.
LEMMA WhoMoves ==
  ASSUME KInv, [Next]_vars, NEW i \in Process, inv[i] # None, inv'[i] # inv[i]
  PROVE  \/ CommandStep(i)
         \/ UNCHANGED container /\ (inv'[i] = None \/ inv'[i].clean = FALSE)
         \/ \E p \in Project : /\ ContainerExits(p) /\ inv[i].project = p
                               /\ inv'[i] # None /\ inv'[i].clean = FALSE
<1>0. TypeOK /\ inv[i] \in Command
  BY CommandAt DEF KInv, Inv
<1>d. inv'[i] = [inv[i] EXCEPT !.clean = FALSE] => inv'[i] # None /\ inv'[i].clean = FALSE
  <2>1. [inv[i] EXCEPT !.clean = FALSE] \in Command /\ [inv[i] EXCEPT !.clean = FALSE].clean = FALSE
    BY <1>0 DEF Command
  <2> QED  BY <2>1, NoneAssumption
<1>1. ASSUME NEW j \in Process, CommandStep(j) PROVE CommandStep(i)
  <2>1. j = i
    BY <1>1, CommandStepIsLocal DEF Local
  <2> QED  BY <1>1, <2>1
<1>2. ASSUME NEW j \in Process, NEW p \in Project, NEW super \in BOOLEAN,
             NEW op \in {"start", "update", "fetch", "kill"}, Begin(j, op, p, super)
      PROVE  UNCHANGED container /\ inv'[i].clean = FALSE
  <2>1. UNCHANGED container /\ inv[j] = None
    BY <1>2 DEF Begin, docker
  <2>2. inv'[i] = Disturbed(p)[i]
    BY <1>0, <1>2, <2>1, BeginTyped
  <2> QED  BY <1>0, <1>d, <2>1, <2>2, DisturbedTyped
<1>3. CASE Upgrade
  BY <1>3 DEF Upgrade
<1>4. CASE GpuChanges
  BY <1>4, <1>d DEF GpuChanges, docker
<1>5. ASSUME NEW p \in Project, HarnessExits(p) \/ ContainerExits(p)
      PROVE  /\ ContainerExits(p) /\ inv[i].project = p
             /\ inv'[i] # None /\ inv'[i].clean = FALSE
  BY <1>5, <1>d DEF HarnessExits, ContainerExits, Disturbed
<1>6. CASE (\E tag \in Tag : PruneImage(tag)) \/ UNCHANGED vars
  BY <1>6 DEF PruneImage, vars
<1> QED  BY <1>1, <1>2, <1>3, <1>4, <1>5, <1>6 DEF Next, CommandStep

\* A start that finds its container running in the mode it wants leaves it a
\* session: it neither stops nor makes it anew, and no other clean command can
\* be there to do it.
LEMMA ReattachKeeps ==
  ASSUME StepInv, [Next]_vars, NEW i \in Process, ReattachStep(i), Own(i).session # "none"
  PROVE  container'[inv[i].project] # None /\ container'[inv[i].project].session # "none"
<1>1. PICK p \in Project :
        /\ inv[i] # None /\ inv[i] \in Command /\ inv[i].project = p
        /\ container[p] # None /\ container[p] \in Container /\ container[p].status = "running"
        /\ container[p].super = inv[i].super /\ container[p].session # "none"
        /\ inv'[i] # inv[i] /\ inv[i].op = "start" /\ inv[i].clean
        /\ (inv'[i] # None => inv'[i].clean)
  BY CommandAt DEF ReattachStep, Own, Running, StepInv, KInv, Inv, TypeOK
<1>2. Clean(i) /\ ~WrongMode(i)
  BY <1>1 DEF Clean, Command, WrongMode, Own, Container
<1>3. inv[i].pc \notin {"stop", "remove", "mark", "recreate"}
  BY <1>1, <1>2 DEF StepInv, Careful
<1>4. SUFFICES ASSUME ~UNCHANGED container
               PROVE  container'[p] # None /\ container'[p].session # "none"
  BY <1>1
<1>5. CommandStep(i)
  BY <1>1, <1>4, WhoMoves DEF StepInv
<1>6. EnsureTmuxSession(i)
  <2>1. ~(Recreate(i) \/ RemoveStep(i))
    BY <1>3 DEF Recreate, RemoveStep, StopContainer, StopFails, RemoveContainer, RemoveFails,
                MarkStopped, At
  <2>2. ~RunContainer(i)
    BY <1>1, <1>4 DEF RunContainer, Own
  <2>3. ~StartContainer(i)
    BY <1>1, <1>4 DEF StartContainer, Own, Running
  <2> QED
    BY <1>4, <1>5, <2>1, <2>2, <2>3
       DEF CommandStep, StartStep, Abandon, Resolve, CheckContainer, CheckImage, Build, RecordRead,
           RecordTruncate, RecordWrite, CheckLabels, WaitRunning, StoreDeployment, StoreProject,
           docker
<1>7. PICK session \in {"bare", "main"} :
        container' = [container EXCEPT ![p] = [container[p] EXCEPT !.session = session]]
  BY <1>1, <1>4, <1>6 DEF EnsureTmuxSession, SetOwn, Own
<1>8. [container[p] EXCEPT !.session = session] \in Container
  BY <1>1 DEF Container
<1>9. [container[p] EXCEPT !.session = session].session = session
  BY <1>1 DEF Container
<1>10. container'[p] = [container[p] EXCEPT !.session = session]
  BY <1>1, <1>7 DEF StepInv, KInv, Inv, TypeOK
<1> QED  BY <1>8, <1>9, <1>10, NoneAssumption

\* A clean start never costs a container that runs in the mode asked for the
\* session it has, whatever the others do meanwhile.
THEOREM ReattachKeepsSession == Spec => KeepsSession
<1>1. StepInv /\ [Next]_vars =>
        [\A i \in Process :
           ReattachStep(i) /\ Own(i).session # "none" =>
             container'[inv[i].project] # None /\ container'[inv[i].project].session # "none"]_vars
  BY ReattachKeeps
<1> QED  BY <1>1, StepsAreFounded, PTL DEF Spec, KeepsSession

\* A container made where there was none is of the installed template.
LEMMA RunsCurrent ==
  ASSUME StepInv, [Next]_vars, NEW i \in Process,
         At(i, "run"), inv'[i] # inv[i], inv[i].known, Own(i) = None
  PROVE  \/ container'[inv[i].project] = None
         \/ container'[inv[i].project].image.template = template
<1>1. PICK p \in Project :
        /\ inv[i] # None /\ inv[i] \in Command /\ inv[i].project = p /\ inv[i].pc = "run"
        /\ container[p] = None
  BY CommandAt DEF At, Own, StepInv, KInv, Inv
<1>2. SUFFICES ASSUME ~UNCHANGED container
               PROVE  container'[p] = None \/ container'[p].image.template = template
  BY <1>1
<1>3. CommandStep(i)
  <2>1. \A q \in Project : ContainerExits(q) => q # p
    BY <1>1 DEF ContainerExits, Running
  <2> QED  BY <1>1, <1>2, <2>1, WhoMoves DEF StepInv
<1>4. RunContainer(i)
  BY <1>1, <1>2, <1>3
     DEF CommandStep, StartStep, RemoveStep, Abandon, Resolve, CheckContainer, CheckImage, Build,
         RecordRead, RecordTruncate, RecordWrite, CheckLabels, Recreate, StartContainer,
         WaitRunning, EnsureTmuxSession, StoreDeployment, StoreProject, StopContainer, StopFails,
         RemoveContainer, RemoveFails, MarkStopped, At, docker
<1>5. images[inv[i].tag] # None
  BY <1>2, <1>4 DEF RunContainer
<1>6. images[inv[i].tag].template = template
  BY <1>1, <1>5 DEF StepInv, Built
<1>7. PICK status \in {"running", "created"} :
        container' = [container EXCEPT
          ![p] = [image |-> images[inv[i].tag], gpus |-> inv[i].gpus,
                  super |-> inv[i].super, status |-> status, session |-> "none"]]
  BY <1>1, <1>2, <1>4 DEF RunContainer, SetOwn, Own
<1>8. container'[p].image = images[inv[i].tag]
  BY <1>1, <1>7 DEF StepInv, KInv, Inv, TypeOK
<1> QED  BY <1>6, <1>8

\* A start that makes a container where there was none, of an image whose
\* version was known when it looked, makes it of the installed template:
\* whichever commands rebuilt, pruned or recorded images in between.
THEOREM StaleImagesAreRebuilt == Spec => StaleIsRebuilt
<1>1. StepInv /\ [Next]_vars =>
        [\A i \in Process :
           At(i, "run") /\ inv'[i] # inv[i] /\ inv[i].known /\ Own(i) = None =>
             \/ container'[inv[i].project] = None
             \/ container'[inv[i].project].image.template = template]_vars
  BY RunsCurrent
<1> QED  BY <1>1, StepsAreFounded, PTL DEF Spec, StaleIsRebuilt
====
