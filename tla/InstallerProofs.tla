---- MODULE InstallerProofs ----
(***************************************************************************)
(* No command takes away what the user wrote into models.json and           *)
(* secrets.env, unless it was told to: for every set of providers, baked    *)
(* entries, commands, ports, names and releases, and without the bounds.    *)
(* The merges keep the user's entries, the refresh touches the tunnels'     *)
(* entries only, and every other call leaves the two files alone.           *)
(*                                                                         *)
(* Then the types, and what the proofs of InstallerStackProofs go by: every *)
(* command makes its calls in one order, that of RankOf, and a command that *)
(* has some call to make has also made, or has still to make, the calls it  *)
(* depends on (Complete).                                                  *)
(***************************************************************************)
EXTENDS Installer, SequenceTheorems, TLAPS

\* The files of ~/.stables and the history have their fields: of the two files
\* that the user writes the types matter, of the rest nothing.
Home(S) == [models : ModelsFile, secrets : SecretsFile, config : S, manifest : S,
            connections : S, weights : S, prefs : S, client : S, ollama : S, webui : S, tts : S]
History(S) == [mishaps : S, commands : S, edits : S, faults : S]
Shape == (\E S : home \in Home(S)) /\ (\E S : history \in History(S))

ModelsKept(file, new) == \A p \in Provider : Models(file)[p] = "user" => Models(new)[p] = "user"
SecretsKept(file, new) == \A p \in Provider : Secrets(file)[p] = "user" => Secrets(new)[p] = "user"
EditsKept == ModelsKept(home.models, home'.models) /\ SecretsKept(home.secrets, home'.secrets)
Excused == cmd = None \/ cmd.opts.force \/ At("stab", "wipe") \/ "torn" \in history'.mishaps
\* What each step does: the types stay, and so do the edits.
Keeps == Shape' /\ (Excused \/ EditsKept)

----
(* The operators of Providers.                                             *)

LEMMA ModelsType ==
  /\ \A file \in ModelsFile : Models(file) \in [Name -> Entry]
  /\ \A new \in [Name -> Entry] : new \in ModelsFile /\ Models(new) = new
  BY BakedAssumption DEF Models, ModelsFile, NoModels, Entry

LEMMA SecretsType ==
  /\ \A file \in SecretsFile : Secrets(file) \in [Provider -> Key]
  /\ \A new \in [Provider -> Key] : new \in SecretsFile /\ Secrets(new) = new
  BY BakedAssumption DEF Secrets, SecretsFile, NoSecrets, Key

LEMMA MergeModelsType ==
  ASSUME NEW file \in ModelsFile, NEW baked, NEW force
  PROVE  MergeModels(file, baked, force) \in ModelsFile
<1> DEFINE old == Models(file)
           new == [n \in Name |-> IF force THEN (IF n \in baked THEN "baked" ELSE None)
                                  ELSE IF n \in baked /\ old[n] = None THEN "baked" ELSE old[n]]
<1>1. old \in [Name -> Entry]
  BY ModelsType
<1>2. new \in [Name -> Entry]
  BY <1>1 DEF Entry
<1>3. MergeModels(file, baked, force) = IF baked = {} THEN file ELSE new
  BY DEF MergeModels
<1> QED  BY <1>2, <1>3, ModelsType

\* Without force, what the user wrote wins over what is baked.
LEMMA MergeKeepsModels ==
  ASSUME NEW file \in ModelsFile, NEW baked, NEW force, ~force
  PROVE  ModelsKept(file, MergeModels(file, baked, force))
<1> DEFINE old == Models(file)
           new == [n \in Name |-> IF n \in baked /\ old[n] = None THEN "baked" ELSE old[n]]
<1>1. old \in [Name -> Entry]
  BY ModelsType
<1>2. new \in [Name -> Entry]
  BY <1>1 DEF Entry
<1>3. MergeModels(file, baked, force) = IF baked = {} THEN file ELSE new
  BY DEF MergeModels
<1>4. Models(new) = new
  BY <1>2, ModelsType
<1>5. \A p \in Provider : old[p] = "user" => new[p] = "user"
  BY BakedAssumption DEF Name
<1> QED  BY <1>3, <1>4, <1>5 DEF ModelsKept

LEMMA MergeSecretsType ==
  ASSUME NEW file \in SecretsFile, NEW baked, NEW force
  PROVE  MergeSecrets(file, baked, force) \in SecretsFile
<1> DEFINE old == Secrets(file)
           new == [p \in Provider |-> IF force THEN (IF p \in baked THEN "baked" ELSE None)
                                      ELSE IF p \in baked /\ old[p] = None THEN "baked" ELSE old[p]]
<1>1. old \in [Provider -> Key]
  BY SecretsType
<1>2. new \in [Provider -> Key]
  BY <1>1 DEF Key
<1>3. MergeSecrets(file, baked, force) = IF baked \cap Provider = {} THEN file ELSE new
  BY DEF MergeSecrets
<1> QED  BY <1>2, <1>3, SecretsType

LEMMA MergeKeepsSecrets ==
  ASSUME NEW file \in SecretsFile, NEW baked, NEW force, ~force
  PROVE  SecretsKept(file, MergeSecrets(file, baked, force))
<1> DEFINE old == Secrets(file)
           new == [p \in Provider |-> IF p \in baked /\ old[p] = None THEN "baked" ELSE old[p]]
<1>1. old \in [Provider -> Key]
  BY SecretsType
<1>2. new \in [Provider -> Key]
  BY <1>1 DEF Key
<1>3. MergeSecrets(file, baked, force) = IF baked \cap Provider = {} THEN file ELSE new
  BY DEF MergeSecrets
<1>4. Secrets(new) = new
  BY <1>2, SecretsType
<1>5. \A p \in Provider : old[p] = "user" => new[p] = "user"
  BY BakedAssumption
<1> QED  BY <1>3, <1>4, <1>5 DEF SecretsKept

\* The refresh writes the entries of tunnels, and the user's are not theirs.
LEMMA RefreshKeepsModels ==
  ASSUME NEW file \in ModelsFile, NEW answering, NEW host
  PROVE  LET new == Refresh(file, answering, host)
         IN new \in ModelsFile /\ ModelsKept(file, new)
<1> DEFINE old == Models(file)
           new == [n \in Name |-> IF n \notin Tunnelled THEN old[n]
                                  ELSE IF answering /\ n = host THEN "ollama" ELSE None]
<1>1. old \in [Name -> Entry]
  BY ModelsType
<1>2. new \in [Name -> Entry]
  BY <1>1 DEF Entry
<1>3. Refresh(file, answering, host) \in {file, new}
  BY DEF Refresh
<1>4. Models(new) = new /\ new \in ModelsFile
  BY <1>2, ModelsType
<1>5. \A p \in Provider : old[p] = "user" => new[p] = "user"
  BY BakedAssumption DEF Name
<1> QED  BY <1>3, <1>4, <1>5 DEF ModelsKept

----
(* Steps.                                                                  *)

\* A step that leaves both files alone.
LEMMA AsideKeeps ==
  ASSUME Shape, Shape', home'.models = home.models, home'.secrets = home.secrets
  PROVE  Keeps
  BY DEF Keeps, EditsKept, ModelsKept, SecretsKept

\* What a step may do to the history, and to the fields that are nobody's words.
Recorded ==
  \/ UNCHANGED history
  \/ \E mishaps : Befalls(mishaps) \/ Fault(mishaps)
  \/ history' = [history EXCEPT !.commands = @ + 1]
  \/ history' = [history EXCEPT !.edits = @ + 1]
Field == {"config", "manifest", "connections", "weights", "prefs", "client"} \cup Stack
Aside == home' = home \/ \E field \in Field : \E v : home' = [home EXCEPT ![field] = v]

LEMMA RecordedShape ==
  ASSUME Shape, Recorded PROVE \E S : history' \in History(S)
<1>1. PICK S : history \in History(S)
  BY DEF Shape
<1>2. CASE UNCHANGED history
  BY <1>1, <1>2
<1>3. ASSUME NEW m, Befalls(m) PROVE history' \in History(S \cup {history.mishaps \cup m})
  BY <1>1, <1>3 DEF Befalls, History
<1>4. ASSUME NEW m, Fault(m)
      PROVE  history' \in History(S \cup {history.mishaps \cup m, history.faults + 1})
  BY <1>1, <1>4 DEF Fault, History
<1>5. ASSUME history' = [history EXCEPT !.commands = @ + 1]
      PROVE  history' \in History(S \cup {history.commands + 1})
  BY <1>1, <1>5 DEF History
<1>6. ASSUME history' = [history EXCEPT !.edits = @ + 1]
      PROVE  history' \in History(S \cup {history.edits + 1})
  BY <1>1, <1>6 DEF History
<1> QED  BY <1>2, <1>3, <1>4, <1>5, <1>6 DEF Recorded

LEMMA AsideShape ==
  ASSUME Shape, Aside
  PROVE  /\ \E S : home' \in Home(S)
         /\ home'.models = home.models /\ home'.secrets = home.secrets
<1>1. PICK S : home \in Home(S)
  BY DEF Shape
<1>2. ASSUME NEW field \in Field, NEW v, home' = [home EXCEPT ![field] = v]
      PROVE  /\ home' \in Home(S \cup {v})
             /\ home'.models = home.models /\ home'.secrets = home.secrets
  BY <1>1, <1>2 DEF Home, Field, Stack
<1> QED  BY <1>1, <1>2 DEF Aside

LEMMA AsideStep == ASSUME Shape, Aside, Recorded PROVE Keeps
  BY AsideShape, RecordedShape, AsideKeeps DEF Shape

LEMMA StackSteps == ASSUME Shape, StackCall PROVE Keeps
<1>1. Recorded
  BY DEF StackCall, WriteCompose, Up, UpdateStack, Down, RemoveStack, WriteEnv, Recorded
<1>2. Aside
  <2>1. ASSUME NEW s \in Stack, WriteCompose(s) PROVE Aside
    BY <2>1 DEF WriteCompose, Aside, Field
  <2>2. ASSUME WriteEnv PROVE Aside
    BY <2>2 DEF WriteEnv, Aside, Field
  <2> QED  BY <2>1, <2>2 DEF StackCall, Up, UpdateStack, Down, RemoveStack, Aside
<1> QED  BY <1>1, <1>2, AsideStep

LEMMA VoiceSteps == ASSUME Shape, VoiceCall PROVE Keeps
<1>1. Recorded
  BY DEF VoiceCall, StageSource, InstallClient, WritePrefs, FetchWeights, RequireModels, TakeOver,
         WaitHealthy, Tries, RemoveClient, WipeTts, Recorded
<1>2. CASE WipeTts
  <2>1. PICK S : home \in Home(S)
    BY DEF Shape
  <2>2. home' = [home EXCEPT !.tts = None, !.weights = FALSE, !.prefs = None, !.client = None]
    BY <1>2 DEF WipeTts
  <2>3. /\ home' \in Home(S \cup {None, FALSE})
        /\ home'.models = home.models /\ home'.secrets = home.secrets
    BY <2>1, <2>2 DEF Home
  <2> QED  BY <1>1, <2>3, RecordedShape, AsideKeeps DEF Shape
<1>3. CASE ~WipeTts
  <2>1. ASSUME InstallClient PROVE Aside
    BY <2>1 DEF InstallClient, Aside, Field
  <2>2. ASSUME WritePrefs PROVE Aside
    BY <2>2 DEF WritePrefs, Aside, Field
  <2>3. ASSUME FetchWeights PROVE Aside
    BY <2>3 DEF FetchWeights, Aside, Field
  <2>4. ASSUME RemoveClient PROVE Aside
    BY <2>4 DEF RemoveClient, Aside, Field
  <2>5. Aside
    BY <1>3, <2>1, <2>2, <2>3, <2>4 DEF VoiceCall, StageSource, RequireModels, TakeOver, WaitHealthy, Tries, Aside
  <2> QED  BY <1>1, <2>5, AsideStep
<1> QED  BY <1>2, <1>3

\* A merge, of models and of secrets.
LEMMA ModelsStep ==
  ASSUME Shape, UNCHANGED history, NEW file \in ModelsFile,
         home' = [home EXCEPT !.models = file],
         Excused \/ ModelsKept(home.models, file)
  PROVE  Keeps
<1>1. PICK S : home \in Home(S)
  BY DEF Shape
<1>2. home' \in Home(S) /\ home'.models = file /\ home'.secrets = home.secrets
  BY <1>1 DEF Home
<1>3. Shape'
  BY <1>2, RecordedShape DEF Recorded, Shape
<1> QED  BY <1>2, <1>3 DEF Keeps, EditsKept, SecretsKept

LEMMA SecretsStep ==
  ASSUME Shape, UNCHANGED history, NEW file \in SecretsFile,
         home' = [home EXCEPT !.secrets = file],
         Excused \/ SecretsKept(home.secrets, file)
  PROVE  Keeps
<1>1. PICK S : home \in Home(S)
  BY DEF Shape
<1>2. home' \in Home(S) /\ home'.models = home.models /\ home'.secrets = file
  BY <1>1 DEF Home
<1>3. Shape'
  BY <1>2, RecordedShape DEF Recorded, Shape
<1> QED  BY <1>2, <1>3 DEF Keeps, EditsKept, ModelsKept

LEMMA FileTypes == ASSUME Shape PROVE home.models \in ModelsFile /\ home.secrets \in SecretsFile
  BY DEF Shape, Home

LEMMA BakedSteps ==
  ASSUME Shape, NEW call, NEW baked, BakedModels(call, baked) \/ BakedSecrets(call, baked)
  PROVE  Keeps
<1> DEFINE force == cmd.opts.force
<1>1. CASE UNCHANGED home
  BY <1>1, AsideStep DEF Aside, Recorded, BakedModels, BakedSecrets
<1>2. CASE BakedModels(call, baked) /\ home' # home
  <2> DEFINE file == MergeModels(home.models, baked, force)
  <2>1. home' = [home EXCEPT !.models = file] /\ UNCHANGED history
    BY <1>2 DEF BakedModels
  <2>2. file \in ModelsFile
    BY FileTypes, MergeModelsType
  <2>3. force \/ ModelsKept(home.models, file)
    BY FileTypes, MergeKeepsModels
  <2> HIDE DEF file
  <2> QED  BY <2>1, <2>2, <2>3, ModelsStep DEF Excused
<1>3. CASE BakedSecrets(call, baked)
  <2> DEFINE file == MergeSecrets(home.secrets, baked, force)
  <2>1. home' = [home EXCEPT !.secrets = file] /\ UNCHANGED history
    BY <1>3 DEF BakedSecrets
  <2>2. file \in SecretsFile
    BY FileTypes, MergeSecretsType
  <2>3. force \/ SecretsKept(home.secrets, file)
    BY FileTypes, MergeKeepsSecrets
  <2> HIDE DEF file
  <2> QED  BY <2>1, <2>2, <2>3, SecretsStep DEF Excused
<1> QED  BY <1>1, <1>2, <1>3

\* An empty template is put only where nothing is.
LEMMA TemplatesStep == ASSUME Shape, Templates PROVE Keeps
<1> DEFINE m == Template(home.models, NoModels)
           k == Template(home.secrets, NoSecrets)
<1>1. home' = [home EXCEPT !.models = m, !.secrets = k] /\ UNCHANGED history
  BY DEF Templates
<1>2. m \in ModelsFile /\ k \in SecretsFile
  BY FileTypes DEF Template, ModelsFile, SecretsFile, NoModels, NoSecrets, Entry, Key
<1>3. ModelsKept(home.models, m) /\ SecretsKept(home.secrets, k)
  <2>1. m = home.models \/ home.models = None
    BY DEF Template
  <2>2. k = home.secrets \/ home.secrets = None
    BY DEF Template
  <2>3. \A p \in Provider : NoModels[p] # "user" /\ NoSecrets[p] # "user"
    BY BakedAssumption DEF NoModels, NoSecrets, Name
  <2> QED  BY <2>1, <2>2, <2>3 DEF ModelsKept, SecretsKept, Models, Secrets
<1> HIDE DEF m, k
<1>4. PICK S : home \in Home(S)
  BY DEF Shape
<1>5. home' \in Home(S) /\ home'.models = m /\ home'.secrets = k
  BY <1>1, <1>2, <1>4 DEF Home
<1>6. Shape'
  BY <1>1, <1>5, RecordedShape DEF Recorded, Shape
<1> QED  BY <1>3, <1>5, <1>6 DEF Keeps, EditsKept

LEMMA RefreshStep == ASSUME Shape, RefreshTunnels PROVE Keeps
<1>1. PICK answering \in BOOLEAN, host \in Tunnelled :
        home' = [home EXCEPT !.models = Refresh(@, answering, host)]
  BY DEF RefreshTunnels
<1> DEFINE file == Refresh(home.models, answering, host)
<1>2. file \in ModelsFile /\ ModelsKept(home.models, file)
  BY FileTypes, RefreshKeepsModels
<1>3. home' = [home EXCEPT !.models = file] /\ UNCHANGED history
  BY <1>1 DEF RefreshTunnels
<1> HIDE DEF file
<1> QED  BY <1>2, <1>3, ModelsStep

\* A hard removal of stab is excused, and leaves nothing.
LEMMA WipeStep == ASSUME Shape, WipeHome PROVE Keeps
<1>1. Excused /\ home' = EmptyHome /\ Recorded
  BY DEF WipeHome, Excused, Recorded
<1>2. EmptyHome \in Home({None, NoManifest, FALSE})
  BY DEF EmptyHome, Home, ModelsFile, SecretsFile
<1> QED  BY <1>1, <1>2, RecordedShape DEF Keeps, Shape

LEMMA StabSteps == ASSUME Shape, StabCall PROVE Keeps
<1> DEFINE Merging == \/ \E m \in Merges : BakedModels(m[1], m[2])
                      \/ \E k \in Keys : BakedSecrets(k[1], k[2])
<1>1. CASE Merging
  BY <1>1, BakedSteps
<1>2. CASE CheckStab \/ LoadConfig
  <2>1. Aside
    BY <1>2 DEF CheckStab, LoadConfig, Configured, Aside, Field
  <2> QED  BY <1>2, <2>1, AsideStep DEF CheckStab, LoadConfig, Recorded
<1>3. CASE \/ InstallStab \/ NeedsDocker \/ InstallPiAgent \/ RemoveStab \/ SeedFiles
           \/ SeedMarker \/ CopyModels \/ BuildImage \/ StopAgent \/ RunAgent
  <2>1. home' = home /\ Recorded
    BY <1>3 DEF InstallStab, NeedsDocker, InstallPiAgent, BuildImage, Tries, RemoveStab, SeedFiles, SeedMarker, CopyModels, StopAgent,
                RunAgent, Recorded
  <2> QED  BY <2>1, AsideStep DEF Aside
<1> QED  BY <1>1, <1>2, <1>3, TemplatesStep, RefreshStep, WipeStep DEF StabCall

\* A torn write is excused; whatever was torn, the files have their types.
LEMMA TearStep == ASSUME Shape, Tear PROVE Keeps
<1>1. PICK S : home \in Home(S)
  BY DEF Shape
<1>2. home' = TornHome /\ Fault({"interrupted", "torn"})
  BY DEF Tear
<1>3. Excused
  <2>1. PICK H : history \in History(H)
    BY DEF Shape
  <2>2. history'.mishaps = history.mishaps \cup {"interrupted", "torn"}
    BY <1>2, <2>1 DEF Fault, History
  <2> QED  BY <2>2 DEF Excused
<1>4. \A field \in Field : \A v : [home EXCEPT ![field] = v] \in Home(S \cup {v})
  BY <1>1 DEF Home, Field, Stack
<1>5. /\ [home EXCEPT !.models = Torn] \in Home(S)
      /\ [home EXCEPT !.secrets = NoSecrets] \in Home(S)
  BY <1>1 DEF Home, ModelsFile, SecretsFile, NoSecrets, Key
<1>6. /\ [home EXCEPT !.config = Torn] \in Home(S \cup {Torn})
      /\ [home EXCEPT !.manifest = Torn] \in Home(S \cup {Torn})
      /\ [home EXCEPT !.connections = {}] \in Home(S \cup {{}})
      /\ [home EXCEPT !.prefs = None] \in Home(S \cup {None})
  BY <1>1 DEF Home
<1>7. [s \in DOMAIN home |-> IF s \in Stack /\ At(s, "compose") THEN Torn ELSE home[s]]
        \in Home(S \cup {Torn})
  BY <1>1 DEF Home, Stack
<1>8. TornHome \in Home(S) \cup Home(S \cup {Torn}) \cup Home(S \cup {None}) \cup Home(S \cup {{}})
  BY <1>5, <1>6, <1>7 DEF TornHome
<1>9. \E T : home' \in Home(T)
  BY <1>2, <1>8
<1> QED  BY <1>2, <1>3, <1>9, RecordedShape DEF Keeps, Shape, Recorded

\* A user edits with no command running; the client and the agent's terminal end
\* at any time, and write no more than the client's preferences.
LEMMA UserSteps == ASSUME Shape, User PROVE Keeps
<1> DEFINE edited == Edit /\ UNCHANGED home
<1>1. CASE \/ EditDockerfile \/ GetRelease \/ (\E mode \in {"ok", "readonly"} : Chmod(mode))
           \/ \E place \in Place : OpenClient(place)
  BY <1>1, AsideStep
     DEF EditDockerfile, GetRelease, Chmod, OpenClient, Edit, Aside, Recorded
<1>2. CASE CloseClient \/ Detach
  BY <1>2, AsideStep DEF CloseClient, Detach, Aside, Field, Recorded
<1>3. ASSUME NEW p \in Provider, NEW entry \in {"user", None}, EditModels(p, entry) PROVE Keeps
  <2> DEFINE old == Models(home.models)
             file == [old EXCEPT ![p] = entry]
  <2>1. old \in [Name -> Entry]
    BY FileTypes, ModelsType
  <2>2. file \in [Name -> Entry]
    BY <2>1 DEF Entry
  <2>3. home' = [home EXCEPT !.models = file] /\ Excused /\ Recorded
    BY <1>3 DEF EditModels, Edit, Excused, Recorded
  <2> HIDE DEF file
  <2>4. PICK S : home \in Home(S)
    BY DEF Shape
  <2>5. home' \in Home(S)
    BY <2>2, <2>3, <2>4, ModelsType DEF Home
  <2> QED  BY <2>3, <2>5, RecordedShape DEF Keeps, Shape
<1>4. ASSUME NEW p \in Provider, NEW entry \in {"user", None}, EditSecrets(p, entry) PROVE Keeps
  <2> DEFINE old == Secrets(home.secrets)
             file == [old EXCEPT ![p] = entry]
  <2>1. old \in [Provider -> Key]
    BY FileTypes, SecretsType
  <2>2. file \in [Provider -> Key]
    BY <2>1 DEF Key
  <2>3. home' = [home EXCEPT !.secrets = file] /\ Excused /\ Recorded
    BY <1>4 DEF EditSecrets, Edit, Excused, Recorded
  <2> HIDE DEF file
  <2>4. PICK S : home \in Home(S)
    BY DEF Shape
  <2>5. home' \in Home(S)
    BY <2>2, <2>3, <2>4, SecretsType DEF Home
  <2> QED  BY <2>3, <2>5, RecordedShape DEF Keeps, Shape
<1> QED  BY <1>1, <1>2, <1>3, <1>4 DEF User

LEMMA CommandSteps ==
  ASSUME Shape, \/ \E c \in Commands : Begin(c)
                \/ \E c \in Component : Enter(c)
                \/ Save \/ Interrupt
  PROVE  Keeps
<1>1. ASSUME NEW c \in Commands, Begin(c) PROVE Keeps
  <2>1. \/ home' = home
        \/ home' = [home EXCEPT !.manifest = Migrated(home.manifest)]
    BY <1>1 DEF Begin
  <2>2. Aside /\ Recorded
    BY <1>1, <2>1 DEF Begin, Aside, Field, Recorded
  <2> QED  BY <2>2, AsideStep
<1>2. ASSUME NEW c \in Component, Enter(c) PROVE Keeps
  <2>1. Aside
    BY <1>2 DEF Enter, Aside, Field
  <2>2. Recorded
    BY <1>2 DEF Enter, Recorded
  <2> QED  BY <2>1, <2>2, AsideStep
<1>3. CASE Save \/ Interrupt
  <2>1. Aside
    BY <1>3 DEF Save, Interrupt, Aside, Field
  <2>2. Recorded
    BY <1>3 DEF Save, Interrupt, Recorded
  <2> QED  BY <2>1, <2>2, AsideStep
<1> QED  BY <1>1, <1>2, <1>3

----

LEMMA Start == Init => Shape
<1> SUFFICES ASSUME Init PROVE Shape
  OBVIOUS
<1>1. PICK old, config : home = [EmptyHome EXCEPT !.manifest[Legacy] = old, !.config = config]
  BY DEF Init
<1> DEFINE m == [NoManifest EXCEPT ![Legacy] = old]
<1>2. home = [EmptyHome EXCEPT !.manifest = m, !.config = config]
  BY <1>1 DEF EmptyHome
<1> HIDE DEF m
<1>3. home \in Home({None, FALSE, m, config})
  BY <1>2 DEF EmptyHome, Home, ModelsFile, SecretsFile
<1>4. history \in History({{}, 0})
  BY DEF Init, History
<1> QED  BY <1>3, <1>4 DEF Shape

LEMMA NextKeeps == ASSUME Shape, [Next]_vars PROVE Shape' /\ (UNCHANGED vars \/ Excused \/ EditsKept)
<1>1. CASE UNCHANGED vars
  BY <1>1 DEF Shape, vars
<1>2. CASE Next
  BY <1>2, CommandSteps, StackSteps, VoiceSteps, StabSteps, TearStep, UserSteps DEF Next, Keeps
<1> QED  BY <1>1, <1>2

\* No command takes away a provider or a key the user wrote (mergeModelsFile,
\* mergeSecretsFile, extractConfig, refreshTunnelModels, and every other write to
\* ~/.stables), but with --force, a hard removal of stab, or a torn write.
THEOREM EditsSurvive == Spec => UserEditsSurvive
<1>1. Shape /\ [Next]_vars => Shape'
  BY NextKeeps
<1>2. Shape /\ [Next]_vars =>
        [cmd # None /\ ~cmd.opts.force /\ ~At("stab", "wipe") /\ "torn" \notin history'.mishaps =>
           \A p \in Provider :
             /\ Models(home.models)[p] = "user" => Models(home'.models)[p] = "user"
             /\ Secrets(home.secrets)[p] = "user" => Secrets(home'.secrets)[p] = "user"]_vars
  BY NextKeeps DEF Excused, EditsKept, ModelsKept, SecretsKept
<1> QED  BY Start, <1>1, <1>2, PTL DEF Spec, UserEditsSurvive

----
(* The order of the calls.                                                 *)

\* All commands make their calls in one order: each is a part of it.
StackRank(x) == IF x = "compose" THEN 1 ELSE IF x = "env" THEN 2 ELSE IF x = "up" THEN 3
                ELSE IF x = "record" THEN 4 ELSE 5
VoiceRank(x) == IF x = "stage" THEN 0 ELSE IF x = "client" THEN 1 ELSE IF x = "prefs" THEN 2 ELSE IF x = "weights" THEN 3
                ELSE IF x = "require" THEN 4 ELSE IF x = "compose" THEN 5 ELSE IF x = "record" THEN 6
                ELSE IF x = "take-over" THEN 7 ELSE IF x = "up" THEN 8
                ELSE IF x = "healthy" THEN 9 ELSE 10
StabRank(x) == IF x = "binary" THEN 1 ELSE IF x = "models" THEN 2 ELSE IF x = "secrets" THEN 3
               ELSE IF x = "check" THEN 4 ELSE IF x = "docker" THEN 5
               ELSE IF x = "stab-models" THEN 6 ELSE IF x = "stab-secrets" THEN 7
               ELSE IF x = "templates" THEN 8 ELSE IF x = "pi-agent" THEN 9
               ELSE IF x = "record" THEN 10
               ELSE IF x = "load" THEN 11 ELSE IF x = "files" THEN 12
               ELSE IF x = "marker" THEN 13 ELSE IF x = "refresh" THEN 14
               ELSE IF x = "seed" THEN 15 ELSE IF x = "sync" THEN 16
               ELSE IF x = "build" THEN 17 ELSE IF x = "stop" THEN 18
               ELSE IF x = "refresh-again" THEN 19 ELSE IF x = "seed-again" THEN 20
               ELSE IF x = "run" THEN 21 ELSE 22
RankOf(c, x) ==
  IF x = "remove" THEN IF c = "ollama" THEN 1 ELSE IF c = "webui" THEN 2 ELSE IF c = "tts" THEN 3 ELSE 6
  ELSE IF x = "no-client" THEN 4
  ELSE IF x = "wipe" THEN IF c = "tts" THEN 5 ELSE 7
  ELSE IF x = "save" THEN 8
  ELSE IF x = "update" THEN IF c = "ollama" THEN 81 ELSE IF c = "tts" THEN 82 ELSE 83
  ELSE IF c = "stab" THEN 10 + StabRank(x) ELSE IF c = "ollama" THEN 40 + StackRank(x)
  ELSE IF c = "webui" THEN 50 + StackRank(x) ELSE 60 + VoiceRank(x)
Rank(call) == RankOf(call[1], call[2])

Ordered(calls) == \A i, j \in 1..Len(calls) : i < j => Rank(calls[i]) < Rank(calls[j])
Elements(s) == {s[i] : i \in 1..Len(s)}

\* A sequence of calls in order, whose ranks lie between two numbers.
Track(calls, lo, hi, E) ==
  /\ calls \in Seq(Call) /\ Ordered(calls) /\ Elements(calls) = E
  /\ \A x \in E : lo <= Rank(x) /\ Rank(x) <= hi

LEMMA RankIsNat == (\A call : Rank(call) \in Nat) /\ \A c, x : RankOf(c, x) = Rank(<<c, x>>)
  BY DEF Rank, RankOf, StackRank, VoiceRank, StabRank

LEMMA OnFacts ==
  ASSUME NEW c \in Component \cup {"all"}, NEW s \in Seq(CallName)
  PROVE  /\ On(c, s) \in Seq(Call) /\ Len(On(c, s)) = Len(s)
         /\ \A i \in 1..Len(s) : On(c, s)[i] = <<c, s[i]>>
<1>1. \A i \in 1..Len(s) : <<c, s[i]>> \in Call
  BY ElementOfSeq DEF Call
<1>2. [i \in 1..Len(s) |-> <<c, s[i]>>] \in Seq(Call)
  BY <1>1, LenProperties, IsASeq
<1> QED  BY <1>2, LenProperties DEF On

LEMMA OnJoins ==
  ASSUME NEW c \in Component \cup {"all"}, NEW s \in Seq(CallName), NEW t \in Seq(CallName)
  PROVE  On(c, s \o t) = On(c, s) \o On(c, t)
<1> DEFINE p == On(c, s)
           q == On(c, t)
           u == s \o t
           r == On(c, u)
           w == p \o q
<1>1. /\ u \in Seq(CallName) /\ Len(u) = Len(s) + Len(t) /\ Len(s) \in Nat /\ Len(t) \in Nat
      /\ \A i \in 1..Len(s) + Len(t) : u[i] = IF i <= Len(s) THEN s[i] ELSE t[i - Len(s)]
  BY ConcatProperties, LenProperties
<1> HIDE DEF u
<1>2. r \in Seq(Call) /\ Len(r) = Len(u) /\ \A i \in 1..Len(u) : r[i] = <<c, u[i]>>
  BY <1>1, OnFacts
<1>3. /\ Len(p) = Len(s) /\ \A i \in 1..Len(s) : p[i] = <<c, s[i]>>
      /\ Len(q) = Len(t) /\ \A i \in 1..Len(t) : q[i] = <<c, t[i]>>
  BY OnFacts
<1>4. p \in Seq(Call) /\ q \in Seq(Call)
  BY OnFacts
<1> HIDE DEF p, q, r
<1>5. /\ w \in Seq(Call) /\ Len(w) = Len(p) + Len(q)
      /\ \A i \in 1..Len(p) + Len(q) : w[i] = IF i <= Len(p) THEN p[i] ELSE q[i - Len(p)]
  BY <1>4, ConcatProperties
<1> HIDE DEF w
<1>6. ASSUME NEW i \in 1..Len(u) PROVE r[i] = w[i]
  <2>1. CASE i <= Len(s)
    <3>1. w[i] = p[i] /\ u[i] = s[i] /\ p[i] = <<c, s[i]>>
      BY <1>1, <1>3, <1>5, <2>1
    <3> QED  BY <1>2, <3>1
  <2>2. CASE i > Len(s)
    <3>1. PICK j \in 1..Len(t) : j = i - Len(s)
      BY <1>1, <2>2
    <3>2. w[i] = q[j] /\ u[i] = t[j] /\ q[j] = <<c, t[j]>>
      BY <1>1, <1>3, <1>5, <2>2, <3>1
    <3> QED  BY <1>2, <3>2
  <2> QED  BY <1>1, <2>1, <2>2
<1>7. r = w
  BY <1>1, <1>2, <1>3, <1>5, <1>6, SeqEqual
<1> QED  BY <1>7 DEF p, q, r, u, w

LEMMA TrackJoins ==
  ASSUME NEW s, NEW t, NEW a \in Nat, NEW b \in Nat, NEW c \in Nat, NEW d \in Nat, NEW E, NEW F,
         Track(s, a, b, E), Track(t, c, d, F), a <= b, b < c, c <= d
  PROVE  Track(s \o t, a, d, E \cup F)
<1>1. s \in Seq(Call) /\ t \in Seq(Call) /\ Len(s) \in Nat /\ Len(t) \in Nat
  BY LenProperties DEF Track
<1>2. /\ s \o t \in Seq(Call) /\ Len(s \o t) = Len(s) + Len(t)
      /\ \A i \in 1..Len(s) + Len(t) : (s \o t)[i] = IF i <= Len(s) THEN s[i] ELSE t[i - Len(s)]
  BY <1>1, ConcatProperties
<1>3. /\ \A i \in 1..Len(s) : s[i] \in E
      /\ \A i \in 1..Len(t) : t[i] \in F
  BY DEF Track, Elements
<1>4. \A i \in 1..Len(s) + Len(t) : (s \o t)[i] \in E \cup F
  <2> SUFFICES ASSUME NEW i \in 1..Len(s) + Len(t) PROVE (s \o t)[i] \in E \cup F
    OBVIOUS
  <2>1. CASE i <= Len(s)
    BY <1>1, <1>2, <1>3, <2>1
  <2>2. CASE i > Len(s)
    <3>1. i - Len(s) \in 1..Len(t)
      BY <1>1, <2>2
    <3> QED  BY <1>1, <1>2, <1>3, <2>2, <3>1
  <2> QED  BY <1>1, <2>1, <2>2
<1>5. E \cup F \subseteq Elements(s \o t)
  <2>1. ASSUME NEW i \in 1..Len(s) PROVE s[i] \in Elements(s \o t)
    <3>1. i \in 1..Len(s) + Len(t) /\ (s \o t)[i] = s[i]
      BY <1>1, <1>2
    <3> QED  BY <1>2, <3>1 DEF Elements
  <2>2. ASSUME NEW i \in 1..Len(t) PROVE t[i] \in Elements(s \o t)
    <3>1. Len(s) + i \in 1..Len(s) + Len(t) /\ (s \o t)[Len(s) + i] = t[i]
      BY <1>1, <1>2
    <3> QED  BY <1>2, <3>1 DEF Elements
  <2> QED  BY <2>1, <2>2 DEF Track, Elements
<1>6. Elements(s \o t) = E \cup F
  BY <1>2, <1>4, <1>5 DEF Elements
<1>7. Ordered(s \o t)
  <2> SUFFICES ASSUME NEW i \in 1..Len(s) + Len(t), NEW j \in 1..Len(s) + Len(t), i < j
               PROVE  Rank((s \o t)[i]) < Rank((s \o t)[j])
    BY <1>2 DEF Ordered
  <2>1. CASE j <= Len(s)
    <3>1. i \in 1..Len(s) /\ j \in 1..Len(s) /\ (s \o t)[i] = s[i] /\ (s \o t)[j] = s[j]
      BY <1>1, <1>2, <2>1
    <3> QED  BY <3>1 DEF Track, Ordered
  <2>2. CASE i > Len(s)
    <3>1. /\ i - Len(s) \in 1..Len(t) /\ j - Len(s) \in 1..Len(t) /\ i - Len(s) < j - Len(s)
          /\ (s \o t)[i] = t[i - Len(s)] /\ (s \o t)[j] = t[j - Len(s)]
      BY <1>1, <1>2, <2>2
    <3> QED  BY <3>1 DEF Track, Ordered
  <2>3. CASE i <= Len(s) /\ j > Len(s)
    <3>1. i \in 1..Len(s) /\ j - Len(s) \in 1..Len(t) /\ (s \o t)[i] = s[i] /\ (s \o t)[j] = t[j - Len(s)]
      BY <1>1, <1>2, <2>3
    <3>2. Rank(s[i]) <= b /\ c <= Rank(t[j - Len(s)])
      BY <1>3, <3>1 DEF Track
    <3> QED  BY <3>1, <3>2, RankIsNat
  <2> QED  BY <1>1, <2>1, <2>2, <2>3
<1>8. \A x \in E \cup F : a <= Rank(x) /\ Rank(x) <= d
  BY RankIsNat DEF Track
<1> QED  BY <1>2, <1>6, <1>7, <1>8 DEF Track

LEMMA NoCalls == ASSUME NEW a, NEW b PROVE Track(<<>>, a, b, {})
<1>1. <<>> \in Seq(Call) /\ Len(<<>>) = 0
  BY EmptySeq
<1> QED  BY <1>1 DEF Track, Ordered, Elements

OnlyIf(p, S) == IF p THEN S ELSE {}

LEMMA TrackMayMiss ==
  ASSUME NEW s, NEW a, NEW b, NEW E, Track(s, a, b, E), NEW p
  PROVE  Track(When(p, s), a, b, OnlyIf(p, E))
<1>1. CASE p
  BY <1>1 DEF When, OnlyIf
<1>2. CASE ~p
  BY <1>2, NoCalls DEF When, OnlyIf
<1> QED  BY <1>1, <1>2

\* One component's calls, by their names.
Part(c, s, lo, hi, N) ==
  /\ s \in Seq(CallName) /\ N = {s[i] : i \in 1..Len(s)}
  /\ \A i, j \in 1..Len(s) : i < j => RankOf(c, s[i]) < RankOf(c, s[j])
  /\ \A x \in N : lo <= RankOf(c, x) /\ RankOf(c, x) <= hi

LEMMA PartTracks ==
  ASSUME NEW c \in Component \cup {"all"}, NEW s, NEW lo, NEW hi, NEW N, Part(c, s, lo, hi, N)
  PROVE  Track(On(c, s), lo, hi, {c} \X N)
<1> DEFINE p == On(c, s)
<1>1. s \in Seq(CallName)
  BY DEF Part
<1>2. p \in Seq(Call) /\ Len(p) = Len(s) /\ \A i \in 1..Len(s) : p[i] = <<c, s[i]>>
  BY <1>1, OnFacts
<1> HIDE DEF p
<1>3. \A i \in 1..Len(s) : Rank(p[i]) = RankOf(c, s[i])
  BY <1>2 DEF Rank
<1>4. Ordered(p)
  BY <1>2, <1>3 DEF Ordered, Part
<1>5. Elements(p) = {c} \X N
  <2>1. Elements(p) = {<<c, s[i]>> : i \in 1..Len(s)}
    BY <1>2 DEF Elements
  <2>2. N = {s[i] : i \in 1..Len(s)}
    BY DEF Part
  <2> QED  BY <2>1, <2>2
<1>6. \A x \in {c} \X N : lo <= Rank(x) /\ Rank(x) <= hi
  BY DEF Rank, Part
<1> QED  BY <1>2, <1>4, <1>5, <1>6 DEF Track, p

LEMMA OnMayMiss == ASSUME NEW c, NEW s, NEW p PROVE On(c, When(p, s)) = When(p, On(c, s))
<1>1. Len(<<>>) = 0
  BY EmptySeq
<1>2. On(c, <<>>) = <<>>
  BY <1>1 DEF On
<1> QED  BY <1>2 DEF When

\* The same, put together.
Line(c, s, lo, hi, N) == s \in Seq(CallName) /\ Track(On(c, s), lo, hi, {c} \X N)

LEMMA PartIsLine ==
  ASSUME NEW c \in Component \cup {"all"}, NEW s, NEW lo, NEW hi, NEW N, Part(c, s, lo, hi, N)
  PROVE  Line(c, s, lo, hi, N)
  BY PartTracks DEF Line, Part

LEMMA LineMayMiss ==
  ASSUME NEW c \in Component \cup {"all"}, NEW s, NEW lo, NEW hi, NEW N, Line(c, s, lo, hi, N), NEW p
  PROVE  Line(c, When(p, s), lo, hi, OnlyIf(p, N))
<1>1. Track(On(c, When(p, s)), lo, hi, OnlyIf(p, {c} \X N))
  BY OnMayMiss, TrackMayMiss DEF Line
<1>2. OnlyIf(p, {c} \X N) = {c} \X OnlyIf(p, N)
  BY DEF OnlyIf
<1>3. <<>> \in Seq(CallName)
  BY EmptySeq
<1> QED  BY <1>1, <1>2, <1>3 DEF Line, When

LEMMA LinesJoin ==
  ASSUME NEW c \in Component \cup {"all"}, NEW s, NEW t, NEW M, NEW N,
         NEW a \in Nat, NEW b \in Nat, NEW d \in Nat, NEW e \in Nat,
         Line(c, s, a, b, M), Line(c, t, d, e, N), a <= b, b < d, d <= e
  PROVE  Line(c, s \o t, a, e, M \cup N)
<1>1. s \in Seq(CallName) /\ t \in Seq(CallName)
  BY DEF Line
<1>2. s \o t \in Seq(CallName)
  BY <1>1, ConcatProperties
<1>3. On(c, s \o t) = On(c, s) \o On(c, t)
  BY <1>1, OnJoins
<1>4. Track(On(c, s) \o On(c, t), a, e, ({c} \X M) \cup ({c} \X N))
  BY TrackJoins DEF Line
<1>5. ({c} \X M) \cup ({c} \X N) = {c} \X (M \cup N)
  OBVIOUS
<1> QED  BY <1>2, <1>3, <1>4, <1>5 DEF Line

\* The calls of each kind of command.
LEMMA StabRanks ==
  /\ RankOf("stab", "remove") = 6 /\ RankOf("stab", "wipe") = 7
  /\ RankOf("stab", "binary") = 11 /\ RankOf("stab", "models") = 12
  /\ RankOf("stab", "secrets") = 13 /\ RankOf("stab", "check") = 14
  /\ RankOf("stab", "docker") = 15 /\ RankOf("stab", "stab-models") = 16
  /\ RankOf("stab", "stab-secrets") = 17 /\ RankOf("stab", "templates") = 18
  /\ RankOf("stab", "pi-agent") = 19 /\ RankOf("stab", "record") = 20
  /\ RankOf("stab", "load") = 21 /\ RankOf("stab", "files") = 22
  /\ RankOf("stab", "marker") = 23 /\ RankOf("stab", "refresh") = 24
  /\ RankOf("stab", "seed") = 25 /\ RankOf("stab", "sync") = 26
  /\ RankOf("stab", "build") = 27 /\ RankOf("stab", "stop") = 28
  /\ RankOf("stab", "refresh-again") = 29 /\ RankOf("stab", "seed-again") = 30
  /\ RankOf("stab", "run") = 31 /\ RankOf("stab", "attach") = 32
  BY DEF RankOf, StabRank

LEMMA StackRanks ==
  /\ RankOf("all", "save") = 8
  /\ RankOf("ollama", "remove") = 1 /\ RankOf("ollama", "compose") = 41
  /\ RankOf("ollama", "up") = 43 /\ RankOf("ollama", "record") = 44
  /\ RankOf("ollama", "down") = 45 /\ RankOf("ollama", "update") = 81
  /\ RankOf("webui", "remove") = 2 /\ RankOf("webui", "compose") = 51
  /\ RankOf("webui", "env") = 52 /\ RankOf("webui", "up") = 53
  /\ RankOf("webui", "record") = 54 /\ RankOf("webui", "update") = 83
  BY DEF RankOf, StackRank

LEMMA VoiceRanks ==
  /\ RankOf("tts", "remove") = 3 /\ RankOf("tts", "no-client") = 4
  /\ RankOf("tts", "wipe") = 5 /\ RankOf("tts", "stage") = 60 /\ RankOf("tts", "client") = 61
  /\ RankOf("tts", "prefs") = 62 /\ RankOf("tts", "weights") = 63
  /\ RankOf("tts", "require") = 64 /\ RankOf("tts", "compose") = 65
  /\ RankOf("tts", "record") = 66 /\ RankOf("tts", "take-over") = 67
  /\ RankOf("tts", "up") = 68 /\ RankOf("tts", "healthy") = 69
  /\ RankOf("tts", "down") = 70 /\ RankOf("tts", "update") = 82
  BY DEF RankOf, VoiceRank

VoiceNames(opts) ==
  {"stage", "client", "prefs"} \cup OnlyIf(opts.models, {"weights"}) \cup {"require", "compose", "record"}
  \cup OnlyIf(opts.container, {"take-over", "up", "healthy"})
StabNames(opts) ==
  {"binary"} \cup OnlyIf(opts.password, {"models", "secrets"})
  \cup {"check", "docker", "stab-models", "stab-secrets", "templates", "pi-agent", "record"}
UpdateNames == {"load", "files", "marker", "refresh", "seed", "sync", "build", "stop",
                "refresh-again", "seed-again", "run"}
InstallSet(c) ==
  OnlyIf(Covers(c, "stab"), {"stab"} \X StabNames(c.opts))
  \cup OnlyIf(Covers(c, "ollama"), {"ollama"} \X {"compose", "up", "record"})
  \cup OnlyIf(Covers(c, "webui"), {"webui"} \X {"compose", "env", "up", "record"})
  \cup OnlyIf(Covers(c, "tts"), {"tts"} \X VoiceNames(c.opts))

LEMMA VoiceTrack ==
  ASSUME NEW opts PROVE Line("tts", VoiceCalls(opts), 60, 69, VoiceNames(opts))
<1> DEFINE a == <<"stage", "client", "prefs">>
           b == <<"weights">>
           d == <<"require", "compose", "record">>
           e == <<"take-over", "up", "healthy">>
<1>1. Part("tts", <<"stage", "client", "prefs">>, 60, 62, {"stage", "client", "prefs"})
  <2>1. RankOf("tts", "stage") = 60 /\ RankOf("tts", "client") = 61 /\ RankOf("tts", "prefs") = 62
    BY VoiceRanks
  <2> QED  BY <2>1 DEF Part, CallName
<1>2. Part("tts", <<"weights">>, 63, 63, {"weights"})
  <2>1. RankOf("tts", "weights") = 63
    BY VoiceRanks
  <2> QED  BY <2>1 DEF Part, CallName
<1>3. Part("tts", <<"require", "compose", "record">>, 64, 66, {"require", "compose", "record"})
  <2>1. /\ RankOf("tts", "require") = 64 /\ RankOf("tts", "compose") = 65
        /\ RankOf("tts", "record") = 66
    BY VoiceRanks
  <2> QED  BY <2>1 DEF Part, CallName
<1>4. Part("tts", <<"take-over", "up", "healthy">>, 67, 69, {"take-over", "up", "healthy"})
  <2>1. /\ RankOf("tts", "take-over") = 67 /\ RankOf("tts", "up") = 68
        /\ RankOf("tts", "healthy") = 69
    BY VoiceRanks
  <2> QED  BY <2>1 DEF Part, CallName
<1>c. "tts" \in Component \cup {"all"}
  BY DEF Component, Stack
<1> HIDE DEF a, b, d, e
<1>5. Line("tts", a, 60, 62, {"stage", "client", "prefs"})
  BY <1>1, <1>c, PartIsLine DEF a
<1>6. Line("tts", When(opts.models, b), 63, 63, OnlyIf(opts.models, {"weights"}))
  BY <1>2, <1>c, PartIsLine, LineMayMiss DEF b
<1>7. Line("tts", d, 64, 66, {"require", "compose", "record"})
  BY <1>3, <1>c, PartIsLine DEF d
<1>8. Line("tts", When(opts.container, e), 67, 69, OnlyIf(opts.container, {"take-over", "up", "healthy"}))
  BY <1>4, <1>c, PartIsLine, LineMayMiss DEF e
<1>9. Line("tts", a \o When(opts.models, b), 60, 63, {"stage", "client", "prefs"} \cup OnlyIf(opts.models, {"weights"}))
  BY <1>5, <1>6, <1>c, LinesJoin
<1>10. Line("tts", a \o When(opts.models, b) \o d, 60, 66, {"stage", "client", "prefs"} \cup OnlyIf(opts.models, {"weights"}) \cup {"require", "compose", "record"})
  BY <1>7, <1>9, <1>c, LinesJoin
<1>11. Line("tts", a \o When(opts.models, b) \o d \o When(opts.container, e), 60, 69, VoiceNames(opts))
  BY <1>8, <1>10, <1>c, LinesJoin DEF VoiceNames
<1> QED  BY <1>11 DEF VoiceCalls, a, b, d, e

LEMMA StabTrack ==
  ASSUME NEW opts
  PROVE  Line("stab", <<"binary">> \o When(opts.password, <<"models", "secrets">>)
                      \o <<"check", "docker", "stab-models", "stab-secrets", "templates", "pi-agent", "record">>,
              11, 20, StabNames(opts))
<1> DEFINE a == <<"binary">>
           b == <<"models", "secrets">>
           d == <<"check", "docker", "stab-models", "stab-secrets", "templates", "pi-agent", "record">>
           N == {"check", "docker", "stab-models", "stab-secrets", "templates", "pi-agent", "record"}
<1>1. Part("stab", <<"binary">>, 11, 11, {"binary"})
  <2>1. RankOf("stab", "binary") = 11
    BY StabRanks
  <2> QED  BY <2>1 DEF Part, CallName
<1>2. Part("stab", <<"models", "secrets">>, 12, 13, {"models", "secrets"})
  <2>1. RankOf("stab", "models") = 12 /\ RankOf("stab", "secrets") = 13
    BY StabRanks
  <2> QED  BY <2>1 DEF Part, CallName
<1>3. Part("stab", <<"check", "docker", "stab-models", "stab-secrets", "templates", "pi-agent", "record">>, 14, 20, {"check", "docker", "stab-models", "stab-secrets", "templates", "pi-agent", "record"})
  <2>1. /\ RankOf("stab", "check") = 14 /\ RankOf("stab", "docker") = 15
        /\ RankOf("stab", "stab-models") = 16 /\ RankOf("stab", "stab-secrets") = 17
        /\ RankOf("stab", "templates") = 18 /\ RankOf("stab", "pi-agent") = 19
        /\ RankOf("stab", "record") = 20
    BY StabRanks
  <2> QED  BY <2>1 DEF Part, CallName
<1>c. "stab" \in Component \cup {"all"}
  BY DEF Component
<1> HIDE DEF a, b, d, N
<1>4. Line("stab", a, 11, 11, {"binary"})
  BY <1>1, <1>c, PartIsLine DEF a
<1>5. Line("stab", When(opts.password, b), 12, 13, OnlyIf(opts.password, {"models", "secrets"}))
  BY <1>2, <1>c, PartIsLine, LineMayMiss DEF b
<1>6. Line("stab", d, 14, 20, N)
  BY <1>3, <1>c, PartIsLine DEF d, N
<1>7. Line("stab", a \o When(opts.password, b), 11, 13, {"binary"} \cup OnlyIf(opts.password, {"models", "secrets"}))
  BY <1>4, <1>5, <1>c, LinesJoin
<1>8. Line("stab", a \o When(opts.password, b) \o d, 11, 20, {"binary"} \cup OnlyIf(opts.password, {"models", "secrets"}) \cup N)
  BY <1>6, <1>7, <1>c, LinesJoin
<1> QED  BY <1>8 DEF StabNames, a, b, d, N

LEMMA OllamaLine ==
  LET s == <<"compose", "up", "record">> IN Line("ollama", s, 41, 44, {"compose", "up", "record"})
<1>1. Part("ollama", <<"compose", "up", "record">>, 41, 44, {"compose", "up", "record"})
  <2>1. /\ RankOf("ollama", "compose") = 41 /\ RankOf("ollama", "up") = 43
        /\ RankOf("ollama", "record") = 44
    BY StackRanks
  <2> QED  BY <2>1 DEF Part, CallName
<1>c. "ollama" \in Component \cup {"all"}
  BY DEF Component, Stack
<1> DEFINE s == <<"compose", "up", "record">>
<1>2. Part("ollama", s, 41, 44, {"compose", "up", "record"})
  BY <1>1
<1> HIDE DEF s
<1>3. Line("ollama", s, 41, 44, {"compose", "up", "record"})
  BY <1>2, <1>c, PartIsLine
<1> QED  BY <1>3 DEF s

LEMMA WebuiLine ==
  LET s == <<"compose", "env", "up", "record">> IN Line("webui", s, 51, 54, {"compose", "env", "up", "record"})
<1>1. Part("webui", <<"compose", "env", "up", "record">>, 51, 54, {"compose", "env", "up", "record"})
  <2>1. /\ RankOf("webui", "compose") = 51 /\ RankOf("webui", "env") = 52
        /\ RankOf("webui", "up") = 53 /\ RankOf("webui", "record") = 54
    BY StackRanks
  <2> QED  BY <2>1 DEF Part, CallName
<1>c. "webui" \in Component \cup {"all"}
  BY DEF Component, Stack
<1> DEFINE s == <<"compose", "env", "up", "record">>
<1>2. Part("webui", s, 51, 54, {"compose", "env", "up", "record"})
  BY <1>1
<1> HIDE DEF s
<1>3. Line("webui", s, 51, 54, {"compose", "env", "up", "record"})
  BY <1>2, <1>c, PartIsLine
<1> QED  BY <1>3 DEF s

LEMMA UpdateLine ==
  LET s == <<"load", "files", "marker", "refresh", "seed", "sync", "build", "stop",
             "refresh-again", "seed-again", "run">>
  IN Line("stab", s, 21, 31, UpdateNames)
<1> DEFINE s == <<"load", "files", "marker", "refresh", "seed", "sync", "build", "stop",
                  "refresh-again", "seed-again", "run">>
<1>1. s \in Seq(CallName) /\ Len(s) = 11
  BY DEF CallName
<1>2. /\ s[1] = "load" /\ s[2] = "files" /\ s[3] = "marker" /\ s[4] = "refresh"
      /\ s[5] = "seed" /\ s[6] = "sync" /\ s[7] = "build" /\ s[8] = "stop"
      /\ s[9] = "refresh-again" /\ s[10] = "seed-again" /\ s[11] = "run"
  OBVIOUS
<1> HIDE DEF s
<1>3. \A i \in 1..11 : RankOf("stab", s[i]) = 20 + i
  <2>1. \A i \in 1..11 : i \in {1, 2, 3, 4, 5, 6, 7, 8, 9, 10, 11}
    OBVIOUS
  <2> QED  BY <1>2, <2>1, StabRanks
<1>4. UpdateNames = {s[i] : i \in 1..11}
  <2>1. 1..11 = {1, 2, 3, 4, 5, 6, 7, 8, 9, 10, 11}
    OBVIOUS
  <2> QED  BY <1>2, <2>1 DEF UpdateNames
<1>5. Part("stab", s, 21, 31, UpdateNames)
  <2>1. \A x \in UpdateNames : 21 <= RankOf("stab", x) /\ RankOf("stab", x) <= 31
    BY <1>3, <1>4
  <2>2. ASSUME NEW i \in 1..Len(s), NEW j \in 1..Len(s), i < j
        PROVE  RankOf("stab", s[i]) < RankOf("stab", s[j])
    <3>1. i \in 1..11 /\ j \in 1..11
      BY <1>1
    <3>2. RankOf("stab", s[i]) = 20 + i /\ RankOf("stab", s[j]) = 20 + j
      BY <1>3, <3>1
    <3>3. 20 + i < 20 + j
      BY <2>2, <3>1
    <3> QED  BY <3>2, <3>3
  <2> QED  BY <1>1, <1>4, <2>1, <2>2 DEF Part
<1>6. "stab" \in Component \cup {"all"}
  BY DEF Component
<1>7. Line("stab", s, 21, 31, UpdateNames)
  BY <1>5, <1>6, PartIsLine
<1> QED  BY <1>7 DEF s

LEMMA VoiceRemoval ==
  ASSUME NEW hard
  PROVE  Line("tts", <<"remove", "no-client">> \o When(hard, <<"wipe">>), 3, 5,
              {"remove", "no-client"} \cup OnlyIf(hard, {"wipe"}))
<1> DEFINE a == <<"remove", "no-client">>
           b == <<"wipe">>
<1>1. Part("tts", <<"remove", "no-client">>, 3, 4, {"remove", "no-client"})
  <2>1. RankOf("tts", "remove") = 3 /\ RankOf("tts", "no-client") = 4
    BY VoiceRanks
  <2> QED  BY <2>1 DEF Part, CallName
<1>2. Part("tts", <<"wipe">>, 5, 5, {"wipe"})
  <2>1. RankOf("tts", "wipe") = 5
    BY VoiceRanks
  <2> QED  BY <2>1 DEF Part, CallName
<1>c. "tts" \in Component \cup {"all"}
  BY DEF Component, Stack
<1> HIDE DEF a, b
<1>3. Line("tts", a, 3, 4, {"remove", "no-client"})
  BY <1>1, <1>c, PartIsLine DEF a
<1>4. Line("tts", When(hard, b), 5, 5, OnlyIf(hard, {"wipe"}))
  BY <1>2, <1>c, PartIsLine, LineMayMiss DEF b
<1>5. Line("tts", a \o When(hard, b), 3, 5, {"remove", "no-client"} \cup OnlyIf(hard, {"wipe"}))
  BY <1>3, <1>4, <1>c, LinesJoin
<1> QED  BY <1>5 DEF a, b

LEMMA StabRemoval ==
  ASSUME NEW hard
  PROVE  Line("stab", <<"remove">> \o When(hard, <<"wipe">>), 6, 7,
              {"remove"} \cup OnlyIf(hard, {"wipe"}))
<1> DEFINE a == <<"remove">>
           b == <<"wipe">>
<1>1. Part("stab", <<"remove">>, 6, 6, {"remove"})
  <2>1. RankOf("stab", "remove") = 6
    BY StabRanks
  <2> QED  BY <2>1 DEF Part, CallName
<1>2. Part("stab", <<"wipe">>, 7, 7, {"wipe"})
  <2>1. RankOf("stab", "wipe") = 7
    BY StabRanks
  <2> QED  BY <2>1 DEF Part, CallName
<1>c. "stab" \in Component \cup {"all"}
  BY DEF Component, Stack
<1> HIDE DEF a, b
<1>3. Line("stab", a, 6, 6, {"remove"})
  BY <1>1, <1>c, PartIsLine DEF a
<1>4. Line("stab", When(hard, b), 7, 7, OnlyIf(hard, {"wipe"}))
  BY <1>2, <1>c, PartIsLine, LineMayMiss DEF b
<1>5. Line("stab", a \o When(hard, b), 6, 7, {"remove"} \cup OnlyIf(hard, {"wipe"}))
  BY <1>3, <1>4, <1>c, LinesJoin
<1> QED  BY <1>5 DEF a, b

LEMMA SaveLine ==
  LET s == <<"save">> IN Line("all", s, 8, 8, {"save"})
<1>1. Part("all", <<"save">>, 8, 8, {"save"})
  <2>1. RankOf("all", "save") = 8
    BY StackRanks
  <2> QED  BY <2>1 DEF Part, CallName
<1>c. "all" \in Component \cup {"all"}
  BY DEF Component, Stack
<1> DEFINE s == <<"save">>
<1>2. Part("all", s, 8, 8, {"save"})
  BY <1>1
<1> HIDE DEF s
<1>3. Line("all", s, 8, 8, {"save"})
  BY <1>2, <1>c, PartIsLine
<1> QED  BY <1>3 DEF s

LEMMA OllamaRemoval ==
  LET s == <<"remove">> IN Line("ollama", s, 1, 1, {"remove"})
<1>1. Part("ollama", <<"remove">>, 1, 1, {"remove"})
  <2>1. RankOf("ollama", "remove") = 1
    BY StackRanks
  <2> QED  BY <2>1 DEF Part, CallName
<1>c. "ollama" \in Component \cup {"all"}
  BY DEF Component, Stack
<1> DEFINE s == <<"remove">>
<1>2. Part("ollama", s, 1, 1, {"remove"})
  BY <1>1
<1> HIDE DEF s
<1>3. Line("ollama", s, 1, 1, {"remove"})
  BY <1>2, <1>c, PartIsLine
<1> QED  BY <1>3 DEF s

LEMMA WebuiRemoval ==
  LET s == <<"remove">> IN Line("webui", s, 2, 2, {"remove"})
<1>1. Part("webui", <<"remove">>, 2, 2, {"remove"})
  <2>1. RankOf("webui", "remove") = 2
    BY StackRanks
  <2> QED  BY <2>1 DEF Part, CallName
<1>c. "webui" \in Component \cup {"all"}
  BY DEF Component, Stack
<1> DEFINE s == <<"remove">>
<1>2. Part("webui", s, 2, 2, {"remove"})
  BY <1>1
<1> HIDE DEF s
<1>3. Line("webui", s, 2, 2, {"remove"})
  BY <1>2, <1>c, PartIsLine
<1> QED  BY <1>3 DEF s

LEMMA OllamaUpdate ==
  LET s == <<"update">> IN Line("ollama", s, 81, 81, {"update"})
<1>1. Part("ollama", <<"update">>, 81, 81, {"update"})
  <2>1. RankOf("ollama", "update") = 81
    BY StackRanks
  <2> QED  BY <2>1 DEF Part, CallName
<1>c. "ollama" \in Component \cup {"all"}
  BY DEF Component, Stack
<1> DEFINE s == <<"update">>
<1>2. Part("ollama", s, 81, 81, {"update"})
  BY <1>1
<1> HIDE DEF s
<1>3. Line("ollama", s, 81, 81, {"update"})
  BY <1>2, <1>c, PartIsLine
<1> QED  BY <1>3 DEF s

LEMMA WebuiUpdate ==
  LET s == <<"update">> IN Line("webui", s, 83, 83, {"update"})
<1>1. Part("webui", <<"update">>, 83, 83, {"update"})
  <2>1. RankOf("webui", "update") = 83
    BY StackRanks
  <2> QED  BY <2>1 DEF Part, CallName
<1>c. "webui" \in Component \cup {"all"}
  BY DEF Component, Stack
<1> DEFINE s == <<"update">>
<1>2. Part("webui", s, 83, 83, {"update"})
  BY <1>1
<1> HIDE DEF s
<1>3. Line("webui", s, 83, 83, {"update"})
  BY <1>2, <1>c, PartIsLine
<1> QED  BY <1>3 DEF s

LEMMA VoiceUpdate ==
  LET s == <<"update">> IN Line("tts", s, 82, 82, {"update"})
<1>1. Part("tts", <<"update">>, 82, 82, {"update"})
  <2>1. RankOf("tts", "update") = 82
    BY VoiceRanks
  <2> QED  BY <2>1 DEF Part, CallName
<1>c. "tts" \in Component \cup {"all"}
  BY DEF Component, Stack
<1> DEFINE s == <<"update">>
<1>2. Part("tts", s, 82, 82, {"update"})
  BY <1>1
<1> HIDE DEF s
<1>3. Line("tts", s, 82, 82, {"update"})
  BY <1>2, <1>c, PartIsLine
<1> QED  BY <1>3 DEF s

LEMMA FetchLine ==
  LET s == <<"load", "refresh", "sync", "stop">> IN Line("stab", s, 21, 28, {"load", "refresh", "sync", "stop"})
<1>1. Part("stab", <<"load", "refresh", "sync", "stop">>, 21, 28, {"load", "refresh", "sync", "stop"})
  <2>1. /\ RankOf("stab", "load") = 21 /\ RankOf("stab", "refresh") = 24
        /\ RankOf("stab", "sync") = 26 /\ RankOf("stab", "stop") = 28
    BY StabRanks
  <2> QED  BY <2>1 DEF Part, CallName
<1>c. "stab" \in Component \cup {"all"}
  BY DEF Component, Stack
<1> DEFINE s == <<"load", "refresh", "sync", "stop">>
<1>2. Part("stab", s, 21, 28, {"load", "refresh", "sync", "stop"})
  BY <1>1
<1> HIDE DEF s
<1>3. Line("stab", s, 21, 28, {"load", "refresh", "sync", "stop"})
  BY <1>2, <1>c, PartIsLine
<1> QED  BY <1>3 DEF s

LEMMA StartLine ==
  LET s == <<"load", "files", "marker", "refresh", "seed", "attach">> IN Line("stab", s, 21, 32, {"load", "files", "marker", "refresh", "seed", "attach"})
<1>1. Part("stab", <<"load", "files", "marker", "refresh", "seed", "attach">>, 21, 32, {"load", "files", "marker", "refresh", "seed", "attach"})
  <2>1. /\ RankOf("stab", "load") = 21 /\ RankOf("stab", "files") = 22
        /\ RankOf("stab", "marker") = 23 /\ RankOf("stab", "refresh") = 24
        /\ RankOf("stab", "seed") = 25 /\ RankOf("stab", "attach") = 32
    BY StabRanks
  <2> QED  BY <2>1 DEF Part, CallName
<1>c. "stab" \in Component \cup {"all"}
  BY DEF Component, Stack
<1> DEFINE s == <<"load", "files", "marker", "refresh", "seed", "attach">>
<1>2. Part("stab", s, 21, 32, {"load", "files", "marker", "refresh", "seed", "attach"})
  BY <1>1
<1> HIDE DEF s
<1>3. Line("stab", s, 21, 32, {"load", "files", "marker", "refresh", "seed", "attach"})
  BY <1>2, <1>c, PartIsLine
<1> QED  BY <1>3 DEF s

LEMMA FetchWebuiLine ==
  LET s == <<"env", "up">> IN Line("webui", s, 52, 53, {"env", "up"})
<1>1. Part("webui", <<"env", "up">>, 52, 53, {"env", "up"})
  <2>1. RankOf("webui", "env") = 52 /\ RankOf("webui", "up") = 53
    BY StackRanks
  <2> QED  BY <2>1 DEF Part, CallName
<1>c. "webui" \in Component \cup {"all"}
  BY DEF Component, Stack
<1> DEFINE s == <<"env", "up">>
<1>2. Part("webui", s, 52, 53, {"env", "up"})
  BY <1>1
<1> HIDE DEF s
<1>3. Line("webui", s, 52, 53, {"env", "up"})
  BY <1>2, <1>c, PartIsLine
<1> QED  BY <1>3 DEF s

LEMMA OllamaUp ==
  LET s == <<"up">> IN Line("ollama", s, 43, 43, {"up"})
<1>1. Part("ollama", <<"up">>, 43, 43, {"up"})
  <2>1. RankOf("ollama", "up") = 43
    BY StackRanks
  <2> QED  BY <2>1 DEF Part, CallName
<1>c. "ollama" \in Component \cup {"all"}
  BY DEF Component, Stack
<1> DEFINE s == <<"up">>
<1>2. Part("ollama", s, 43, 43, {"up"})
  BY <1>1
<1> HIDE DEF s
<1>3. Line("ollama", s, 43, 43, {"up"})
  BY <1>2, <1>c, PartIsLine
<1> QED  BY <1>3 DEF s

LEMMA OllamaDown ==
  LET s == <<"down">> IN Line("ollama", s, 45, 45, {"down"})
<1>1. Part("ollama", <<"down">>, 45, 45, {"down"})
  <2>1. RankOf("ollama", "down") = 45
    BY StackRanks
  <2> QED  BY <2>1 DEF Part, CallName
<1>c. "ollama" \in Component \cup {"all"}
  BY DEF Component, Stack
<1> DEFINE s == <<"down">>
<1>2. Part("ollama", s, 45, 45, {"down"})
  BY <1>1
<1> HIDE DEF s
<1>3. Line("ollama", s, 45, 45, {"down"})
  BY <1>2, <1>c, PartIsLine
<1> QED  BY <1>3 DEF s

LEMMA VoiceUp ==
  LET s == <<"up">> IN Line("tts", s, 68, 68, {"up"})
<1>1. Part("tts", <<"up">>, 68, 68, {"up"})
  <2>1. RankOf("tts", "up") = 68
    BY VoiceRanks
  <2> QED  BY <2>1 DEF Part, CallName
<1>c. "tts" \in Component \cup {"all"}
  BY DEF Component, Stack
<1> DEFINE s == <<"up">>
<1>2. Part("tts", s, 68, 68, {"up"})
  BY <1>1
<1> HIDE DEF s
<1>3. Line("tts", s, 68, 68, {"up"})
  BY <1>2, <1>c, PartIsLine
<1> QED  BY <1>3 DEF s

LEMMA VoiceDown ==
  LET s == <<"down">> IN Line("tts", s, 70, 70, {"down"})
<1>1. Part("tts", <<"down">>, 70, 70, {"down"})
  <2>1. RankOf("tts", "down") = 70
    BY VoiceRanks
  <2> QED  BY <2>1 DEF Part, CallName
<1>c. "tts" \in Component \cup {"all"}
  BY DEF Component, Stack
<1> DEFINE s == <<"down">>
<1>2. Part("tts", s, 70, 70, {"down"})
  BY <1>1
<1> HIDE DEF s
<1>3. Line("tts", s, 70, 70, {"down"})
  BY <1>2, <1>c, PartIsLine
<1> QED  BY <1>3 DEF s

RemoveSet(c, hard) ==
  OnlyIf(Covers(c, "ollama"), {"ollama"} \X {"remove"})
  \cup OnlyIf(Covers(c, "webui"), {"webui"} \X {"remove"})
  \cup OnlyIf(Covers(c, "tts"), {"tts"} \X ({"remove", "no-client"} \cup OnlyIf(hard, {"wipe"})))
  \cup OnlyIf(Covers(c, "stab"), {"stab"} \X ({"remove"} \cup OnlyIf(hard, {"wipe"})))
  \cup {"all"} \X {"save"}
UpdateSet(c) ==
  OnlyIf(Covers(c, "stab"), {"stab"} \X UpdateNames)
  \cup OnlyIf(Covers(c, "ollama"), {"ollama"} \X {"update"})
  \cup OnlyIf(Covers(c, "tts"), {"tts"} \X {"update"})
  \cup OnlyIf(Covers(c, "webui"), {"webui"} \X {"update"})

LEMMA InstallTrack == ASSUME NEW c PROVE Track(InstallCalls(c), 11, 69, InstallSet(c))
<1> DEFINE a == On("stab", <<"binary">> \o When(c.opts.password, <<"models", "secrets">>)
                  \o <<"check", "docker", "stab-models", "stab-secrets", "templates",
                       "pi-agent", "record">>)
           b == On("ollama", <<"compose", "up", "record">>)
           d == On("webui", <<"compose", "env", "up", "record">>)
           e == On("tts", VoiceCalls(c.opts))
           A == {"stab"} \X StabNames(c.opts)
           B == {"ollama"} \X {"compose", "up", "record"}
           D == {"webui"} \X {"compose", "env", "up", "record"}
           E == {"tts"} \X VoiceNames(c.opts)
           pa == Covers(c, "stab")
           pb == Covers(c, "ollama")
           pd == Covers(c, "webui")
           pe == Covers(c, "tts")
<1>1. Track(a, 11, 20, A)
  BY StabTrack DEF Line
<1>2. Track(b, 41, 44, B)
  BY OllamaLine DEF Line
<1>3. Track(d, 51, 54, D)
  BY WebuiLine DEF Line
<1>4. Track(e, 60, 69, E)
  BY VoiceTrack DEF Line
<1> HIDE DEF a, b, d, e, A, B, D, E, pa, pb, pd, pe
<1>5. /\ Track(When(pa, a), 11, 20, OnlyIf(pa, A)) /\ Track(When(pb, b), 41, 44, OnlyIf(pb, B))
      /\ Track(When(pd, d), 51, 54, OnlyIf(pd, D)) /\ Track(When(pe, e), 60, 69, OnlyIf(pe, E))
  BY <1>1, <1>2, <1>3, <1>4, TrackMayMiss
<1>6. Track(When(pa, a) \o When(pb, b), 11, 44, OnlyIf(pa, A) \cup OnlyIf(pb, B))
  BY <1>5, TrackJoins
<1>7. Track(When(pa, a) \o When(pb, b) \o When(pd, d), 11, 54, OnlyIf(pa, A) \cup OnlyIf(pb, B) \cup OnlyIf(pd, D))
  BY <1>5, <1>6, TrackJoins
<1>8. Track(When(pa, a) \o When(pb, b) \o When(pd, d) \o When(pe, e), 11, 69,
            OnlyIf(pa, A) \cup OnlyIf(pb, B) \cup OnlyIf(pd, D) \cup OnlyIf(pe, E))
  BY <1>5, <1>7, TrackJoins
<1> QED  BY <1>8 DEF InstallCalls, InstallSet, a, b, d, e, A, B, D, E, pa, pb, pd, pe

LEMMA RemoveTrack ==
  ASSUME NEW c, NEW hard PROVE Track(RemoveCalls(c, hard), 1, 8, RemoveSet(c, hard))
<1> DEFINE a == On("ollama", <<"remove">>)
           b == On("webui", <<"remove">>)
           d == On("tts", <<"remove", "no-client">> \o When(hard, <<"wipe">>))
           e == On("stab", <<"remove">> \o When(hard, <<"wipe">>))
           f == On("all", <<"save">>)
           A == {"ollama"} \X {"remove"}
           B == {"webui"} \X {"remove"}
           D == {"tts"} \X ({"remove", "no-client"} \cup OnlyIf(hard, {"wipe"}))
           E == {"stab"} \X ({"remove"} \cup OnlyIf(hard, {"wipe"}))
           F == {"all"} \X {"save"}
           pa == Covers(c, "ollama")
           pb == Covers(c, "webui")
           pd == Covers(c, "tts")
           pe == Covers(c, "stab")
<1>1. Track(a, 1, 1, A)
  BY OllamaRemoval DEF Line
<1>2. Track(b, 2, 2, B)
  BY WebuiRemoval DEF Line
<1>3. Track(d, 3, 5, D)
  BY VoiceRemoval DEF Line
<1>4. Track(e, 6, 7, E)
  BY StabRemoval DEF Line
<1>f. Track(f, 8, 8, F)
  BY SaveLine DEF Line
<1> HIDE DEF a, b, d, e, f, A, B, D, E, F, pa, pb, pd, pe
<1>5. /\ Track(When(pa, a), 1, 1, OnlyIf(pa, A)) /\ Track(When(pb, b), 2, 2, OnlyIf(pb, B))
      /\ Track(When(pd, d), 3, 5, OnlyIf(pd, D)) /\ Track(When(pe, e), 6, 7, OnlyIf(pe, E))
  BY <1>1, <1>2, <1>3, <1>4, TrackMayMiss
<1>6. Track(When(pa, a) \o When(pb, b), 1, 2, OnlyIf(pa, A) \cup OnlyIf(pb, B))
  BY <1>5, TrackJoins
<1>7. Track(When(pa, a) \o When(pb, b) \o When(pd, d), 1, 5, OnlyIf(pa, A) \cup OnlyIf(pb, B) \cup OnlyIf(pd, D))
  BY <1>5, <1>6, TrackJoins
<1>8. Track(When(pa, a) \o When(pb, b) \o When(pd, d) \o When(pe, e), 1, 7,
            OnlyIf(pa, A) \cup OnlyIf(pb, B) \cup OnlyIf(pd, D) \cup OnlyIf(pe, E))
  BY <1>5, <1>7, TrackJoins
<1>9. Track(When(pa, a) \o When(pb, b) \o When(pd, d) \o When(pe, e) \o f, 1, 8,
            OnlyIf(pa, A) \cup OnlyIf(pb, B) \cup OnlyIf(pd, D) \cup OnlyIf(pe, E) \cup F)
  BY <1>f, <1>8, TrackJoins
<1> QED  BY <1>9 DEF RemoveCalls, RemoveSet, a, b, d, e, f, A, B, D, E, F, pa, pb, pd, pe

LEMMA UpdateTrack == ASSUME NEW c PROVE Track(UpdateCalls(c), 21, 83, UpdateSet(c))
<1> DEFINE a == On("stab", <<"load", "files", "marker", "refresh", "seed", "sync", "build", "stop",
                        "refresh-again", "seed-again", "run">>)
           b == On("ollama", <<"update">>)
           d == On("tts", <<"update">>)
           e == On("webui", <<"update">>)
           A == {"stab"} \X UpdateNames
           B == {"ollama"} \X {"update"}
           D == {"tts"} \X {"update"}
           E == {"webui"} \X {"update"}
           pa == Covers(c, "stab")
           pb == Covers(c, "ollama")
           pd == Covers(c, "tts")
           pe == Covers(c, "webui")
<1>1. Track(a, 21, 31, A)
  BY UpdateLine DEF Line
<1>2. Track(b, 81, 81, B)
  BY OllamaUpdate DEF Line
<1>3. Track(d, 82, 82, D)
  BY VoiceUpdate DEF Line
<1>4. Track(e, 83, 83, E)
  BY WebuiUpdate DEF Line
<1> HIDE DEF a, b, d, e, A, B, D, E, pa, pb, pd, pe
<1>5. /\ Track(When(pa, a), 21, 31, OnlyIf(pa, A)) /\ Track(When(pb, b), 81, 81, OnlyIf(pb, B))
      /\ Track(When(pd, d), 82, 82, OnlyIf(pd, D)) /\ Track(When(pe, e), 83, 83, OnlyIf(pe, E))
  BY <1>1, <1>2, <1>3, <1>4, TrackMayMiss
<1>6. Track(When(pa, a) \o When(pb, b), 21, 81, OnlyIf(pa, A) \cup OnlyIf(pb, B))
  BY <1>5, TrackJoins
<1>7. Track(When(pa, a) \o When(pb, b) \o When(pd, d), 21, 82, OnlyIf(pa, A) \cup OnlyIf(pb, B) \cup OnlyIf(pd, D))
  BY <1>5, <1>6, TrackJoins
<1>8. Track(When(pa, a) \o When(pb, b) \o When(pd, d) \o When(pe, e), 21, 83,
            OnlyIf(pa, A) \cup OnlyIf(pb, B) \cup OnlyIf(pd, D) \cup OnlyIf(pe, E))
  BY <1>5, <1>7, TrackJoins
<1> QED  BY <1>8 DEF UpdateCalls, UpdateSet, a, b, d, e, A, B, D, E, pa, pb, pd, pe

In(R, c, x) == <<c, x>> \in R
Behind(R, c, x) == \A y \in R : RankOf(c, x) < Rank(y)
Met(R, c, x) == In(R, c, x) \/ Behind(R, c, x)

\* What a command that has one call to make has to make too.
Whole(R, opts) ==
  /\ \A s \in Stack : /\ In(R, s, "up") /\ In(R, "all", "save") => In(R, s, "record")
                      /\ In(R, s, "remove") => In(R, "all", "save")
                      /\ In(R, s, "update") => ~In(R, "all", "save")
  /\ In(R, "tts", "no-client") => In(R, "all", "save") /\ In(R, "tts", "remove")
  /\ In(R, "tts", "wipe") => /\ In(R, "all", "save") /\ In(R, "tts", "remove")
                             /\ In(R, "tts", "no-client")
  /\ In(R, "stab", "wipe") => In(R, "all", "save")
  /\ In(R, "tts", "client") \/ In(R, "tts", "prefs") \/ In(R, "tts", "compose") => In(R, "tts", "record")
  /\ In(R, "tts", "take-over") => In(R, "tts", "healthy")
  /\ In(R, "tts", "record") /\ opts.container => In(R, "tts", "healthy")
  /\ In(R, "tts", "record") \/ In(R, "tts", "healthy") =>
       /\ In(R, "tts", "client") /\ In(R, "tts", "prefs") /\ In(R, "tts", "require")
       /\ In(R, "tts", "compose") /\ In(R, "tts", "record")
  /\ In(R, "tts", "healthy") => /\ In(R, "tts", "take-over") /\ In(R, "tts", "up")
                                /\ opts.container
  /\ In(R, "stab", "run") => In(R, "stab", "sync") /\ In(R, "stab", "stop")

\* The same of what remains: made, or still to make.
Complete(R, opts) ==
  /\ \A s \in Stack : /\ In(R, s, "up") /\ In(R, "all", "save") => In(R, s, "record")
                      /\ In(R, s, "remove") => In(R, "all", "save")
                      /\ In(R, s, "update") => ~In(R, "all", "save")
  /\ In(R, "tts", "no-client") => In(R, "all", "save") /\ Met(R, "tts", "remove")
  /\ In(R, "tts", "wipe") => /\ In(R, "all", "save") /\ Met(R, "tts", "remove")
                             /\ Met(R, "tts", "no-client")
  /\ In(R, "stab", "wipe") => In(R, "all", "save")
  /\ In(R, "tts", "client") \/ In(R, "tts", "prefs") \/ In(R, "tts", "compose") => In(R, "tts", "record")
  /\ In(R, "tts", "take-over") => In(R, "tts", "healthy")
  /\ In(R, "tts", "record") /\ opts.container => In(R, "tts", "healthy")
  /\ In(R, "tts", "record") \/ In(R, "tts", "healthy") =>
       /\ Met(R, "tts", "client") /\ Met(R, "tts", "prefs") /\ Met(R, "tts", "require")
       /\ Met(R, "tts", "compose") /\ Met(R, "tts", "record")
  /\ In(R, "tts", "healthy") => /\ Met(R, "tts", "take-over") /\ Met(R, "tts", "up")
                                /\ opts.container
  /\ In(R, "stab", "run") => Met(R, "stab", "sync") /\ Met(R, "stab", "stop")

LEMMA WholeIsComplete == ASSUME NEW R, NEW opts, Whole(R, opts) PROVE Complete(R, opts)
  BY DEF Whole, Complete, Met

LEMMA InstallIn ==
  ASSUME NEW c
  PROVE  /\ \A x : In(InstallSet(c), "tts", x) <=> Covers(c, "tts") /\ x \in VoiceNames(c.opts)
         /\ \A x : In(InstallSet(c), "stab", x) <=> Covers(c, "stab") /\ x \in StabNames(c.opts)
         /\ \A x : In(InstallSet(c), "ollama", x) <=> Covers(c, "ollama") /\ x \in {"compose", "up", "record"}
         /\ \A x : In(InstallSet(c), "webui", x) <=> Covers(c, "webui") /\ x \in {"compose", "env", "up", "record"}
         /\ \A x : ~In(InstallSet(c), "all", x)
<1> DEFINE A == StabNames(c.opts)
           E == VoiceNames(c.opts)
<1> HIDE DEF A, E
<1>1. InstallSet(c) = OnlyIf(Covers(c, "stab"), {"stab"} \X A)
         \cup OnlyIf(Covers(c, "ollama"), {"ollama"} \X {"compose", "up", "record"})
         \cup OnlyIf(Covers(c, "webui"), {"webui"} \X {"compose", "env", "up", "record"})
         \cup OnlyIf(Covers(c, "tts"), {"tts"} \X E)
  BY DEF InstallSet, A, E
<1>2. /\ \A x : In(InstallSet(c), "tts", x) <=> Covers(c, "tts") /\ x \in E
      /\ \A x : In(InstallSet(c), "stab", x) <=> Covers(c, "stab") /\ x \in A
      /\ \A x : In(InstallSet(c), "ollama", x) <=> Covers(c, "ollama") /\ x \in {"compose", "up", "record"}
      /\ \A x : In(InstallSet(c), "webui", x) <=> Covers(c, "webui") /\ x \in {"compose", "env", "up", "record"}
      /\ \A x : ~In(InstallSet(c), "all", x)
  BY <1>1 DEF In, OnlyIf
<1> QED  BY <1>2 DEF A, E

LEMMA RemoveIn ==
  ASSUME NEW c, NEW hard
  PROVE  LET R == RemoveSet(c, hard) IN
         /\ \A x : In(R, "tts", x) <=> Covers(c, "tts") /\ x \in {"remove", "no-client"} \cup OnlyIf(hard, {"wipe"})
         /\ \A x : In(R, "stab", x) <=> Covers(c, "stab") /\ x \in {"remove"} \cup OnlyIf(hard, {"wipe"})
         /\ \A x : In(R, "ollama", x) <=> Covers(c, "ollama") /\ x = "remove"
         /\ \A x : In(R, "webui", x) <=> Covers(c, "webui") /\ x = "remove"
         /\ \A x : In(R, "all", x) <=> x = "save"
<1> DEFINE D == {"remove", "no-client"} \cup OnlyIf(hard, {"wipe"})
           E == {"remove"} \cup OnlyIf(hard, {"wipe"})
           R == RemoveSet(c, hard)
<1> HIDE DEF D, E, R
<1>1. R = OnlyIf(Covers(c, "ollama"), {"ollama"} \X {"remove"})
         \cup OnlyIf(Covers(c, "webui"), {"webui"} \X {"remove"})
         \cup OnlyIf(Covers(c, "tts"), {"tts"} \X D)
         \cup OnlyIf(Covers(c, "stab"), {"stab"} \X E)
         \cup {"all"} \X {"save"}
  BY DEF RemoveSet, D, E, R
<1>2. /\ \A x : In(R, "tts", x) <=> Covers(c, "tts") /\ x \in D
      /\ \A x : In(R, "stab", x) <=> Covers(c, "stab") /\ x \in E
      /\ \A x : In(R, "ollama", x) <=> Covers(c, "ollama") /\ x = "remove"
      /\ \A x : In(R, "webui", x) <=> Covers(c, "webui") /\ x = "remove"
      /\ \A x : In(R, "all", x) <=> x = "save"
  BY <1>1 DEF In, OnlyIf
<1> QED  BY <1>2 DEF D, E, R

LEMMA UpdateIn ==
  ASSUME NEW c
  PROVE  LET R == UpdateSet(c) IN
         /\ \A x : In(R, "stab", x) <=> Covers(c, "stab") /\ x \in UpdateNames
         /\ \A x : In(R, "tts", x) <=> Covers(c, "tts") /\ x = "update"
         /\ \A x : In(R, "ollama", x) <=> Covers(c, "ollama") /\ x = "update"
         /\ \A x : In(R, "webui", x) <=> Covers(c, "webui") /\ x = "update"
         /\ \A x : ~In(R, "all", x)
<1> DEFINE A == UpdateNames
           R == UpdateSet(c)
<1> HIDE DEF A, R
<1>1. R = OnlyIf(Covers(c, "stab"), {"stab"} \X A)
         \cup OnlyIf(Covers(c, "ollama"), {"ollama"} \X {"update"})
         \cup OnlyIf(Covers(c, "tts"), {"tts"} \X {"update"})
         \cup OnlyIf(Covers(c, "webui"), {"webui"} \X {"update"})
  BY DEF UpdateSet, A, R
<1>2. /\ \A x : In(R, "stab", x) <=> Covers(c, "stab") /\ x \in A
      /\ \A x : In(R, "tts", x) <=> Covers(c, "tts") /\ x = "update"
      /\ \A x : In(R, "ollama", x) <=> Covers(c, "ollama") /\ x = "update"
      /\ \A x : In(R, "webui", x) <=> Covers(c, "webui") /\ x = "update"
      /\ \A x : ~In(R, "all", x)
  BY <1>1 DEF In, OnlyIf
<1> QED  BY <1>2 DEF A, R

LEMMA VoiceIn ==
  ASSUME NEW opts
  PROVE  /\ "client" \in VoiceNames(opts) /\ "prefs" \in VoiceNames(opts)
         /\ "require" \in VoiceNames(opts) /\ "compose" \in VoiceNames(opts)
         /\ "record" \in VoiceNames(opts) /\ ("up" \in VoiceNames(opts) <=> opts.container)
         /\ ("take-over" \in VoiceNames(opts) <=> opts.container)
         /\ ("healthy" \in VoiceNames(opts) <=> opts.container)
         /\ "remove" \notin VoiceNames(opts) /\ "no-client" \notin VoiceNames(opts)
         /\ "wipe" \notin VoiceNames(opts) /\ "update" \notin VoiceNames(opts)
  BY DEF VoiceNames, OnlyIf

LEMMA StabIn ==
  ASSUME NEW opts
  PROVE  /\ "binary" \in StabNames(opts) /\ "wipe" \notin StabNames(opts)
         /\ "run" \notin StabNames(opts) /\ "remove" \notin StabNames(opts)
  BY DEF StabNames, OnlyIf

LEMMA InstallWhole == ASSUME NEW c PROVE Whole(InstallSet(c), c.opts)
<1> DEFINE R == InstallSet(c)
           N == VoiceNames(c.opts)
           T == StabNames(c.opts)
<1>1. /\ \A x : In(R, "tts", x) <=> Covers(c, "tts") /\ x \in N
      /\ \A x : In(R, "stab", x) <=> Covers(c, "stab") /\ x \in T
      /\ \A x : In(R, "ollama", x) <=> Covers(c, "ollama") /\ x \in {"compose", "up", "record"}
      /\ \A x : In(R, "webui", x) <=> Covers(c, "webui") /\ x \in {"compose", "env", "up", "record"}
      /\ \A x : ~In(R, "all", x)
  BY InstallIn
<1>2. /\ "client" \in N /\ "prefs" \in N /\ "require" \in N /\ "compose" \in N
      /\ "record" \in N /\ ("up" \in N <=> c.opts.container)
      /\ ("take-over" \in N <=> c.opts.container) /\ ("healthy" \in N <=> c.opts.container)
      /\ "remove" \notin N /\ "no-client" \notin N /\ "wipe" \notin N /\ "update" \notin N
      /\ "run" \notin T /\ "wipe" \notin T
  BY VoiceIn, StabIn
<1> HIDE DEF R, N, T
<1> QED  BY <1>1, <1>2 DEF Whole, Stack, R

LEMMA RemoveWhole == ASSUME NEW c, NEW hard, NEW opts PROVE Whole(RemoveSet(c, hard), opts)
<1> DEFINE R == RemoveSet(c, hard)
           N == {"remove", "no-client"} \cup OnlyIf(hard, {"wipe"})
           T == {"remove"} \cup OnlyIf(hard, {"wipe"})
<1>1. /\ \A x : In(R, "tts", x) <=> Covers(c, "tts") /\ x \in N
      /\ \A x : In(R, "stab", x) <=> Covers(c, "stab") /\ x \in T
      /\ \A x : In(R, "ollama", x) <=> Covers(c, "ollama") /\ x = "remove"
      /\ \A x : In(R, "webui", x) <=> Covers(c, "webui") /\ x = "remove"
      /\ \A x : In(R, "all", x) <=> x = "save"
  BY RemoveIn
<1>2. /\ "client" \notin N /\ "prefs" \notin N /\ "compose" \notin N /\ "take-over" \notin N
      /\ "record" \notin N /\ "up" \notin N /\ "healthy" \notin N
      /\ "remove" \in N /\ "no-client" \in N /\ "update" \notin N /\ "run" \notin T
  BY DEF OnlyIf
<1> HIDE DEF R, N, T
<1> QED  BY <1>1, <1>2 DEF Whole, Stack, R

LEMMA ReinstallWhole ==
  ASSUME NEW c, NEW hard PROVE Whole(RemoveSet(c, hard) \cup InstallSet(c), c.opts)
<1> DEFINE P == RemoveSet(c, hard)
           Q == InstallSet(c)
           N == {"remove", "no-client"} \cup OnlyIf(hard, {"wipe"})
           T == {"remove"} \cup OnlyIf(hard, {"wipe"})
           V == VoiceNames(c.opts)
           U == StabNames(c.opts)
           R == P \cup Q
<1>1. /\ \A x : In(P, "tts", x) <=> Covers(c, "tts") /\ x \in N
      /\ \A x : In(P, "stab", x) <=> Covers(c, "stab") /\ x \in T
      /\ \A x : In(P, "ollama", x) <=> Covers(c, "ollama") /\ x = "remove"
      /\ \A x : In(P, "webui", x) <=> Covers(c, "webui") /\ x = "remove"
      /\ \A x : In(P, "all", x) <=> x = "save"
  BY RemoveIn
<1>2. /\ \A x : In(Q, "tts", x) <=> Covers(c, "tts") /\ x \in V
      /\ \A x : In(Q, "stab", x) <=> Covers(c, "stab") /\ x \in U
      /\ \A x : In(Q, "ollama", x) <=> Covers(c, "ollama") /\ x \in {"compose", "up", "record"}
      /\ \A x : In(Q, "webui", x) <=> Covers(c, "webui") /\ x \in {"compose", "env", "up", "record"}
      /\ \A x : ~In(Q, "all", x)
  BY InstallIn
<1>3. /\ "client" \notin N /\ "record" \notin N /\ "up" \notin N /\ "healthy" \notin N
      /\ "remove" \in N /\ "no-client" \in N /\ "update" \notin N /\ "run" \notin T
  BY DEF OnlyIf
<1>4. /\ "client" \in V /\ "prefs" \in V /\ "require" \in V /\ "compose" \in V
      /\ "record" \in V /\ ("up" \in V <=> c.opts.container)
      /\ ("take-over" \in V <=> c.opts.container) /\ ("healthy" \in V <=> c.opts.container)
      /\ "remove" \notin V /\ "no-client" \notin V /\ "wipe" \notin V /\ "update" \notin V
      /\ "run" \notin U /\ "wipe" \notin U
  BY VoiceIn, StabIn
<1>5. \A a, x : In(R, a, x) <=> In(P, a, x) \/ In(Q, a, x)
  BY DEF In
<1> HIDE DEF P, Q, N, T, V, U, R
<1>6. /\ In(R, "all", "save") /\ ~In(R, "stab", "run")
      /\ \A s \in Stack : ~In(R, s, "update") /\ (In(R, s, "up") => In(R, s, "record"))
  BY <1>1, <1>2, <1>3, <1>4, <1>5 DEF Stack
<1>7. \A x \in {"client", "prefs", "require", "compose", "record"} :
        In(R, "tts", x) <=> Covers(c, "tts")
  BY <1>1, <1>2, <1>3, <1>4, <1>5
<1>8. \A x \in {"take-over", "up", "healthy"} :
        In(R, "tts", x) <=> Covers(c, "tts") /\ c.opts.container
  <2>1. \A x \in {"take-over", "up", "healthy"} : x \notin N
    BY DEF N, OnlyIf
  <2>2. \A x \in {"take-over", "up", "healthy"} : x \in V <=> c.opts.container
    BY <1>4
  <2> QED  BY <1>1, <1>2, <1>5, <2>1, <2>2
<1>9. /\ In(R, "tts", "remove") <=> Covers(c, "tts")
      /\ In(R, "tts", "no-client") <=> Covers(c, "tts")
      /\ In(R, "tts", "wipe") => Covers(c, "tts")
  BY <1>1, <1>2, <1>3, <1>4, <1>5
<1> QED  BY <1>6, <1>7, <1>8, <1>9 DEF Whole, R, P, Q

LEMMA UpdateWhole == ASSUME NEW c, NEW opts PROVE Whole(UpdateSet(c), opts)
<1> DEFINE R == UpdateSet(c)
           A == UpdateNames
<1>1. /\ \A x : In(R, "stab", x) <=> Covers(c, "stab") /\ x \in A
      /\ \A x : In(R, "tts", x) <=> Covers(c, "tts") /\ x = "update"
      /\ \A x : In(R, "ollama", x) <=> Covers(c, "ollama") /\ x = "update"
      /\ \A x : In(R, "webui", x) <=> Covers(c, "webui") /\ x = "update"
      /\ \A x : ~In(R, "all", x)
  BY UpdateIn
<1>2. "wipe" \notin A /\ "sync" \in A /\ "stop" \in A
  BY DEF UpdateNames
<1> HIDE DEF R, A
<1> QED  BY <1>1, <1>2 DEF Whole, Stack, R

\* What Calls gives each command line.
Planned(c, calls) ==
  /\ calls \in Seq(Call) /\ calls # <<>> /\ Ordered(calls)
  /\ Whole(Elements(calls), c.opts)
  /\ \A s \in Stack : In(Elements(calls), s, "up") /\ ~In(Elements(calls), s, "record")
                        => NeedsRecord(c) /\ c.component = s

LEMMA TrackIsPlan ==
  ASSUME NEW c, NEW calls, NEW lo, NEW hi, NEW E, Track(calls, lo, hi, E), E # {},
         Whole(E, c.opts),
         \A s \in Stack : In(E, s, "up") /\ ~In(E, s, "record") => NeedsRecord(c) /\ c.component = s
  PROVE  Planned(c, calls)
<1>1. calls # <<>>
  BY EmptySeq DEF Track, Elements
<1> QED  BY <1>1 DEF Track, Planned

\* The calls that need others with them, or after them.
Special == {"remove", "wipe", "no-client", "client", "prefs", "compose", "record", "take-over",
            "healthy", "run"}

\* A command of one stack's or stab's calls.
LEMMA LineIsPlan ==
  ASSUME NEW c, NEW a \in Component, NEW s, NEW lo, NEW hi, NEW N, Line(a, s, lo, hi, N), N # {},
         N \cap Special = {},
         "up" \in N => NeedsRecord(c) /\ c.component = a
  PROVE  Planned(c, On(a, s))
<1> DEFINE E == {a} \X N
<1>1. Track(On(a, s), lo, hi, E)
  BY DEF Line
<1>2. E # {} /\ \A b, x : In(E, b, x) <=> b = a /\ x \in N
  <2>1. PICK n : n \in N
    OBVIOUS
  <2>2. <<a, n>> \in E
    BY <2>1
  <2>3. \A b, x : <<b, x>> \in E <=> b = a /\ x \in N
    OBVIOUS
  <2> QED  BY <2>2, <2>3 DEF In
<1>3. "all" \notin Component
  BY DEF Component, Stack
<1> HIDE DEF E
<1>4. Whole(E, c.opts)
  BY <1>2, <1>3 DEF Whole, Special
<1> QED  BY <1>1, <1>2, <1>4, TrackIsPlan

LEMMA InstallPlan == ASSUME NEW c \in CommandLine, c.op = "install" PROVE Planned(c, InstallCalls(c))
<1> DEFINE R == InstallSet(c)
<1>1. c.component \in Component \cup {"all"}
  BY DEF CommandLine, Component, Stack
<1>2. R # {}
  <2>1. CASE Covers(c, "tts")
    BY <2>1, InstallIn, VoiceIn DEF In
  <2>2. CASE Covers(c, "stab")
    BY <2>2, InstallIn, StabIn DEF In
  <2>3. CASE Covers(c, "ollama")
    BY <2>3, InstallIn DEF In
  <2>4. CASE Covers(c, "webui")
    BY <2>4, InstallIn DEF In
  <2> QED  BY <1>1, <2>1, <2>2, <2>3, <2>4 DEF Covers, Component, Stack
<1>3. \A s \in Stack : In(R, s, "up") => In(R, s, "record")
  BY InstallIn, VoiceIn DEF Stack
<1> HIDE DEF R
<1>4. Whole(R, c.opts) /\ Track(InstallCalls(c), 11, 69, R)
  BY InstallWhole, InstallTrack DEF R
<1> QED  BY <1>2, <1>3, <1>4, TrackIsPlan

LEMMA RemovePlan == ASSUME NEW c, NEW hard PROVE Planned(c, RemoveCalls(c, hard))
<1> DEFINE R == RemoveSet(c, hard)
<1>1. R # {}
  BY RemoveIn DEF In
<1>2. \A s \in Stack : ~In(R, s, "up")
  BY RemoveIn DEF Stack, OnlyIf
<1> HIDE DEF R
<1>3. Whole(R, c.opts) /\ Track(RemoveCalls(c, hard), 1, 8, R)
  BY RemoveWhole, RemoveTrack DEF R
<1> QED  BY <1>1, <1>2, <1>3, TrackIsPlan

LEMMA ReinstallPlan ==
  ASSUME NEW c, NEW hard PROVE Planned(c, RemoveCalls(c, hard) \o InstallCalls(c))
<1> DEFINE P == RemoveSet(c, hard)
           Q == InstallSet(c)
           R == P \cup Q
<1>1. R # {}
  BY RemoveIn DEF In
<1>2. \A s \in Stack : In(R, s, "up") => In(R, s, "record")
  <2>1. \A s \in Stack : ~In(P, s, "up")
    BY RemoveIn DEF Stack, OnlyIf
  <2>2. \A s \in Stack : In(Q, s, "up") => In(Q, s, "record")
    BY InstallIn, VoiceIn DEF Stack
  <2> QED  BY <2>1, <2>2 DEF In
<1>3. Whole(R, c.opts)
  BY ReinstallWhole
<1> HIDE DEF P, Q
<1>4. Track(RemoveCalls(c, hard), 1, 8, P) /\ Track(InstallCalls(c), 11, 69, Q)
  BY RemoveTrack, InstallTrack DEF P, Q
<1>5. Track(RemoveCalls(c, hard) \o InstallCalls(c), 1, 69, R)
  BY <1>4, TrackJoins
<1> HIDE DEF R
<1> QED  BY <1>1, <1>2, <1>3, <1>5, TrackIsPlan

LEMMA UpdatePlan == ASSUME NEW c \in CommandLine, c.op = "update" PROVE Planned(c, UpdateCalls(c))
<1> DEFINE R == UpdateSet(c)
<1>1. c.component \in Component \cup {"all"}
  BY DEF CommandLine, Component, Stack
<1>2. R # {}
  <2>1. CASE Covers(c, "tts")
    BY <2>1, UpdateIn DEF In
  <2>2. CASE Covers(c, "stab")
    <3>1. In(R, "stab", "load")
      BY <2>2, UpdateIn DEF UpdateNames
    <3> QED  BY <3>1 DEF In
  <2>3. CASE Covers(c, "ollama")
    BY <2>3, UpdateIn DEF In
  <2>4. CASE Covers(c, "webui")
    BY <2>4, UpdateIn DEF In
  <2> QED  BY <1>1, <2>1, <2>2, <2>3, <2>4 DEF Covers, Component, Stack
<1>3. \A s \in Stack : ~In(R, s, "up")
  BY UpdateIn DEF Stack
<1> HIDE DEF R
<1>4. Whole(R, c.opts) /\ Track(UpdateCalls(c), 21, 83, R)
  BY UpdateWhole, UpdateTrack DEF R
<1> QED  BY <1>2, <1>3, <1>4, TrackIsPlan

LEMMA CallsPlan == ASSUME NEW c \in CommandLine PROVE Planned(c, Calls(c))
<1>1. CASE c.op = "install"
  BY <1>1, InstallPlan DEF Calls
<1>2. CASE c.op = "remove"
  BY <1>2, RemovePlan DEF Calls
<1>3. CASE c.op = "reinstall" \/ c.op = "clean-install"
  <2>1. CASE c.op = "clean-install"
    BY <2>1, ReinstallPlan DEF Calls
  <2>2. CASE c.op = "reinstall" /\ ~c.opts.clean
    <3>1. c.opts.clean = FALSE
      BY <2>2 DEF CommandLine, Option
    <3> QED  BY <2>2, <3>1, ReinstallPlan DEF Calls, When
  <2>3. CASE c.op = "reinstall" /\ c.opts.clean
    <3>1. Calls(c) = RemoveCalls(c, c.opts.clean) \o <<>>
      BY <2>3 DEF Calls, When
    <3>2. RemoveCalls(c, c.opts.clean) \in Seq(Call)
      BY RemovePlan DEF Planned
    <3>3. Calls(c) = RemoveCalls(c, c.opts.clean)
      BY <3>1, <3>2, ConcatEmptySeq
    <3> QED  BY <3>3, RemovePlan
  <2> QED  BY <1>3, <2>1, <2>2, <2>3
<1>4. CASE c.op = "update"
  BY <1>4, UpdatePlan DEF Calls
<1>5. CASE c.op \in {"up", "down"}
  <2>1. c.component \in {"ollama", "tts"} /\ NeedsRecord(c)
    BY <1>5 DEF CommandLine, NeedsRecord
  <2>2. "ollama" \in Component /\ "tts" \in Component
    BY DEF Component, Stack
  <2>3. CASE c.op = "up"
    <3> DEFINE s == <<"up">>
    <3>1. Line("ollama", s, 43, 43, {"up"}) /\ Line("tts", s, 68, 68, {"up"})
      BY OllamaUp, VoiceUp
    <3>0. {"up"} \cap Special = {}
      BY DEF Special
    <3> HIDE DEF s
    <3>2. Planned(c, On(c.component, s))
      BY <2>1, <2>2, <3>0, <3>1, LineIsPlan
    <3> QED  BY <2>3, <3>2 DEF Calls, s
  <2>4. CASE c.op = "down"
    <3> DEFINE s == <<"down">>
    <3>1. Line("ollama", s, 45, 45, {"down"}) /\ Line("tts", s, 70, 70, {"down"})
      BY OllamaDown, VoiceDown
    <3>0. {"down"} \cap Special = {}
      BY DEF Special
    <3> HIDE DEF s
    <3>2. Planned(c, On(c.component, s))
      BY <2>1, <2>2, <3>0, <3>1, LineIsPlan
    <3> QED  BY <2>4, <3>2 DEF Calls, s
  <2> QED  BY <1>5, <2>3, <2>4
<1>6. CASE c.op = "fetch"
  <2>1. c.component \in {"stab", "webui"} /\ (c.component = "webui" => NeedsRecord(c))
    BY <1>6 DEF CommandLine, NeedsRecord
  <2>2. "stab" \in Component /\ "webui" \in Component
    BY DEF Component, Stack
  <2>3. CASE c.component = "stab"
    <3> DEFINE s == <<"load", "refresh", "sync", "stop">>
               N == {"load", "refresh", "sync", "stop"}
    <3>1. Line("stab", s, 21, 28, N)
      BY FetchLine
    <3>2. /\ N # {} /\ "up" \notin N
          /\ N \cap Special = {}
      BY DEF Special
    <3> HIDE DEF s, N
    <3>3. Planned(c, On("stab", s))
      BY <2>2, <3>1, <3>2, LineIsPlan
    <3> QED  BY <1>6, <2>3, <3>3 DEF Calls, s
  <2>4. CASE c.component = "webui"
    <3> DEFINE s == <<"env", "up">>
               N == {"env", "up"}
    <3>1. Line("webui", s, 52, 53, N)
      BY FetchWebuiLine
    <3>2. /\ N # {}
          /\ N \cap Special = {}
      BY DEF Special
    <3> HIDE DEF s, N
    <3>3. Planned(c, On("webui", s))
      BY <2>1, <2>2, <2>4, <3>1, <3>2, LineIsPlan
    <3> QED  BY <1>6, <2>4, <3>3 DEF Calls, s
  <2> QED  BY <2>1, <2>3, <2>4
<1>7. CASE c.op = "start"
  <2> DEFINE s == <<"load", "files", "marker", "refresh", "seed", "attach">>
             N == {"load", "files", "marker", "refresh", "seed", "attach"}
  <2>1. Line("stab", s, 21, 32, N)
    BY StartLine
  <2>2. /\ N # {} /\ "up" \notin N
        /\ N \cap Special = {}
    BY DEF Special
  <2>3. "stab" \in Component
    BY DEF Component
  <2> HIDE DEF s, N
  <2>4. Planned(c, On("stab", s))
    BY <2>1, <2>2, <2>3, LineIsPlan
  <2> QED  BY <1>7, <2>4 DEF Calls, s
<1> QED  BY <1>1, <1>2, <1>3, <1>4, <1>5, <1>6, <1>7 DEF CommandLine

----
(* The calls that remain of the command that is running.                   *)

Remaining == IF cmd = None THEN {} ELSE Elements(cmd.calls)
Has(c, x) == In(Remaining, c, x)
Past(c, x) == Behind(Remaining, c, x)
Due(c, x) == Met(Remaining, c, x)

\* A command has calls left, in order and complete.
Orderly ==
  cmd # None => /\ cmd \in Running /\ cmd.calls # <<>> /\ Ordered(cmd.calls)
                /\ Complete(Remaining, cmd.opts)

\* The call at the head is made: the ones after it remain, and all rank higher.
Takes(c, x) ==
  /\ Has(c, x) /\ Remaining' = Remaining \ {<<c, x>>} /\ Past(c, x)'
  /\ cmd' # None => cmd'.opts = cmd.opts

LEMMA TailFacts ==
  ASSUME NEW calls \in Seq(Call), calls # <<>>, Ordered(calls)
  PROVE  /\ Head(calls) \in Elements(calls)
         /\ Tail(calls) \in Seq(Call) /\ Ordered(Tail(calls))
         /\ Elements(Tail(calls)) = Elements(calls) \ {Head(calls)}
         /\ \A y \in Elements(Tail(calls)) : Rank(Head(calls)) < Rank(y)
         /\ Len(calls) = 1 => Elements(calls) = {Head(calls)}
         /\ Len(calls) # 1 => Tail(calls) # <<>>
<1> DEFINE t == Tail(calls)
           h == Head(calls)
<1>1. /\ Len(calls) \in Nat /\ Len(calls) >= 1 /\ h = calls[1]
      /\ t \in Seq(Call) /\ Len(t) = Len(calls) - 1
      /\ \A i \in 1..Len(t) : t[i] = calls[i + 1]
  BY HeadTailProperties, EmptySeq, LenProperties
<1> HIDE DEF t, h
<1>2. h \in Elements(calls) /\ (Len(calls) = 1 => Elements(calls) = {h})
  BY <1>1 DEF Elements
<1>3. \A i \in 1..Len(t) : i + 1 \in 1..Len(calls)
  BY <1>1
<1>4. Ordered(t)
  BY <1>1, <1>3 DEF Ordered
<1>5. \A y \in Elements(t) : Rank(h) < Rank(y)
  <2> SUFFICES ASSUME NEW i \in 1..Len(t) PROVE Rank(h) < Rank(t[i])
    BY DEF Elements
  <2>1. 1 \in 1..Len(calls) /\ i + 1 \in 1..Len(calls) /\ 1 < i + 1
    BY <1>1, <1>3
  <2> QED  BY <1>1, <2>1 DEF Ordered
<1>6. Elements(t) = Elements(calls) \ {h}
  <2>1. \A y \in Elements(t) : y \in Elements(calls) /\ y # h
    <3>1. \A y \in Elements(t) : y # h
      BY <1>5, RankIsNat
    <3>2. \A y \in Elements(t) : y \in Elements(calls)
      BY <1>1, <1>3 DEF Elements
    <3> QED  BY <3>1, <3>2
  <2>2. ASSUME NEW i \in 1..Len(calls), calls[i] # h PROVE calls[i] \in Elements(t)
    <3>1. i - 1 \in 1..Len(t) /\ t[i - 1] = calls[i]
      BY <1>1, <2>2
    <3> QED  BY <3>1 DEF Elements
  <2> QED  BY <2>1, <2>2 DEF Elements
<1>7. Len(calls) # 1 => t # <<>>
  BY <1>1, EmptySeq
<1> QED  BY <1>1, <1>2, <1>4, <1>5, <1>6, <1>7 DEF t, h

LEMMA CompleteTail ==
  ASSUME NEW R, NEW opts, NEW h \in R, Complete(R, opts), \A y \in R \ {h} : Rank(h) < Rank(y)
  PROVE  Complete(R \ {h}, opts)
<1> DEFINE T == R \ {h}
<1>1. \A c, x : In(T, c, x) <=> In(R, c, x) /\ <<c, x>> # h
  BY DEF In
<1>2. \A c, x : Met(R, c, x) => Met(T, c, x)
  <2> SUFFICES ASSUME NEW c, NEW x, Met(R, c, x) PROVE Met(T, c, x)
    OBVIOUS
  <2>1. CASE Behind(R, c, x)
    BY <2>1 DEF Behind, Met
  <2>2. CASE In(R, c, x) /\ <<c, x>> = h
    BY <2>2, RankIsNat DEF Behind, Met
  <2>3. CASE In(R, c, x) /\ <<c, x>> # h
    BY <2>3, <1>1 DEF Met
  <2> QED  BY <2>1, <2>2, <2>3 DEF Met
<1>3. \A c, x, d, y : In(T, c, x) /\ In(R, d, y) /\ RankOf(c, x) <= RankOf(d, y) => In(T, d, y)
  <2> SUFFICES ASSUME NEW c, NEW x, NEW d, NEW y, In(T, c, x), In(R, d, y),
                      RankOf(c, x) <= RankOf(d, y)
               PROVE  In(T, d, y)
    OBVIOUS
  <2>1. Rank(h) < Rank(<<c, x>>)
    BY DEF In
  <2>2. <<d, y>> # h
    BY <2>1, RankIsNat
  <2> QED  BY <1>1, <2>2
<1>4. /\ \A s \in Stack : RankOf(s, "remove") <= RankOf("all", "save")
      /\ \A s \in Stack : RankOf("all", "save") <= RankOf(s, "record")
      /\ RankOf("tts", "no-client") <= RankOf("all", "save")
      /\ RankOf("tts", "wipe") <= RankOf("all", "save")
      /\ RankOf("stab", "wipe") <= RankOf("all", "save")
      /\ RankOf("tts", "client") <= RankOf("tts", "record")
      /\ RankOf("tts", "prefs") <= RankOf("tts", "record")
      /\ RankOf("tts", "compose") <= RankOf("tts", "record")
      /\ RankOf("tts", "record") <= RankOf("tts", "healthy")
      /\ RankOf("tts", "take-over") <= RankOf("tts", "healthy")
  BY DEF RankOf, StackRank, VoiceRank, StabRank, Stack
<1> HIDE DEF T
<1>5. ASSUME NEW s \in Stack
      PROVE  /\ In(T, s, "up") /\ In(T, "all", "save") => In(T, s, "record")
             /\ In(T, s, "remove") => In(T, "all", "save")
             /\ In(T, s, "update") => ~In(T, "all", "save")
  BY <1>1, <1>3, <1>4 DEF Complete
<1>6. /\ In(T, "tts", "no-client") => In(T, "all", "save") /\ Met(T, "tts", "remove")
      /\ In(T, "tts", "wipe") => /\ In(T, "all", "save") /\ Met(T, "tts", "remove")
                                 /\ Met(T, "tts", "no-client")
      /\ In(T, "stab", "wipe") => In(T, "all", "save")
  BY <1>1, <1>2, <1>3, <1>4 DEF Complete
<1>7. /\ In(T, "tts", "client") \/ In(T, "tts", "prefs") \/ In(T, "tts", "compose") => In(T, "tts", "record")
      /\ In(T, "tts", "take-over") => In(T, "tts", "healthy")
      /\ In(T, "tts", "record") /\ opts.container => In(T, "tts", "healthy")
  BY <1>1, <1>3, <1>4 DEF Complete
<1>8. /\ In(T, "tts", "record") \/ In(T, "tts", "healthy") =>
           /\ Met(T, "tts", "client") /\ Met(T, "tts", "prefs") /\ Met(T, "tts", "require")
           /\ Met(T, "tts", "compose") /\ Met(T, "tts", "record")
      /\ In(T, "tts", "healthy") => /\ Met(T, "tts", "take-over") /\ Met(T, "tts", "up")
                                    /\ opts.container
      /\ In(T, "stab", "run") => Met(T, "stab", "sync") /\ Met(T, "stab", "stop")
  BY <1>1, <1>2 DEF Complete
<1> QED  BY <1>5, <1>6, <1>7, <1>8 DEF Complete, T

\* A call that succeeds.  The code may note something in the command on the way.
LEMMA Advances ==
  ASSUME Orderly, NEW c, NEW x, At(c, x), NEW now \in Running,
         now.calls = cmd.calls, now.opts = cmd.opts, cmd' = After(now)
  PROVE  /\ Orderly' /\ Takes(c, x)
         /\ cmd' # None => cmd'.left = now.left /\ cmd'.place = now.place
<1> DEFINE t == Tail(cmd.calls)
<1>1. /\ cmd \in Running /\ cmd.calls # <<>> /\ Ordered(cmd.calls) /\ cmd # None
      /\ Complete(Elements(cmd.calls), cmd.opts) /\ cmd.calls \in Seq(Call)
      /\ Head(cmd.calls) = <<c, x>> /\ Remaining = Elements(cmd.calls)
  BY DEF Orderly, At, Running, Remaining
<1>2. /\ <<c, x>> \in Elements(cmd.calls)
      /\ t \in Seq(Call) /\ Ordered(t)
      /\ Elements(t) = Elements(cmd.calls) \ {<<c, x>>}
      /\ \A y \in Elements(t) : Rank(<<c, x>>) < Rank(y)
      /\ Len(cmd.calls) = 1 => Elements(cmd.calls) = {<<c, x>>}
      /\ Len(cmd.calls) # 1 => t # <<>>
  BY <1>1, TailFacts
<1>3. \A y \in Elements(t) : RankOf(c, x) < Rank(y)
  BY <1>2, RankIsNat
<1>4. Complete(Elements(t), cmd.opts)
  BY <1>1, <1>2, CompleteTail
<1> HIDE DEF t
<1>5. CASE Len(cmd.calls) = 1
  <2>1. cmd' = None
    BY <1>5 DEF After
  <2>2. Remaining' = {}
    BY <2>1 DEF Remaining
  <2> QED  BY <1>1, <1>2, <1>5, <2>1, <2>2 DEF Orderly, Takes, Has, In, Past, Behind
<1>6. CASE Len(cmd.calls) # 1
  <2>1. cmd' = [now EXCEPT !.calls = t]
    BY <1>6 DEF After, t
  <2>2. /\ cmd' \in Running /\ cmd'.calls = t /\ cmd'.opts = cmd.opts
        /\ cmd'.left = now.left /\ cmd'.place = now.place
    BY <1>2, <2>1 DEF Running
  <2>3. cmd' # None
    BY <2>2, InstallerAssumption
  <2>4. Remaining' = Elements(t)
    BY <2>2, <2>3 DEF Remaining
  <2>5. Orderly'
    BY <1>2, <1>4, <1>6, <2>2, <2>4 DEF Orderly
  <2>6. Takes(c, x)
    BY <1>1, <1>2, <1>3, <2>2, <2>4 DEF Takes, Has, In, Past, Behind
  <2> QED  BY <2>2, <2>5, <2>6
<1> QED  BY <1>5, <1>6

----
(* Types.                                                                  *)

HomeSet == [models : ModelsFile, secrets : SecretsFile,
            config : {None, Torn, "private", "current"},
            manifest : Manifest \cup {Torn}, connections : (SUBSET Provider) \cup {None},
            weights : BOOLEAN, prefs : Port \cup {None}, client : Release \cup {None, Torn},
            ollama : Compose \cup {None, Torn}, webui : Compose \cup {None, Torn},
            tts : Compose \cup {None, Torn}]
OpenSet == [place : Place \cup {None}, port : Port] \cup {None}
BinSet == [mode : {"ok", "readonly", "blocked"}, stab : Release \cup {None, Torn},
           client : Release \cup {None, Torn}, attached : BOOLEAN, open : OpenSet]
ProjectSet == [marker : Release \cup {None, Torn}, dockerfile : Release \cup {None, Torn},
               models : ModelsFile, agent : (SUBSET Provider) \cup {None}]
Files == /\ home \in HomeSet /\ bin \in BinSet /\ container \in [Stack -> SUBSET Compose]
         /\ project \in ProjectSet /\ release \in Release

\* The types with the order of the calls: what every step keeps.
Ground == Files /\ Orderly /\ \E S : history \in History(S)

LEMMA GroundIsTyped == Ground => TypeOK
  BY DEF Ground, Files, Orderly, TypeOK, HomeSet, OpenSet, BinSet, ProjectSet

LEMMA GroundIsShaped == ASSUME Ground PROVE Shape
<1> DEFINE C == {None, Torn, "private", "current"}
           M == Manifest
           P == SUBSET Provider
           B == BOOLEAN
           Q == Port
           R == Release
           F == Compose
           U == C \cup M \cup P \cup B \cup Q \cup R \cup F
<1> HIDE DEF M, P, B, Q, R, F
<1>1. /\ C \subseteq U /\ M \cup {Torn} \subseteq U /\ P \cup {None} \subseteq U /\ B \subseteq U
      /\ Q \cup {None} \subseteq U /\ R \cup {None, Torn} \subseteq U
      /\ F \cup {None, Torn} \subseteq U
  OBVIOUS
<1> HIDE DEF U
<1>2. home \in Home(U)
  BY <1>1 DEF Ground, Files, HomeSet, Home, M, P, B, Q, R, F
<1> QED  BY <1>2 DEF Ground, Shape

\* A command that has made a call, and has the rest to make.
Succeeds(c, x) ==
  /\ At(c, x) /\ Takes(c, x)
  /\ cmd' # None => cmd'.left = cmd.left /\ cmd'.place = cmd.place

LEMMA DoneStep ==
  ASSUME Orderly, NEW c, NEW x, At(c, x), Done PROVE Orderly' /\ Succeeds(c, x)
<1>1. cmd \in Running
  BY DEF Orderly, At
<1> QED  BY <1>1, Advances DEF Done, Succeeds

LEMMA FailsStep == ASSUME Fails PROVE Orderly' /\ Remaining' = {}
  BY DEF Fails, Orderly, Remaining

LEMMA StrikeStep ==
  ASSUME Orderly, NEW c, NEW x, At(c, x), NEW a \in Component,
         cmd' = After([cmd EXCEPT !.left[a] = None])
  PROVE  /\ Orderly' /\ Takes(c, x)
         /\ cmd' # None => /\ cmd'.left = [cmd.left EXCEPT ![a] = None]
                           /\ cmd'.place = cmd.place
<1> DEFINE m == [cmd.left EXCEPT ![a] = None]
           now == [cmd EXCEPT !.left = m]
<1>1. cmd \in Running
  BY DEF Orderly, At
<1>2. m \in Manifest
  BY <1>1 DEF Running, Manifest
<1>3. cmd' = After(now)
  BY <1>1 DEF Running
<1> HIDE DEF m
<1>4. /\ now \in Running /\ now.calls = cmd.calls /\ now.opts = cmd.opts
      /\ now.left = m /\ now.place = cmd.place
  BY <1>1, <1>2 DEF Running
<1> HIDE DEF now
<1>5. /\ Orderly' /\ Takes(c, x)
      /\ cmd' # None => cmd'.left = m /\ cmd'.place = cmd.place
  BY <1>3, <1>4, Advances
<1> QED  BY <1>5 DEF m

LEMMA PlaceStep ==
  ASSUME Orderly, NEW c, NEW x, At(c, x), NEW place \in Place,
         cmd' = After([cmd EXCEPT !.place = place])
  PROVE  /\ Orderly' /\ Takes(c, x)
         /\ cmd' # None => cmd'.left = cmd.left /\ cmd'.place = place
<1> DEFINE now == [cmd EXCEPT !.place = place]
<1>1. cmd \in Running
  BY DEF Orderly, At
<1>2. /\ now \in Running /\ now.calls = cmd.calls /\ now.opts = cmd.opts
      /\ now.left = cmd.left /\ now.place = place
  BY <1>1 DEF Running
<1> HIDE DEF now
<1> QED  BY <1>2, Advances DEF now

LEMMA MigratedType ==
  ASSUME NEW m \in Manifest
  PROVE  Migrated(m) \in Manifest /\ \A s \in Stack : Migrated(m)[s] = m[s]
<1> DEFINE v == IF m["stab"] = None THEN m[Legacy] ELSE m["stab"]
<1>1. v \in Record \cup {None}
  BY DEF Manifest, Component
<1>2. Migrated(m) \in {m, [m EXCEPT ![Legacy] = None, !["stab"] = v]}
  BY DEF Migrated, Legacy, Manifest, Component
<1> HIDE DEF v
<1> QED  BY <1>1, <1>2 DEF Manifest, Legacy, Component, Stack

LEMMA LoadedType ==
  ASSUME Files
  PROVE  /\ Loaded \in Manifest
         /\ home.manifest # Torn => /\ home.manifest \in Manifest /\ Loaded = Migrated(home.manifest)
                                    /\ \A s \in Stack : Loaded[s] = home.manifest[s]
<1>1. home.manifest \in Manifest \cup {Torn}
  BY DEF Files, HomeSet
<1>2. NoManifest \in Manifest
  BY DEF NoManifest, Manifest
<1> QED  BY <1>1, <1>2, MigratedType DEF Loaded

\* A command starts with all its calls.
LEMMA BeginStep ==
  ASSUME Files, NEW c \in Commands, Begin(c)
  PROVE  /\ Orderly' /\ Planned(c, cmd'.calls) /\ cmd' # None /\ cmd = None
         /\ cmd'.calls = Calls(c) /\ cmd'.opts = c.opts /\ cmd'.left = Loaded /\ cmd'.place = None
         /\ Remaining' = Elements(Calls(c))
<1> DEFINE calls == Calls(c)
<1>1. c \in CommandLine
  BY InstallerAssumption
<1>2. Planned(c, calls)
  BY <1>1, CallsPlan
<1>3. c.opts \in Option
  BY <1>1 DEF CommandLine
<1> HIDE DEF calls
<1>4. cmd' = [calls |-> calls, opts |-> c.opts, left |-> Loaded, place |-> None] /\ cmd = None
  BY DEF Begin, calls
<1>5. /\ cmd' \in Running /\ cmd'.calls = calls /\ cmd'.opts = c.opts /\ cmd'.left = Loaded
      /\ cmd'.place = None
  BY <1>2, <1>3, <1>4, LoadedType DEF Running, Planned
<1>6. cmd' # None
  BY <1>5, InstallerAssumption
<1>7. Remaining' = Elements(calls)
  BY <1>5, <1>6 DEF Remaining
<1>8. Complete(Elements(calls), c.opts)
  BY <1>2, WholeIsComplete DEF Planned
<1>9. Orderly'
  BY <1>2, <1>5, <1>7, <1>8 DEF Orderly, Planned
<1> QED  BY <1>2, <1>4, <1>5, <1>6, <1>7, <1>9 DEF calls

----
(* Every step keeps the types.                                             *)

LEMMA HomeKeeps ==
  ASSUME Files
  PROVE  /\ \A v \in ModelsFile : [home EXCEPT !.models = v] \in HomeSet
         /\ \A v \in SecretsFile : [home EXCEPT !.secrets = v] \in HomeSet
         /\ \A v \in Manifest \cup {Torn} : [home EXCEPT !.manifest = v] \in HomeSet
         /\ \A v \in Port \cup {None} : [home EXCEPT !.prefs = v] \in HomeSet
         /\ \A v \in Release \cup {None, Torn} : [home EXCEPT !.client = v] \in HomeSet
         /\ [home EXCEPT !.config = "current"] \in HomeSet /\ [home EXCEPT !.config = Torn] \in HomeSet
         /\ [home EXCEPT !.weights = TRUE] \in HomeSet
         /\ \A v \in (SUBSET Provider) \cup {None} : [home EXCEPT !.connections = v] \in HomeSet
         /\ \A s \in Stack : \A v \in Compose : [home EXCEPT ![s] = v] \in HomeSet
<1>1. home \in HomeSet
  BY DEF Files
<1>2. \A v \in ModelsFile : [home EXCEPT !.models = v] \in HomeSet
  BY <1>1 DEF HomeSet
<1>3. \A v \in SecretsFile : [home EXCEPT !.secrets = v] \in HomeSet
  BY <1>1 DEF HomeSet
<1>4. \A v \in Manifest \cup {Torn} : [home EXCEPT !.manifest = v] \in HomeSet
  BY <1>1 DEF HomeSet
<1>5. \A v \in Port \cup {None} : [home EXCEPT !.prefs = v] \in HomeSet
  BY <1>1 DEF HomeSet
<1>6. \A v \in Release \cup {None, Torn} : [home EXCEPT !.client = v] \in HomeSet
  BY <1>1 DEF HomeSet
<1>7. [home EXCEPT !.config = "current"] \in HomeSet /\ [home EXCEPT !.config = Torn] \in HomeSet
  BY <1>1 DEF HomeSet
<1>8. [home EXCEPT !.weights = TRUE] \in HomeSet
  BY <1>1 DEF HomeSet
<1>9. \A v \in (SUBSET Provider) \cup {None} : [home EXCEPT !.connections = v] \in HomeSet
  BY <1>1 DEF HomeSet
<1>10. \A s \in Stack : \A v \in Compose : [home EXCEPT ![s] = v] \in HomeSet
  BY <1>1 DEF HomeSet, Stack
<1> QED  BY <1>2, <1>3, <1>4, <1>5, <1>6, <1>7, <1>8, <1>9, <1>10

LEMMA ContainerKeeps ==
  ASSUME Files, NEW s \in Stack
  PROVE  /\ home[s] \in Compose =>
              /\ Downed(s, home[s]) \in [Stack -> SUBSET Compose]
              /\ Upped(s, home[s]) \in [Stack -> SUBSET Compose]
         /\ \A file : Downed(s, file) \in [Stack -> SUBSET Compose]
<1>1. container \in [Stack -> SUBSET Compose]
  BY DEF Files
<1> QED  BY <1>1 DEF Downed, Upped

LEMMA UnlinkedType == ASSUME Files PROVE \A places : Unlinked(places) \in OpenSet
<1>1. bin.open \in OpenSet
  BY DEF Files, BinSet
<1> QED  BY <1>1 DEF Unlinked, OpenSet

LEMMA StackTypes == ASSUME Ground, StackCall PROVE Files' /\ Orderly'
<1> USE DEF Ground
<1>1. ASSUME NEW s \in Stack, WriteCompose(s) PROVE Files' /\ Orderly'
  <2> DEFINE file == [name |-> cmd.opts.name, port |-> cmd.opts.port]
  <2>1. cmd \in Running /\ At(s, "compose") /\ Done
    BY <1>1 DEF WriteCompose, At, Orderly
  <2>2. file \in Compose
    BY <2>1 DEF Running, Option, Compose
  <2>3. home' = [home EXCEPT ![s] = file]
    BY <1>1 DEF WriteCompose
  <2> HIDE DEF file
  <2>4. home' \in HomeSet
    BY <2>2, <2>3, HomeKeeps
  <2>5. Files'
    BY <1>1, <2>4 DEF WriteCompose, Files
  <2> QED  BY <2>1, <2>5, DoneStep
<1>2. ASSUME NEW s \in Stack, Up(s) PROVE Files' /\ Orderly'
  <2>1. container' \in [Stack -> SUBSET Compose]
    BY <1>2, ContainerKeeps DEF Up, Startable, Files
  <2>2. Files'
    BY <1>2, <2>1 DEF Up, Files
  <2> QED  BY <1>2, <2>2, DoneStep, FailsStep DEF Up
<1>3. ASSUME NEW s \in Stack, UpdateStack(s) PROVE Files' /\ Orderly'
  <2>1. container' \in [Stack -> SUBSET Compose]
    BY <1>3, ContainerKeeps DEF UpdateStack, Startable, Files
  <2>2. Files'
    BY <1>3, <2>1 DEF UpdateStack, Files
  <2> QED  BY <1>3, <2>2, DoneStep DEF UpdateStack
<1>4. ASSUME NEW s \in Stack, Down(s) PROVE Files' /\ Orderly'
  <2>1. container' \in [Stack -> SUBSET Compose]
    BY <1>4, ContainerKeeps DEF Down, Files
  <2>2. Files'
    BY <1>4, <2>1 DEF Down, Files
  <2> QED  BY <1>4, <2>2, DoneStep, FailsStep DEF Down
<1>5. ASSUME NEW s \in Stack, RemoveStack(s) PROVE Files' /\ Orderly'
  <2>1. container' \in [Stack -> SUBSET Compose]
    BY <1>5, ContainerKeeps DEF RemoveStack, Files
  <2>2. Files'
    BY <1>5, <2>1 DEF RemoveStack, Files
  <2>3. CASE s = "tts"
    BY <1>5, <2>2, <2>3, DoneStep DEF RemoveStack, Done
  <2>4. CASE s # "tts"
    <3>1. At(s, "remove") /\ s \in Component /\ cmd' = After([cmd EXCEPT !.left[s] = None])
      BY <1>5, <2>4 DEF RemoveStack, Component
    <3> QED  BY <2>2, <3>1, StrikeStep
  <2> QED  BY <2>3, <2>4
<1>6. CASE WriteEnv
  <2>1. Endpoints(home.models, home.secrets) \in SUBSET Provider
    BY DEF Endpoints, Resolved, References
  <2>2. home' \in HomeSet
    BY <1>6, <2>1, HomeKeeps DEF WriteEnv, Files
  <2>3. Files'
    BY <1>6, <2>2 DEF WriteEnv, Files
  <2> QED  BY <1>6, <2>3, DoneStep, FailsStep DEF WriteEnv
<1> QED  BY <1>1, <1>2, <1>3, <1>4, <1>5, <1>6 DEF StackCall

LEMMA VoiceTypes == ASSUME Ground, VoiceCall PROVE Files' /\ Orderly'
<1> USE DEF Ground
<1>0. /\ home \in HomeSet /\ bin \in BinSet /\ release \in Release
      /\ home.client \in Release \cup {None, Torn}
  BY DEF Files, HomeSet
<1>1. CASE InstallClient
  <2>1. /\ home' \in {home, [home EXCEPT !.client = release]}
        /\ bin' \in {bin, [bin EXCEPT !.client = release]}
        /\ UNCHANGED <<container, project, release>>
    BY <1>1 DEF InstallClient
  <2>2. home' \in HomeSet
    BY <1>0, <2>1, HomeKeeps
  <2>3. bin' \in BinSet
    BY <1>0, <2>1 DEF BinSet
  <2>4. Files'
    BY <2>1, <2>2, <2>3 DEF Files
  <2>5. /\ At("tts", "client")
        /\ \E place \in Place : cmd' = After([cmd EXCEPT !.place = place])
    BY <1>1 DEF InstallClient, Place
  <2> QED  BY <2>4, <2>5, PlaceStep
<1>2. CASE WritePrefs
  <2>1. cmd \in Running /\ At("tts", "prefs") /\ Done
    BY <1>2 DEF WritePrefs, At, Orderly
  <2>2. cmd.opts.port \in Port
    BY <2>1 DEF Running, Option
  <2>3. home' \in HomeSet
    BY <1>2, <2>2, HomeKeeps DEF WritePrefs
  <2>4. Files'
    BY <1>2, <2>3 DEF WritePrefs, Files
  <2> QED  BY <2>1, <2>4, DoneStep
<1>3. CASE FetchWeights
  <2>1. home' \in HomeSet
    BY <1>0, <1>3, HomeKeeps DEF FetchWeights
  <2>2. Files'
    BY <1>3, <2>1 DEF FetchWeights, Files
  <2> QED  BY <1>3, <2>2, DoneStep, FailsStep DEF FetchWeights
<1>4. CASE StageSource \/ RequireModels \/ WaitHealthy
  <2>1. Files'
    BY <1>4 DEF StageSource, RequireModels, WaitHealthy, Tries, Files
  <2> QED  BY <1>4, <2>1, DoneStep, FailsStep DEF StageSource, RequireModels, WaitHealthy, Tries
<1>5. CASE TakeOver
  <2>1. "tts" \in Stack
    BY DEF Stack
  <2>2. container' \in [Stack -> SUBSET Compose]
    BY <1>5, <2>1, ContainerKeeps DEF TakeOver, Files
  <2>3. Files'
    BY <1>5, <2>2 DEF TakeOver, Files
  <2> QED  BY <1>5, <2>3, DoneStep, FailsStep DEF TakeOver
<1>6. CASE RemoveClient
  <2>1. home' \in HomeSet
    BY <1>0, <1>6, HomeKeeps DEF RemoveClient
  <2>2. bin' \in BinSet
    <3>1. Unlinked(Place) \in OpenSet /\ Unlinked({"base"}) \in OpenSet
      BY UnlinkedType
    <3>2. bin' \in {bin, [bin EXCEPT !.client = None, !.open = Unlinked(Place)],
                    [bin EXCEPT !.open = Unlinked({"base"})]}
      BY <1>6 DEF RemoveClient
    <3> QED  BY <1>0, <3>1, <3>2 DEF BinSet
  <2>3. Files'
    BY <1>6, <2>1, <2>2 DEF RemoveClient, Files
  <2>4. "tts" \in Component
    BY DEF Component, Stack
  <2>5. At("tts", "no-client") /\ cmd' = After([cmd EXCEPT !.left["tts"] = None])
    BY <1>6 DEF RemoveClient
  <2> QED  BY <2>3, <2>4, <2>5, StrikeStep
<1>7. CASE WipeTts
  <2>1. home' \in HomeSet
    BY <1>0, <1>7 DEF WipeTts, HomeSet
  <2>2. bin' \in BinSet
    BY <1>0, <1>7, UnlinkedType DEF WipeTts, BinSet
  <2>3. Files'
    BY <1>7, <2>1, <2>2 DEF WipeTts, Files
  <2> QED  BY <1>7, <2>3, DoneStep DEF WipeTts
<1> QED  BY <1>1, <1>2, <1>3, <1>4, <1>5, <1>6, <1>7 DEF VoiceCall

LEMMA StabTypes == ASSUME Ground, StabCall PROVE Files' /\ Orderly'
<1> USE DEF Ground
<1>0. /\ home \in HomeSet /\ bin \in BinSet /\ project \in ProjectSet /\ release \in Release
      /\ home.models \in ModelsFile /\ home.secrets \in SecretsFile /\ project.models \in ModelsFile
      /\ bin.stab \in Release \cup {None, Torn}
  BY DEF Files, HomeSet, BinSet, ProjectSet
<1>1. CASE InstallStab
  <2>1. bin' \in BinSet
    BY <1>0, <1>1 DEF InstallStab, BinSet
  <2>2. Files'
    BY <1>1, <2>1 DEF InstallStab, Files
  <2> QED  BY <1>1, <2>2, DoneStep, FailsStep DEF InstallStab
<1>2. ASSUME NEW call, NEW baked, BakedModels(call, baked) PROVE Files' /\ Orderly'
  <2>1. MergeModels(home.models, baked, cmd.opts.force) \in ModelsFile
    BY <1>0, MergeModelsType
  <2>2. home' \in HomeSet
    BY <1>0, <1>2, <2>1, HomeKeeps DEF BakedModels
  <2>3. Files'
    BY <1>2, <2>2 DEF BakedModels, Files
  <2> QED  BY <1>2, <2>3, DoneStep, FailsStep DEF BakedModels
<1>3. ASSUME NEW call, NEW baked, BakedSecrets(call, baked) PROVE Files' /\ Orderly'
  <2>1. MergeSecrets(home.secrets, baked, cmd.opts.force) \in SecretsFile
    BY <1>0, MergeSecretsType
  <2>2. home' \in HomeSet
    BY <1>0, <1>3, <2>1, HomeKeeps DEF BakedSecrets
  <2>3. Files'
    BY <1>3, <2>2 DEF BakedSecrets, Files
  <2> QED  BY <1>3, <2>3, DoneStep DEF BakedSecrets
<1>4. CASE CheckStab
  <2>1. home' \in HomeSet /\ bin' \in BinSet
    BY <1>0, <1>4, HomeKeeps DEF CheckStab, Configured, BinSet
  <2>2. Files'
    BY <1>4, <2>1 DEF CheckStab, Files
  <2> QED  BY <1>4, <2>2, DoneStep, FailsStep DEF CheckStab
<1>5. CASE NeedsDocker \/ InstallPiAgent \/ BuildImage
  <2>1. Files'
    BY <1>5 DEF NeedsDocker, InstallPiAgent, BuildImage, Tries, Files
  <2> QED  BY <1>5, <2>1, DoneStep, FailsStep DEF NeedsDocker, InstallPiAgent, BuildImage, Tries
<1>6. CASE Templates
  <2> DEFINE m == Template(home.models, NoModels)
             k == Template(home.secrets, NoSecrets)
  <2>1. m \in ModelsFile /\ k \in SecretsFile
    BY <1>0 DEF Template, ModelsFile, SecretsFile, NoModels, NoSecrets, Entry, Key
  <2>2. home' = [home EXCEPT !.models = m, !.secrets = k]
    BY <1>6 DEF Templates
  <2> HIDE DEF m, k
  <2>3. home' \in HomeSet
    BY <1>0, <2>1, <2>2 DEF HomeSet
  <2>4. Files'
    BY <1>6, <2>3 DEF Templates, Files
  <2> QED  BY <1>6, <2>4, DoneStep DEF Templates
<1>7. CASE RemoveStab
  <2>1. bin' \in BinSet
    BY <1>0, <1>7 DEF RemoveStab, BinSet
  <2>2. Files'
    BY <1>7, <2>1 DEF RemoveStab, Files
  <2>3. "stab" \in Component
    BY DEF Component
  <2>4. At("stab", "remove") /\ cmd' = After([cmd EXCEPT !.left["stab"] = None])
    BY <1>7 DEF RemoveStab
  <2> QED  BY <2>2, <2>3, <2>4, StrikeStep
<1>8. CASE WipeHome
  <2>1. EmptyHome \in HomeSet
    BY DEF EmptyHome, HomeSet, ModelsFile, SecretsFile, NoManifest, Manifest
  <2>2. bin' \in BinSet
    BY <1>0, <1>8, UnlinkedType DEF WipeHome, BinSet
  <2>3. Files'
    BY <1>8, <2>1, <2>2 DEF WipeHome, Files
  <2> QED  BY <1>8, <2>3, DoneStep DEF WipeHome
<1>9. CASE LoadConfig
  <2>1. home' \in HomeSet
    BY <1>0, <1>9, HomeKeeps DEF LoadConfig, Configured
  <2>2. Files'
    BY <1>9, <2>1 DEF LoadConfig, Files
  <2> QED  BY <1>9, <2>2, DoneStep, FailsStep DEF LoadConfig
<1>10. CASE SeedFiles \/ SeedMarker \/ CopyModels \/ StopAgent
  <2>1. project' \in ProjectSet
    <3>1. CASE SeedFiles
      BY <1>0, <3>1 DEF SeedFiles, ProjectSet
    <3>2. CASE SeedMarker
      BY <1>0, <3>2 DEF SeedMarker, ProjectSet
    <3>3. CASE CopyModels
      BY <1>0, <3>3 DEF CopyModels, ProjectSet, Seed, Sync
    <3>4. CASE StopAgent
      BY <1>0, <3>4 DEF StopAgent, ProjectSet
    <3> QED  BY <1>10, <3>1, <3>2, <3>3, <3>4
  <2>2. Files'
    BY <1>10, <2>1 DEF SeedFiles, SeedMarker, CopyModels, StopAgent, Files
  <2> QED  BY <1>10, <2>2, DoneStep DEF SeedFiles, SeedMarker, CopyModels, Seeds, StopAgent
<1>11. CASE RefreshTunnels
  <2>1. PICK answering \in BOOLEAN, host \in Tunnelled :
          home' = [home EXCEPT !.models = Refresh(@, answering, host)]
    BY <1>11 DEF RefreshTunnels
  <2>2. Refresh(home.models, answering, host) \in ModelsFile
    BY <1>0, RefreshKeepsModels
  <2>3. home' \in HomeSet
    BY <1>0, <2>1, <2>2, HomeKeeps
  <2>4. Files'
    BY <1>11, <2>3 DEF RefreshTunnels, Files
  <2> QED  BY <1>11, <2>4, DoneStep DEF RefreshTunnels, Refreshes
<1>12. CASE RunAgent
  <2>1. Resolved(project.models, home.secrets) \in SUBSET Provider
    BY DEF Resolved, References
  <2>2. project' \in ProjectSet
    BY <1>0, <1>12, <2>1 DEF RunAgent, ProjectSet
  <2>3. bin' \in BinSet
    <3>1. bin.attached \in BOOLEAN /\ At("stab", "attach") \in BOOLEAN
      BY <1>0 DEF BinSet, At
    <3>2. (bin.attached \/ At("stab", "attach")) \in BOOLEAN
      BY <3>1
    <3>3. bin' = bin \/ bin' = [bin EXCEPT !.attached = bin.attached \/ At("stab", "attach")]
      BY <1>0, <1>12 DEF RunAgent, BinSet
    <3> QED  BY <1>0, <3>2, <3>3 DEF BinSet
  <2>4. Files'
    BY <1>12, <2>2, <2>3 DEF RunAgent, Files
  <2> QED  BY <1>12, <2>4, DoneStep, FailsStep DEF RunAgent
<1> QED  BY <1>1, <1>2, <1>3, <1>4, <1>5, <1>6, <1>7, <1>8, <1>9, <1>10, <1>11, <1>12 DEF StabCall

LEMMA CommandTypes ==
  ASSUME Ground, \/ \E c \in Commands : Begin(c)
                 \/ \E c \in Component : Enter(c)
                 \/ Save \/ Interrupt
  PROVE  Files' /\ Orderly'
<1> USE DEF Ground
<1>0. home \in HomeSet /\ home.manifest \in Manifest \cup {Torn}
  BY DEF Files, HomeSet
<1>1. ASSUME NEW c \in Commands, Begin(c) PROVE Files' /\ Orderly'
  <2>1. home' \in HomeSet
    BY <1>0, <1>1, MigratedType, HomeKeeps DEF Begin
  <2>2. Files'
    BY <1>1, <2>1 DEF Begin, Files
  <2> QED  BY <1>1, <2>2, BeginStep
<1>2. ASSUME NEW c \in Component, Enter(c) PROVE Files' /\ Orderly'
  <2> DEFINE r == [port |-> IF c = "stab" THEN None ELSE cmd.opts.port, client |-> cmd.place]
             m == [Migrated(home.manifest) EXCEPT ![c] = r]
  <2>1. cmd \in Running /\ At(c, "record")
    BY <1>2 DEF Enter, At, Orderly
  <2>2. r \in Record
    BY <2>1 DEF Record, Running, Option
  <2>3. home' = home \/ (home.manifest # Torn /\ home' = [home EXCEPT !.manifest = m])
    BY <1>2 DEF Enter
  <2> HIDE DEF r
  <2>4. home.manifest # Torn => m \in Manifest
    BY <1>0, <2>2, MigratedType DEF Manifest
  <2> HIDE DEF m
  <2>5. home' \in HomeSet
    BY <1>0, <2>3, <2>4, HomeKeeps
  <2>6. Files'
    BY <1>2, <2>5 DEF Enter, Files
  <2> QED  BY <1>2, <2>1, <2>6, DoneStep, FailsStep DEF Enter
<1>3. CASE Save
  <2>1. cmd \in Running /\ At("all", "save")
    BY <1>3 DEF Save, At, Orderly
  <2>2. cmd.left \in Manifest
    BY <2>1 DEF Running
  <2>3. home' \in HomeSet
    BY <1>3, <2>2, HomeKeeps DEF Save
  <2>4. Files'
    BY <1>3, <2>3 DEF Save, Files
  <2> QED  BY <1>3, <2>1, <2>4, DoneStep DEF Save
<1>4. CASE Interrupt
  BY <1>4, FailsStep DEF Interrupt, Files
<1> QED  BY <1>1, <1>2, <1>3, <1>4

LEMMA TearTypes == ASSUME Ground, Tear PROVE Files' /\ Orderly'
<1> USE DEF Ground
<1>0. home \in HomeSet /\ bin \in BinSet /\ project \in ProjectSet
  BY DEF Files
<1>1. home' \in HomeSet
  <2>1. [home EXCEPT !.models = Torn] \in HomeSet
    BY HomeKeeps DEF ModelsFile
  <2>2. [home EXCEPT !.secrets = NoSecrets] \in HomeSet
    BY HomeKeeps DEF SecretsFile, NoSecrets, Key
  <2>3. /\ [home EXCEPT !.config = Torn] \in HomeSet /\ [home EXCEPT !.manifest = Torn] \in HomeSet
        /\ [home EXCEPT !.connections = {}] \in HomeSet /\ [home EXCEPT !.prefs = None] \in HomeSet
    BY HomeKeeps
  <2>4. [s \in DOMAIN home |-> IF s \in Stack /\ At(s, "compose") THEN Torn ELSE home[s]] \in HomeSet
    BY <1>0 DEF HomeSet, Stack
  <2>5. TornHome \in HomeSet
    BY <1>0, <2>1, <2>2, <2>3, <2>4 DEF TornHome
  <2> QED  BY <2>5 DEF Tear
<1>2. bin' \in BinSet
  BY <1>0 DEF Tear, TornBin, BinSet
<1>3. project' \in ProjectSet
  BY <1>0 DEF Tear, TornProject, ProjectSet, ModelsFile
<1>4. Files'
  BY <1>1, <1>2, <1>3 DEF Tear, Files
<1> QED  BY <1>4, FailsStep DEF Tear

LEMMA UserTypes == ASSUME Ground, User PROVE Files' /\ Orderly'
<1> USE DEF Ground
<1>0. /\ home \in HomeSet /\ bin \in BinSet /\ project \in ProjectSet /\ release \in Release
      /\ home.models \in ModelsFile /\ home.secrets \in SecretsFile /\ bin.open \in OpenSet
      /\ home.prefs \in Port \cup {None}
  BY DEF Files, HomeSet, BinSet
<1>1. Orderly'
  <2>1. cmd' = cmd
    BY DEF User, EditModels, EditSecrets, EditDockerfile, GetRelease, Chmod, OpenClient, Edit,
           CloseClient, Detach
  <2>2. Remaining' = Remaining
    BY <2>1 DEF Remaining
  <2> QED  BY <2>1, <2>2 DEF Orderly
<1>2. ASSUME NEW p \in Provider, NEW entry \in {"user", None}, EditModels(p, entry) PROVE Files'
  <2> DEFINE file == [Models(home.models) EXCEPT ![p] = entry]
  <2>1. file \in ModelsFile
    BY <1>0, ModelsType DEF ModelsFile, Entry
  <2>2. home' = [home EXCEPT !.models = file]
    BY <1>2 DEF EditModels
  <2> HIDE DEF file
  <2>3. home' \in HomeSet
    BY <2>1, <2>2, HomeKeeps
  <2> QED  BY <1>2, <2>3 DEF EditModels, Edit, Files
<1>3. ASSUME NEW p \in Provider, NEW entry \in {"user", None}, EditSecrets(p, entry) PROVE Files'
  <2> DEFINE file == [Secrets(home.secrets) EXCEPT ![p] = entry]
  <2>1. file \in SecretsFile
    BY <1>0, SecretsType DEF SecretsFile, Key
  <2>2. home' = [home EXCEPT !.secrets = file]
    BY <1>3 DEF EditSecrets
  <2> HIDE DEF file
  <2>3. home' \in HomeSet
    BY <2>1, <2>2, HomeKeeps
  <2> QED  BY <1>3, <2>3 DEF EditSecrets, Edit, Files
<1>4. CASE EditDockerfile
  <2>1. project' \in ProjectSet
    BY <1>0, <1>4 DEF EditDockerfile, ProjectSet
  <2> QED  BY <1>1, <1>4, <2>1 DEF EditDockerfile, Edit, Files
<1>5. CASE GetRelease
  <2>1. release' \in Release
    BY <1>0, <1>5, InstallerAssumption DEF GetRelease, Release
  <2> QED  BY <1>1, <1>5, <2>1 DEF GetRelease, Edit, Files
<1>6. ASSUME NEW mode \in {"ok", "readonly"}, Chmod(mode) PROVE Files'
  <2>1. bin' \in BinSet
    BY <1>0, <1>6 DEF Chmod, BinSet
  <2> QED  BY <1>6, <2>1 DEF Chmod, Edit, Files
<1>7. ASSUME NEW place \in Place, OpenClient(place) PROVE Files'
  <2> DEFINE o == [place |-> place, port |-> IF home.prefs = None THEN DefaultPort ELSE home.prefs]
  <2>1. o \in OpenSet
    BY <1>0, InstallerAssumption DEF OpenSet
  <2>2. bin' = [bin EXCEPT !.open = o]
    BY <1>7 DEF OpenClient
  <2> HIDE DEF o
  <2>3. bin' \in BinSet
    BY <1>0, <2>1, <2>2 DEF BinSet
  <2> QED  BY <1>7, <2>3 DEF OpenClient, Edit, Files
<1>8. CASE CloseClient
  <2>1. bin.open.port \in Port /\ home' = [home EXCEPT !.prefs = bin.open.port]
    BY <1>0, <1>8 DEF CloseClient, OpenSet
  <2>2. home' \in HomeSet
    BY <2>1, HomeKeeps
  <2>3. bin' \in BinSet
    BY <1>0, <1>8 DEF CloseClient, BinSet, OpenSet
  <2> QED  BY <1>1, <1>8, <2>2, <2>3 DEF CloseClient, Files
<1>9. CASE Detach
  <2>1. bin' \in BinSet
    BY <1>0, <1>9 DEF Detach, BinSet
  <2> QED  BY <1>1, <1>9, <2>1 DEF Detach, Files
<1> QED  BY <1>1, <1>2, <1>3, <1>4, <1>5, <1>6, <1>7, <1>8, <1>9 DEF User

LEMMA GroundStarts == ASSUME Init PROVE Ground
<1>1. PICK old \in {None, [port |-> None, client |-> None]}, config \in {None, "private"} :
        home = [EmptyHome EXCEPT !.manifest[Legacy] = old, !.config = config]
  BY DEF Init
<1> DEFINE m == [NoManifest EXCEPT ![Legacy] = old]
<1>2. home = [EmptyHome EXCEPT !.manifest = m, !.config = config]
  BY <1>1 DEF EmptyHome
<1>3. m \in Manifest
  BY DEF NoManifest, Manifest, Record
<1> HIDE DEF m
<1>4. EmptyHome \in HomeSet
  BY DEF EmptyHome, HomeSet, ModelsFile, SecretsFile, NoManifest, Manifest
<1>5. home \in HomeSet
  BY <1>2, <1>3, <1>4 DEF HomeSet
<1>6. bin \in BinSet
  BY InstallerAssumption DEF Init, BinSet, OpenSet
<1>7. container \in [Stack -> SUBSET Compose] /\ project \in ProjectSet
  BY DEF Init, ProjectSet, ModelsFile
<1>8. release \in Release
  BY InstallerAssumption DEF Init, Release
<1>9. history \in History({{}, 0})
  BY DEF Init, History
<1> QED  BY <1>5, <1>6, <1>7, <1>8, <1>9 DEF Init, Ground, Files, Orderly

LEMMA GroundStep == ASSUME Ground, [Next]_vars PROVE Ground'
<1>1. Shape'
  BY GroundIsShaped, NextKeeps
<1>2. CASE UNCHANGED vars
  <2>1. Remaining' = Remaining
    BY <1>2 DEF vars, Remaining
  <2> QED  BY <1>2, <2>1 DEF vars, Ground, Files, Orderly
<1>3. CASE Next
  <2>1. Files' /\ Orderly'
    BY <1>3, CommandTypes, StackTypes, VoiceTypes, StabTypes, TearTypes, UserTypes DEF Next
  <2> QED  BY <1>1, <2>1 DEF Ground, Shape
<1> QED  BY <1>2, <1>3

LEMMA GroundHolds == Spec => []Ground
<1>1. Init => Ground
  BY GroundStarts
<1>2. Ground /\ [Next]_vars => Ground'
  BY GroundStep
<1> QED  BY <1>1, <1>2, PTL DEF Spec

\* Every file, container and command that the commands leave is one the program
\* knows: Running's calls are never empty, and are calls of internal/components.
THEOREM InstallerTypes == Spec => []TypeOK
  BY GroundHolds, GroundIsTyped, PTL
====
