---- MODULE Providers ----
(***************************************************************************)
(* The files that say which models an agent may use, and what the programs *)
(* do to them: `models.json` and `secrets.env` of ~/.stables, written by    *)
(* the installer (components/stab/stb.go), by `stab install` (merge.go)     *)
(* and by the refresh of the tunnel's models (refresh.go), copied into a    *)
(* project (cli.go) and handed to Open WebUI (webui.go).                    *)
(*                                                                         *)
(* A provider is a name, and what matters of an entry is who wrote it.  A   *)
(* provider's key is the secret its apiKey refers to.  Each operator gives *)
(* what a file holds after a step, from what it held before.               *)
(***************************************************************************)
EXTENDS Naturals

CONSTANTS
  Provider,   \* providers with a key of their own
  Tunnelled,  \* stables-tunnel-* providers, one for each host's name
  Baked,      \* entries of the models.json baked into stables
  StabBaked,  \* entries of the one embedded in stab itself
  None,       \* no file, no entry
  Torn        \* a file that an interrupted write left empty: it does not parse

Name == Provider \cup Tunnelled

Entry == {None, "baked", "user", "ollama"}
Key == {None, "baked", "user"}
ModelsFile == [Name -> Entry] \cup {None, Torn}
SecretsFile == [Provider -> Key] \cup {None}

ASSUME BakedAssumption ==
  /\ Baked \subseteq Name
  /\ StabBaked \subseteq Name
  /\ Provider \cap Tunnelled = {}
  /\ None # Torn /\ {None, Torn} \cap {"baked", "user", "ollama"} = {}
  /\ None \notin [Name -> Entry] /\ Torn \notin [Name -> Entry] /\ None \notin [Provider -> Key]

NoModels == [n \in Name |-> None]
NoSecrets == [p \in Provider |-> None]
Models(file) == IF file \in {None, Torn} THEN NoModels ELSE file
Secrets(file) == IF file = None THEN NoSecrets ELSE file

----------------------------------------------------------------------------
(* Merging.                                                                *)

\* A models.json that does not parse stops a merge, unless force replaces it.
MergeStuck(file, baked, force) == baked # {} /\ ~force /\ file = Torn

\* Mutant: what is baked wins.
MergeModelsOver(file, baked, force) ==
  IF baked = {} THEN file
  ELSE [n \in Name |-> IF n \in baked THEN "baked" ELSE IF force THEN None ELSE Models(file)[n]]

\* mergeModelsFile: what is there wins; force replaces the whole file.
MergeModels(file, baked, force) ==
  IF baked = {} THEN file
  ELSE [n \in Name |-> IF force THEN (IF n \in baked THEN "baked" ELSE None)
                       ELSE IF n \in baked /\ Models(file)[n] = None THEN "baked"
                       ELSE Models(file)[n]]

\* mergeSecretsFile: the same by key; it appends, and writes nothing when
\* every key is there already.
MergeSecrets(file, baked, force) ==
  IF baked \cap Provider = {} THEN file
  ELSE [p \in Provider |-> IF force THEN (IF p \in baked THEN "baked" ELSE None)
                           ELSE IF p \in baked /\ Secrets(file)[p] = None THEN "baked"
                           ELSE Secrets(file)[p]]

\* extractConfig: an empty template where nothing is.
Template(file, empty) == IF file = None THEN empty ELSE file

----------------------------------------------------------------------------
(* Refreshing, copying, resolving.                                         *)

\* refreshTunnelModels: the stables-tunnel-* entries, and no others, follow
\* what answers on the port.  A file that does not parse is left alone.
Refresh(file, answering, host) ==
  IF \/ file = Torn
     \/ ~answering /\ \A n \in Tunnelled : Models(file)[n] = None
  THEN file
  ELSE [n \in Name |-> IF n \notin Tunnelled THEN Models(file)[n]
                       ELSE IF answering /\ n = host THEN "ollama" ELSE None]

\* Mutant: a project's copy is never written again.
SyncOnce(copy, file) == IF copy = None THEN file ELSE copy

\* seedProjectModels and syncProjectModels, whatever the file holds.
Seed(copy, file) == IF copy = None THEN file ELSE copy
Sync(copy, file) == IF file = None THEN copy ELSE file

\* checkModelsSecrets: the references of a models.json, and those of them
\* that have a value.
References(file) == {p \in Provider : Models(file)[p] # None}
Resolved(file, secrets) == {p \in References(file) : Secrets(secrets)[p] # None}

\* fetchEndpoints: Open WebUI reaches the tunnel by itself.
Endpoints(file, secrets) == Resolved(file, secrets)
====
