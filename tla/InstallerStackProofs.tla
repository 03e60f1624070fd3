---- MODULE InstallerStackProofs ----
(***************************************************************************)
(* What a command leaves behind, for every set of commands, ports, names,  *)
(* providers and releases, through interrupts and failing calls, and        *)
(* without the bounds: a running stack can be removed, the voice stack's    *)
(* client and port are those on record, an install that gets to its end     *)
(* heals what came before, and an update reaches the project's agent.       *)
(*                                                                         *)
(* The argument is one of order.  Of the command that is running, the calls *)
(* that remain say which ones were made (InstallerProofs), and so what must *)
(* be true by now.  Each invariant says that of some part of the state.     *)
(***************************************************************************)
EXTENDS InstallerProofs

----
(* What runs can be removed again.                                         *)

\* What an order of the calls gives: for the call at the head, and for the
\* calls after it is made.
LEMMA HeadFacts ==
  ASSUME Orderly, NEW c, NEW x, At(c, x)
  PROVE  /\ Has(c, x) /\ cmd # None /\ cmd \in Running
         /\ \A d, y : Past(d, y) => RankOf(d, y) < RankOf(c, x)
         /\ \A d, y : Has(d, y) => RankOf(c, x) <= RankOf(d, y)
<1>1. /\ cmd \in Running /\ cmd.calls # <<>> /\ Ordered(cmd.calls) /\ cmd # None
      /\ cmd.calls \in Seq(Call) /\ Head(cmd.calls) = <<c, x>> /\ Remaining = Elements(cmd.calls)
  BY DEF Orderly, At, Running, Remaining
<1>2. /\ <<c, x>> \in Remaining
      /\ \A y \in Remaining : y = <<c, x>> \/ Rank(<<c, x>>) < Rank(y)
  BY <1>1, TailFacts
<1> QED  BY <1>1, <1>2, RankIsNat DEF Has, Past, In, Behind

LEMMA TakesFacts ==
  ASSUME NEW c, NEW x, Takes(c, x)
  PROVE  /\ \A d, y : Has(d, y)' <=> Has(d, y) /\ <<d, y>> # <<c, x>>
         /\ \A d, y : Past(d, y) => Past(d, y)'
         /\ \A d, y : Due(d, y) => (Past(d, y)' <=> Past(d, y) \/ <<d, y>> = <<c, x>>)
<1>1. Has(c, x) /\ Remaining' = Remaining \ {<<c, x>>} /\ Past(c, x)'
  BY DEF Takes
<1>2. \A d, y : Has(d, y)' <=> Has(d, y) /\ <<d, y>> # <<c, x>>
  BY <1>1 DEF Has, In
<1>3. \A d, y : Past(d, y) => Past(d, y)'
  BY <1>1 DEF Past, Behind
<1>4. ASSUME NEW d, NEW y, Due(d, y), Past(d, y)', <<d, y>> # <<c, x>> PROVE Past(d, y)
  <2>1. CASE Has(d, y)
    <3>1. Has(d, y)'
      BY <1>2, <1>4, <2>1
    <3>2. RankOf(d, y) < Rank(<<d, y>>)
      BY <1>4, <3>1 DEF Has, In, Past, Behind
    <3> QED  BY <3>2, RankIsNat
  <2> QED  BY <1>4, <2>1 DEF Due, Met, Has, Past
<1>5. ASSUME NEW d, NEW y, <<d, y>> = <<c, x>> PROVE Past(d, y)'
  BY <1>1, <1>5
<1> QED  BY <1>2, <1>3, <1>4, <1>5

LEMMA NoneRemain ==
  ASSUME Remaining' = {}
  PROVE  \A d, y : ~Has(d, y)' /\ Past(d, y)'
  BY DEF Has, Past, In, Behind

LEMMA SomeRemain == \A d, y : Has(d, y) => cmd # None
  BY DEF Has, In, Remaining

LEMMA SameRemain ==
  ASSUME cmd' = cmd
  PROVE  Remaining' = Remaining /\ \A d, y : (Has(d, y)' <=> Has(d, y)) /\ (Past(d, y)' <=> Past(d, y))
  BY DEF Has, Past, In, Behind, Remaining

\* The mishaps are never forgotten.
LEMMA Mishaps ==
  ASSUME Ground
  PROVE  /\ \A m : Befalls(m) \/ Fault(m) => history'.mishaps = history.mishaps \cup m
         /\ Recorded => history.mishaps \subseteq history'.mishaps
<1>1. PICK S : history \in History(S)
  BY DEF Ground
<1>2. \A m : Befalls(m) \/ Fault(m) => history'.mishaps = history.mishaps \cup m
  BY <1>1 DEF Befalls, Fault, History
<1>3. Recorded => history.mishaps \subseteq history'.mishaps
  BY <1>1, <1>2 DEF Recorded, History
<1> QED  BY <1>2, <1>3

\* A stack of a manifest that is about to be saved stands when it will be on it.
Saving == Has("all", "save")
Standing(s) == IF Saving THEN cmd.left[s] ELSE home.manifest[s]
\* Started by an install that has still to put it on record.
Starting(s) == s # "tts" /\ Has(s, "record") /\ Past(s, "up")
Clean(s) == /\ Without({"torn", "failed", "renamed", "wiped"})
            /\ s # "tts" => Without({"interrupted"})
Safe(s) ==
  /\ container[s] # {} => home[s] \in Compose /\ Own(s, home[s]) = container[s]
  /\ container[s] # {} => Starting(s) \/ (home.manifest[s] # None /\ Standing(s) # None)
  /\ Has(s, "up") /\ ~Has(s, "record") => home.manifest[s] # None
  /\ Has(s, "update") /\ cmd.left[s] # None => home.manifest[s] # None
\* The voice stack is down before its client and its files are removed.
Gone == /\ Has("tts", "no-client") \/ Has("tts", "wipe")
        /\ Past("tts", "remove")
        => container["tts"] = {}
\* Only an interrupt can have torn the manifest.
Legible == home.manifest = Torn => {"torn", "interrupted"} \subseteq history.mishaps
StacksInv == Legible /\ (\A s \in Stack : Clean(s) => Safe(s)) /\ (Clean("tts") => Gone)

LEMMA CleanBefore ==
  ASSUME NEW s, history.mishaps \subseteq history'.mishaps, Clean(s)' PROVE Clean(s)
  BY DEF Clean, Without

\* Only the record of a started stack comes between `up` and it.
LEMMA NotStarting ==
  ASSUME Orderly, NEW c, NEW x, At(c, x), RankOf(c, x) \notin {44, 54}, NEW s \in Stack
  PROVE  ~Starting(s)
<1> SUFFICES ASSUME Starting(s) PROVE FALSE
  OBVIOUS
<1>1. RankOf(s, "up") < RankOf(c, x) /\ RankOf(c, x) <= RankOf(s, "record") /\ s # "tts"
  BY HeadFacts DEF Starting
<1>2. RankOf(c, x) \in Nat
  BY RankIsNat
<1>3. CASE s = "ollama"
  BY <1>1, <1>2, <1>3, StackRanks
<1>4. CASE s = "webui"
  BY <1>1, <1>2, <1>4, StackRanks
<1> QED  BY <1>1, <1>3, <1>4 DEF Stack

\* A step that makes no call of a stack.
Benign(s) ==
  \/ cmd' = cmd
  \/ cmd' = None /\ (Clean(s)' => ~Starting(s))
  \/ \E c, x : /\ Takes(c, x) /\ <<c, x>> \notin {<<s, "record">>, <<"all", "save">>}
               /\ cmd' # None => cmd'.left[s] = cmd.left[s]

LEMMA SafeStep ==
  ASSUME NEW s \in Stack, Clean(s) => Safe(s), Benign(s), history.mishaps \subseteq history'.mishaps,
         container'[s] # {} => container[s] # {},
         Clean(s)' /\ container'[s] # {} => home'[s] \in Compose /\ Own(s, home[s])' = container'[s],
         Clean(s)' => home'.manifest[s] = home.manifest[s]
  PROVE  Clean(s)' => Safe(s)'
<1> SUFFICES ASSUME Clean(s)' PROVE Safe(s)'
  OBVIOUS
<1>1. Safe(s) /\ home'.manifest[s] = home.manifest[s]
  BY CleanBefore
<1>3. CASE cmd' = cmd
  <2>1. /\ Has(s, "up")' = Has(s, "up") /\ Has(s, "record")' = Has(s, "record")
        /\ Has(s, "update")' = Has(s, "update") /\ Past(s, "up")' = Past(s, "up")
        /\ Saving' = Saving
    BY <1>3 DEF Has, Past, In, Behind, Remaining, Saving
  <2>2. Starting(s)' = Starting(s) /\ Standing(s)' = Standing(s)
    BY <1>1, <1>3, <2>1 DEF Starting, Standing
  <2> QED  BY <1>1, <1>3, <2>1, <2>2 DEF Safe
<1>4. CASE cmd' = None /\ ~Starting(s)
  <2>1. Remaining' = {}
    BY <1>4 DEF Remaining
  <2>2. ~Saving' /\ ~Has(s, "up")' /\ ~Has(s, "update")'
    BY <2>1, NoneRemain DEF Saving
  <2>3. Standing(s)' = home'.manifest[s]
    BY <2>2 DEF Standing
  <2> QED  BY <1>1, <1>4, <2>2, <2>3 DEF Safe
<1>5. ASSUME NEW c, NEW x, Takes(c, x), <<c, x>> \notin {<<s, "record">>, <<"all", "save">>},
             cmd' # None => cmd'.left[s] = cmd.left[s]
      PROVE  Safe(s)'
  <2>1. /\ Has(s, "up")' => Has(s, "up")
        /\ Has(s, "update")' => Has(s, "update")
        /\ Has(s, "record")' <=> Has(s, "record")
        /\ Saving' <=> Saving
        /\ Past(s, "up") => Past(s, "up")'
    BY <1>5, TakesFacts DEF Saving
  <2>2. Has(s, "update")' => cmd' # None
    BY SomeRemain DEF Has, In, Remaining
  <2>3. Saving' => cmd' # None
    BY DEF Saving, Has, In, Remaining
  <2>4. (Starting(s) => Starting(s)') /\ Standing(s)' = Standing(s)
    BY <1>1, <1>5, <2>1, <2>3 DEF Starting, Standing
  <2> QED  BY <1>1, <1>5, <2>1, <2>2, <2>4 DEF Safe
<1> QED  BY <1>3, <1>4, <1>5 DEF Benign

LEMMA SafeAside ==
  ASSUME NEW s \in Stack, Clean(s) => Safe(s), Benign(s), history.mishaps \subseteq history'.mishaps,
         container'[s] = container[s], home'[s] = home[s],
         Clean(s)' => home'.manifest[s] = home.manifest[s]
  PROVE  Clean(s)' => Safe(s)'
<1>1. Own(s, home[s])' = Own(s, home[s])
  BY DEF Own
<1>2. Clean(s)' => Safe(s)
  BY CleanBefore
<1>3. Clean(s)' /\ container'[s] # {} => home'[s] \in Compose /\ Own(s, home[s])' = container'[s]
  BY <1>1, <1>2 DEF Safe
<1> QED  BY <1>3, SafeStep

LEMMA GoneAside ==
  ASSUME Orderly, Clean("tts") => Gone, history.mishaps \subseteq history'.mishaps,
         container["tts"] = {} => container'["tts"] = {},
         \/ cmd' = cmd
         \/ cmd' = None
         \/ \E c, x : Takes(c, x) /\ <<c, x>> # <<"tts", "remove">>
  PROVE  Clean("tts")' => Gone'
<1> SUFFICES ASSUME Clean("tts")' PROVE Gone'
  OBVIOUS
<1>1. Gone
  BY CleanBefore
<1>2. CASE cmd' = cmd
  <2>1. /\ Has("tts", "no-client")' = Has("tts", "no-client") /\ Has("tts", "wipe")' = Has("tts", "wipe")
        /\ Past("tts", "remove")' = Past("tts", "remove")
    BY <1>2 DEF Has, Past, In, Behind, Remaining
  <2> QED  BY <1>1, <2>1 DEF Gone
<1>3. CASE cmd' = None
  <2>1. Remaining' = {}
    BY <1>3 DEF Remaining
  <2> QED  BY <2>1, NoneRemain DEF Gone
<1>4. ASSUME NEW c, NEW x, Takes(c, x), <<c, x>> # <<"tts", "remove">> PROVE Gone'
  <2>1. /\ Has("tts", "no-client")' => Has("tts", "no-client")
        /\ Has("tts", "wipe")' => Has("tts", "wipe")
    BY <1>4, TakesFacts
  <2>2. Has("tts", "no-client") \/ Has("tts", "wipe") => Due("tts", "remove")
    BY SomeRemain DEF Orderly, Complete, Has, Due
  <2>3. Due("tts", "remove") => (Past("tts", "remove")' => Past("tts", "remove"))
    BY <1>4, TakesFacts
  <2> QED  BY <1>1, <2>1, <2>2, <2>3 DEF Gone
<1> QED  BY <1>2, <1>3, <1>4

\* A step that leaves the stacks, their files and their records alone.
LEMMA StacksAside ==
  ASSUME Ground, StacksInv, Recorded, container' = container,
         \A s \in Stack : home'[s] = home[s], home'.manifest = home.manifest,
         \/ cmd' = cmd
         \/ \E c, x : /\ At(c, x) /\ RankOf(c, x) \notin {3, 8, 44, 54, 66}
                      /\ \/ Fails
                         \/ /\ Takes(c, x)
                            /\ cmd' # None => \A s \in Stack : cmd'.left[s] = cmd.left[s]
  PROVE  StacksInv'
<1>1. history.mishaps \subseteq history'.mishaps
  BY Mishaps
<1>2. Legible'
  BY <1>1 DEF StacksInv, Legible
<1>3. ASSUME NEW s \in Stack PROVE Benign(s)
  <2>1. ASSUME NEW c, NEW x, At(c, x), RankOf(c, x) \notin {3, 8, 44, 54, 66}, Fails PROVE Benign(s)
    BY <2>1, NotStarting DEF Benign, Fails, Ground
  <2>2. ASSUME NEW c, NEW x, Takes(c, x), RankOf(c, x) \notin {3, 8, 44, 54, 66},
               cmd' # None => cmd'.left[s] = cmd.left[s]
        PROVE  Benign(s)
    <3>1. RankOf("all", "save") = 8 /\ RankOf(s, "record") \in {44, 54, 66}
      BY StackRanks, VoiceRanks DEF Stack
    <3>2. <<c, x>> \notin {<<s, "record">>, <<"all", "save">>}
      BY <2>2, <3>1
    <3> QED  BY <2>2, <3>2 DEF Benign
  <2>3. ASSUME cmd' = cmd PROVE Benign(s)
    BY <2>3 DEF Benign
  <2> QED  BY <2>1, <2>2, <2>3
<1>4. ASSUME NEW s \in Stack PROVE Clean(s)' => Safe(s)'
  <2>1. (Clean(s) => Safe(s)) /\ Benign(s) /\ container'[s] = container[s] /\ home'[s] = home[s]
    BY <1>3 DEF StacksInv
  <2> QED  BY <1>1, <2>1, SafeAside
<1>5. Clean("tts")' => Gone'
  <2>1. RankOf("tts", "remove") = 3
    BY VoiceRanks
  <2>2. \/ cmd' = cmd \/ cmd' = None
        \/ \E c, x : Takes(c, x) /\ <<c, x>> # <<"tts", "remove">>
    BY <2>1 DEF Fails
  <2>3. Orderly /\ (Clean("tts") => Gone) /\ (container["tts"] = {} => container'["tts"] = {})
    BY DEF Ground, StacksInv
  <2> QED  BY <1>1, <2>2, <2>3, GoneAside
<1> QED  BY <1>2, <1>4, <1>5 DEF StacksInv

OtherField == {"models", "secrets", "config", "connections", "weights", "prefs", "client"}

LEMMA OtherFields ==
  ASSUME Files
  PROVE  \A f \in OtherField : \A v : /\ [home EXCEPT ![f] = v].manifest = home.manifest
                                      /\ \A s \in Stack : [home EXCEPT ![f] = v][s] = home[s]
  BY DEF OtherField, Files, HomeSet, Stack

LEMMA OtherFieldStep ==
  ASSUME Files, home' = home \/ \E f \in OtherField : \E v : home' = [home EXCEPT ![f] = v]
  PROVE  home'.manifest = home.manifest /\ \A s \in Stack : home'[s] = home[s]
<1>1. \A f \in OtherField : \A v :
        home' = [home EXCEPT ![f] = v] =>
          home'.manifest = home.manifest /\ \A s \in Stack : home'[s] = home[s]
  BY OtherFields
<1> QED  BY <1>1

LEMMA StabRanksAside ==
  \A x \in {"binary", "models", "secrets", "check", "docker", "stab-models", "stab-secrets",
            "templates", "pi-agent", "load", "files", "marker", "refresh", "seed", "sync",
            "build", "stop", "refresh-again", "seed-again", "run", "attach", "remove", "wipe"} :
    RankOf("stab", x) \notin {3, 8, 44, 54, 66}
  BY DEF RankOf, StabRank

LEMMA StacksByStab == ASSUME Ground, StacksInv, StabCall, ~WipeHome PROVE StacksInv'
<1> DEFINE X == {"binary", "models", "secrets", "check", "docker", "stab-models", "stab-secrets",
                 "templates", "pi-agent", "load", "files", "marker", "refresh", "seed", "sync",
                 "build", "stop", "refresh-again", "seed-again", "run", "attach", "remove", "wipe"}
           Same == /\ container' = container /\ home'.manifest = home.manifest
                   /\ \A s \in Stack : home'[s] = home[s]
           Went == \E x \in X : /\ At("stab", x)
                                /\ \/ Fails
                                   \/ /\ Takes("stab", x)
                                      /\ cmd' # None => \A s \in Stack : cmd'.left[s] = cmd.left[s]
<1>0. Files /\ Orderly /\ home \in HomeSet
  BY DEF Ground, Files
<1>1. Recorded
  BY DEF StabCall, InstallStab, BakedModels, BakedSecrets, CheckStab, NeedsDocker, InstallPiAgent,
         BuildImage, Tries, Templates, RemoveStab, WipeHome, LoadConfig, SeedFiles, SeedMarker,
         RefreshTunnels, Refreshes, CopyModels, Seeds, StopAgent, RunAgent, Recorded
<1>2. Same
  <2>1. \A f \in OtherField : \A v : home' = [home EXCEPT ![f] = v] /\ container' = container => Same
    BY <1>0, OtherFields
  <2>2. home' = home /\ container' = container => Same
    OBVIOUS
  <2>3. {"models", "secrets", "config"} \subseteq OtherField
    BY DEF OtherField
  <2>4. CASE Templates
    BY <1>0, <2>4 DEF Templates, HomeSet, Stack
  <2>5. ASSUME NEW call, NEW baked, BakedModels(call, baked) \/ BakedSecrets(call, baked) PROVE Same
    BY <2>1, <2>2, <2>3, <2>5 DEF BakedModels, BakedSecrets
  <2>6. CASE CheckStab \/ LoadConfig \/ RefreshTunnels
    BY <2>1, <2>2, <2>3, <2>6 DEF CheckStab, LoadConfig, RefreshTunnels, Refreshes, Configured
  <2>7. CASE \/ InstallStab \/ NeedsDocker \/ InstallPiAgent \/ BuildImage \/ RemoveStab
             \/ SeedFiles \/ SeedMarker \/ CopyModels
             \/ StopAgent \/ RunAgent
    BY <2>2, <2>7 DEF InstallStab, NeedsDocker, InstallPiAgent, BuildImage, Tries, RemoveStab,
                      SeedFiles, SeedMarker, CopyModels, Seeds, StopAgent, RunAgent
  <2> HIDE DEF Same
  <2> QED  BY <2>4, <2>5, <2>6, <2>7 DEF StabCall
<1>3. Went
  <2>1. \A x \in X : At("stab", x) /\ Done => Went
    BY <1>0, DoneStep DEF Succeeds
  <2>2. \A x \in X : At("stab", x) /\ Fails => Went
    OBVIOUS
  <2>3. CASE RemoveStab
    <3>1. At("stab", "remove") /\ cmd' = After([cmd EXCEPT !.left["stab"] = None]) /\ "stab" \in Component
      BY <2>3 DEF RemoveStab, Component
    <3>2. Takes("stab", "remove") /\ (cmd' # None => cmd'.left = [cmd.left EXCEPT !["stab"] = None])
      BY <1>0, <3>1, StrikeStep
    <3>3. cmd.left \in Manifest
      BY <1>0, <3>1, HeadFacts DEF Running
    <3>4. cmd' # None => \A s \in Stack : cmd'.left[s] = cmd.left[s]
      BY <3>2, <3>3 DEF Manifest, Stack, Component, Legacy
    <3> QED  BY <3>1, <3>2, <3>4
  <2>4. ASSUME NEW x \in {"models", "stab-models"}, NEW baked, BakedModels(x, baked) PROVE Went
    BY <2>1, <2>2, <2>4 DEF BakedModels
  <2>5. ASSUME NEW x \in {"secrets", "stab-secrets"}, NEW baked, BakedSecrets(x, baked) PROVE Went
    BY <2>1, <2>2, <2>5 DEF BakedSecrets
  <2>6. CASE InstallStab \/ CheckStab \/ NeedsDocker \/ InstallPiAgent \/ BuildImage \/ Templates
    BY <2>1, <2>2, <2>6 DEF InstallStab, CheckStab, NeedsDocker, InstallPiAgent, BuildImage,
                            Tries, Templates
  <2>7. CASE LoadConfig \/ SeedFiles \/ SeedMarker \/ RefreshTunnels \/ CopyModels \/ StopAgent \/ RunAgent
    BY <2>1, <2>2, <2>7 DEF LoadConfig, SeedFiles, SeedMarker, RefreshTunnels, Refreshes,
                            CopyModels, Seeds, StopAgent, RunAgent
  <2>8. \A m \in Merges : m[1] \in {"models", "stab-models"}
    BY DEF Merges
  <2>9. \A k \in Keys : k[1] \in {"secrets", "stab-secrets"}
    BY DEF Keys
  <2> HIDE DEF Went
  <2> QED  BY <2>3, <2>4, <2>5, <2>6, <2>7, <2>8, <2>9 DEF StabCall
<1> QED  BY <1>1, <1>2, <1>3, StabRanksAside, StacksAside

LEMMA StacksByUser == ASSUME Ground, StacksInv, User PROVE StacksInv'
<1> DEFINE Same == home'.manifest = home.manifest /\ \A s \in Stack : home'[s] = home[s]
<1>0. Files
  BY DEF Ground
<1>1. Recorded /\ cmd' = cmd /\ container' = container
  BY DEF User, EditModels, EditSecrets, EditDockerfile, GetRelease, Chmod, OpenClient, Edit,
         CloseClient, Detach, Recorded
<1>2. \A f \in OtherField : \A v : home' = [home EXCEPT ![f] = v] => Same
  BY <1>0, OtherFields
<1>3. {"models", "secrets", "prefs"} \subseteq OtherField
  BY DEF OtherField
<1>4. home' = home \/ \E f \in OtherField : \E v : home' = [home EXCEPT ![f] = v]
  BY <1>3 DEF User, EditModels, EditSecrets, EditDockerfile, GetRelease, Chmod, OpenClient, Edit,
              CloseClient, Detach
<1>5. Same
  BY <1>2, <1>4
<1> QED  BY <1>1, <1>5, StacksAside

\* A call of one stack, as the others see it.
LEMMA OthersSafe ==
  ASSUME Ground, StacksInv, NEW a \in Stack, NEW x, NEW s \in Stack, s # a,
         history.mishaps \subseteq history'.mishaps,
         \/ At(a, x) /\ RankOf(a, x) \notin {44, 54} /\ Fails
         \/ Takes(a, x) /\ (cmd' # None => cmd'.left[s] = cmd.left[s]),
         container'[s] = container[s], home'[s] = home[s],
         Clean(s)' => home'.manifest[s] = home.manifest[s]
  PROVE  Clean(s)' => Safe(s)'
<1>1. "all" \notin Stack
  BY DEF Stack
<1>2. Benign(s)
  BY <1>1, NotStarting DEF Benign, Ground, Fails
<1> QED  BY <1>2, SafeAside DEF StacksInv

\* Without containers, and with a manifest still to save, nothing is at stake.
LEMMA EmptySafe ==
  ASSUME Ground, NEW s \in Stack, NEW c, NEW x, Takes(c, x), <<c, x>> # <<s, "record">>, Saving,
         container'[s] = {}
  PROVE  Safe(s)'
<1>1. /\ Has(s, "up")' => Has(s, "up")
      /\ Has(s, "update")' => Has(s, "update")
      /\ Has(s, "record")' <=> Has(s, "record")
  BY TakesFacts
<1>2. cmd # None
  BY SomeRemain DEF Saving
<1>3. (Has(s, "up") => Has(s, "record")) /\ ~Has(s, "update")
  BY <1>2 DEF Ground, Orderly, Complete, Has, Saving
<1> QED  BY <1>1, <1>3 DEF Safe

LEMMA MoreRanks ==
  /\ \A s \in Stack : /\ RankOf(s, "compose") \in {41, 51, 65} /\ RankOf(s, "up") \in {43, 53, 68}
                      /\ RankOf(s, "down") \in {45, 55, 70} /\ RankOf(s, "remove") \in {1, 2, 3}
                      /\ RankOf(s, "record") \in {44, 54, 66} /\ RankOf(s, "update") \in {81, 82, 83}
  /\ RankOf("all", "save") = 8
  BY DEF RankOf, StackRank, VoiceRank, Stack

LEMMA LegibleAside ==
  ASSUME StacksInv, history.mishaps \subseteq history'.mishaps, home'.manifest = home.manifest
  PROVE  Legible'
  BY DEF StacksInv, Legible

LEMMA StacksByCompose == ASSUME Ground, StacksInv, NEW a \in Stack, WriteCompose(a) PROVE StacksInv'
<1> DEFINE file == [name |-> cmd.opts.name, port |-> cmd.opts.port]
<1>0. /\ Orderly /\ At(a, "compose") /\ Done /\ cmd \in Running /\ home \in HomeSet
      /\ home' = [home EXCEPT ![a] = file] /\ container' = container
  BY DEF Ground, Files, WriteCompose, Orderly, At
<1>1. Succeeds(a, "compose")
  BY <1>0, DoneStep
<1>2. file \in Compose
  BY <1>0 DEF Running, Option, Compose
<1>3. history'.mishaps = history.mishaps \cup
        (IF a = "tts" /\ \E k \in container["tts"] : k.name # file.name THEN {"renamed"} ELSE {})
  BY Mishaps DEF WriteCompose
<1>4. history.mishaps \subseteq history'.mishaps
  BY <1>3
<1>5. Clean(a)' /\ a = "tts" => \A k \in container["tts"] : k.name = file.name
  BY <1>3 DEF Clean, Without
<1> HIDE DEF file
<1>6. /\ home'[a] = file /\ home'.manifest = home.manifest
      /\ \A s \in Stack : s # a => home'[s] = home[s]
  BY <1>0 DEF HomeSet, Stack
<1>7. Own(a, home[a])' = {k \in container[a] : a = "tts" => k.name = file.name}
  BY <1>0, <1>6 DEF Own
<1>8. Takes(a, "compose") /\ (cmd' # None => cmd'.left = cmd.left)
  BY <1>1 DEF Succeeds
<1>9. Clean(a)' => Safe(a)'
  <2>1. Clean(a)' => Own(a, home[a])' = container'[a]
    BY <1>0, <1>5, <1>7
  <2>2. <<a, "compose">> \notin {<<a, "record">>, <<"all", "save">>}
    OBVIOUS
  <2>3. Benign(a)
    BY <1>8, <2>2 DEF Benign
  <2>4. Clean(a) => Safe(a)
    BY DEF StacksInv
  <2> QED  BY <1>0, <1>2, <1>4, <1>6, <2>1, <2>3, <2>4, SafeStep
<1>10. ASSUME NEW s \in Stack, s # a PROVE Clean(s)' => Safe(s)'
  BY <1>0, <1>4, <1>6, <1>8, <1>10, OthersSafe
<1>11. Legible'
  BY <1>4, <1>6, LegibleAside
<1>12. Clean("tts")' => Gone'
  <2>1. <<a, "compose">> # <<"tts", "remove">>
    OBVIOUS
  <2> QED  BY <1>0, <1>4, <1>8, <2>1, GoneAside DEF StacksInv
<1> QED  BY <1>9, <1>10, <1>11, <1>12 DEF StacksInv

\* When all goes well a stack's containers are the one of its file.
LEMMA UppedFits ==
  ASSUME Files, NEW a \in Stack, Startable(a), Safe(a), home' = home, container' = Upped(a, home[a])
  PROVE  /\ home'[a] \in Compose /\ Own(a, home[a])' = container'[a]
         /\ \A s \in Stack : s # a => container'[s] = container[s]
<1>1. home[a] \in Compose /\ container \in [Stack -> SUBSET Compose]
  BY DEF Files, Startable
<1>2. container[a] \ Own(a, home[a]) = {}
  BY DEF Safe, Own
<1>3. container'[a] = {home[a]} /\ \A s \in Stack : s # a => container'[s] = container[s]
  BY <1>1, <1>2 DEF Upped
<1>4. Own(a, home[a])' = {home[a]}
  BY <1>3 DEF Own
<1> QED  BY <1>1, <1>3, <1>4

\* Once a mishap makes no stack clean, only the manifest matters.
LEMMA FailedStep ==
  ASSUME Ground, StacksInv, NEW m, Befalls(m) \/ Fault(m), m \cap {"torn", "failed", "wiped"} # {},
         home'.manifest = home.manifest
  PROVE  StacksInv'
<1>1. history'.mishaps = history.mishaps \cup m
  BY Mishaps
<1>2. \A s : ~Clean(s)'
  BY <1>1 DEF Clean, Without
<1>3. Legible'
  BY <1>1, LegibleAside
<1> QED  BY <1>2, <1>3 DEF StacksInv

LEMMA StacksByUp == ASSUME Ground, StacksInv, NEW a \in Stack, Up(a) PROVE StacksInv'
<1>0. /\ Files /\ Orderly /\ At(a, "up") /\ home' = home
      /\ container \in [Stack -> SUBSET Compose]
  BY DEF Ground, Files, Up
<1>1. RankOf(a, "up") \in {43, 53, 68}
  BY MoreRanks
<1>2. CASE Startable(a) /\ container' = Upped(a, home[a]) /\ Done /\ UNCHANGED history
  <2>1. Takes(a, "up") /\ (cmd' # None => cmd'.left = cmd.left)
    BY <1>0, <1>2, DoneStep DEF Succeeds
  <2>2. \A s \in Stack : s # a => container'[s] = container[s]
    BY <1>0, <1>2 DEF Upped
  <2>3. ASSUME NEW s \in Stack, s # a PROVE Clean(s)' => Safe(s)'
    BY <1>0, <1>2, <2>1, <2>2, <2>3, OthersSafe
  <2>4. ASSUME Clean(a)' PROVE Safe(a)'
    <3>1. Safe(a)
      BY <1>2, <2>4, CleanBefore DEF StacksInv
    <3>2. home'[a] \in Compose /\ Own(a, home[a])' = container'[a]
      BY <1>0, <1>2, <3>1, UppedFits
    <3>3. /\ ~Has(a, "up")' /\ (Has(a, "record")' <=> Has(a, "record")) /\ Past(a, "up")'
          /\ (Has(a, "update")' => Has(a, "update")) /\ (Saving' <=> Saving)
      <4>1. "all" # a
        BY DEF Stack
      <4> QED  BY <2>1, <4>1, TakesFacts DEF Saving, Takes
    <3>4. Has(a, "up") /\ cmd # None /\ (Has(a, "record") => RankOf(a, "up") <= RankOf(a, "record"))
      BY <1>0, HeadFacts
    <3>5. CASE Has(a, "record")
      <4>1. a # "tts"
        BY <3>4, <3>5, VoiceRanks
      <4>2. Starting(a)'
        BY <3>3, <3>5, <4>1 DEF Starting
      <4>3. Has(a, "update")' /\ cmd'.left[a] # None => home'.manifest[a] # None
        <5>1. Has(a, "update")' => cmd' # None
          BY DEF Has, In, Remaining
        <5> QED  BY <1>0, <2>1, <3>1, <3>3, <5>1 DEF Safe
      <4> QED  BY <3>2, <3>3, <4>2, <4>3 DEF Safe
    <3>6. CASE ~Has(a, "record")
      <4>1. home.manifest[a] # None
        BY <3>1, <3>4, <3>6 DEF Safe
      <4>2. ~Saving
        BY <1>0, <3>4, <3>6 DEF Orderly, Complete, Has, Saving
      <4>3. Standing(a)' = home.manifest[a]
        BY <1>0, <3>3, <4>2 DEF Standing
      <4> QED  BY <1>0, <3>2, <3>3, <4>1, <4>3 DEF Safe
    <3> QED  BY <3>5, <3>6
  <2>5. Legible'
    BY <1>0, <1>2, LegibleAside
  <2>6. Clean("tts")' => Gone'
    <3>1. CASE a # "tts"
      <4>1. container'["tts"] = container["tts"] /\ <<a, "up">> # <<"tts", "remove">>
        BY <2>2, <3>1 DEF Stack
      <4> QED  BY <1>0, <1>2, <2>1, <4>1, GoneAside DEF StacksInv
    <3>2. CASE a = "tts"
      <4>1. ~Has("tts", "no-client") /\ ~Has("tts", "wipe")
        BY <1>0, <3>2, HeadFacts, VoiceRanks
      <4>2. ~Has("tts", "no-client")' /\ ~Has("tts", "wipe")'
        BY <2>1, <4>1, TakesFacts
      <4> QED  BY <4>2 DEF Gone
    <3> QED  BY <3>1, <3>2
  <2> QED  BY <2>3, <2>4, <2>5, <2>6 DEF StacksInv
<1>3. CASE ~Startable(a) /\ Fails /\ UNCHANGED <<container, history>>
  <2>1. Recorded
    BY <1>3 DEF Recorded
  <2> QED  BY <1>0, <1>1, <1>3, <2>1, StacksAside
<1>4. CASE Fault({"failed"})
  BY <1>0, <1>4, FailedStep
<1> QED  BY <1>2, <1>3, <1>4 DEF Up

LEMMA StacksByUpdate == ASSUME Ground, StacksInv, NEW a \in Stack, UpdateStack(a) PROVE StacksInv'
<1>0. /\ Files /\ Orderly /\ At(a, "update") /\ home' = home /\ Done
      /\ container \in [Stack -> SUBSET Compose]
  BY DEF Ground, Files, UpdateStack
<1>1. RankOf(a, "update") \in {81, 82, 83}
  BY MoreRanks
<1>2. Takes(a, "update") /\ (cmd' # None => cmd'.left = cmd.left)
  BY <1>0, DoneStep DEF Succeeds
<1>3. CASE UNCHANGED <<container, history>>
  <2>1. Recorded
    BY <1>3 DEF Recorded
  <2> QED  BY <1>0, <1>1, <1>2, <1>3, <2>1, StacksAside
<1>4. CASE Fault({"failed"})
  BY <1>0, <1>4, FailedStep
<1>5. CASE /\ cmd.left[a] # None /\ Startable(a) /\ container' = Upped(a, home[a])
           /\ UNCHANGED history
  <2>2. \A s \in Stack : s # a => container'[s] = container[s]
    BY <1>0, <1>5 DEF Upped
  <2>3. ASSUME NEW s \in Stack, s # a PROVE Clean(s)' => Safe(s)'
    BY <1>0, <1>2, <1>5, <2>2, <2>3, OthersSafe
  <2>4. ASSUME Clean(a)' PROVE Safe(a)'
    <3>1. Safe(a)
      BY <1>5, <2>4, CleanBefore DEF StacksInv
    <3>2. home'[a] \in Compose /\ Own(a, home[a])' = container'[a]
      BY <1>0, <1>5, <3>1, UppedFits
    <3>3. ~Has(a, "update")' /\ (Saving' => Saving) /\ Has(a, "update") /\ cmd # None
      BY <1>0, <1>2, TakesFacts, HeadFacts DEF Saving
    <3>4. home.manifest[a] # None
      BY <1>5, <3>1, <3>3 DEF Safe
    <3>5. ~Saving
      BY <1>0, <3>3 DEF Orderly, Complete, Has, Saving
    <3>6. Standing(a)' = home.manifest[a]
      BY <1>0, <3>3, <3>5 DEF Standing
    <3> QED  BY <1>0, <3>2, <3>3, <3>4, <3>6 DEF Safe
  <2>5. Legible'
    BY <1>0, <1>5, LegibleAside
  <2>6. Clean("tts")' => Gone'
    <3>1. CASE a # "tts"
      <4>1. container'["tts"] = container["tts"] /\ <<a, "update">> # <<"tts", "remove">>
        BY <2>2, <3>1 DEF Stack
      <4> QED  BY <1>0, <1>2, <1>5, <4>1, GoneAside DEF StacksInv
    <3>2. CASE a = "tts"
      <4>1. ~Has("tts", "no-client") /\ ~Has("tts", "wipe")
        BY <1>0, <3>2, HeadFacts, VoiceRanks
      <4>2. ~Has("tts", "no-client")' /\ ~Has("tts", "wipe")'
        BY <1>2, <4>1, TakesFacts
      <4> QED  BY <4>2 DEF Gone
    <3> QED  BY <3>1, <3>2
  <2> QED  BY <2>3, <2>4, <2>5, <2>6 DEF StacksInv
<1> QED  BY <1>3, <1>4, <1>5 DEF UpdateStack

\* Downed takes every container of a stack that is as it should be.
LEMMA DownedEmpties ==
  ASSUME Files, NEW a \in Stack, container' = Downed(a, home[a])
  PROVE  /\ Safe(a) => container'[a] = {}
         /\ \A s \in Stack : s # a => container'[s] = container[s]
<1>1. container \in [Stack -> SUBSET Compose]
  BY DEF Files
<1>2. container'[a] = container[a] \ Own(a, home[a])
  BY <1>1 DEF Downed
<1>3. Safe(a) => container[a] \ Own(a, home[a]) = {}
  BY DEF Safe, Own
<1> QED  BY <1>1, <1>2, <1>3 DEF Downed

LEMMA StacksByDown == ASSUME Ground, StacksInv, NEW a \in Stack, Down(a) PROVE StacksInv'
<1>0. Files /\ Orderly /\ At(a, "down") /\ home' = home
  BY DEF Ground, Down
<1>1. RankOf(a, "down") \in {45, 55, 70}
  BY MoreRanks
<1>2. CASE home[a] \in Compose /\ container' = Downed(a, home[a]) /\ Done /\ UNCHANGED history
  <2>1. Takes(a, "down") /\ (cmd' # None => cmd'.left = cmd.left)
    BY <1>0, <1>2, DoneStep DEF Succeeds
  <2>2. \A s \in Stack : s # a => container'[s] = container[s]
    BY <1>0, <1>2, DownedEmpties
  <2>3. ASSUME NEW s \in Stack, s # a PROVE Clean(s)' => Safe(s)'
    BY <1>0, <1>2, <2>1, <2>2, <2>3, OthersSafe
  <2>4. ASSUME Clean(a)' PROVE Safe(a)'
    <3>1. Safe(a)
      BY <1>2, <2>4, CleanBefore DEF StacksInv
    <3>2. container'[a] = {}
      BY <1>0, <1>2, <3>1, DownedEmpties
    <3>3. Benign(a)
      <4>1. <<a, "down">> \notin {<<a, "record">>, <<"all", "save">>}
        OBVIOUS
      <4> QED  BY <2>1, <4>1 DEF Benign
    <3> QED  BY <1>0, <1>2, <2>4, <3>1, <3>2, <3>3, SafeStep
  <2>5. Legible'
    BY <1>0, <1>2, LegibleAside
  <2>6. Clean("tts")' => Gone'
    <3>1. container["tts"] = {} => container'["tts"] = {}
      BY <1>0, <1>2 DEF Downed, Files, Stack
    <3>2. <<a, "down">> # <<"tts", "remove">>
      OBVIOUS
    <3> QED  BY <1>0, <1>2, <2>1, <3>1, <3>2, GoneAside DEF StacksInv
  <2> QED  BY <2>3, <2>4, <2>5, <2>6 DEF StacksInv
<1>3. CASE Fails /\ UNCHANGED <<container, history>>
  <2>1. Recorded
    BY <1>3 DEF Recorded
  <2> QED  BY <1>0, <1>1, <1>3, <2>1, StacksAside
<1>4. CASE Fault({"failed"})
  BY <1>0, <1>4, FailedStep
<1> QED  BY <1>2, <1>3, <1>4 DEF Down

LEMMA StacksByRemove == ASSUME Ground, StacksInv, NEW a \in Stack, RemoveStack(a) PROVE StacksInv'
<1>0. /\ Files /\ Orderly /\ At(a, "remove") /\ home' = home
      /\ container \in [Stack -> SUBSET Compose] /\ a \in Component
  BY DEF Ground, Files, RemoveStack, Component
<1>1. RankOf(a, "remove") \in {1, 2, 3}
  BY MoreRanks
<1>2. Has(a, "remove") /\ cmd # None /\ cmd \in Running
  BY <1>0, HeadFacts
<1>3. Saving
  BY <1>0, <1>2 DEF Orderly, Complete, Has, Saving
<1>4. Takes(a, "remove") /\ (\A s \in Stack : s # a => (cmd' # None => cmd'.left[s] = cmd.left[s]))
  <2>1. CASE a = "tts"
    BY <1>0, <2>1, DoneStep DEF RemoveStack, Done, Succeeds
  <2>2. CASE a # "tts"
    <3>1. cmd' = After([cmd EXCEPT !.left[a] = None])
      BY <2>2 DEF RemoveStack
    <3>2. Takes(a, "remove") /\ (cmd' # None => cmd'.left = [cmd.left EXCEPT ![a] = None])
      BY <1>0, <3>1, StrikeStep
    <3> QED  BY <1>2, <3>2 DEF Running, Manifest, Component
  <2> QED  BY <2>1, <2>2
<1>5. CASE Fault({"failed"})
  BY <1>0, <1>5, FailedStep
<1>6. CASE /\ UNCHANGED history
           /\ \/ container' = container /\ (cmd.left[a] = None \/ home[a] \notin Compose)
              \/ container' = Downed(a, home[a])
  <2>1. \A s \in Stack : s # a => container'[s] = container[s]
    BY <1>0, <1>6, DownedEmpties
  <2>2. ASSUME NEW s \in Stack, s # a PROVE Clean(s)' => Safe(s)'
    BY <1>0, <1>4, <1>6, <2>1, <2>2, OthersSafe
  <2>3. ASSUME Clean(a)' PROVE container'[a] = {}
    <3>1. Safe(a)
      BY <1>6, <2>3, CleanBefore DEF StacksInv
    <3>2. ~Starting(a)
      BY <1>0, <1>1, NotStarting
    <3>3. container[a] # {} => home[a] \in Compose /\ cmd.left[a] # None
      BY <1>3, <3>1, <3>2 DEF Safe, Standing
    <3> QED  BY <1>0, <1>6, <3>1, <3>3, DownedEmpties
  <2>4. ASSUME Clean(a)' PROVE Safe(a)'
    <3>1. <<a, "remove">> # <<a, "record">>
      OBVIOUS
    <3> QED  BY <1>3, <1>4, <2>3, <2>4, <3>1, EmptySafe
  <2>5. Legible'
    BY <1>0, <1>6, LegibleAside
  <2>6. Clean("tts")' => Gone'
    <3>1. CASE a # "tts"
      <4>1. container'["tts"] = container["tts"] /\ <<a, "remove">> # <<"tts", "remove">>
        BY <2>1, <3>1 DEF Stack
      <4> QED  BY <1>0, <1>4, <1>6, <4>1, GoneAside DEF StacksInv
    <3>2. CASE a = "tts"
      BY <2>3, <3>2 DEF Gone
    <3> QED  BY <3>1, <3>2
  <2> QED  BY <2>2, <2>4, <2>5, <2>6 DEF StacksInv
<1> QED  BY <1>5, <1>6 DEF RemoveStack

LEMMA StacksByEnv == ASSUME Ground, StacksInv, WriteEnv PROVE StacksInv'
<1>0. Files /\ Orderly /\ At("webui", "env") /\ container' = container /\ Recorded
  BY DEF Ground, WriteEnv, Recorded
<1>1. home' = home \/ \E f \in OtherField : \E v : home' = [home EXCEPT ![f] = v]
  BY DEF WriteEnv, OtherField
<1>2. home'.manifest = home.manifest /\ \A s \in Stack : home'[s] = home[s]
  BY <1>0, <1>1, OtherFieldStep
<1>3. Fails \/ (Takes("webui", "env") /\ (cmd' # None => cmd'.left = cmd.left))
  BY <1>0, DoneStep DEF WriteEnv, Succeeds
<1> QED  BY <1>0, <1>2, <1>3, StackRanks, StacksAside

LEMMA StacksByTakeOver == ASSUME Ground, StacksInv, TakeOver PROVE StacksInv'
<1>0. /\ Files /\ Orderly /\ At("tts", "take-over") /\ home' = home /\ "tts" \in Stack
      /\ container \in [Stack -> SUBSET Compose]
  BY DEF Ground, Files, TakeOver, Stack
<1>1. CASE Fault({"failed"})
  BY <1>0, <1>1, FailedStep
<1>2. CASE container' = Downed("tts", cmd.opts) /\ Done /\ UNCHANGED history
  <2>1. Takes("tts", "take-over") /\ (cmd' # None => cmd'.left = cmd.left)
    BY <1>0, <1>2, DoneStep DEF Succeeds
  <2>2. container'["tts"] \subseteq container["tts"] /\ \A s \in Stack : s # "tts" => container'[s] = container[s]
    BY <1>0, <1>2 DEF Downed
  <2>3. ASSUME NEW s \in Stack, s # "tts" PROVE Clean(s)' => Safe(s)'
    BY <1>0, <1>2, <2>1, <2>2, <2>3, OthersSafe
  <2>4. ASSUME Clean("tts")' PROVE Safe("tts")'
    <3>1. Safe("tts")
      BY <1>0, <1>2, <2>4, CleanBefore DEF StacksInv
    <3>2. container'["tts"] # {} => home'["tts"] \in Compose /\ Own("tts", home["tts"])' = container'["tts"]
      BY <1>0, <2>2, <3>1 DEF Safe, Own
    <3>3. Benign("tts")
      BY <2>1 DEF Benign
    <3>4. container'["tts"] # {} => container["tts"] # {}
      BY <2>2
    <3> QED  BY <1>0, <1>2, <2>4, <3>1, <3>2, <3>3, <3>4, SafeStep
  <2>5. Legible'
    BY <1>0, <1>2, LegibleAside
  <2>6. Clean("tts")' => Gone'
    BY <1>0, <1>2, <2>1, <2>2, GoneAside DEF StacksInv
  <2> QED  BY <2>3, <2>4, <2>5, <2>6 DEF StacksInv
<1> QED  BY <1>1, <1>2 DEF TakeOver

\* The voice stack is down when its client and its files go.
LEMMA DownByThen ==
  ASSUME Ground, StacksInv, Clean("tts"),
         At("tts", "no-client") \/ At("tts", "wipe")
  PROVE  container["tts"] = {} /\ Saving
<1>1. PICK x \in {"no-client", "wipe"} : At("tts", x)
  OBVIOUS
<1>2. Orderly
  BY DEF Ground
<1>3. Has("tts", x) /\ cmd # None /\ (Has("tts", "remove") => RankOf("tts", x) <= RankOf("tts", "remove"))
  BY <1>1, <1>2, HeadFacts
<1>4. ~Has("tts", "remove")
  BY <1>3, VoiceRanks
<1>5. Saving /\ Due("tts", "remove")
  BY <1>2, <1>3 DEF Orderly, Complete, Has, Saving, Due
<1>6. Past("tts", "remove")
  BY <1>4, <1>5 DEF Due, Met, Has, Past
<1> QED  BY <1>3, <1>5, <1>6 DEF StacksInv, Gone

LEMMA StacksByRemoveClient == ASSUME Ground, StacksInv, RemoveClient PROVE StacksInv'
<1>0. /\ Files /\ Orderly /\ At("tts", "no-client") /\ container' = container /\ "tts" \in Component
      /\ "tts" \in Stack /\ cmd' = After([cmd EXCEPT !.left["tts"] = None]) /\ Recorded
  BY DEF Ground, RemoveClient, Component, Stack, Recorded
<1>1. home' = home \/ \E f \in OtherField : \E v : home' = [home EXCEPT ![f] = v]
  BY DEF RemoveClient, OtherField
<1>2. home'.manifest = home.manifest /\ \A s \in Stack : home'[s] = home[s]
  BY <1>0, <1>1, OtherFieldStep
<1>3. history.mishaps \subseteq history'.mishaps
  BY <1>0, Mishaps
<1>4. /\ Takes("tts", "no-client")
      /\ \A s \in Stack : s # "tts" => (cmd' # None => cmd'.left[s] = cmd.left[s])
  <2>1. Takes("tts", "no-client") /\ (cmd' # None => cmd'.left = [cmd.left EXCEPT !["tts"] = None])
    BY <1>0, StrikeStep
  <2>2. cmd \in Running
    BY <1>0, HeadFacts
  <2> QED  BY <2>1, <2>2 DEF Running, Manifest, Component
<1>5. ASSUME NEW s \in Stack, s # "tts" PROVE Clean(s)' => Safe(s)'
  BY <1>0, <1>2, <1>3, <1>4, <1>5, OthersSafe
<1>6. ASSUME Clean("tts")' PROVE Safe("tts")'
  <2>1. container["tts"] = {} /\ Saving
    BY <1>0, <1>3, <1>6, CleanBefore, DownByThen
  <2> QED  BY <1>0, <1>4, <2>1, EmptySafe
<1>7. Legible'
  BY <1>2, <1>3, LegibleAside
<1>8. Clean("tts")' => Gone'
  BY <1>0, <1>3, <1>4, GoneAside DEF StacksInv
<1> QED  BY <1>5, <1>6, <1>7, <1>8 DEF StacksInv

LEMMA StacksByWipeTts == ASSUME Ground, StacksInv, WipeTts PROVE StacksInv'
<1>0. /\ Files /\ Orderly /\ At("tts", "wipe") /\ container' = container /\ "tts" \in Stack
      /\ home \in HomeSet /\ Recorded /\ Done
      /\ home' = [home EXCEPT !.tts = None, !.weights = FALSE, !.prefs = None, !.client = None]
  BY DEF Ground, Files, WipeTts, Stack, Recorded
<1>1. home'.manifest = home.manifest /\ \A s \in Stack : s # "tts" => home'[s] = home[s]
  BY <1>0 DEF HomeSet, Stack
<1>2. history.mishaps \subseteq history'.mishaps
  BY <1>0, Mishaps
<1>3. Takes("tts", "wipe") /\ (cmd' # None => cmd'.left = cmd.left)
  BY <1>0, DoneStep DEF Succeeds
<1>4. ASSUME NEW s \in Stack, s # "tts" PROVE Clean(s)' => Safe(s)'
  BY <1>0, <1>1, <1>2, <1>3, <1>4, OthersSafe
<1>5. ASSUME Clean("tts")' PROVE Safe("tts")'
  <2>1. container["tts"] = {} /\ Saving
    BY <1>0, <1>2, <1>5, CleanBefore, DownByThen
  <2> QED  BY <1>0, <1>3, <2>1, EmptySafe
<1>6. Legible'
  BY <1>1, <1>2, LegibleAside
<1>7. Clean("tts")' => Gone'
  BY <1>0, <1>2, <1>3, GoneAside DEF StacksInv
<1> QED  BY <1>4, <1>5, <1>6, <1>7 DEF StacksInv

LEMMA StacksByVoice == ASSUME Ground, StacksInv, VoiceCall PROVE StacksInv'
<1> DEFINE Same == /\ container' = container /\ home'.manifest = home.manifest
                   /\ \A s \in Stack : home'[s] = home[s]
           X == {"stage", "client", "prefs", "weights", "require", "healthy"}
           Went == \E x \in X : /\ At("tts", x)
                                /\ \/ Fails
                                   \/ Takes("tts", x) /\ (cmd' # None => cmd'.left = cmd.left)
<1>0. Files /\ Orderly
  BY DEF Ground
<1>1. CASE InstallClient \/ WritePrefs \/ FetchWeights \/ RequireModels \/ WaitHealthy \/ StageSource
  <2>1. Recorded /\ container' = container
    BY <1>1 DEF InstallClient, WritePrefs, FetchWeights, RequireModels, StageSource, WaitHealthy,
                Tries, Recorded
  <2>2. home' = home \/ \E f \in OtherField : \E v : home' = [home EXCEPT ![f] = v]
    BY <1>1 DEF InstallClient, WritePrefs, FetchWeights, RequireModels, StageSource, WaitHealthy,
                Tries, OtherField
  <2>3. Same
    BY <1>0, <2>1, <2>2, OtherFieldStep
  <2>4. \A x \in X : RankOf("tts", x) \notin {3, 8, 44, 54, 66}
    BY VoiceRanks
  <2>5. Went
    <3>1. \A x \in X : At("tts", x) /\ Done => Went
      BY <1>0, DoneStep DEF Succeeds
    <3>2. \A x \in X : At("tts", x) /\ Fails => Went
      OBVIOUS
    <3>3. CASE InstallClient
      <4>1. At("tts", "client") /\ \E place \in Place : cmd' = After([cmd EXCEPT !.place = place])
        BY <3>3 DEF InstallClient, Place
      <4>2. Takes("tts", "client") /\ (cmd' # None => cmd'.left = cmd.left)
        BY <1>0, <4>1, PlaceStep
      <4> QED  BY <4>1, <4>2
    <3> HIDE DEF Went
    <3>4. CASE WritePrefs \/ FetchWeights
      BY <3>1, <3>2, <3>4 DEF WritePrefs, FetchWeights
    <3>5. CASE RequireModels \/ WaitHealthy \/ StageSource
      BY <3>1, <3>2, <3>5 DEF RequireModels, StageSource, WaitHealthy, Tries
    <3> QED  BY <1>1, <3>3, <3>4, <3>5
  <2> QED  BY <2>1, <2>3, <2>4, <2>5, StacksAside
<1> QED  BY <1>1, StacksByTakeOver, StacksByRemoveClient, StacksByWipeTts DEF VoiceCall

LEMMA StacksByWipeHome == ASSUME Ground, StacksInv, WipeHome PROVE StacksInv'
<1> DEFINE lost == \E s \in Stack : cmd.left[s] # None \/ container[s] # {}
<1>0. /\ Orderly /\ At("stab", "wipe") /\ container' = container /\ home' = EmptyHome /\ Done
  BY DEF Ground, WipeHome
<1>1. lost => \A s : ~Clean(s)'
  <2>1. ASSUME lost PROVE history'.mishaps = history.mishaps \cup {"wiped"}
    BY <2>1, Mishaps DEF WipeHome
  <2> QED  BY <2>1 DEF Clean, Without
<1>2. NoManifest # Torn
  <2>1. NoManifest \in Manifest
    BY DEF NoManifest, Manifest
  <2> QED  BY <2>1, InstallerAssumption
<1>3. Legible'
  BY <1>0, <1>2 DEF Legible, EmptyHome
<1>4. Takes("stab", "wipe") /\ Has("stab", "wipe") /\ cmd # None
  BY <1>0, DoneStep, HeadFacts DEF Succeeds
<1>5. Saving
  BY <1>0, <1>4 DEF Orderly, Complete, Has, Saving
<1>6. ASSUME NEW s \in Stack, Clean(s)' PROVE Safe(s)'
  <2>1. container'[s] = {}
    BY <1>0, <1>1, <1>6
  <2>2. <<"stab", "wipe">> # <<s, "record">>
    OBVIOUS
  <2> QED  BY <1>4, <1>5, <2>1, <2>2, EmptySafe
<1>7. Clean("tts")' => Gone'
  BY <1>0, <1>1 DEF Gone, Stack
<1> QED  BY <1>3, <1>6, <1>7 DEF StacksInv

LEMMA StacksByBegin == ASSUME Ground, StacksInv, NEW c \in Commands, Begin(c) PROVE StacksInv'
<1>0. Files /\ home \in HomeSet /\ container' = container
  BY DEF Ground, Files, Begin
<1>1. /\ Planned(c, cmd'.calls) /\ cmd' # None /\ cmd = None /\ cmd'.calls = Calls(c)
      /\ cmd'.opts = c.opts /\ cmd'.left = Loaded /\ Remaining' = Elements(Calls(c))
  BY <1>0, BeginStep
<1> DEFINE R == Elements(Calls(c))
<1>2. /\ Whole(R, c.opts)
      /\ \A s \in Stack : In(R, s, "up") /\ ~In(R, s, "record") => NeedsRecord(c) /\ c.component = s
  BY <1>1 DEF Planned
<1> HIDE DEF R
<1>3. \A d, y : (Has(d, y)' <=> In(R, d, y)) /\ (Past(d, y)' <=> Behind(R, d, y))
  BY <1>1 DEF Has, Past, R
<1>4. history'.mishaps = history.mishaps
  <2>1. PICK S : history \in History(S)
    BY DEF Ground
  <2> QED  BY <2>1 DEF Begin, History
<1>5. /\ home' = home \/ home' = [home EXCEPT !.manifest = Migrated(home.manifest)]
      /\ home.manifest = Torn => home' = home
  BY DEF Begin
<1>6. \A s \in Stack : home'[s] = home[s]
  BY <1>0, <1>5 DEF HomeSet, Stack
<1>7. home.manifest # Torn =>
        /\ home'.manifest # Torn
        /\ \A s \in Stack : home'.manifest[s] = home.manifest[s] /\ Loaded[s] = home.manifest[s]
  BY <1>0, <1>5, LoadedType, MigratedType, InstallerAssumption DEF HomeSet
<1>8. Legible'
  BY <1>4, <1>5, <1>7 DEF StacksInv, Legible
<1>9. ASSUME NEW s \in Stack, Clean(s)' PROVE Safe(s)'
  <2>1. Clean(s) /\ Safe(s) /\ home.manifest # Torn
    BY <1>4, <1>9 DEF Clean, Without, StacksInv, Legible
  <2>2. ~Has(s, "record") /\ ~Saving
    BY <1>1, SomeRemain DEF Saving
  <2>3. /\ container[s] # {} => home[s] \in Compose /\ Own(s, home[s]) = container[s] /\ home.manifest[s] # None
    BY <2>1, <2>2 DEF Safe, Starting, Standing
  <2>4. Own(s, home[s])' = Own(s, home[s])
    BY <1>0, <1>6 DEF Own
  <2>5. Standing(s)' = home.manifest[s]
    BY <1>1, <1>7, <2>1 DEF Standing
  <2>6. Has(s, "up")' /\ ~Has(s, "record")' => home'.manifest[s] # None
    <3>1. Has(s, "up")' /\ ~Has(s, "record")' => NeedsRecord(c) /\ c.component = s
      BY <1>2, <1>3
    <3>2. NeedsRecord(c) => Loaded[c.component] # None
      BY DEF Begin
    <3> QED  BY <1>7, <2>1, <3>1, <3>2
  <2>7. cmd'.left[s] # None => home'.manifest[s] # None
    BY <1>1, <1>7, <2>1
  <2> QED  BY <1>0, <1>6, <1>7, <2>1, <2>3, <2>4, <2>5, <2>6, <2>7 DEF Safe
<1>10. Gone'
  <2>1. Has("tts", "no-client")' \/ Has("tts", "wipe")' => In(R, "tts", "remove")
    BY <1>2, <1>3 DEF Whole
  <2>2. In(R, "tts", "remove") => ~Behind(R, "tts", "remove")
    BY RankIsNat DEF In, Behind
  <2> QED  BY <1>3, <2>1, <2>2 DEF Gone
<1> QED  BY <1>8, <1>9, <1>10 DEF StacksInv

LEMMA StacksByEnter == ASSUME Ground, StacksInv, NEW a \in Component, Enter(a) PROVE StacksInv'
<1>0. /\ Files /\ Orderly /\ At(a, "record") /\ container' = container /\ home \in HomeSet /\ Recorded
  BY DEF Ground, Files, Enter, Recorded
<1>1. history.mishaps \subseteq history'.mishaps
  BY <1>0, Mishaps
<1>2. CASE home.manifest = Torn
  <2>1. home' = home /\ Fails
    BY <1>2 DEF Enter
  <2>2. {"torn", "interrupted"} \subseteq history.mishaps
    BY <1>2 DEF StacksInv, Legible
  <2>3. "torn" \in history'.mishaps /\ "interrupted" \in history'.mishaps
    BY <1>1, <2>2
  <2>4. \A s \in Stack : ~Clean(s)'
    BY <2>3 DEF Clean, Without
  <2>5. Legible'
    BY <2>3 DEF Legible
  <2> QED  BY <2>4, <2>5 DEF StacksInv, Stack
<1>3. CASE home.manifest # Torn
  <2> DEFINE r == [port |-> IF a = "stab" THEN None ELSE cmd.opts.port, client |-> cmd.place]
             m == Migrated(home.manifest)
  <2>1. home' = [home EXCEPT !.manifest = [m EXCEPT ![a] = r]] /\ Done
    BY <1>3 DEF Enter
  <2>2. r \in Record
    BY <1>0, HeadFacts DEF Record, Running, Option
  <2>3. m \in Manifest /\ \A s \in Stack : m[s] = home.manifest[s]
    BY <1>0, <1>3, MigratedType DEF HomeSet
  <2> HIDE DEF r, m
  <2>4. /\ home'.manifest = [m EXCEPT ![a] = r] /\ home'.manifest[a] = r
        /\ \A s \in Stack : home'[s] = home[s]
        /\ \A s \in Stack : s # a => home'.manifest[s] = home.manifest[s]
    BY <1>0, <2>1, <2>3 DEF HomeSet, Stack, Manifest, Component
  <2>5. home'.manifest # Torn /\ r # None
    <3>1. [m EXCEPT ![a] = r] \in Manifest
      BY <2>2, <2>3 DEF Manifest, Component
    <3> QED  BY <2>2, <2>4, <3>1, InstallerAssumption
  <2>6. Takes(a, "record") /\ (cmd' # None => cmd'.left = cmd.left)
    BY <1>0, <2>1, DoneStep DEF Succeeds
  <2>7. ASSUME NEW s \in Stack, s # a PROVE Clean(s)' => Safe(s)'
    <3>1. a # "all"
      BY DEF Component, Stack
    <3>2. Benign(s)
      BY <2>6, <2>7, <3>1 DEF Benign
    <3> QED  BY <1>0, <1>1, <2>4, <2>7, <3>2, SafeAside DEF StacksInv
  <2>8. ASSUME a \in Stack, Clean(a)' PROVE Safe(a)'
    <3>1. Safe(a)
      BY <1>1, <2>8, CleanBefore DEF StacksInv
    <3>2. Own(a, home[a])' = Own(a, home[a])
      BY <1>0, <2>4, <2>8 DEF Own
    <3>3. ~Saving'
      <4>1. Saving => RankOf(a, "record") <= RankOf("all", "save")
        BY <1>0, HeadFacts DEF Saving
      <4>2. ~Saving
        BY <2>8, <4>1, MoreRanks
      <4> QED  BY <2>6, <4>2, TakesFacts DEF Saving
    <3>4. home'.manifest[a] # None /\ Standing(a)' # None
      BY <2>4, <2>5, <3>3 DEF Standing
    <3> QED  BY <1>0, <2>4, <2>8, <3>1, <3>2, <3>4 DEF Safe
  <2>9. Clean("tts")' => Gone'
    <3>1. <<a, "record">> # <<"tts", "remove">>
      OBVIOUS
    <3> QED  BY <1>0, <1>1, <2>6, <3>1, GoneAside DEF StacksInv
  <2>10. Legible'
    BY <2>5 DEF Legible
  <2> QED  BY <2>7, <2>8, <2>9, <2>10 DEF StacksInv
<1> QED  BY <1>2, <1>3

LEMMA StacksBySave == ASSUME Ground, StacksInv, Save PROVE StacksInv'
<1>0. /\ Files /\ Orderly /\ At("all", "save") /\ container' = container /\ home \in HomeSet /\ Done
      /\ history' = history /\ home' = [home EXCEPT !.manifest = cmd.left]
  BY DEF Ground, Files, Save
<1>1. Saving /\ cmd # None /\ cmd \in Running
  BY <1>0, HeadFacts DEF Saving
<1>2. home'.manifest = cmd.left /\ \A s \in Stack : home'[s] = home[s]
  BY <1>0 DEF HomeSet, Stack
<1>3. cmd.left # Torn
  BY <1>1, InstallerAssumption DEF Running
<1>4. Takes("all", "save")
  BY <1>0, DoneStep DEF Succeeds
<1>5. ~Saving'
  BY <1>4, TakesFacts DEF Saving
<1>6. ASSUME NEW s \in Stack, Clean(s)' PROVE Safe(s)'
  <2>1. Safe(s)
    BY <1>0, <1>6, CleanBefore DEF StacksInv
  <2>2. ~Starting(s)
    BY <1>0, StackRanks, NotStarting
  <2>3. container[s] # {} => cmd.left[s] # None
    BY <1>1, <2>1, <2>2 DEF Safe, Standing
  <2>4. Standing(s)' = cmd.left[s]
    BY <1>2, <1>5 DEF Standing
  <2>5. Own(s, home[s])' = Own(s, home[s])
    BY <1>0, <1>2 DEF Own
  <2>6. /\ Has(s, "up")' => Has(s, "up")
        /\ Has(s, "update")' => Has(s, "update")
        /\ Has(s, "record")' <=> Has(s, "record")
    <3>1. "record" # "save"
      OBVIOUS
    <3> QED  BY <1>4, <3>1, TakesFacts
  <2>7. (Has(s, "up") => Has(s, "record")) /\ ~Has(s, "update")
    BY <1>0, <1>1 DEF Orderly, Complete, Has, Saving
  <2> QED  BY <1>0, <1>2, <2>1, <2>3, <2>4, <2>5, <2>6, <2>7 DEF Safe
<1>7. Clean("tts")' => Gone'
  BY <1>0, <1>4, GoneAside DEF StacksInv
<1>8. Legible'
  BY <1>2, <1>3 DEF Legible
<1> QED  BY <1>6, <1>7, <1>8 DEF StacksInv

LEMMA StacksByInterrupt == ASSUME Ground, StacksInv, Interrupt PROVE StacksInv'
<1>1. cmd' = None /\ home' = home /\ container' = container /\ Orderly
  BY DEF Ground, Interrupt, Fails
<1>2. history'.mishaps = history.mishaps \cup {"interrupted"}
  BY Mishaps DEF Interrupt
<1>3. ASSUME NEW s \in Stack PROVE Clean(s)' => Safe(s)'
  <2>1. Clean(s)' => s = "tts"
    BY <1>2 DEF Clean, Without
  <2>2. Benign(s)
    BY <1>1, <2>1 DEF Benign, Starting
  <2> QED  BY <1>1, <1>2, <2>2, SafeAside DEF StacksInv
<1>4. Clean("tts")' => Gone'
  BY <1>1, <1>2, GoneAside DEF StacksInv
<1>5. Legible'
  BY <1>1, <1>2, LegibleAside
<1> QED  BY <1>3, <1>4, <1>5 DEF StacksInv

LEMMA StacksByTear == ASSUME Ground, StacksInv, Tear PROVE StacksInv'
<1>1. history'.mishaps = history.mishaps \cup {"interrupted", "torn"}
  BY Mishaps DEF Tear
<1> QED  BY <1>1 DEF StacksInv, Legible, Clean, Without

LEMMA StacksStart == ASSUME Init PROVE StacksInv
<1>1. cmd = None /\ \A s \in Stack : container[s] = {}
  BY DEF Init
<1>2. \A d, y : ~Has(d, y)
  BY <1>1, SomeRemain
<1>3. Legible
  <2>1. home.manifest \in Manifest
    <3>1. PICK old \in {None, [port |-> None, client |-> None]}, config \in {None, "private"} :
            home = [EmptyHome EXCEPT !.manifest[Legacy] = old, !.config = config]
      BY DEF Init
    <3>2. home.manifest = [NoManifest EXCEPT ![Legacy] = old]
      BY <3>1 DEF EmptyHome
    <3> QED  BY <3>2 DEF NoManifest, Manifest, Record
  <2> QED  BY <2>1, InstallerAssumption DEF Legible
<1>4. Gone /\ \A s \in Stack : Safe(s)
  BY <1>1, <1>2 DEF Gone, Safe, Stack
<1> QED  BY <1>3, <1>4 DEF StacksInv

LEMMA StacksStep == ASSUME Ground, StacksInv, [Next]_vars PROVE StacksInv'
<1>1. CASE UNCHANGED vars
  <2>1. /\ home' = home /\ container' = container /\ cmd' = cmd /\ history' = history
    BY <1>1 DEF vars
  <2> QED  BY <2>1, StacksAside DEF Recorded
<1>2. CASE StackCall
  BY <1>2, StacksByCompose, StacksByUp, StacksByUpdate, StacksByDown, StacksByRemove, StacksByEnv
     DEF StackCall
<1>3. CASE StabCall
  BY <1>3, StacksByStab, StacksByWipeHome
<1> QED  BY <1>1, <1>2, <1>3, StacksByVoice, StacksByUser, StacksByBegin, StacksByEnter, StacksBySave,
            StacksByInterrupt, StacksByTear DEF Next

LEMMA StacksHold == Spec => []StacksInv
<1>1. Init => StacksInv
  BY StacksStart
<1>2. Ground /\ StacksInv /\ [Next]_vars => StacksInv'
  BY StacksStep
<1> QED  BY <1>1, <1>2, GroundHolds, PTL DEF Spec

\* A running stack is on record, with its compose file (components/*: Install,
\* Update, Remove; cmdUp, cmdDown, removeLocal), from one command to the next and,
\* for the voice stack, through interrupts.
THEOREM RunningStacksAreRemovable == Spec => []StackIsRemovable
<1>1. StacksInv => StackIsRemovable
  <2> SUFFICES ASSUME StacksInv, NEW s \in Stack, NEW k \in container[s],
                      Without({"torn", "failed", "renamed", "wiped"}),
                      s # "tts" => cmd = None /\ Without({"interrupted"})
               PROVE  home.manifest[s] # None /\ home[s] \in Compose /\ k \in Own(s, home[s])
    BY DEF StackIsRemovable
  <2>1. Safe(s)
    BY DEF StacksInv, Clean
  <2>2. ~Starting(s)
    BY SomeRemain DEF Starting
  <2> QED  BY <2>1, <2>2 DEF Safe
<1> QED  BY <1>1, StacksHold, PTL

----
(* The calls that the actions make.                                        *)

Makes(c, x) == At(c, x) /\ (Fails \/ Takes(c, x))
StabCalls == {"binary", "models", "secrets", "check", "docker", "stab-models", "stab-secrets",
              "templates", "pi-agent", "load", "files", "marker", "refresh", "seed", "sync",
              "build", "stop", "refresh-again", "seed-again", "run", "attach", "remove", "wipe"}

LEMMA DoneMakes == ASSUME Orderly, NEW c, NEW x, At(c, x), Done \/ Fails PROVE Makes(c, x)
  BY DoneStep DEF Makes, Succeeds

LEMMA StackMakes ==
  ASSUME Orderly
  PROVE  /\ \A s \in Stack : /\ WriteCompose(s) => Makes(s, "compose")
                             /\ Up(s) => Makes(s, "up")
                             /\ UpdateStack(s) => Makes(s, "update")
                             /\ Down(s) => Makes(s, "down")
                             /\ RemoveStack(s) => Makes(s, "remove")
         /\ WriteEnv => Makes("webui", "env")
         /\ \A c \in Component : Enter(c) => Makes(c, "record")
         /\ Save => Makes("all", "save")
<1>1. ASSUME NEW s \in Stack, RemoveStack(s) PROVE Makes(s, "remove")
  <2>1. CASE s = "tts"
    BY <1>1, <2>1, DoneMakes DEF RemoveStack, Done
  <2>2. CASE s # "tts"
    <3>1. At(s, "remove") /\ s \in Component /\ cmd' = After([cmd EXCEPT !.left[s] = None])
      BY <1>1, <2>2 DEF RemoveStack, Component
    <3> QED  BY <3>1, StrikeStep DEF Makes
  <2> QED  BY <2>1, <2>2
<1>2. \A s \in Stack : /\ WriteCompose(s) => Makes(s, "compose")
                       /\ Up(s) => Makes(s, "up")
                       /\ UpdateStack(s) => Makes(s, "update")
                       /\ Down(s) => Makes(s, "down")
  BY DoneMakes DEF WriteCompose, Up, UpdateStack, Down
<1>3. WriteEnv => Makes("webui", "env")
  BY DoneMakes DEF WriteEnv
<1>4. \A c \in Component : Enter(c) => Makes(c, "record")
  BY DoneMakes DEF Enter
<1>5. Save => Makes("all", "save")
  BY DoneMakes DEF Save
<1> QED  BY <1>1, <1>2, <1>3, <1>4, <1>5

LEMMA VoiceMakes ==
  ASSUME Orderly
  PROVE  /\ InstallClient => Makes("tts", "client") /\ (cmd' # None => cmd'.place \in Place)
         /\ WritePrefs => Makes("tts", "prefs")
         /\ FetchWeights => Makes("tts", "weights")
         /\ RequireModels => Makes("tts", "require")
         /\ TakeOver => Makes("tts", "take-over")
         /\ StageSource => Makes("tts", "stage")
         /\ WaitHealthy => Makes("tts", "healthy")
         /\ RemoveClient => Makes("tts", "no-client")
         /\ WipeTts => Makes("tts", "wipe")
<1>1. InstallClient => Makes("tts", "client") /\ (cmd' # None => cmd'.place \in Place)
  <2> SUFFICES ASSUME InstallClient PROVE Makes("tts", "client") /\ (cmd' # None => cmd'.place \in Place)
    OBVIOUS
  <2>1. At("tts", "client") /\ \E place \in Place : cmd' = After([cmd EXCEPT !.place = place])
    BY DEF InstallClient, Place
  <2> QED  BY <2>1, PlaceStep DEF Makes
<1>2. RemoveClient => Makes("tts", "no-client")
  <2> SUFFICES ASSUME RemoveClient PROVE Makes("tts", "no-client")
    OBVIOUS
  <2>1. At("tts", "no-client") /\ cmd' = After([cmd EXCEPT !.left["tts"] = None]) /\ "tts" \in Component
    BY DEF RemoveClient, Component, Stack
  <2> QED  BY <2>1, StrikeStep DEF Makes
<1>3. /\ WritePrefs => Makes("tts", "prefs")
      /\ FetchWeights => Makes("tts", "weights")
      /\ RequireModels => Makes("tts", "require")
  BY DoneMakes DEF WritePrefs, FetchWeights, RequireModels
<1>4. /\ TakeOver => Makes("tts", "take-over")
      /\ StageSource => Makes("tts", "stage")
      /\ WaitHealthy => Makes("tts", "healthy")
      /\ WipeTts => Makes("tts", "wipe")
  BY DoneMakes DEF TakeOver, StageSource, WaitHealthy, Tries, WipeTts
<1> QED  BY <1>1, <1>2, <1>3, <1>4

LEMMA StabMakes == ASSUME Orderly, StabCall PROVE \E x \in StabCalls : Makes("stab", x)
<1> DEFINE Went == \E x \in StabCalls : Makes("stab", x)
<1>1. \A x \in StabCalls : At("stab", x) /\ (Done \/ Fails) => Went
  BY DoneMakes
<1> SUFFICES Went
  OBVIOUS
<1>2. CASE RemoveStab
  <2>1. At("stab", "remove") /\ cmd' = After([cmd EXCEPT !.left["stab"] = None]) /\ "stab" \in Component
    BY <1>2 DEF RemoveStab, Component
  <2> QED  BY <2>1, StrikeStep DEF Makes, StabCalls
<1> HIDE DEF Went
<1>3. ASSUME NEW x \in {"models", "stab-models"}, NEW baked, BakedModels(x, baked) PROVE Went
  BY <1>1, <1>3 DEF BakedModels, StabCalls
<1>4. ASSUME NEW x \in {"secrets", "stab-secrets"}, NEW baked, BakedSecrets(x, baked) PROVE Went
  BY <1>1, <1>4 DEF BakedSecrets, StabCalls
<1>5. CASE \/ InstallStab \/ CheckStab \/ NeedsDocker \/ InstallPiAgent \/ BuildImage \/ Templates
           \/ WipeHome
  BY <1>1, <1>5 DEF InstallStab, CheckStab, NeedsDocker, InstallPiAgent, BuildImage, Tries,
                    Templates, WipeHome, StabCalls
<1>6. CASE LoadConfig \/ SeedFiles \/ SeedMarker \/ RefreshTunnels
  BY <1>1, <1>6 DEF LoadConfig, SeedFiles, SeedMarker, RefreshTunnels, Refreshes, StabCalls
<1>7. CASE CopyModels \/ StopAgent \/ RunAgent
  BY <1>1, <1>7 DEF CopyModels, Seeds, StopAgent, RunAgent, StabCalls
<1>8. /\ \A m \in Merges : m[1] \in {"models", "stab-models"}
      /\ \A k \in Keys : k[1] \in {"secrets", "stab-secrets"}
  BY DEF Merges, Keys
<1> QED  BY <1>2, <1>3, <1>4, <1>5, <1>6, <1>7, <1>8 DEF StabCall

----
(* What an install of the voice stack has done so far.                     *)

Installing == Has("tts", "record") \/ Has("tts", "healthy")
Placed == Without({"unwritten"}) => cmd.place \in Place /\ ClientAt(cmd.place) = release
Preferred ==
  Without({"overwritten"}) =>
    home.prefs = cmd.opts.port /\ (bin.open # None => bin.open.port = cmd.opts.port)
Rendered == home.tts = [name |-> cmd.opts.name, port |-> cmd.opts.port]
OnRecord ==
  home.manifest # Torn /\ home.manifest["tts"] = [port |-> cmd.opts.port, client |-> cmd.place]
Progress ==
  Installing =>
    /\ Past("tts", "client") => Placed
    /\ Past("tts", "prefs") => Preferred
    /\ Past("tts", "require") => home.weights
    /\ Past("tts", "compose") => Rendered
    /\ Past("tts", "record") => OnRecord
    /\ Past("tts", "up") => home.tts \in container["tts"]

Steps == {"client", "prefs", "require", "compose", "record", "up"}

LEMMA StepRanks ==
  \A y \in Steps : /\ 61 <= RankOf("tts", y) /\ RankOf("tts", y) <= 68
                   /\ RankOf("tts", y) <= 60 + VoiceRank(y)
  BY VoiceRanks DEF Steps, RankOf, VoiceRank

\* Of an install that goes on, what is made now was made before, or just now.
LEMMA Reached ==
  ASSUME Orderly, NEW c, NEW x, Takes(c, x), Installing', NEW y \in Steps, Past("tts", y)'
  PROVE  /\ Installing /\ cmd # None /\ cmd' # None /\ cmd'.opts = cmd.opts
         /\ <<c, x>> = <<"tts", y>> \/ Past("tts", y)
         /\ RankOf("tts", y) <= RankOf(c, x) /\ RankOf(c, x) < 69
<1>1. /\ \A d, z : Has(d, z)' => Has(d, z)
      /\ Due("tts", y) => (Past("tts", y)' => Past("tts", y) \/ <<"tts", y>> = <<c, x>>)
  BY TakesFacts
<1>2. Installing /\ cmd # None /\ cmd' # None
  BY <1>1, SomeRemain DEF Installing, Has, In, Remaining
<1>3. y = "up" => Has("tts", "healthy")
  <2>1. y = "up" => ~Has("tts", "record")'
    BY VoiceRanks, RankIsNat DEF Past, Behind, Has, In
  <2> QED  BY <1>1, <2>1 DEF Installing
<1>4. Due("tts", y)
  BY <1>2, <1>3 DEF Orderly, Complete, Installing, Has, Due, Steps
<1>5. <<c, x>> = <<"tts", y>> \/ Past("tts", y)
  BY <1>1, <1>4
<1>6. RankOf("tts", y) <= RankOf(c, x)
  <2>1. RankOf(c, x) = Rank(<<c, x>>) /\ RankOf(c, x) \in Nat /\ RankOf("tts", y) \in Nat
    BY RankIsNat
  <2>2. CASE <<c, x>> = <<"tts", y>>
    <3>1. c = "tts" /\ x = y
      BY <2>2
    <3> QED  BY <2>1, <3>1
  <2>3. CASE Past("tts", y)
    BY <2>1, <2>3 DEF Takes, Has, In, Past, Behind
  <2> QED  BY <1>5, <2>2, <2>3
<1>7. RankOf(c, x) < 69
  <2>1. \A d, z : Has(d, z)' => RankOf(c, x) < RankOf(d, z)
    BY RankIsNat DEF Takes, Has, In, Past, Behind
  <2>2. RankOf(c, x) \in Nat
    BY RankIsNat
  <2> QED  BY <2>1, <2>2, VoiceRanks DEF Installing
<1> QED  BY <1>2, <1>5, <1>6, <1>7 DEF Takes

LEMMA ProgressAside ==
  ASSUME Orderly, NEW c, NEW x, Makes(c, x), Fails \/ RankOf(c, x) \notin 61..68
  PROVE  Progress'
<1>1. CASE Fails
  <2>1. ~Installing'
    BY <1>1, FailsStep, NoneRemain DEF Installing
  <2> QED  BY <2>1 DEF Progress
<1>2. CASE Takes(c, x) /\ RankOf(c, x) \notin 61..68
  <2>1. ASSUME Installing', NEW y \in Steps PROVE ~Past("tts", y)'
    <3>1. Past("tts", y)' => RankOf("tts", y) <= RankOf(c, x) /\ RankOf(c, x) < 69
      BY <1>2, <2>1, Reached
    <3>2. RankOf(c, x) \in Nat /\ RankOf("tts", y) \in Nat
      BY RankIsNat
    <3> QED  BY <1>2, <3>1, <3>2, StepRanks
  <2> QED  BY <2>1 DEF Progress, Steps
<1> QED  BY <1>1, <1>2 DEF Makes

LEMMA InstallingBefore ==
  ASSUME Orderly, NEW c, NEW x, Takes(c, x), Installing'
  PROVE  Installing /\ cmd # None /\ cmd' # None /\ cmd'.opts = cmd.opts
<1>1. \A d, z : Has(d, z)' => Has(d, z)
  BY TakesFacts
<1> QED  BY <1>1, SomeRemain DEF Installing, Has, In, Remaining, Takes

LEMMA ProgressByClient == ASSUME Ground, Progress, InstallClient PROVE Progress'
<1>0. Orderly /\ Makes("tts", "client") /\ bin \in BinSet /\ home \in HomeSet
  BY VoiceMakes DEF Ground, Files
<1>1. CASE Fails
  BY <1>0, <1>1, ProgressAside
<1>2. CASE Takes("tts", "client")
  <2> SUFFICES ASSUME Installing' PROVE Progress'
    BY DEF Progress
  <2>1. \A y \in Steps : Past("tts", y)' => y = "client"
    <3> SUFFICES ASSUME NEW y \in Steps, Past("tts", y)', y # "client" PROVE FALSE
      OBVIOUS
    <3>1. RankOf("tts", y) <= 61
      BY <1>0, <1>2, Reached, VoiceRanks
    <3> QED  BY <3>1, VoiceRanks DEF Steps
  <2>2. cmd' # None
    BY <1>0, <1>2, InstallingBefore
  <2>3. Placed'
    <3> DEFINE path == Writable(bin.client, Busy("path"))
               base == bin.mode = "blocked" /\ ~Busy("base")
    <3>1. /\ bin' = IF path THEN [bin EXCEPT !.client = release] ELSE bin
          /\ home' = IF base THEN [home EXCEPT !.client = release] ELSE home
          /\ cmd' = After([cmd EXCEPT !.place = IF path THEN "path" ELSE "base"])
          /\ Befalls(IF path \/ base THEN {} ELSE {"unwritten"})
          /\ release' = release /\ At("tts", "client")
      BY DEF InstallClient
    <3> HIDE DEF path, base
    <3>2. history'.mishaps = history.mishaps \cup (IF path \/ base THEN {} ELSE {"unwritten"})
      BY <3>1, Mishaps
    <3>3. Without({"unwritten"})' => path \/ base
      BY <3>2 DEF Without
    <3>4. CASE path
      <4>1. "path" \in Place /\ cmd' = After([cmd EXCEPT !.place = "path"])
        BY <3>1, <3>4 DEF Place
      <4>2. cmd'.place = "path"
        BY <1>0, <2>2, <3>1, <4>1, PlaceStep
      <4>3. bin'.client = release
        BY <1>0, <3>1, <3>4 DEF BinSet
      <4> QED  BY <3>1, <4>1, <4>2, <4>3 DEF Placed, ClientAt
    <3>5. CASE ~path
      <4>1. "base" \in Place /\ cmd' = After([cmd EXCEPT !.place = "base"])
        BY <3>1, <3>5 DEF Place
      <4>2. cmd'.place = "base"
        BY <1>0, <2>2, <3>1, <4>1, PlaceStep
      <4>3. base => home'.client = release
        BY <1>0, <3>1 DEF HomeSet
      <4>4. "base" # "path"
        OBVIOUS
      <4> QED  BY <3>1, <3>3, <3>5, <4>1, <4>2, <4>3, <4>4 DEF Placed, ClientAt
    <3> QED  BY <3>4, <3>5
  <2> QED  BY <2>1, <2>3 DEF Progress, Steps
<1> QED  BY <1>0, <1>1, <1>2 DEF Makes

LEMMA ProgressByPrefs == ASSUME Ground, Progress, WritePrefs PROVE Progress'
<1>0. /\ Orderly /\ bin' = bin /\ home \in HomeSet /\ release' = release
      /\ At("tts", "prefs") /\ Done /\ home' = [home EXCEPT !.prefs = cmd.opts.port]
  BY DEF Ground, Files, WritePrefs
<1>1. Takes("tts", "prefs") /\ (cmd' # None => cmd'.left = cmd.left /\ cmd'.place = cmd.place)
  BY <1>0, DoneStep DEF Succeeds
<1> SUFFICES ASSUME Installing' PROVE Progress'
  BY DEF Progress
<1>2. Installing /\ cmd # None /\ cmd' # None /\ cmd'.opts = cmd.opts
  BY <1>0, <1>1, InstallingBefore
<1>3. \A y \in Steps : Past("tts", y)' => y \in {"client", "prefs"} /\ (y = "client" => Past("tts", y))
  <2> SUFFICES ASSUME NEW y \in Steps, Past("tts", y)'
               PROVE  y \in {"client", "prefs"} /\ (y = "client" => Past("tts", y))
    OBVIOUS
  <2>1. RankOf("tts", y) <= 62 /\ (<<"tts", "prefs">> = <<"tts", y>> \/ Past("tts", y))
    BY <1>0, <1>1, Reached, VoiceRanks
  <2> QED  BY <2>1, VoiceRanks DEF Steps
<1>4. history'.mishaps = history.mishaps \cup
        (IF bin.open # None /\ bin.open.port # cmd.opts.port THEN {"overwritten"} ELSE {})
  BY Mishaps DEF WritePrefs
<1>5. home'.prefs = cmd.opts.port /\ home'.client = home.client
  BY <1>0 DEF HomeSet
<1>6. Preferred'
  BY <1>0, <1>2, <1>4, <1>5 DEF Preferred, Without
<1>7. Placed => Placed'
  BY <1>0, <1>1, <1>2, <1>4, <1>5 DEF Placed, ClientAt, Without
<1> QED  BY <1>2, <1>3, <1>6, <1>7 DEF Progress, Steps

\* The calls that touch neither the client nor its preferences.
LEMMA ClientKept ==
  ASSUME history.mishaps \subseteq history'.mishaps, release' = release, cmd' # None,
         cmd'.opts = cmd.opts, cmd'.place = cmd.place, bin' = bin, home'.client = home.client,
         home'.prefs = home.prefs
  PROVE  (Placed => Placed') /\ (Preferred => Preferred')
<1>1. Placed => Placed'
  BY DEF Placed, ClientAt, Without
<1>2. Preferred => Preferred'
  BY DEF Preferred, Without
<1> QED  BY <1>1, <1>2

LEMMA ProgressByWeights == ASSUME Ground, Progress, FetchWeights \/ RequireModels PROVE Progress'
<1>0. /\ Orderly /\ bin' = bin /\ home \in HomeSet /\ release' = release /\ Recorded
      /\ home' = home \/ home' = [home EXCEPT !.weights = TRUE]
  BY DEF Ground, Files, FetchWeights, RequireModels, Recorded
<1>1. CASE Fails
  BY <1>0, <1>1, ProgressAside, VoiceMakes
<1>2. ASSUME NEW x \in {"weights", "require"}, At("tts", x), Done, x = "require" => home.weights
      PROVE  Progress'
  <2>1. Takes("tts", x) /\ (cmd' # None => cmd'.left = cmd.left /\ cmd'.place = cmd.place)
    BY <1>0, <1>2, DoneStep DEF Succeeds
  <2> SUFFICES ASSUME Installing' PROVE Progress'
    BY DEF Progress
  <2>2. Installing /\ cmd # None /\ cmd' # None /\ cmd'.opts = cmd.opts
    BY <1>0, <2>1, InstallingBefore
  <2>3. \A y \in Steps : Past("tts", y)' =>
          y \in {"client", "prefs", "require"} /\ (y # "require" => Past("tts", y))
    <3> SUFFICES ASSUME NEW y \in Steps, Past("tts", y)'
                 PROVE  y \in {"client", "prefs", "require"} /\ (y # "require" => Past("tts", y))
      OBVIOUS
    <3>1. RankOf("tts", y) <= RankOf("tts", x) /\ (<<"tts", x>> = <<"tts", y>> \/ Past("tts", y))
      BY <1>0, <2>1, Reached
    <3>2. RankOf("tts", x) = 63 \/ RankOf("tts", x) = 64
      BY VoiceRanks
    <3>4. RankOf("tts", y) \in Nat
      BY RankIsNat
    <3>3. RankOf("tts", y) <= 64
      BY <3>1, <3>2, <3>4
    <3> QED  BY <3>1, <3>3, VoiceRanks DEF Steps
  <2>4. Past("tts", "require")' => x = "require" \/ Past("tts", "require")
    BY <1>0, <2>1, Reached DEF Steps
  <2>5. home'.prefs = home.prefs /\ home'.client = home.client /\ (home.weights => home'.weights)
    BY <1>0 DEF HomeSet
  <2>6. (Placed => Placed') /\ (Preferred => Preferred')
    BY <1>0, <2>1, <2>2, <2>5, Mishaps, ClientKept
  <2> QED  BY <1>2, <2>2, <2>3, <2>4, <2>5, <2>6 DEF Progress, Steps
<1>3. CASE FetchWeights
  BY <1>1, <1>2, <1>3 DEF FetchWeights
<1>4. CASE RequireModels
  BY <1>1, <1>2, <1>4 DEF RequireModels
<1> QED  BY <1>3, <1>4

LEMMA ProgressByCompose == ASSUME Ground, Progress, WriteCompose("tts") PROVE Progress'
<1> DEFINE file == [name |-> cmd.opts.name, port |-> cmd.opts.port]
<1>0. /\ Orderly /\ bin' = bin /\ home \in HomeSet /\ release' = release /\ Recorded
      /\ At("tts", "compose") /\ Done /\ home' = [home EXCEPT !.tts = file]
  BY DEF Ground, Files, WriteCompose, Recorded
<1>1. Takes("tts", "compose") /\ (cmd' # None => cmd'.left = cmd.left /\ cmd'.place = cmd.place)
  BY <1>0, DoneStep DEF Succeeds
<1> SUFFICES ASSUME Installing' PROVE Progress'
  BY DEF Progress
<1>2. Installing /\ cmd # None /\ cmd' # None /\ cmd'.opts = cmd.opts
  BY <1>0, <1>1, InstallingBefore
<1>3. \A y \in Steps : Past("tts", y)' =>
        y \in {"client", "prefs", "require", "compose"} /\ (y # "compose" => Past("tts", y))
  <2> SUFFICES ASSUME NEW y \in Steps, Past("tts", y)'
               PROVE  y \in {"client", "prefs", "require", "compose"} /\ (y # "compose" => Past("tts", y))
    OBVIOUS
  <2>1. RankOf("tts", y) <= 65 /\ (<<"tts", "compose">> = <<"tts", y>> \/ Past("tts", y))
    BY <1>0, <1>1, Reached, VoiceRanks
  <2> QED  BY <2>1, VoiceRanks DEF Steps
<1>4. /\ home'.prefs = home.prefs /\ home'.client = home.client /\ home'.weights = home.weights
      /\ home'.tts = file
  BY <1>0 DEF HomeSet
<1>5. (Placed => Placed') /\ (Preferred => Preferred')
  BY <1>0, <1>1, <1>2, <1>4, Mishaps, ClientKept
<1>6. Rendered'
  BY <1>2, <1>4 DEF Rendered
<1> QED  BY <1>2, <1>3, <1>4, <1>5, <1>6 DEF Progress, Steps

LEMMA ProgressByEnter == ASSUME Ground, Progress, Enter("tts") PROVE Progress'
<1>0. /\ Orderly /\ bin' = bin /\ home \in HomeSet /\ release' = release /\ Recorded
      /\ At("tts", "record") /\ "tts" \in Component /\ Makes("tts", "record")
  BY StackMakes DEF Ground, Files, Enter, Recorded, Component, Stack
<1>1. CASE home.manifest = Torn
  <2>1. Fails
    BY <1>1 DEF Enter
  <2> QED  BY <1>0, <2>1, ProgressAside
<1>2. CASE home.manifest # Torn
  <2> DEFINE r == [port |-> cmd.opts.port, client |-> cmd.place]
             m == Migrated(home.manifest)
  <2>1. home' = [home EXCEPT !.manifest = [m EXCEPT !["tts"] = r]] /\ Done
    BY <1>2 DEF Enter
  <2>2. r \in Record
    BY <1>0, HeadFacts DEF Record, Running, Option
  <2>3. m \in Manifest
    BY <1>0, <1>2, MigratedType DEF HomeSet
  <2> HIDE DEF m
  <2>4. Takes("tts", "record") /\ (cmd' # None => cmd'.left = cmd.left /\ cmd'.place = cmd.place)
    BY <1>0, <2>1, DoneStep DEF Succeeds
  <2> SUFFICES ASSUME Installing' PROVE Progress'
    BY DEF Progress
  <2>5. Installing /\ cmd # None /\ cmd' # None /\ cmd'.opts = cmd.opts
    BY <1>0, <2>4, InstallingBefore
  <2>6. r = [port |-> cmd'.opts.port, client |-> cmd'.place]
    BY <2>4, <2>5
  <2> HIDE DEF r
  <2>7. [m EXCEPT !["tts"] = r] \in Manifest /\ [m EXCEPT !["tts"] = r]["tts"] = r
    BY <2>2, <2>3 DEF Manifest, Component, Stack
  <2>8. home'.manifest # Torn /\ home'.manifest["tts"] = r
    BY <1>0, <2>1, <2>7, InstallerAssumption DEF HomeSet
  <2>9. OnRecord'
    BY <2>6, <2>8 DEF OnRecord
  <2>10. \A y \in Steps : Past("tts", y)' =>
           y \in {"client", "prefs", "require", "compose", "record"} /\ (y # "record" => Past("tts", y))
    <3> SUFFICES ASSUME NEW y \in Steps, Past("tts", y)'
                 PROVE  y # "up" /\ (y # "record" => Past("tts", y))
      BY DEF Steps
    <3>1. RankOf("tts", y) <= 66 /\ (<<"tts", "record">> = <<"tts", y>> \/ Past("tts", y))
      BY <1>0, <2>4, Reached, VoiceRanks
    <3> QED  BY <3>1, VoiceRanks DEF Steps
  <2>11. /\ home'.prefs = home.prefs /\ home'.client = home.client /\ home'.weights = home.weights
         /\ home'.tts = home.tts
    BY <1>0, <2>1 DEF HomeSet
  <2>12. (Placed => Placed') /\ (Preferred => Preferred')
    BY <1>0, <2>4, <2>5, <2>11, Mishaps, ClientKept
  <2>13. Rendered => Rendered'
    BY <2>5, <2>11 DEF Rendered
  <2> QED  BY <2>5, <2>9, <2>10, <2>11, <2>12, <2>13 DEF Progress, Steps
<1> QED  BY <1>1, <1>2

LEMMA ProgressByTakeOver == ASSUME Ground, Progress, TakeOver \/ Up("tts") PROVE Progress'
<1>0. /\ Orderly /\ bin' = bin /\ home' = home /\ release' = release /\ Recorded
      /\ container \in [Stack -> SUBSET Compose] /\ "tts" \in Stack
  BY DEF Ground, Files, TakeOver, Up, Recorded, Stack
<1>1. CASE Fails
  BY <1>0, <1>1, ProgressAside, VoiceMakes, StackMakes
<1>2. ASSUME NEW x \in {"take-over", "up"}, At("tts", x), Done,
             x = "up" => home.tts \in container'["tts"]
      PROVE  Progress'
  <2>1. Takes("tts", x) /\ (cmd' # None => cmd'.left = cmd.left /\ cmd'.place = cmd.place)
    BY <1>0, <1>2, DoneStep DEF Succeeds
  <2> SUFFICES ASSUME Installing' PROVE Progress'
    BY DEF Progress
  <2>2. Installing /\ cmd # None /\ cmd' # None /\ cmd'.opts = cmd.opts
    BY <1>0, <2>1, InstallingBefore
  <2>3. \A y \in Steps : Past("tts", y)' => (y # "up" => Past("tts", y)) /\ (y = "up" => x = "up")
    <3> SUFFICES ASSUME NEW y \in Steps, Past("tts", y)'
                 PROVE  (y # "up" => Past("tts", y)) /\ (y = "up" => x = "up")
      OBVIOUS
    <3>1. RankOf("tts", y) <= RankOf("tts", x) /\ (<<"tts", x>> = <<"tts", y>> \/ Past("tts", y))
      BY <1>0, <2>1, Reached
    <3>2. RankOf("tts", "up") = 68 /\ RankOf("tts", "take-over") = 67
      BY VoiceRanks
    <3> QED  BY <3>1, <3>2 DEF Steps
  <2>4. (Placed => Placed') /\ (Preferred => Preferred')
    BY <1>0, <2>1, <2>2, Mishaps, ClientKept
  <2>5. (Rendered => Rendered') /\ (OnRecord => OnRecord')
    BY <1>0, <2>1, <2>2 DEF Rendered, OnRecord
  <2> QED  BY <1>0, <1>2, <2>2, <2>3, <2>4, <2>5 DEF Progress, Steps
<1>3. CASE TakeOver
  BY <1>1, <1>2, <1>3 DEF TakeOver
<1>4. CASE Up("tts")
  <2>1. container' = Upped("tts", home["tts"]) => home.tts \in container'["tts"]
    BY <1>0 DEF Upped
  <2> QED  BY <1>1, <1>2, <1>4, <2>1 DEF Up
<1> QED  BY <1>3, <1>4

LEMMA ProgressByUser == ASSUME Ground, Progress, User PROVE Progress'
<1>1. CASE cmd = None
  <2>1. cmd' = None
    BY <1>1 DEF User, EditModels, EditSecrets, EditDockerfile, GetRelease, Chmod, OpenClient, Edit,
                CloseClient, Detach
  <2>2. ~Installing'
    BY <2>1 DEF Installing, Has, In, Remaining
  <2> QED  BY <2>2 DEF Progress
<1>2. CASE CloseClient \/ Detach
  <2>1. /\ home \in HomeSet /\ bin \in BinSet /\ cmd' = cmd /\ history' = history /\ container' = container
        /\ release' = release
    BY <1>2 DEF Ground, Files, CloseClient, Detach
  <2>2. (\A d, y : (Has(d, y)' <=> Has(d, y)) /\ (Past(d, y)' <=> Past(d, y)))
    BY <2>1, SameRemain
  <2>3. /\ home'.client = home.client /\ bin'.client = bin.client /\ home'.manifest = home.manifest
        /\ home'.tts = home.tts /\ home'.weights = home.weights
        /\ (home'.prefs = home.prefs /\ bin'.open = bin.open)
           \/ (bin.open # None /\ home'.prefs = bin.open.port /\ bin'.open = None)
    BY <1>2, <2>1 DEF CloseClient, Detach, HomeSet, BinSet
  <2>4. (Placed => Placed') /\ (Rendered => Rendered') /\ (OnRecord => OnRecord')
    BY <2>1, <2>3 DEF Placed, Rendered, OnRecord, ClientAt, Without
  <2>5. Preferred => Preferred'
    BY <2>1, <2>3 DEF Preferred, Without
  <2> QED  BY <2>1, <2>2, <2>3, <2>4, <2>5 DEF Progress, Installing
<1> QED  BY <1>1, <1>2 DEF User, EditModels, EditSecrets, EditDockerfile, GetRelease, Chmod, OpenClient, Edit

LEMMA ProgressByBegin == ASSUME Ground, NEW c \in Commands, Begin(c) PROVE Progress'
<1> DEFINE R == Elements(Calls(c))
<1>1. Planned(c, cmd'.calls) /\ cmd'.calls = Calls(c) /\ Remaining' = R
  BY BeginStep DEF Ground
<1>2. Whole(R, c.opts)
  BY <1>1 DEF Planned
<1> HIDE DEF R
<1>3. \A d, y : (Has(d, y)' <=> In(R, d, y)) /\ (Past(d, y)' <=> Behind(R, d, y))
  BY <1>1 DEF Has, Past
<1>4. ASSUME Installing', NEW y \in Steps PROVE ~Past("tts", y)'
  <2>1. \A d, z : In(R, d, z) => ~Behind(R, d, z)
    BY RankIsNat DEF In, Behind
  <2>2. CASE y # "up" \/ In(R, "tts", "healthy")
    <3>1. In(R, "tts", "record") \/ In(R, "tts", "healthy")
      BY <1>3, <1>4 DEF Installing
    <3>2. /\ In(R, "tts", "client") /\ In(R, "tts", "prefs") /\ In(R, "tts", "require")
          /\ In(R, "tts", "compose") /\ In(R, "tts", "record")
          /\ (In(R, "tts", "healthy") => In(R, "tts", "up"))
      BY <1>2, <3>1 DEF Whole
    <3>3. In(R, "tts", y)
      BY <2>2, <3>2 DEF Steps
    <3> QED  BY <1>3, <2>1, <3>3
  <2>3. CASE y = "up" /\ In(R, "tts", "record")
    <3>1. RankOf("tts", "record") = Rank(<<"tts", "record">>) /\ RankOf("tts", "record") = 66
          /\ RankOf("tts", "up") = 68
      BY RankIsNat, VoiceRanks
    <3>2. ~Behind(R, "tts", "up")
      BY <2>3, <3>1 DEF In, Behind
    <3> QED  BY <1>3, <2>3, <3>2
  <2> QED  BY <1>3, <1>4, <2>2, <2>3 DEF Installing
<1> QED  BY <1>4 DEF Progress, Steps

LEMMA ProgressStep == ASSUME Ground, Progress, [Next]_vars PROVE Progress'
<1>0. Orderly
  BY DEF Ground
<1>1. CASE UNCHANGED vars
  <2>1. cmd' = cmd
    BY <1>1 DEF vars
  <2>2. (\A d, y : (Has(d, y)' <=> Has(d, y)) /\ (Past(d, y)' <=> Past(d, y)))
    BY <2>1, SameRemain
  <2> QED  BY <1>1, <2>2 DEF vars, Progress, Installing, Placed, Preferred, Rendered, OnRecord, ClientAt,
                             Without
<1>2. CASE StabCall
  <2>1. \A x \in StabCalls : RankOf("stab", x) \notin 61..68
    BY StabRanks DEF StabCalls
  <2> QED  BY <1>0, <1>2, <2>1, StabMakes, ProgressAside
<1>3. CASE StackCall
  <2>1. ASSUME NEW s \in Stack, UpdateStack(s) \/ Down(s) \/ RemoveStack(s) PROVE Progress'
    <3>1. \A x \in {"update", "down", "remove"} : RankOf(s, x) \notin 61..68
      BY MoreRanks
    <3> QED  BY <1>0, <2>1, <3>1, StackMakes, ProgressAside
  <2>2. ASSUME NEW s \in Stack, s # "tts", WriteCompose(s) \/ Up(s) PROVE Progress'
    <3>1. \A x \in {"compose", "up"} : RankOf(s, x) \notin 61..68
      BY <2>2, StackRanks DEF Stack
    <3> QED  BY <1>0, <2>2, <3>1, StackMakes, ProgressAside
  <2>3. CASE WriteEnv
    <3>1. RankOf("webui", "env") = 52
      BY StackRanks
    <3> QED  BY <1>0, <2>3, <3>1, StackMakes, ProgressAside
  <2> QED  BY <1>3, <2>1, <2>2, <2>3, ProgressByCompose, ProgressByTakeOver DEF StackCall
<1>4. CASE VoiceCall
  <2>1. CASE RemoveClient \/ WipeTts \/ WaitHealthy \/ StageSource
    <3>1. \A x \in {"stage", "no-client", "wipe", "healthy"} : RankOf("tts", x) \notin 61..68
      BY VoiceRanks
    <3> QED  BY <1>0, <2>1, <3>1, VoiceMakes, ProgressAside
  <2> QED  BY <1>4, <2>1, ProgressByClient, ProgressByPrefs, ProgressByWeights, ProgressByTakeOver DEF VoiceCall
<1>5. ASSUME NEW c \in Component, Enter(c) PROVE Progress'
  <2>1. CASE c # "tts"
    <3>1. RankOf(c, "record") \notin 61..68
      BY <2>1, StackRanks, StabRanks DEF Component, Stack
    <3> QED  BY <1>0, <1>5, <3>1, StackMakes, ProgressAside
  <2> QED  BY <1>5, <2>1, ProgressByEnter
<1>6. CASE Save
  <2>1. RankOf("all", "save") = 8
    BY StackRanks
  <2> QED  BY <1>0, <1>6, <2>1, StackMakes, ProgressAside
<1>7. CASE Interrupt \/ Tear
  <2>1. ~Installing'
    BY <1>7, FailsStep, NoneRemain DEF Interrupt, Tear, Installing
  <2> QED  BY <2>1 DEF Progress
<1> QED  BY <1>1, <1>2, <1>3, <1>4, <1>5, <1>6, <1>7, ProgressByBegin, ProgressByUser DEF Next

LEMMA ProgressHolds == Spec => []Progress
<1>1. Init => Progress
  BY DEF Init, Progress, Installing, Has, In, Remaining
<1>2. Ground /\ Progress /\ [Next]_vars => Progress'
  BY ProgressStep
<1> QED  BY <1>1, <1>2, GroundHolds, PTL DEF Spec

\* The faults are counted, so a step that has one is never one that had none.
LEMMA FaultsCounted == Spec => [](history.faults \in Nat)
<1> DEFINE Counted == history.faults \in Nat
<1>1. Init => Counted
  BY DEF Init
<1>2. ASSUME Ground, Counted, [Next]_vars PROVE Counted'
  <2>1. PICK S : history \in History(S)
    BY <1>2 DEF Ground
  <2>2. Recorded => Counted'
    <3>1. \A m : Befalls(m) => Counted'
      BY <1>2, <2>1 DEF Befalls, History
    <3>2. \A m : Fault(m) => Counted'
      BY <1>2, <2>1 DEF Fault, History
    <3>3. history' = [history EXCEPT !.commands = @ + 1] => Counted'
      BY <1>2, <2>1 DEF History
    <3>4. history' = [history EXCEPT !.edits = @ + 1] => Counted'
      BY <1>2, <2>1 DEF History
    <3> QED  BY <1>2, <3>1, <3>2, <3>3, <3>4 DEF Recorded
  <2>3. Recorded
    <3>1. CASE StackCall
      BY <3>1 DEF StackCall, WriteCompose, Up, UpdateStack, Down, RemoveStack, WriteEnv, Recorded
    <3>2. CASE VoiceCall
      BY <3>2 DEF VoiceCall, InstallClient, WritePrefs, FetchWeights, RequireModels, TakeOver,
                  StageSource, WaitHealthy, Tries, RemoveClient, WipeTts, Recorded
    <3>3. CASE StabCall
      BY <3>3 DEF StabCall, InstallStab, BakedModels, BakedSecrets, CheckStab, NeedsDocker,
                  InstallPiAgent, BuildImage, Tries, Templates, RemoveStab, WipeHome, LoadConfig,
                  SeedFiles, SeedMarker, RefreshTunnels, Refreshes, CopyModels, Seeds, StopAgent,
                  RunAgent, Recorded
    <3>4. CASE User
      BY <3>4 DEF User, EditModels, EditSecrets, EditDockerfile, GetRelease, Chmod, OpenClient, Edit,
                  CloseClient, Detach, Recorded
    <3>5. CASE UNCHANGED vars
      BY <3>5 DEF vars, Recorded
    <3>6. CASE \/ \E c \in Commands : Begin(c)
               \/ \E c \in Component : Enter(c)
               \/ Save \/ Interrupt \/ Tear
      BY <3>6 DEF Begin, Enter, Save, Interrupt, Tear, Recorded
    <3> QED  BY <1>2, <3>1, <3>2, <3>3, <3>4, <3>5, <3>6 DEF Next
  <2> QED  BY <2>2, <2>3
<1>3. Ground /\ Counted /\ [Next]_vars => Counted'
  BY <1>2
<1> QED  BY <1>1, <1>3, GroundHolds, PTL DEF Spec
\* Nothing but its success, an interrupt or a torn file ends the wait for the stack.
LEMMA WhoWaits ==
  ASSUME Orderly, At("tts", "healthy"), Next, cmd' # cmd
  PROVE  (WaitHealthy /\ (Fails \/ Done)) \/ Interrupt \/ Tear
<1>1. \A c, x : At(c, x) => c = "tts" /\ x = "healthy"
  BY DEF At
<1>2. ~StabCall /\ ~Save /\ ~WriteEnv
  BY <1>1, StabMakes, StackMakes DEF Makes
<1>3. \A s \in Stack : ~WriteCompose(s) /\ ~Up(s) /\ ~UpdateStack(s) /\ ~Down(s) /\ ~RemoveStack(s)
  BY <1>1, StackMakes DEF Makes
<1>4. \A c \in Component : ~Enter(c)
  BY <1>1, StackMakes DEF Makes
<1>5. VoiceCall => WaitHealthy
  BY <1>1, VoiceMakes DEF Makes, VoiceCall
<1>6. ~User
  BY DEF User, EditModels, EditSecrets, EditDockerfile, GetRelease, Chmod, OpenClient, Edit,
         CloseClient, Detach
<1>7. \A c : ~Begin(c)
  BY DEF Begin, At
<1>8. WaitHealthy => Fails \/ Done
  BY DEF WaitHealthy, Tries
<1> QED  BY <1>2, <1>3, <1>4, <1>5, <1>6, <1>7, <1>8 DEF Next, StackCall

LEMMA FaultsShow ==
  ASSUME Ground, history.faults \in Nat, NEW m, Fault(m) PROVE history' # history
<1>1. PICK S : history \in History(S)
  BY DEF Ground
<1>2. history'.faults = history.faults + 1
  BY <1>1 DEF Fault, History
<1> QED  BY <1>2

LEMMA HealingStep ==
  ASSUME Ground, Progress, history.faults \in Nat, Next, At("tts", "healthy"), cmd' # cmd,
         history' = history
  PROVE  LET record == home'.manifest["tts"]
         IN /\ home'.tts \in container'["tts"] /\ home'.weights
            /\ record.port = cmd.opts.port /\ home'.tts.port = record.port
            /\ Without({"overwritten"}) => home'.prefs = record.port
            /\ Without({"unwritten"}) => ClientAt(record.client) = release
<1>1. Orderly
  BY DEF Ground
<1>2. ~Interrupt /\ ~Tear
  BY FaultsShow DEF Interrupt, Tear
<1>3. home' = home /\ container' = container
  BY <1>1, <1>2, WhoWaits DEF WaitHealthy, Tries
<1>4. Has("tts", "healthy") /\ cmd # None /\ cmd \in Running
  BY <1>1, HeadFacts
<1>5. \A y \in Steps : Past("tts", y)
  <2>1. ASSUME NEW y \in Steps PROVE Due("tts", y)
    <3>1. /\ Due("tts", "client") /\ Due("tts", "prefs") /\ Due("tts", "require")
          /\ Due("tts", "compose") /\ Due("tts", "record") /\ Due("tts", "up")
      BY <1>1, <1>4 DEF Orderly, Complete, Has, Due
    <3> QED  BY <3>1 DEF Steps
  <2>2. ASSUME NEW y \in Steps PROVE ~Has("tts", y)
    <3>1. Has("tts", y) => 69 <= RankOf("tts", y)
      BY <1>1, HeadFacts, VoiceRanks
    <3>2. RankOf("tts", y) <= 68 /\ RankOf("tts", y) \in Nat
      BY StepRanks, RankIsNat
    <3> QED  BY <3>1, <3>2
  <2> QED  BY <2>1, <2>2 DEF Due, Has, Past, Met
<1>6. /\ Placed /\ Preferred /\ home.weights /\ Rendered /\ OnRecord /\ home.tts \in container["tts"]
  BY <1>4, <1>5 DEF Progress, Installing, Steps
<1>7. home.manifest["tts"].port = cmd.opts.port /\ home.manifest["tts"].client = cmd.place
  BY <1>6 DEF OnRecord
<1>8. home.tts.port = cmd.opts.port
  BY <1>6 DEF Rendered
<1>9. /\ Without({"overwritten"}) => home.prefs = cmd.opts.port
      /\ Without({"unwritten"}) => ClientAt(cmd.place) = release
  BY <1>6 DEF Preferred, Placed
<1> QED  BY <1>3, <1>6, <1>7, <1>8, <1>9

\* An install of the voice stack that gets to its end heals whatever came before
\* (components/tts Install): stack, record, preferences, client and weights agree.
THEOREM VoiceInstallHeals == Spec => InstallHeals
<1>1. Ground /\ Progress /\ history.faults \in Nat /\ [Next]_vars =>
        [(At("tts", "healthy") /\ cmd' # cmd /\ history' = history) =>
           LET record == home'.manifest["tts"]
           IN /\ home'.tts \in container'["tts"] /\ home'.weights
              /\ record.port = cmd.opts.port /\ home'.tts.port = record.port
              /\ Without({"overwritten"}) => home'.prefs = record.port
              /\ Without({"unwritten"}) => ClientAt(record.client) = release]_vars
  BY HealingStep DEF vars
<1> QED  BY <1>1, GroundHolds, ProgressHolds, FaultsCounted, PTL DEF Spec, InstallHeals
----
(* What `stab update` gives the agent.                                     *)

\* Of a `stab update` that has still to start the agent: once the project's copy
\* is written it names the providers of the user's file, and once docker was told
\* to remove the container it is gone, unless docker could not.
Synced ==
  Has("stab", "run") /\ Past("stab", "sync") /\ References(home.models) # {} =>
    References(project.models) = References(home.models)
Stopped ==
  Has("stab", "run") /\ Past("stab", "stop") =>
    project.agent = None \/ "kept" \in history.mishaps
AgentInv == Synced /\ Stopped

\* Of the two calls, only the one that is made becomes past.
LEMMA PastBefore ==
  ASSUME Orderly, NEW c, NEW x, Takes(c, x), NEW y \in {"sync", "stop"},
         Has("stab", "run")', Past("stab", y)', <<c, x>> # <<"stab", y>>
  PROVE  Has("stab", "run") /\ Past("stab", y)
<1>1. Has("stab", "run")
  BY TakesFacts
<1>2. Due("stab", "sync") /\ Due("stab", "stop")
  BY <1>1, SomeRemain DEF Orderly, Complete, Has, Due
<1> QED  BY <1>1, <1>2, TakesFacts

\* Neither is made yet when a call is that ranks below them, and no call that
\* ranks above `run` is made before it.
LEMMA AgentAside ==
  ASSUME Orderly, NEW c, NEW x, Makes(c, x), Fails \/ RankOf(c, x) \notin 26..30
  PROVE  AgentInv'
<1>1. CASE Fails
  BY <1>1, FailsStep, NoneRemain DEF AgentInv, Synced, Stopped
<1>2. CASE Takes(c, x) /\ RankOf(c, x) \notin 26..30
  <2>1. /\ RankOf("stab", "sync") = 26 /\ RankOf("stab", "stop") = 28
        /\ RankOf("stab", "run") = 31 /\ RankOf(c, x) \in Nat
    BY StabRanks, RankIsNat
  <2>2. ASSUME NEW y \in {"sync", "stop"}, Has("stab", "run")', Past("stab", y)' PROVE FALSE
    <3>1. RankOf(c, x) < RankOf("stab", "run")
      BY <1>2, <2>2, RankIsNat DEF Takes, Has, In, Past, Behind
    <3>2. <<c, x>> # <<"stab", y>>
      BY <1>2, <2>1
    <3>3. Past("stab", y)
      BY <1>2, <2>2, <3>2, PastBefore
    <3>4. RankOf("stab", y) < RankOf(c, x)
      BY <1>2, <3>3, RankIsNat DEF Takes, Has, In, Past, Behind
    <3>5. 26 < RankOf(c, x) /\ RankOf(c, x) < 31
      <4>1. CASE y = "sync"
        BY <2>1, <3>1, <3>4, <4>1
      <4>2. CASE y = "stop"
        BY <2>1, <3>1, <3>4, <4>2
      <4> QED  BY <4>1, <4>2
    <3> QED  BY <1>2, <2>1, <3>5
  <2> QED  BY <2>2 DEF AgentInv, Synced, Stopped
<1> QED  BY <1>1, <1>2 DEF Makes

LEMMA NoReferences == References(None) = {}
  BY DEF References, Models, NoModels, Name

\* A refresh is about the tunnel's entries, and they have no key.
LEMMA RefreshReferences ==
  ASSUME NEW file \in ModelsFile, NEW answering, NEW host
  PROVE  References(Refresh(file, answering, host)) = References(file)
<1> DEFINE new == [n \in Name |-> IF n \notin Tunnelled THEN Models(file)[n]
                                  ELSE IF answering /\ n = host THEN "ollama" ELSE None]
<1>1. new \in [Name -> Entry]
  BY ModelsType DEF Entry
<1>2. Models(new) = new
  BY <1>1, ModelsType
<1>3. \A p \in Provider : new[p] = Models(file)[p]
  BY BakedAssumption DEF Name
<1>4. Refresh(file, answering, host) \in {file, new}
  BY DEF Refresh
<1> HIDE DEF new
<1> QED  BY <1>2, <1>3, <1>4 DEF References

\* Which action makes a call of stab.
LEMMA StabCallAt ==
  ASSUME StabCall, NEW x, At("stab", x)
  PROVE  /\ x \in {"sync", "seed-again"} => CopyModels
         /\ x = "build" => BuildImage
         /\ x = "stop" => StopAgent
         /\ x = "refresh-again" => RefreshTunnels
         /\ x = "run" => RunAgent
<1>1. \A d, y : At(d, y) => d = "stab" /\ y = x
  BY DEF At
<1>2. /\ InstallStab => x = "binary"
      /\ CheckStab => x = "check"
      /\ Templates => x = "templates"
      /\ RemoveStab => x = "remove"
  BY <1>1 DEF InstallStab, CheckStab, Templates, RemoveStab
<1>3. /\ WipeHome => x = "wipe"
      /\ LoadConfig => x = "load"
      /\ SeedFiles => x = "files"
      /\ SeedMarker => x = "marker"
  BY <1>1 DEF WipeHome, LoadConfig, SeedFiles, SeedMarker
<1>4. /\ NeedsDocker => x = "docker"
      /\ InstallPiAgent => x = "pi-agent"
      /\ BuildImage => x = "build"
  BY <1>1 DEF NeedsDocker, InstallPiAgent, BuildImage, Tries
<1>5. /\ RefreshTunnels => x \in {"refresh", "refresh-again"}
      /\ CopyModels => x \in {"seed", "seed-again", "sync"}
      /\ StopAgent => x = "stop"
      /\ RunAgent => x \in {"run", "attach"}
  BY <1>1 DEF RefreshTunnels, Refreshes, CopyModels, Seeds, StopAgent, RunAgent
<1>6. /\ \A m \in Merges : BakedModels(m[1], m[2]) => x \in {"models", "stab-models"}
      /\ \A k \in Keys : BakedSecrets(k[1], k[2]) => x \in {"secrets", "stab-secrets"}
  BY <1>1 DEF Merges, Keys, BakedModels, BakedSecrets
<1> DEFINE Sought == /\ x \in {"sync", "seed-again"} => CopyModels
                     /\ x = "build" => BuildImage
                     /\ x = "stop" => StopAgent
                     /\ x = "refresh-again" => RefreshTunnels
                     /\ x = "run" => RunAgent
<1>7. CASE CopyModels \/ StopAgent \/ RefreshTunnels \/ RunAgent \/ BuildImage
  BY <1>4, <1>5, <1>7
<1>8. CASE \/ InstallStab \/ CheckStab \/ Templates \/ RemoveStab
           \/ WipeHome \/ LoadConfig \/ SeedFiles \/ SeedMarker
  BY <1>2, <1>3, <1>8
<1>9. CASE NeedsDocker \/ InstallPiAgent
  BY <1>4, <1>9
<1>10. ASSUME \/ \E m \in Merges : BakedModels(m[1], m[2])
              \/ \E k \in Keys : BakedSecrets(k[1], k[2])
       PROVE  Sought
  BY <1>6, <1>10
<1> QED  BY <1>7, <1>8, <1>9, <1>10 DEF StabCall

\* The calls from `sync` to the one before `run`.
LEMMA AgentByStab == ASSUME Ground, AgentInv, StabCall PROVE AgentInv'
<1>0. Orderly /\ home \in HomeSet /\ project \in ProjectSet
  BY DEF Ground, Files
<1>1. PICK x \in StabCalls : Makes("stab", x)
  BY <1>0, StabMakes
<1>2. \A d, y : At(d, y) => d = "stab" /\ y = x
  BY <1>1 DEF Makes, At
<1>3. At("stab", x)
  BY <1>1 DEF Makes
<1>4. CASE Fails
  BY <1>0, <1>1, <1>4, AgentAside
<1>5. CASE x \notin {"sync", "build", "stop", "refresh-again", "seed-again"}
  <2>1. RankOf("stab", x) \notin 26..30
    BY <1>5, StabRanks DEF StabCalls
  <2> QED  BY <1>0, <1>1, <2>1, AgentAside
<1>6. CASE ~Fails /\ x \in {"sync", "build", "stop", "refresh-again", "seed-again"}
  <2>1. Takes("stab", x)
    BY <1>1, <1>6 DEF Makes
  <2>2. /\ x # "sync" => (Has("stab", "run")' /\ Past("stab", "sync")' =>
                            Has("stab", "run") /\ Past("stab", "sync"))
        /\ x # "stop" => (Has("stab", "run")' /\ Past("stab", "stop")' =>
                            Has("stab", "run") /\ Past("stab", "stop"))
    BY <1>0, <2>1, PastBefore
  <2>3. CASE x = "sync"
    <3>1. CopyModels /\ At("stab", "sync") /\ ~Seeds
      BY <1>2, <1>3, <2>3, StabCallAt DEF Seeds
    <3>2. /\ project' = [project EXCEPT !.models = Sync(project.models, home.models)]
          /\ home' = home /\ history' = history
      BY <3>1 DEF CopyModels
    <3>3. project'.agent = project.agent
          /\ (References(home.models) # {} => project'.models = home.models)
      BY <1>0, <3>2, NoReferences DEF Sync, ProjectSet
    <3> QED  BY <2>2, <2>3, <3>2, <3>3 DEF AgentInv, Synced, Stopped
  <2>4. CASE x = "build"
    <3>1. home' = home /\ project' = project /\ history' = history
      BY <1>3, <1>6, <2>4, StabCallAt DEF BuildImage, Tries
    <3> QED  BY <2>2, <2>4, <3>1 DEF AgentInv, Synced, Stopped
  <2>5. CASE x = "stop"
    <3>1. StopAgent
      BY <1>3, <2>5, StabCallAt
    <3>2. home' = home /\ project'.models = project.models
      BY <1>0, <3>1 DEF StopAgent, ProjectSet
    <3>3. project'.agent = None \/ "kept" \in history'.mishaps
      <4>1. CASE project' = [project EXCEPT !.agent = None]
        BY <1>0, <4>1 DEF ProjectSet
      <4>2. CASE Fault({"failed", "kept"})
        BY <4>2, Mishaps
      <4> QED  BY <3>1, <4>1, <4>2 DEF StopAgent
    <3> QED  BY <2>2, <2>5, <3>2, <3>3 DEF AgentInv, Synced, Stopped
  <2>6. CASE x = "refresh-again"
    <3>1. RefreshTunnels
      BY <1>3, <2>6, StabCallAt
    <3>2. PICK answering \in BOOLEAN, host \in Tunnelled :
            home' = [home EXCEPT !.models = Refresh(home.models, answering, host)]
      BY <3>1 DEF RefreshTunnels
    <3>3. References(home'.models) = References(home.models)
      BY <1>0, <3>2, RefreshReferences DEF HomeSet
    <3>4. project' = project /\ history' = history
      BY <3>1 DEF RefreshTunnels
    <3> QED  BY <2>2, <2>6, <3>3, <3>4 DEF AgentInv, Synced, Stopped
  <2>7. CASE x = "seed-again"
    <3>1. CopyModels /\ ~At("stab", "sync")
      BY <1>2, <1>3, <2>7, StabCallAt
    <3>2. /\ project' = [project EXCEPT !.models = Seed(project.models, home.models)]
          /\ home' = home /\ history' = history
      BY <3>1 DEF CopyModels
    <3>3. project'.agent = project.agent /\ project'.models \in {project.models, home.models}
      BY <1>0, <3>2 DEF Seed, ProjectSet
    <3> QED  BY <2>2, <2>7, <3>2, <3>3 DEF AgentInv, Synced, Stopped
  <2> QED  BY <1>6, <2>3, <2>4, <2>5, <2>6, <2>7
<1> QED  BY <1>4, <1>5, <1>6

LEMMA AgentInvStep == ASSUME Ground, AgentInv, [Next]_vars PROVE AgentInv'
<1>0. Orderly /\ home \in HomeSet /\ project \in ProjectSet
  BY DEF Ground, Files
<1>1. CASE UNCHANGED vars
  BY <1>1, SameRemain DEF vars, AgentInv, Synced, Stopped
<1>2. CASE StackCall
  <2>1. \A s \in Stack : \A x \in {"compose", "up", "update", "down", "remove", "env"} :
          Makes(s, x) => RankOf(s, x) \notin 26..30
    BY DEF RankOf, StackRank, VoiceRank, Stack
  <2>2. \E s \in Stack : \E x \in {"compose", "up", "update", "down", "remove", "env"} : Makes(s, x)
    BY <1>0, <1>2, StackMakes DEF StackCall, Stack
  <2> QED  BY <1>0, <2>1, <2>2, AgentAside
<1>3. CASE VoiceCall
  <2> DEFINE X == {"stage", "client", "prefs", "weights", "require", "take-over", "healthy",
                   "no-client", "wipe"}
  <2>1. \A x \in X : RankOf("tts", x) \notin 26..30
    BY VoiceRanks
  <2>2. \E x \in X : Makes("tts", x)
    BY <1>0, <1>3, VoiceMakes DEF VoiceCall
  <2> QED  BY <1>0, <2>1, <2>2, AgentAside
<1>4. ASSUME NEW c \in Component, Enter(c) PROVE AgentInv'
  <2>1. RankOf(c, "record") \notin 26..30
    BY StabRanks, StackRanks, VoiceRanks DEF Component, Stack
  <2> QED  BY <1>0, <1>4, <2>1, StackMakes, AgentAside
<1>5. CASE Save
  <2>1. RankOf("all", "save") = 8
    BY StackRanks
  <2> QED  BY <1>0, <1>5, <2>1, StackMakes, AgentAside
<1>6. CASE Interrupt \/ Tear
  BY <1>6, FailsStep, NoneRemain DEF Interrupt, Tear, AgentInv, Synced, Stopped
<1>7. CASE User
  <2>1. CASE cmd = None
    <3>1. cmd' = None
      BY <1>7, <2>1 DEF User, EditModels, EditSecrets, EditDockerfile, GetRelease, Chmod, OpenClient, Edit,
                        CloseClient, Detach
    <3> QED  BY <3>1 DEF AgentInv, Synced, Stopped, Has, In, Remaining
  <2>2. CASE cmd # None
    <3>1. CloseClient \/ Detach
      BY <1>7, <2>2 DEF User, EditModels, EditSecrets, EditDockerfile, GetRelease, Chmod, OpenClient, Edit
    <3>2. cmd' = cmd /\ project' = project /\ history' = history /\ home'.models = home.models
      BY <1>0, <3>1 DEF CloseClient, Detach, HomeSet
    <3> QED  BY <3>2, SameRemain DEF AgentInv, Synced, Stopped
  <2> QED  BY <2>1, <2>2
<1>8. ASSUME NEW c \in Commands, Begin(c) PROVE AgentInv'
  <2>1. Planned(c, cmd'.calls) /\ cmd'.calls = Calls(c) /\ Remaining' = Elements(Calls(c))
    BY <1>8, BeginStep DEF Ground
  <2>2. Whole(Remaining', c.opts)
    BY <2>1 DEF Planned
  <2>3. /\ In(Remaining', "stab", "sync") => ~Behind(Remaining', "stab", "sync")
        /\ In(Remaining', "stab", "stop") => ~Behind(Remaining', "stab", "stop")
    BY RankIsNat DEF In, Behind
  <2> QED  BY <2>2, <2>3 DEF Whole, AgentInv, Synced, Stopped, Has, Past
<1> QED  BY <1>1, <1>2, <1>3, <1>4, <1>5, <1>6, <1>7, <1>8, AgentByStab DEF Next

LEMMA AgentHolds == Spec => []AgentInv
<1>1. Init => AgentInv
  BY DEF Init, AgentInv, Synced, Stopped, Has, In, Remaining
<1>2. Ground /\ AgentInv /\ [Next]_vars => AgentInv'
  BY AgentInvStep
<1> QED  BY <1>1, <1>2, GroundHolds, PTL DEF Spec

\* Nothing but the start of the container, an interrupt or a torn file ends it.
LEMMA WhoRuns ==
  ASSUME Orderly, At("stab", "run"), Next, cmd' # cmd
  PROVE  RunAgent \/ Interrupt \/ Tear
<1>1. \A c, x : At(c, x) => c = "stab" /\ x = "run"
  BY DEF At
<1>2. ~VoiceCall /\ ~Save /\ ~WriteEnv
  BY <1>1, VoiceMakes, StackMakes DEF Makes, VoiceCall
<1>3. \A s \in Stack : ~WriteCompose(s) /\ ~Up(s) /\ ~UpdateStack(s) /\ ~Down(s) /\ ~RemoveStack(s)
  BY <1>1, StackMakes DEF Makes, Stack
<1>4. \A c \in Component : ~Enter(c)
  BY <1>1, StackMakes DEF Makes
<1>5. StabCall => RunAgent
  BY StabCallAt
<1>6. ~User
  BY DEF User, EditModels, EditSecrets, EditDockerfile, GetRelease, Chmod, OpenClient, Edit,
         CloseClient, Detach
<1>7. \A c : ~Begin(c)
  BY DEF Begin, At
<1> QED  BY <1>2, <1>3, <1>4, <1>5, <1>6, <1>7 DEF Next, StackCall

LEMMA AgentStep ==
  ASSUME Ground, AgentInv, history.faults \in Nat, Next, At("stab", "run"), cmd' # cmd,
         history' = history, References(home.models) # {}
  PROVE  \/ project'.agent = Resolved(home.models, home.secrets)
         \/ project.agent # None /\ "kept" \in history.mishaps
<1>0. Orderly /\ project \in ProjectSet
  BY DEF Ground, Files
<1>1. ~Interrupt /\ ~Tear
  BY FaultsShow DEF Interrupt, Tear
<1>2. project' = [project EXCEPT !.agent =
                    IF @ = None THEN Resolved(project.models, home.secrets) ELSE @]
  BY <1>0, <1>1, WhoRuns, FaultsShow DEF RunAgent
<1>3. project.agent = None => project'.agent = Resolved(project.models, home.secrets)
  BY <1>0, <1>2 DEF ProjectSet
<1>4. Has("stab", "run") /\ cmd # None
  BY <1>0, HeadFacts
<1>5. Due("stab", "sync") /\ Due("stab", "stop")
  BY <1>0, <1>4 DEF Orderly, Complete, Has, Due
<1>6. Past("stab", "sync") /\ Past("stab", "stop")
  <2>1. /\ Has("stab", "sync") => RankOf("stab", "run") <= RankOf("stab", "sync")
        /\ Has("stab", "stop") => RankOf("stab", "run") <= RankOf("stab", "stop")
    BY <1>0, HeadFacts
  <2> QED  BY <1>5, <2>1, StabRanks DEF Due, Met, Has, Past
<1>7. References(project.models) = References(home.models)
  BY <1>4, <1>6 DEF AgentInv, Synced
<1>8. project.agent = None \/ "kept" \in history.mishaps
  BY <1>4, <1>6 DEF AgentInv, Stopped
<1> QED  BY <1>3, <1>7, <1>8 DEF Resolved

\* A `stab update` that gets to its end gives the agent the keys of the providers
\* that the user's files name (stab/internal/cli cmdUpdate, envInjectForProject),
\* except that a container docker could not remove lives on with the keys it had.
THEOREM UpdatedAgentHasKeys == Spec => UpdateReachesAgent
<1>1. Ground /\ AgentInv /\ history.faults \in Nat /\ [Next]_vars =>
        [(At("stab", "run") /\ cmd' # cmd /\ history' = history /\ References(home.models) # {}) =>
           \/ project'.agent = Resolved(home.models, home.secrets)
           \/ project.agent # None /\ "kept" \in history.mishaps]_vars
  BY AgentStep DEF vars
<1> QED  BY <1>1, GroundHolds, AgentHolds, FaultsCounted, PTL DEF Spec, UpdateReachesAgent
----
(* The voice stack's client is where the record says.                      *)

\* A call that leaves the voice stack on the list, or is none of a removal.
Goes(c, x) ==
  /\ At(c, x)
  /\ \/ Fails /\ RankOf(c, x) > 8
     \/ Takes(c, x) /\ (cmd' # None => cmd'.left["tts"] = cmd.left["tts"])

LEMMA DoneGoes ==
  ASSUME Orderly, NEW c, NEW x, At(c, x), Done \/ (Fails /\ RankOf(c, x) > 8) PROVE Goes(c, x)
  BY DoneStep DEF Goes, Succeeds

LEMMA StrikeGoes ==
  ASSUME Orderly, NEW c, NEW x, At(c, x), NEW a \in Component, a # "tts",
         cmd' = After([cmd EXCEPT !.left[a] = None])
  PROVE  Goes(c, x)
<1>1. cmd.left \in Manifest
  BY HeadFacts DEF Running
<1>2. [cmd.left EXCEPT ![a] = None]["tts"] = cmd.left["tts"]
  BY <1>1 DEF Manifest, Component, Stack
<1> QED  BY <1>2, StrikeStep DEF Goes

LEMMA StackGoes ==
  ASSUME Orderly
  PROVE  /\ \A s \in Stack : /\ WriteCompose(s) => Goes(s, "compose")
                             /\ Up(s) => Goes(s, "up")
                             /\ UpdateStack(s) => Goes(s, "update")
                             /\ Down(s) => Goes(s, "down")
                             /\ RemoveStack(s) => Goes(s, "remove")
         /\ WriteEnv => Goes("webui", "env")
         /\ \A c \in Component : Enter(c) => Goes(c, "record")
<1>1. ASSUME NEW s \in Stack, RemoveStack(s) PROVE Goes(s, "remove")
  <2>1. CASE s = "tts"
    BY <1>1, <2>1, DoneGoes DEF RemoveStack, Done
  <2>2. CASE s # "tts"
    <3>1. At(s, "remove") /\ s \in Component /\ cmd' = After([cmd EXCEPT !.left[s] = None])
      BY <1>1, <2>2 DEF RemoveStack, Component
    <3> QED  BY <2>2, <3>1, StrikeGoes
  <2> QED  BY <2>1, <2>2
<1>2. ASSUME NEW s \in Stack
      PROVE  /\ WriteCompose(s) => Goes(s, "compose")
             /\ Up(s) => Goes(s, "up")
             /\ UpdateStack(s) => Goes(s, "update")
             /\ Down(s) => Goes(s, "down")
  <2>1. RankOf(s, "up") > 8 /\ RankOf(s, "down") > 8
    BY MoreRanks
  <2> QED  BY <2>1, DoneGoes DEF WriteCompose, Up, UpdateStack, Down
<1>3. WriteEnv => Goes("webui", "env")
  BY StackRanks, DoneGoes DEF WriteEnv
<1>4. ASSUME NEW c \in Component, Enter(c) PROVE Goes(c, "record")
  <2>1. RankOf(c, "record") > 8
    BY StabRanks, StackRanks, VoiceRanks DEF Component, Stack
  <2> QED  BY <1>4, <2>1, DoneGoes DEF Enter
<1> QED  BY <1>1, <1>2, <1>3, <1>4

LEMMA VoiceGoes ==
  ASSUME Orderly
  PROVE  /\ InstallClient => Goes("tts", "client")
         /\ WritePrefs => Goes("tts", "prefs")
         /\ FetchWeights => Goes("tts", "weights")
         /\ RequireModels => Goes("tts", "require")
         /\ TakeOver => Goes("tts", "take-over")
         /\ StageSource => Goes("tts", "stage")
         /\ WaitHealthy => Goes("tts", "healthy")
         /\ WipeTts => Goes("tts", "wipe")
<1>1. InstallClient => Goes("tts", "client")
  <2> SUFFICES ASSUME InstallClient PROVE Goes("tts", "client")
    OBVIOUS
  <2>1. At("tts", "client") /\ \E place \in Place : cmd' = After([cmd EXCEPT !.place = place])
    BY DEF InstallClient, Place
  <2> QED  BY <2>1, PlaceStep DEF Goes
<1>2. /\ WritePrefs => Goes("tts", "prefs")
      /\ FetchWeights => Goes("tts", "weights")
      /\ RequireModels => Goes("tts", "require")
  BY DoneGoes, VoiceRanks DEF WritePrefs, FetchWeights, RequireModels
<1>3. /\ TakeOver => Goes("tts", "take-over")
      /\ StageSource => Goes("tts", "stage")
      /\ WaitHealthy => Goes("tts", "healthy")
      /\ WipeTts => Goes("tts", "wipe")
  BY DoneGoes, VoiceRanks DEF TakeOver, StageSource, WaitHealthy, Tries, WipeTts
<1> QED  BY <1>1, <1>2, <1>3

LEMMA StabGoes == ASSUME Orderly, StabCall PROVE \E x \in StabCalls : Goes("stab", x)
<1> DEFINE Went == \E x \in StabCalls : Goes("stab", x)
<1>1. \A x \in StabCalls : At("stab", x) /\ (Done \/ (Fails /\ x \notin {"remove", "wipe"})) => Went
  <2>1. \A x \in StabCalls : x \notin {"remove", "wipe"} => RankOf("stab", x) > 8
    BY StabRanks DEF StabCalls
  <2> QED  BY <2>1, DoneGoes
<1> SUFFICES Went
  OBVIOUS
<1>2. CASE RemoveStab
  <2>1. At("stab", "remove") /\ cmd' = After([cmd EXCEPT !.left["stab"] = None]) /\ "stab" \in Component
    BY <1>2 DEF RemoveStab, Component
  <2> QED  BY <2>1, StrikeGoes DEF StabCalls
<1> HIDE DEF Went
<1>3. ASSUME NEW x \in {"models", "stab-models"}, NEW baked, BakedModels(x, baked) PROVE Went
  BY <1>1, <1>3 DEF BakedModels, StabCalls
<1>4. ASSUME NEW x \in {"secrets", "stab-secrets"}, NEW baked, BakedSecrets(x, baked) PROVE Went
  BY <1>1, <1>4 DEF BakedSecrets, StabCalls
<1>5. CASE \/ InstallStab \/ CheckStab \/ NeedsDocker \/ InstallPiAgent \/ BuildImage \/ Templates
           \/ WipeHome
  BY <1>1, <1>5 DEF InstallStab, CheckStab, NeedsDocker, InstallPiAgent, BuildImage, Tries,
                    Templates, WipeHome, StabCalls
<1>6. CASE LoadConfig \/ SeedFiles \/ SeedMarker \/ RefreshTunnels
  BY <1>1, <1>6 DEF LoadConfig, SeedFiles, SeedMarker, RefreshTunnels, Refreshes, StabCalls
<1>7. CASE CopyModels \/ StopAgent \/ RunAgent
  BY <1>1, <1>7 DEF CopyModels, Seeds, StopAgent, RunAgent, StabCalls
<1>8. /\ \A m \in Merges : m[1] \in {"models", "stab-models"}
      /\ \A k \in Keys : k[1] \in {"secrets", "stab-secrets"}
  BY DEF Merges, Keys
<1> QED  BY <1>2, <1>3, <1>4, <1>5, <1>6, <1>7, <1>8 DEF StabCall

\* What is the voice stack's alone.
VoiceKept == /\ home'.manifest = home.manifest /\ home'.tts = home.tts /\ home'.weights = home.weights
             /\ home'.prefs = home.prefs /\ home'.client = home.client
             /\ bin'.client = bin.client /\ bin'.open = bin.open

LEMMA StabKeepsVoice == ASSUME Ground, StabCall, ~WipeHome PROVE VoiceKept /\ container' = container
<1>0. home \in HomeSet /\ bin \in BinSet
  BY DEF Ground, Files
<1>1. container' = container
  BY DEF StabCall, InstallStab, BakedModels, BakedSecrets, CheckStab, NeedsDocker, InstallPiAgent,
         BuildImage, Tries, Templates, RemoveStab, LoadConfig, SeedFiles, SeedMarker,
         RefreshTunnels, Refreshes, CopyModels, Seeds, StopAgent, RunAgent
<1>2. /\ home'.manifest = home.manifest /\ home'.tts = home.tts /\ home'.weights = home.weights
      /\ home'.prefs = home.prefs /\ home'.client = home.client
  <2> DEFINE Same == /\ home'.manifest = home.manifest /\ home'.tts = home.tts /\ home'.weights = home.weights
                     /\ home'.prefs = home.prefs /\ home'.client = home.client
  <2>1. \A f \in {"models", "secrets", "config"} : \A v : home' = [home EXCEPT ![f] = v] => Same
    BY <1>0 DEF HomeSet
  <2>2. CASE Templates
    BY <1>0, <2>2 DEF Templates, HomeSet
  <2>3. ASSUME NEW call, NEW baked, BakedModels(call, baked) \/ BakedSecrets(call, baked) PROVE Same
    BY <2>1, <2>3 DEF BakedModels, BakedSecrets
  <2>4. CASE CheckStab \/ LoadConfig \/ RefreshTunnels
    BY <2>1, <2>4 DEF CheckStab, LoadConfig, RefreshTunnels, Refreshes, Configured
  <2>5. CASE \/ InstallStab \/ NeedsDocker \/ InstallPiAgent \/ BuildImage \/ RemoveStab
             \/ SeedFiles \/ SeedMarker \/ CopyModels
             \/ StopAgent \/ RunAgent
    BY <2>5 DEF InstallStab, NeedsDocker, InstallPiAgent, BuildImage, Tries, RemoveStab,
                SeedFiles, SeedMarker, CopyModels, Seeds, StopAgent, RunAgent
  <2>6. Same
    BY <2>2, <2>3, <2>4, <2>5 DEF StabCall
  <2> QED  BY <2>6
<1>3. bin'.client = bin.client /\ bin'.open = bin.open
  <2>1. \/ bin' = bin
        \/ \E v : bin' = [bin EXCEPT !.stab = v]
        \/ bin' = [bin EXCEPT !.mode = "ok"]
        \/ bin' = [bin EXCEPT !.stab = None, !.attached = FALSE]
        \/ \E v : bin' = [bin EXCEPT !.attached = v]
    BY DEF StabCall, InstallStab, BakedModels, BakedSecrets, CheckStab, NeedsDocker,
           InstallPiAgent, BuildImage, Tries, Templates, RemoveStab, LoadConfig, SeedFiles,
           SeedMarker, RefreshTunnels, Refreshes, CopyModels, Seeds, StopAgent, RunAgent
  <2> QED  BY <1>0, <2>1 DEF BinSet
<1> QED  BY <1>1, <1>2, <1>3 DEF VoiceKept

\* Struck off the list before its files are wiped.
Struck == Has("tts", "wipe") /\ Past("tts", "no-client") => cmd.left["tts"] = None

LEMMA StruckAside ==
  ASSUME Orderly, NEW c, NEW x, Makes(c, x), RankOf(c, x) # 4 PROVE Struck'
<1>1. CASE Fails
  BY <1>1, FailsStep, NoneRemain DEF Struck
<1>2. CASE Takes(c, x)
  <2> SUFFICES ASSUME Has("tts", "wipe")', Past("tts", "no-client")' PROVE FALSE
    BY DEF Struck
  <2>1. Has("tts", "wipe")
    BY <1>2, TakesFacts
  <2>2. Due("tts", "no-client")
    BY <2>1, SomeRemain DEF Orderly, Complete, Has, Due
  <2>3. <<c, x>> = <<"tts", "no-client">> \/ Past("tts", "no-client")
    BY <1>2, <2>2, TakesFacts
  <2>4. RankOf("tts", "no-client") = 4 /\ RankOf("tts", "wipe") = 5
    BY VoiceRanks
  <2>5. RankOf(c, x) < 5
    BY <1>2, <2>4, RankIsNat DEF Takes, Has, In, Past, Behind
  <2>6. CASE Past("tts", "no-client")
    <3>1. 4 < RankOf(c, x)
      BY <1>2, <2>4, <2>6, RankIsNat DEF Takes, Has, In, Past, Behind
    <3>2. RankOf(c, x) \in Nat
      BY RankIsNat
    <3> QED  BY <2>5, <3>1, <3>2
  <2>7. CASE <<c, x>> = <<"tts", "no-client">>
    <3>1. c = "tts" /\ x = "no-client"
      BY <2>7
    <3> QED  BY <2>4, <3>1
  <2> QED  BY <2>3, <2>6, <2>7
<1> QED  BY <1>1, <1>2 DEF Makes

LEMMA StruckStep == ASSUME Ground, Struck, [Next]_vars PROVE Struck'
<1>0. Orderly
  BY DEF Ground
<1>1. CASE UNCHANGED vars \/ User
  <2>1. cmd' = cmd
    BY <1>1 DEF vars, User, EditModels, EditSecrets, EditDockerfile, GetRelease, Chmod, OpenClient, Edit,
                CloseClient, Detach
  <2> QED  BY <2>1, SameRemain DEF Struck
<1>2. CASE StackCall
  <2>1. \A s \in Stack : \A x \in {"compose", "up", "update", "down", "remove", "env"} : RankOf(s, x) # 4
    BY DEF RankOf, StackRank, VoiceRank, Stack
  <2>2. \E s \in Stack : \E x \in {"compose", "up", "update", "down", "remove", "env"} : Makes(s, x)
    BY <1>0, <1>2, StackMakes DEF StackCall, Stack
  <2> QED  BY <1>0, <2>1, <2>2, StruckAside
<1>3. CASE VoiceCall /\ ~RemoveClient
  <2> DEFINE X == {"stage", "client", "prefs", "weights", "require", "take-over", "healthy", "wipe"}
  <2>1. \A x \in X : RankOf("tts", x) # 4
    BY VoiceRanks
  <2>2. \E x \in X : Makes("tts", x)
    BY <1>0, <1>3, VoiceMakes DEF VoiceCall
  <2> QED  BY <1>0, <2>1, <2>2, StruckAside
<1>4. CASE RemoveClient
  <2>1. At("tts", "no-client") /\ cmd' = After([cmd EXCEPT !.left["tts"] = None]) /\ "tts" \in Component
    BY <1>4 DEF RemoveClient, Component, Stack
  <2>2. cmd \in Running
    BY <1>0, <2>1, HeadFacts
  <2>3. cmd' # None => cmd'.left = [cmd.left EXCEPT !["tts"] = None]
    BY <1>0, <2>1, StrikeStep
  <2>4. cmd' # None => cmd'.left["tts"] = None
    BY <2>2, <2>3 DEF Running, Manifest, Component, Stack
  <2>5. Has("tts", "wipe")' => cmd' # None
    BY DEF Has, In, Remaining
  <2> QED  BY <2>4, <2>5 DEF Struck
<1>5. ASSUME NEW c \in Component, Enter(c) PROVE Struck'
  <2>1. RankOf(c, "record") # 4
    BY StabRanks, StackRanks, VoiceRanks DEF Component, Stack
  <2> QED  BY <1>0, <1>5, <2>1, StackMakes, StruckAside
<1>6. CASE Save
  <2>1. RankOf("all", "save") = 8
    BY StackRanks
  <2> QED  BY <1>0, <1>6, <2>1, StackMakes, StruckAside
<1>7. CASE Interrupt \/ Tear
  BY <1>7, FailsStep, NoneRemain DEF Interrupt, Tear, Struck
<1>8. ASSUME NEW c \in Commands, Begin(c) PROVE Struck'
  <2>1. Planned(c, cmd'.calls) /\ cmd'.calls = Calls(c) /\ Remaining' = Elements(Calls(c))
    BY <1>8, BeginStep DEF Ground
  <2>2. Whole(Remaining', c.opts)
    BY <2>1 DEF Planned
  <2>3. In(Remaining', "tts", "no-client") => ~Behind(Remaining', "tts", "no-client")
    BY RankIsNat DEF In, Behind
  <2> QED  BY <2>2, <2>3 DEF Whole, Struck, Has, Past
<1>9. CASE StabCall
  <2>1. \A x \in StabCalls : RankOf("stab", x) # 4
    BY StabRanks DEF StabCalls
  <2> QED  BY <1>0, <1>9, <2>1, StabMakes, StruckAside
<1> QED  BY <1>1, <1>2, <1>3, <1>4, <1>5, <1>6, <1>7, <1>8, <1>9 DEF Next

LEMMA StruckHolds == Spec => []Struck
<1>1. Init => Struck
  BY DEF Init, Struck, Has, In, Remaining
<1>2. Ground /\ Struck /\ [Next]_vars => Struck'
  BY StruckStep
<1> QED  BY <1>1, <1>2, GroundHolds, PTL DEF Spec
FollowClean == Without({"failed", "interrupted", "wiped", "unwritten", "no-weights"})
Follows(record) ==
  IF record = None THEN bin.client = None /\ home.client = None ELSE ClientAt(record.client) # None
\* The client is there, and not yet on record.
Entering == Has("tts", "record") /\ Past("tts", "client")
FollowInv == FollowClean => Entering \/ Follows(Standing("tts"))

LEMMA FollowBefore ==
  ASSUME history.mishaps \subseteq history'.mishaps, FollowClean' PROVE FollowClean
  BY DEF FollowClean, Without

\* A call leaves the record standing, and an install at its place.
LEMMA Stands ==
  ASSUME Orderly, NEW c, NEW x, At(c, x),
         \/ Fails /\ RankOf(c, x) > 8
         \/ /\ Takes(c, x) /\ <<c, x>> # <<"all", "save">>
            /\ cmd' # None => cmd'.left["tts"] = cmd.left["tts"],
         home'.manifest["tts"] = home.manifest["tts"]
  PROVE  Standing("tts")' = Standing("tts")
<1>1. CASE Fails /\ RankOf(c, x) > 8
  <2>1. ~Saving
    <3>1. Saving => RankOf(c, x) <= 8
      BY HeadFacts, StackRanks DEF Saving
    <3>2. RankOf(c, x) \in Nat
      BY RankIsNat
    <3> QED  BY <1>1, <3>1, <3>2
  <2>2. ~Saving'
    BY <1>1, FailsStep, NoneRemain DEF Saving
  <2> QED  BY <2>1, <2>2 DEF Standing
<1>2. CASE /\ Takes(c, x) /\ <<c, x>> # <<"all", "save">>
           /\ cmd' # None => cmd'.left["tts"] = cmd.left["tts"]
  <2>1. Saving' <=> Saving
    BY <1>2, TakesFacts DEF Saving
  <2>2. Saving' => cmd' # None
    BY DEF Saving, Has, In, Remaining
  <2> QED  BY <1>2, <2>1, <2>2 DEF Standing
<1> QED  BY <1>1, <1>2

LEMMA FollowAside ==
  ASSUME Orderly, FollowInv, history.mishaps \subseteq history'.mishaps,
         bin'.client = bin.client, home'.client = home.client,
         FollowClean' => home'.manifest["tts"] = home.manifest["tts"],
         \/ cmd' = cmd
         \/ \E c, x : /\ Goes(c, x) /\ <<c, x>> \notin {<<"tts", "client">>, <<"tts", "record">>, <<"all", "save">>}
                      /\ FollowClean' /\ Fails /\ ~Takes(c, x) => RankOf(c, x) \notin 61..66
  PROVE  FollowInv'
<1> SUFFICES ASSUME FollowClean' PROVE Entering' \/ Follows(Standing("tts"))'
  BY DEF FollowInv
<1>0. Entering \/ Follows(Standing("tts"))
  BY FollowBefore DEF FollowInv
<1>1. Standing("tts")' = Standing("tts") => (Follows(Standing("tts")) => Follows(Standing("tts"))')
  BY DEF Follows, ClientAt
<1>2. CASE cmd' = cmd
  <2>1. (Entering' <=> Entering) /\ Saving' = Saving
    BY <1>2, SameRemain DEF Entering, Saving, Has
  <2>2. Standing("tts")' = Standing("tts")
    BY <1>2, <2>1 DEF Standing
  <2> QED  BY <1>0, <1>1, <2>1, <2>2
<1>3. ASSUME NEW c, NEW x, Goes(c, x),
             <<c, x>> \notin {<<"tts", "client">>, <<"tts", "record">>, <<"all", "save">>},
             Fails /\ ~Takes(c, x) => RankOf(c, x) \notin 61..66
      PROVE  Entering' \/ Follows(Standing("tts"))'
  <2>1. Standing("tts")' = Standing("tts")
    BY <1>3, Stands DEF Goes
  <2>2. CASE Takes(c, x)
    <3>1. Entering => Entering'
      BY <1>3, <2>2, TakesFacts DEF Entering
    <3> QED  BY <1>0, <1>1, <2>1, <3>1
  <2>3. CASE Fails /\ RankOf(c, x) \notin 61..66
    <3>1. ASSUME Entering PROVE FALSE
      <4>1. 61 < RankOf(c, x) /\ RankOf(c, x) <= 66
        BY <1>3, <3>1, HeadFacts, VoiceRanks DEF Entering, Goes
      <4>2. RankOf(c, x) \in Nat
        BY RankIsNat
      <4> QED  BY <2>3, <4>1, <4>2
    <3> QED  BY <1>0, <1>1, <2>1, <3>1
  <2> QED  BY <1>3, <2>2, <2>3 DEF Goes
<1> QED  BY <1>2, <1>3

LEMMA FollowByStab == ASSUME Ground, FollowInv, StabCall, ~WipeHome PROVE FollowInv'
<1>0. Orderly
  BY DEF Ground
<1>1. PICK x \in StabCalls : Goes("stab", x)
  BY <1>0, StabGoes
<1>2. RankOf("stab", x) \notin 61..66 /\ <<"stab", x>> \notin {<<"tts", "client">>, <<"tts", "record">>, <<"all", "save">>}
  BY StabRanks DEF StabCalls
<1>3. VoiceKept
  BY StabKeepsVoice
<1>4. Recorded
  BY DEF StabCall, InstallStab, BakedModels, BakedSecrets, CheckStab, NeedsDocker, InstallPiAgent,
         BuildImage, Tries, Templates, RemoveStab, WipeHome, LoadConfig, SeedFiles, SeedMarker,
         RefreshTunnels, Refreshes, CopyModels, Seeds, StopAgent, RunAgent, Recorded
<1> QED  BY <1>0, <1>1, <1>2, <1>3, <1>4, Mishaps, FollowAside DEF VoiceKept

LEMMA FollowByWipeHome == ASSUME Ground, FollowInv, WipeHome PROVE FollowInv'
<1> SUFFICES ASSUME FollowClean' PROVE Follows(Standing("tts"))'
  BY DEF FollowInv
<1> DEFINE lost == \E s \in Stack : cmd.left[s] # None \/ container[s] # {}
<1>0. /\ Orderly /\ bin \in BinSet /\ At("stab", "wipe") /\ Done /\ home' = EmptyHome
      /\ bin' = [bin EXCEPT !.open = Unlinked({"base"})] /\ "tts" \in Stack
  BY DEF Ground, Files, WipeHome, Stack
<1>1. history'.mishaps = history.mishaps \cup (IF lost THEN {"wiped"} ELSE {})
  BY Mishaps DEF WipeHome
<1>2. cmd.left["tts"] = None
  BY <1>0, <1>1 DEF FollowClean, Without
<1>3. FollowInv /\ FollowClean /\ Saving /\ ~Entering
  <2>1. FollowClean
    BY <1>1, FollowBefore
  <2>2. Has("stab", "wipe") /\ cmd # None /\ (Has("all", "save") \/ TRUE)
    BY <1>0, HeadFacts
  <2>3. Saving
    BY <1>0, <2>2 DEF Orderly, Complete, Has, Saving
  <2>4. Past("tts", "client") => 61 < 7
    BY <1>0, HeadFacts, VoiceRanks, StabRanks
  <2> QED  BY <2>1, <2>3, <2>4 DEF Entering
<1>4. bin.client = None
  BY <1>2, <1>3 DEF FollowInv, Follows, Standing
<1>5. Goes("stab", "wipe") /\ Takes("stab", "wipe") /\ (cmd' # None => cmd'.left = cmd.left)
  BY <1>0, DoneGoes, DoneStep DEF Succeeds
<1>6. Saving' /\ cmd' # None
  <2>1. Saving'
    BY <1>3, <1>5, TakesFacts DEF Saving
  <2> QED  BY <2>1 DEF Saving, Has, In, Remaining
<1>7. Standing("tts")' = None
  BY <1>2, <1>5, <1>6 DEF Standing
<1>8. bin'.client = None /\ home'.client = None
  BY <1>0, <1>4 DEF BinSet, EmptyHome
<1> QED  BY <1>7, <1>8 DEF Follows

LEMMA FollowByRemoveClient == ASSUME Ground, FollowInv, RemoveClient PROVE FollowInv'
<1> SUFFICES ASSUME FollowClean' PROVE Follows(Standing("tts"))'
  BY DEF FollowInv
<1>0. /\ Orderly /\ bin \in BinSet /\ home \in HomeSet /\ At("tts", "no-client") /\ "tts" \in Component
      /\ cmd' = After([cmd EXCEPT !.left["tts"] = None])
  BY DEF Ground, Files, RemoveClient, Component, Stack
<1>1. Takes("tts", "no-client") /\ (cmd' # None => cmd'.left = [cmd.left EXCEPT !["tts"] = None])
  BY <1>0, StrikeStep
<1>2. Has("tts", "no-client") /\ cmd # None /\ cmd \in Running
  BY <1>0, HeadFacts
<1>3. Saving
  BY <1>0, <1>2 DEF Orderly, Complete, Has, Saving
<1>4. Saving' /\ cmd' # None
  <2>1. Saving'
    BY <1>1, <1>3, TakesFacts DEF Saving
  <2> QED  BY <2>1 DEF Saving, Has, In, Remaining
<1>5. Standing("tts")' = None
  BY <1>1, <1>2, <1>4 DEF Standing, Running, Manifest, Component, Stack
<1>6. bin'.client = None /\ home'.client = None
  <2>1. CASE cmd.left["tts"] = None
    <3>1. home' = home /\ bin' = bin /\ history' = history
      BY <2>1 DEF RemoveClient
    <3>2. FollowClean
      BY <3>1 DEF FollowClean, Without
    <3>3. ~Entering
      <4>1. Past("tts", "client") => 61 < 4
        BY <1>0, HeadFacts, VoiceRanks
      <4> QED  BY <4>1 DEF Entering
    <3>4. Follows(None)
      BY <1>3, <2>1, <3>2, <3>3 DEF FollowInv, Standing
    <3> QED  BY <3>1, <3>4 DEF Follows
  <2>2. CASE cmd.left["tts"] # None
    <3>1. history'.mishaps = history.mishaps \cup
             (IF bin.mode # "ok" /\ bin.client # None THEN {"unwritten"} ELSE {})
      BY <2>2, Mishaps DEF RemoveClient
    <3>2. bin.mode = "ok" \/ bin.client = None
      BY <3>1 DEF FollowClean, Without
    <3>3. home' = [home EXCEPT !.client = None]
          /\ bin' = IF bin.mode = "ok"
                    THEN [bin EXCEPT !.client = None, !.open = Unlinked(Place)]
                    ELSE [bin EXCEPT !.open = Unlinked({"base"})]
      BY <2>2 DEF RemoveClient
    <3> QED  BY <1>0, <3>2, <3>3 DEF BinSet, HomeSet
  <2> QED  BY <2>1, <2>2
<1> QED  BY <1>5, <1>6 DEF Follows

LEMMA FollowByWipeTts == ASSUME Ground, Struck, FollowInv, WipeTts PROVE FollowInv'
<1> SUFFICES ASSUME FollowClean' PROVE Follows(Standing("tts"))'
  BY DEF FollowInv
<1>0. /\ Orderly /\ bin \in BinSet /\ home \in HomeSet /\ At("tts", "wipe") /\ Done
      /\ home' = [home EXCEPT !.tts = None, !.weights = FALSE, !.prefs = None, !.client = None]
      /\ bin' = [bin EXCEPT !.open = Unlinked({"base"})] /\ history' = history
  BY DEF Ground, Files, WipeTts
<1>1. Takes("tts", "wipe") /\ (cmd' # None => cmd'.left = cmd.left)
  BY <1>0, DoneStep DEF Succeeds
<1>2. Has("tts", "wipe") /\ cmd # None
  BY <1>0, HeadFacts
<1>3. Saving /\ Due("tts", "no-client")
  BY <1>0, <1>2 DEF Orderly, Complete, Has, Saving, Due
<1>4. Saving' /\ cmd' # None
  <2>1. Saving'
    BY <1>1, <1>3, TakesFacts DEF Saving
  <2> QED  BY <2>1 DEF Saving, Has, In, Remaining
<1>5. cmd.left["tts"] = None
  <2>1. Has("tts", "no-client") => 5 <= 4
    BY <1>0, HeadFacts, VoiceRanks
  <2> QED  BY <1>2, <1>3, <2>1 DEF Struck, Due, Met, Has, Past
<1>6. ~Entering
  <2>1. Past("tts", "client") => 61 < 5
    BY <1>0, HeadFacts, VoiceRanks
  <2> QED  BY <2>1 DEF Entering
<1>7. FollowClean
  BY <1>0 DEF FollowClean, Without
<1>8. bin.client = None
  BY <1>3, <1>5, <1>6, <1>7 DEF FollowInv, Standing, Follows
<1>9. bin'.client = None /\ home'.client = None
  BY <1>0, <1>8 DEF BinSet, HomeSet
<1> QED  BY <1>1, <1>4, <1>5, <1>9 DEF Follows, Standing

LEMMA FollowByClient == ASSUME Ground, FollowInv, InstallClient PROVE FollowInv'
<1>0. Orderly /\ At("tts", "client") /\ \E place \in Place : cmd' = After([cmd EXCEPT !.place = place])
  BY DEF Ground, InstallClient, Place
<1>1. Takes("tts", "client")
  BY <1>0, PlaceStep
<1>2. Has("tts", "client") /\ cmd # None
  BY <1>0, HeadFacts
<1>3. Has("tts", "record")
  BY <1>0, <1>2 DEF Orderly, Complete, Has
<1>4. Has("tts", "record")' /\ Past("tts", "client")'
  BY <1>1, <1>3, TakesFacts DEF Takes
<1> QED  BY <1>4 DEF FollowInv, Entering

LEMMA FollowByEnter ==
  ASSUME Ground, StacksInv, Progress, FollowInv, NEW c \in Component, Enter(c) PROVE FollowInv'
<1> SUFFICES ASSUME FollowClean' PROVE FollowInv'
  BY DEF FollowInv
<1>0. /\ Orderly /\ home \in HomeSet /\ release \in Release /\ Recorded
      /\ bin' = bin /\ release' = release /\ At(c, "record")
  BY DEF Ground, Files, Enter, Recorded
<1>1. history.mishaps \subseteq history'.mishaps
  BY <1>0, Mishaps
<1>2. home.manifest # Torn
  BY <1>1 DEF StacksInv, Legible, FollowClean, Without
<1> DEFINE r == [port |-> IF c = "stab" THEN None ELSE cmd.opts.port, client |-> cmd.place]
           m == Migrated(home.manifest)
<1>3. home' = [home EXCEPT !.manifest = [m EXCEPT ![c] = r]] /\ Done
  BY <1>2 DEF Enter
<1>4. m \in Manifest /\ m["tts"] = home.manifest["tts"]
  BY <1>0, <1>2, MigratedType DEF HomeSet, Stack
<1>5. r.client = cmd.place /\ r # None
  <2>1. r \in Record
    BY <1>0, HeadFacts DEF Record, Running, Option
  <2> QED  BY <2>1, InstallerAssumption
<1> HIDE DEF r, m
<1>6. home'.client = home.client /\ home'.manifest = [m EXCEPT ![c] = r]
  BY <1>0, <1>3 DEF HomeSet
<1>7. CASE c # "tts"
  <2>1. home'.manifest["tts"] = home.manifest["tts"]
    BY <1>4, <1>6, <1>7 DEF Manifest, Component, Stack
  <2>2. <<c, "record">> \notin {<<"tts", "client">>, <<"tts", "record">>, <<"all", "save">>}
    BY <1>7
  <2>3. Goes(c, "record") /\ Takes(c, "record")
    BY <1>0, <1>3, DoneGoes, DoneStep DEF Succeeds
  <2> QED  BY <1>0, <1>1, <1>6, <2>1, <2>2, <2>3, FollowAside
<1>8. CASE c = "tts"
  <2>1. home'.manifest["tts"] = r
    BY <1>4, <1>6, <1>8 DEF Manifest, Component, Stack
  <2>2. Has("tts", "record") /\ cmd # None
    BY <1>0, <1>8, HeadFacts
  <2>3. ~Saving'
    <3>1. Saving => 66 <= 8
      BY <1>0, <1>8, HeadFacts, VoiceRanks, StackRanks DEF Saving
    <3>2. Takes("tts", "record")
      BY <1>0, <1>3, <1>8, DoneStep DEF Succeeds
    <3> QED  BY <3>1, <3>2, TakesFacts DEF Saving
  <2>4. Past("tts", "client")
    <3>1. Due("tts", "client")
      BY <1>0, <2>2 DEF Orderly, Complete, Has, Due
    <3>2. Has("tts", "client") => 66 <= 61
      BY <1>0, <1>8, HeadFacts, VoiceRanks
    <3> QED  BY <3>1, <3>2 DEF Due, Met, Has, Past
  <2>5. Placed
    BY <2>2, <2>4 DEF Progress, Installing
  <2>6. Without({"unwritten"})
    BY <1>1 DEF FollowClean, Without
  <2>7. ClientAt(cmd.place) \in Release
    BY <1>0, <2>5, <2>6 DEF Placed
  <2>8. PICK q : q = r
    OBVIOUS
  <2>9. ClientAt(q.client)' # None /\ q # None
    BY <1>0, <1>5, <1>6, <2>7, <2>8, InstallerAssumption DEF ClientAt
  <2>11. Standing("tts")' = q
    BY <2>1, <2>3, <2>8 DEF Standing
  <2>10. Follows(Standing("tts"))'
    BY <2>9, <2>11 DEF Follows, ClientAt
  <2> QED  BY <2>10 DEF FollowInv
<1> QED  BY <1>7, <1>8

LEMMA FollowBySave == ASSUME Ground, FollowInv, Save PROVE FollowInv'
<1>0. /\ Orderly /\ home \in HomeSet /\ At("all", "save") /\ bin' = bin /\ history' = history /\ Done
      /\ home' = [home EXCEPT !.manifest = cmd.left]
  BY DEF Ground, Files, Save
<1>1. Saving /\ cmd # None
  BY <1>0, HeadFacts DEF Saving
<1>2. home'.manifest = cmd.left /\ home'.client = home.client
  BY <1>0 DEF HomeSet
<1>3. Takes("all", "save")
  BY <1>0, DoneStep DEF Succeeds
<1>4. ~Saving' /\ (Entering => Entering')
  BY <1>3, TakesFacts DEF Saving, Entering
<1>5. Standing("tts")' = Standing("tts")
  BY <1>1, <1>2, <1>4 DEF Standing
<1>6. Follows(Standing("tts")) => Follows(Standing("tts"))'
  BY <1>0, <1>2, <1>5 DEF Follows, ClientAt
<1>7. FollowClean' <=> FollowClean
  BY <1>0 DEF FollowClean, Without
<1> QED  BY <1>4, <1>6, <1>7 DEF FollowInv

LEMMA FollowByBegin == ASSUME Ground, StacksInv, FollowInv, NEW c \in Commands, Begin(c) PROVE FollowInv'
<1> SUFFICES ASSUME FollowClean' PROVE Follows(Standing("tts"))'
  BY DEF FollowInv
<1>0. Files /\ home \in HomeSet /\ bin' = bin
  BY DEF Ground, Files, Begin
<1>1. cmd' # None /\ cmd = None /\ cmd'.left = Loaded
  BY <1>0, BeginStep
<1>2. history'.mishaps = history.mishaps
  <2>1. PICK S : history \in History(S)
    BY DEF Ground
  <2> QED  BY <2>1 DEF Begin, History
<1>3. home.manifest # Torn /\ FollowClean
  BY <1>2 DEF StacksInv, Legible, FollowClean, Without
<1>4. ~Entering /\ ~Saving
  BY <1>1, SomeRemain DEF Entering, Saving
<1>5. Follows(home.manifest["tts"])
  BY <1>3, <1>4 DEF FollowInv, Standing
<1>6. home' = home \/ home' = [home EXCEPT !.manifest = Migrated(home.manifest)]
  BY DEF Begin
<1>7. home'.client = home.client /\ home'.manifest["tts"] = home.manifest["tts"]
  <2>1. home.manifest \in Manifest /\ Migrated(home.manifest)["tts"] = home.manifest["tts"]
    BY <1>0, <1>3, MigratedType DEF HomeSet, Stack
  <2> QED  BY <1>0, <1>6, <2>1 DEF HomeSet
<1>8. Standing("tts")' = home.manifest["tts"]
  <2>1. Loaded["tts"] = home.manifest["tts"]
    BY <1>0, <1>3, LoadedType DEF Stack
  <2> QED  BY <1>1, <1>7, <2>1 DEF Standing
<1> QED  BY <1>0, <1>5, <1>7, <1>8 DEF Follows, ClientAt

LEMMA FollowByCalls ==
  ASSUME Ground, FollowInv, StackCall \/ (VoiceCall /\ ~InstallClient /\ ~RemoveClient /\ ~WipeTts)
  PROVE  FollowInv'
<1>0. Orderly /\ home \in HomeSet
  BY DEF Ground, Files
<1> DEFINE Same == /\ bin' = bin /\ home'.client = home.client /\ home'.manifest = home.manifest
           Out(c, x) == <<c, x>> \notin {<<"tts", "client">>, <<"tts", "record">>, <<"all", "save">>}
<1>1. CASE StackCall
  <2> DEFINE X == {"compose", "up", "update", "down", "remove", "env"}
  <2>1. Recorded
    BY <1>1 DEF StackCall, WriteCompose, Up, UpdateStack, Down, RemoveStack, WriteEnv, Recorded
  <2>2. Same
    BY <1>0, <1>1 DEF StackCall, WriteCompose, Up, UpdateStack, Down, RemoveStack, WriteEnv, HomeSet, Stack
  <2>3. PICK s \in Stack, x \in X : Goes(s, x) /\ (Takes(s, x) \/ x # "compose")
    <3>1. ASSUME NEW s \in Stack, WriteCompose(s) PROVE Goes(s, "compose") /\ Takes(s, "compose")
      <4>1. At(s, "compose") /\ Done
        BY <3>1 DEF WriteCompose
      <4> QED  BY <1>0, <4>1, DoneGoes, DoneStep DEF Succeeds
    <3>2. "webui" \in Stack
      BY DEF Stack
    <3> QED  BY <1>0, <1>1, <3>1, <3>2, StackGoes DEF StackCall
  <2>4. x # "compose" => RankOf(s, x) \notin 61..66
    BY DEF RankOf, StackRank, VoiceRank, Stack
  <2>5. Out(s, x)
    OBVIOUS
  <2> QED  BY <1>0, <2>1, <2>2, <2>3, <2>4, <2>5, Mishaps, FollowAside
<1>2. CASE VoiceCall /\ ~InstallClient /\ ~RemoveClient /\ ~WipeTts
  <2> DEFINE X == {"stage", "prefs", "weights", "require", "take-over", "healthy"}
  <2>1. Recorded
    BY <1>2 DEF VoiceCall, WritePrefs, FetchWeights, RequireModels, TakeOver, StageSource,
                WaitHealthy, Tries, Recorded
  <2>2. Same
    BY <1>0, <1>2 DEF VoiceCall, WritePrefs, FetchWeights, RequireModels, TakeOver, StageSource,
                      WaitHealthy, Tries, HomeSet
  <2>3. PICK x \in X : Goes("tts", x) /\ (Takes("tts", x) \/ x \in {"stage", "take-over", "healthy"}
                           \/ ~FollowClean')
    <3>1. CASE WritePrefs
      <4>1. At("tts", "prefs") /\ Done
        BY <3>1 DEF WritePrefs
      <4> QED  BY <1>0, <4>1, DoneGoes, DoneStep DEF Succeeds
    <3>2. CASE FetchWeights
      <4>1. At("tts", "weights") /\ (Done \/ Fault({"failed"}))
        BY <3>2 DEF FetchWeights
      <4>2. Done => Takes("tts", "weights")
        BY <1>0, <4>1, DoneStep DEF Succeeds
      <4>3. Fault({"failed"}) => ~FollowClean'
        <5>1. Fault({"failed"}) => history'.mishaps = history.mishaps \cup {"failed"}
          BY Mishaps
        <5> QED  BY <5>1 DEF FollowClean, Without
      <4> QED  BY <1>0, <3>2, <4>1, <4>2, <4>3, VoiceGoes
    <3>3. CASE RequireModels
      <4>1. At("tts", "require") /\ (Done \/ Befalls({"no-weights"}))
        BY <3>3 DEF RequireModels
      <4>2. Done => Takes("tts", "require")
        BY <1>0, <4>1, DoneStep DEF Succeeds
      <4>3. Befalls({"no-weights"}) => ~FollowClean'
        <5>1. Befalls({"no-weights"}) => history'.mishaps = history.mishaps \cup {"no-weights"}
          BY Mishaps
        <5> QED  BY <5>1 DEF FollowClean, Without
      <4> QED  BY <1>0, <3>3, <4>1, <4>2, <4>3, VoiceGoes
    <3>4. CASE TakeOver \/ WaitHealthy \/ StageSource
      BY <1>0, <3>4, VoiceGoes
    <3> QED  BY <1>2, <3>1, <3>2, <3>3, <3>4 DEF VoiceCall
  <2>4. x \in {"stage", "take-over", "healthy"} => RankOf("tts", x) \notin 61..66
    BY VoiceRanks
  <2>5. Out("tts", x)
    OBVIOUS
  <2> QED  BY <1>0, <2>1, <2>2, <2>3, <2>4, <2>5, Mishaps, FollowAside
<1> QED  BY <1>1, <1>2

LEMMA FollowStep == ASSUME Ground, StacksInv, Progress, Struck, FollowInv, [Next]_vars PROVE FollowInv'
<1>0. Orderly /\ home \in HomeSet /\ bin \in BinSet
  BY DEF Ground, Files
<1>1. CASE UNCHANGED vars
  <2>1. /\ home' = home /\ bin' = bin /\ cmd' = cmd /\ history' = history
    BY <1>1 DEF vars
  <2> QED  BY <1>0, <2>1, FollowAside
<1>2. CASE User
  <2>1. Recorded /\ cmd' = cmd
    BY <1>2 DEF User, EditModels, EditSecrets, EditDockerfile, GetRelease, Chmod, OpenClient, Edit,
           CloseClient, Detach, Recorded
  <2>2. \/ home' = home
        \/ \E v : home' = [home EXCEPT !.models = v]
        \/ \E v : home' = [home EXCEPT !.secrets = v]
        \/ \E v : home' = [home EXCEPT !.prefs = v]
    BY <1>2 DEF User, EditModels, EditSecrets, EditDockerfile, GetRelease, Chmod, OpenClient, Edit,
                CloseClient, Detach
  <2>3. \/ bin' = bin
        \/ \E v : bin' = [bin EXCEPT !.mode = v]
        \/ \E v : bin' = [bin EXCEPT !.open = v]
        \/ \E v : bin' = [bin EXCEPT !.attached = v]
    BY <1>2 DEF User, EditModels, EditSecrets, EditDockerfile, GetRelease, Chmod, OpenClient, Edit,
                CloseClient, Detach
  <2>4. bin'.client = bin.client /\ home'.client = home.client /\ home'.manifest = home.manifest
    BY <1>0, <2>2, <2>3 DEF HomeSet, BinSet
  <2> QED  BY <1>0, <2>1, <2>4, Mishaps, FollowAside
<1>3. CASE Interrupt \/ Tear
  <2>1. "interrupted" \in history'.mishaps
    BY <1>3, Mishaps DEF Interrupt, Tear
  <2> QED  BY <2>1 DEF FollowInv, FollowClean, Without
<1>4. CASE VoiceCall
  BY <1>4, FollowByClient, FollowByRemoveClient, FollowByWipeTts, FollowByCalls
<1> QED  BY <1>1, <1>2, <1>3, <1>4, FollowByCalls, FollowByStab, FollowByWipeHome, FollowByEnter,
            FollowBySave, FollowByBegin DEF Next, StabCall

LEMMA FollowHolds == Spec => []FollowInv
<1>1. Init => FollowInv
  <2> SUFFICES ASSUME Init PROVE Follows(Standing("tts"))
    BY DEF FollowInv
  <2>1. PICK old \in {None, [port |-> None, client |-> None]}, config \in {None, "private"} :
          home = [EmptyHome EXCEPT !.manifest[Legacy] = old, !.config = config]
    BY DEF Init
  <2>2. home.manifest = [NoManifest EXCEPT ![Legacy] = old] /\ home.client = None
    BY <2>1 DEF EmptyHome
  <2>3. home.manifest["tts"] = None
    BY <2>2 DEF NoManifest, Component, Stack, Legacy
  <2>4. bin.client = None /\ ~Saving
    BY DEF Init, Saving, Has, In, Remaining
  <2> QED  BY <2>2, <2>3, <2>4 DEF Follows, Standing
<1>2. Ground /\ StacksInv /\ Progress /\ Struck /\ FollowInv /\ [Next]_vars => FollowInv'
  BY FollowStep
<1> QED  BY <1>1, <1>2, GroundHolds, StacksHold, ProgressHolds, StruckHolds, PTL DEF Spec

\* A recorded voice stack has its client where the record says, and none is left
\* without a record (components/tts installTUI, RemoveClient, cli removeLocal).
THEOREM ClientIsWhereRecorded == Spec => []ClientFollowsRecord
<1>1. FollowInv => ClientFollowsRecord
  <2> SUFFICES ASSUME FollowInv, cmd = None, FollowClean PROVE Follows(home.manifest["tts"])
    BY DEF ClientFollowsRecord, FollowClean, Follows
  <2>1. ~Entering /\ ~Saving
    BY SomeRemain DEF Entering, Saving
  <2> QED  BY <2>1 DEF FollowInv, Standing
<1> QED  BY <1>1, FollowHolds, PTL
----
(* The port of the voice stack.                                            *)

\* Only a torn file is noted as torn, and then as interrupted too.
Untorn ==
  \/ UNCHANGED history
  \/ \E m : "torn" \notin m /\ (Befalls(m) \/ Fault(m))
  \/ history' = [history EXCEPT !.commands = @ + 1]
  \/ history' = [history EXCEPT !.edits = @ + 1]
TornIsInterrupted == "torn" \in history.mishaps => "interrupted" \in history.mishaps

LEMMA TornStep == ASSUME Ground, TornIsInterrupted, [Next]_vars PROVE TornIsInterrupted'
<1>1. CASE Tear
  <2>1. history'.mishaps = history.mishaps \cup {"interrupted", "torn"}
    BY <1>1, Mishaps DEF Tear
  <2> QED  BY <2>1 DEF TornIsInterrupted
<1>2. CASE Untorn
  <2>1. PICK S : history \in History(S)
    BY DEF Ground
  <2>2. \A m : Befalls(m) \/ Fault(m) => history'.mishaps = history.mishaps \cup m
    BY Mishaps
  <2>3. \/ history'.mishaps = history.mishaps
        \/ \E m : "torn" \notin m /\ history'.mishaps = history.mishaps \cup m
    BY <1>2, <2>1, <2>2 DEF Untorn, History
  <2> QED  BY <2>3 DEF TornIsInterrupted
<1>3. CASE ~Tear
  <2>1. CASE StackCall
    <3>1. ASSUME NEW s \in Stack, WriteCompose(s) PROVE Untorn
      BY <3>1 DEF WriteCompose, Untorn
    <3>2. "torn" \notin {"failed"}
      OBVIOUS
    <3>3. ASSUME NEW s \in Stack, Up(s) \/ UpdateStack(s) \/ Down(s) \/ RemoveStack(s) PROVE Untorn
      BY <3>2, <3>3 DEF Up, UpdateStack, Down, RemoveStack, Untorn
    <3>4. WriteEnv => Untorn
      BY DEF WriteEnv, Untorn
    <3> QED  BY <1>2, <2>1, <3>1, <3>3, <3>4 DEF StackCall
  <2>2. CASE VoiceCall
    <3>1. "torn" \notin {"failed"} /\ "torn" \notin {"no-weights"}
      OBVIOUS
    <3>2. CASE InstallClient \/ WritePrefs \/ RemoveClient \/ WipeTts
      <4>1. Untorn
        BY <3>2 DEF InstallClient, WritePrefs, RemoveClient, WipeTts, Untorn
      <4> QED  BY <1>2, <4>1
    <3>3. CASE FetchWeights \/ RequireModels \/ TakeOver \/ WaitHealthy \/ StageSource
      <4>1. Untorn
        BY <3>1, <3>3 DEF FetchWeights, RequireModels, TakeOver, StageSource, WaitHealthy, Tries,
                          Untorn
      <4> QED  BY <1>2, <4>1
    <3> QED  BY <2>2, <3>2, <3>3 DEF VoiceCall
  <2>3. CASE StabCall
    <3>1. "torn" \notin {"failed"}
      OBVIOUS
    <3>2. CASE WipeHome \/ NeedsDocker \/ InstallPiAgent \/ BuildImage \/ StopAgent \/ RunAgent
      <4>1. Untorn
        BY <3>1, <3>2 DEF WipeHome, NeedsDocker, InstallPiAgent, BuildImage, Tries, StopAgent,
                          RunAgent, Untorn
      <4> QED  BY <1>2, <4>1
    <3>3. UNCHANGED history => Untorn
      BY DEF Untorn
    <3> QED  BY <1>2, <2>3, <3>2, <3>3
             DEF StabCall, InstallStab, BakedModels, BakedSecrets, CheckStab, Templates,
                 RemoveStab, LoadConfig, SeedFiles, SeedMarker, RefreshTunnels, Refreshes,
                 CopyModels, Seeds
  <2>4. CASE User \/ UNCHANGED vars \/ Save
    <3>1. Untorn
      BY <2>4 DEF User, EditModels, EditSecrets, EditDockerfile, GetRelease, Chmod, OpenClient, Edit,
                  CloseClient, Detach, Untorn, vars, Save
    <3> QED  BY <1>2, <3>1
  <2>5. CASE \/ \E c \in Commands : Begin(c)
             \/ \E c \in Component : Enter(c)
             \/ Interrupt
    <3>1. "torn" \notin {"interrupted"}
      OBVIOUS
    <3>2. Untorn
      BY <2>5, <3>1 DEF Begin, Enter, Interrupt, Untorn
    <3> QED  BY <1>2, <3>2
  <2> QED  BY <1>3, <2>1, <2>2, <2>3, <2>4, <2>5 DEF Next
<1> QED  BY <1>1, <1>3

LEMMA TornHolds == Spec => []TornIsInterrupted
<1>1. Init => TornIsInterrupted
  BY DEF Init, TornIsInterrupted
<1>2. Ground /\ TornIsInterrupted /\ [Next]_vars => TornIsInterrupted'
  BY TornStep
<1> QED  BY <1>1, <1>2, GroundHolds, PTL DEF Spec

PortClean == Without({"failed", "interrupted", "wiped", "renamed", "staged", "overwritten"})
\* Between the preferences of an install and its end the port is in the making.
Window == Installing /\ Past("tts", "prefs")
OneContainer == \A k \in container["tts"] : k = home.tts
Agree ==
  /\ Standing("tts") # None =>
       home.tts \in Compose /\ home.tts.port = Standing("tts").port /\ home.prefs = home.tts.port
  /\ OneContainer
OpenAgrees == bin.open # None /\ home.prefs # None => bin.open.port = home.prefs
PortFacts ==
  /\ Standing("tts") # None => home.weights
  /\ OpenAgrees
  /\ Has("tts", "healthy") /\ Past("tts", "take-over") => OneContainer
  /\ ~Window => Agree
PortInv == PortClean => PortFacts

LEMMA PortBefore == ASSUME history.mishaps \subseteq history'.mishaps, PortClean' PROVE PortClean
  BY DEF PortClean, Without

LEMMA PortIsClean == ASSUME TornIsInterrupted, StacksInv, PortClean
                     PROVE  Clean("tts") /\ Safe("tts") /\ Gone /\ home.manifest # Torn
  BY DEF TornIsInterrupted, StacksInv, PortClean, Clean, Without, Legible, Stack

LEMMA NoWindow == ASSUME Orderly, NEW c, NEW x, At(c, x), RankOf(c, x) \notin 63..69 PROVE ~Window
<1>1. RankOf(c, x) \in Nat
  BY RankIsNat
<1>2. Past("tts", "prefs") => 62 < RankOf(c, x)
  BY HeadFacts, VoiceRanks
<1>3. Installing => RankOf(c, x) <= 69
  <2>1. Has("tts", "record") => RankOf(c, x) <= 66
    BY HeadFacts, VoiceRanks
  <2>2. Has("tts", "healthy") => RankOf(c, x) <= 69
    BY HeadFacts, VoiceRanks
  <2> QED  BY <1>1, <2>1, <2>2 DEF Installing
<1> QED  BY <1>1, <1>2, <1>3 DEF Window

\* A call that leaves record, file and preferences, and starts nothing else.
LEMMA PortAside ==
  ASSUME Orderly, PortInv, history.mishaps \subseteq history'.mishaps,
         PortClean' => home'.manifest["tts"] = home.manifest["tts"],
         home'.tts = home.tts, home.weights => home'.weights, home'.prefs = home.prefs,
         bin'.open = bin.open, container'["tts"] \subseteq container["tts"] \cup {home.tts},
         \/ cmd' = cmd
         \/ \E c, x : /\ Goes(c, x)
                      /\ <<c, x>> \notin {<<"tts", "record">>, <<"tts", "healthy">>, <<"tts", "take-over">>,
                                          <<"all", "save">>}
                      /\ PortClean' /\ Fails /\ ~Takes(c, x) => ~Window
  PROVE  PortInv'
<1> SUFFICES ASSUME PortClean'
             PROVE  /\ Standing("tts")' # None => home'.weights
                    /\ OpenAgrees'
                    /\ Has("tts", "healthy")' /\ Past("tts", "take-over")' => OneContainer'
                    /\ ~Window' => Agree'
  BY DEF PortInv, PortFacts
<1>0. /\ Standing("tts") # None => home.weights
      /\ OpenAgrees
      /\ Has("tts", "healthy") /\ Past("tts", "take-over") => OneContainer
      /\ ~Window => Agree
  BY PortBefore DEF PortInv, PortFacts
<1>1. OpenAgrees' /\ (OneContainer => OneContainer')
  BY <1>0 DEF OpenAgrees, OneContainer
<1>2. Standing("tts")' = Standing("tts") => (Agree => Agree')
  BY <1>1 DEF Agree
<1>3. CASE cmd' = cmd
  <2>1. \A d, y : (Has(d, y)' <=> Has(d, y)) /\ (Past(d, y)' <=> Past(d, y))
    BY <1>3, SameRemain
  <2>2. (Window' <=> Window) /\ (Saving' <=> Saving)
    BY <2>1 DEF Window, Installing, Saving
  <2>3. Standing("tts")' = Standing("tts")
    BY <1>3, <2>2 DEF Standing
  <2> QED  BY <1>0, <1>1, <1>2, <2>1, <2>2, <2>3
<1>4. ASSUME NEW c, NEW x, Goes(c, x),
             <<c, x>> \notin {<<"tts", "record">>, <<"tts", "healthy">>, <<"tts", "take-over">>,
                              <<"all", "save">>},
             Fails /\ ~Takes(c, x) => ~Window
      PROVE  /\ Standing("tts")' # None => home'.weights
             /\ OpenAgrees'
             /\ Has("tts", "healthy")' /\ Past("tts", "take-over")' => OneContainer'
             /\ ~Window' => Agree'
  <2>1. Standing("tts")' = Standing("tts")
    BY <1>4, Stands DEF Goes
  <2>2. CASE Takes(c, x)
    <3>1. Window => Window'
      <4>1. Installing => Installing'
        BY <1>4, <2>2, TakesFacts DEF Installing
      <4>2. Past("tts", "prefs") => Past("tts", "prefs")'
        BY <2>2, TakesFacts
      <4> QED  BY <4>1, <4>2 DEF Window
    <3>2. Has("tts", "healthy")' => Has("tts", "healthy") /\ Due("tts", "take-over")
      <4>1. Has("tts", "healthy")' => Has("tts", "healthy")
        BY <2>2, TakesFacts
      <4> QED  BY <4>1, SomeRemain DEF Orderly, Complete, Has, Due
    <3>3. Due("tts", "take-over") /\ Past("tts", "take-over")' => Past("tts", "take-over")
      BY <1>4, <2>2, TakesFacts
    <3> QED  BY <1>0, <1>1, <1>2, <2>1, <3>1, <3>2, <3>3
  <2>3. CASE Fails /\ ~Window
    <3>1. ~Has("tts", "healthy")'
      BY <2>3, FailsStep, NoneRemain
    <3> QED  BY <1>0, <1>1, <1>2, <2>1, <2>3, <3>1
  <2> QED  BY <1>4, <2>2, <2>3 DEF Goes
<1> QED  BY <1>3, <1>4
\* What the invariants give before a step that is clean.
LEMMA PortBase ==
  ASSUME TornIsInterrupted, StacksInv, PortInv, history.mishaps \subseteq history'.mishaps, PortClean'
  PROVE  PortFacts /\ Clean("tts") /\ Safe("tts") /\ Gone /\ home.manifest # Torn
<1>1. PortClean
  BY PortBefore
<1> QED  BY <1>1, PortIsClean DEF PortInv

\* What has come to pass in an install of the voice stack, by the call at its head.
LEMMA WindowFacts ==
  ASSUME Orderly, NEW x, At("tts", x), RankOf("tts", x) \in 62..69
  PROVE  /\ ~Saving
         /\ Installing => \A y \in {"client", "prefs", "require", "compose", "record"} :
                            RankOf("tts", y) < RankOf("tts", x) => Past("tts", y)
         /\ Has("tts", "healthy") => \A y \in {"take-over", "up"} :
                            RankOf("tts", y) < RankOf("tts", x) => Past("tts", y)
<1>1. /\ cmd # None /\ RankOf("tts", x) \in Nat
      /\ \A d, y : Has(d, y) => RankOf("tts", x) <= RankOf(d, y)
  BY HeadFacts, RankIsNat
<1>2. ~Saving
  <2>1. Saving => RankOf("tts", x) <= 8
    BY <1>1, StackRanks DEF Saving
  <2> QED  BY <1>1, <2>1
<1>3. \A y : RankOf("tts", y) < RankOf("tts", x) => ~Has("tts", y)
  <2> SUFFICES ASSUME NEW y, RankOf("tts", y) < RankOf("tts", x), Has("tts", y) PROVE FALSE
    OBVIOUS
  <2>1. RankOf("tts", x) <= RankOf("tts", y) /\ RankOf("tts", y) \in Nat
    BY <1>1, RankIsNat
  <2> QED  BY <1>1, <2>1
<1>4. Installing => \A y \in {"client", "prefs", "require", "compose", "record"} : Due("tts", y)
  BY <1>1 DEF Orderly, Complete, Installing, Has, Due
<1>5. Has("tts", "healthy") => \A y \in {"take-over", "up"} : Due("tts", y)
  BY <1>1 DEF Orderly, Complete, Has, Due
<1> QED  BY <1>2, <1>3, <1>4, <1>5 DEF Due, Met, Has, Past

LEMMA PortByStab == ASSUME Ground, PortInv, StabCall, ~WipeHome PROVE PortInv'
<1>0. Orderly
  BY DEF Ground
<1>1. PICK x \in StabCalls : Goes("stab", x)
  BY <1>0, StabGoes
<1>2. ~Window /\ <<"stab", x>> \notin {<<"tts", "record">>, <<"tts", "healthy">>, <<"tts", "take-over">>, <<"all", "save">>}
  <2>1. At("stab", x) /\ RankOf("stab", x) \notin 63..69
    BY <1>1, StabRanks DEF StabCalls, Goes
  <2> QED  BY <1>0, <2>1, NoWindow
<1>3. VoiceKept /\ container' = container
  BY StabKeepsVoice
<1>4. Recorded
  BY DEF StabCall, InstallStab, BakedModels, BakedSecrets, CheckStab, NeedsDocker, InstallPiAgent,
         BuildImage, Tries, Templates, RemoveStab, WipeHome, LoadConfig, SeedFiles, SeedMarker,
         RefreshTunnels, Refreshes, CopyModels, Seeds, StopAgent, RunAgent, Recorded
<1> QED  BY <1>0, <1>1, <1>2, <1>3, <1>4, Mishaps, PortAside DEF VoiceKept

LEMMA PortByWipeHome == ASSUME Ground, PortInv, WipeHome PROVE PortInv'
<1> SUFFICES ASSUME PortClean' PROVE PortFacts'
  BY DEF PortInv
<1> DEFINE lost == \E s \in Stack : cmd.left[s] # None \/ container[s] # {}
<1>0. /\ Orderly /\ bin \in BinSet /\ At("stab", "wipe") /\ Done /\ home' = EmptyHome
      /\ "tts" \in Stack /\ container' = container
  BY DEF Ground, Files, WipeHome, Stack
<1>1. history'.mishaps = history.mishaps \cup (IF lost THEN {"wiped"} ELSE {})
  BY Mishaps DEF WipeHome
<1>2. cmd.left["tts"] = None /\ container["tts"] = {}
  BY <1>0, <1>1 DEF PortClean, Without
<1>3. Saving
  <2>1. Has("stab", "wipe") /\ cmd # None
    BY <1>0, HeadFacts
  <2> QED  BY <1>0, <2>1 DEF Orderly, Complete, Has, Saving
<1>4. Takes("stab", "wipe") /\ (cmd' # None => cmd'.left = cmd.left)
  BY <1>0, DoneStep DEF Succeeds
<1>5. Saving' /\ cmd' # None
  <2>1. Saving'
    BY <1>3, <1>4, TakesFacts DEF Saving
  <2> QED  BY <2>1 DEF Saving, Has, In, Remaining
<1>6. Standing("tts")' = None
  BY <1>2, <1>4, <1>5 DEF Standing
<1>7. home'.prefs = None
  BY <1>0 DEF EmptyHome
<1> QED  BY <1>0, <1>2, <1>6, <1>7 DEF PortFacts, OpenAgrees, OneContainer, Agree

LEMMA PortByStack ==
  ASSUME Ground, PortInv, StackCall, ~WriteCompose("tts"), ~Up("tts") PROVE PortInv'
<1>0. Orderly /\ home \in HomeSet /\ container \in [Stack -> SUBSET Compose] /\ "tts" \in Stack
  BY DEF Ground, Files, Stack
<1> DEFINE X == {"compose", "up", "update", "down", "remove", "env"}
           Own2(s, x) == <<s, x>> \notin {<<"tts", "compose">>, <<"tts", "up">>}
<1>1. PICK s \in Stack, x \in X : Goes(s, x) /\ Own2(s, x)
  <2>1. "webui" \in Stack
    BY DEF Stack
  <2> QED  BY <1>0, <2>1, StackGoes DEF StackCall
<1>2. RankOf(s, x) \notin 63..69
  BY <1>1 DEF RankOf, StackRank, VoiceRank, Stack
<1>3. ~Window
  BY <1>0, <1>1, <1>2, NoWindow DEF Goes
<1>4. <<s, x>> \notin {<<"tts", "record">>, <<"tts", "healthy">>, <<"tts", "take-over">>, <<"all", "save">>}
  OBVIOUS
<1>5. Recorded /\ bin' = bin
  BY DEF StackCall, WriteCompose, Up, UpdateStack, Down, RemoveStack, WriteEnv, Recorded
<1> DEFINE Same == /\ home'.manifest = home.manifest /\ home'.tts = home.tts /\ home'.weights = home.weights
                   /\ home'.prefs = home.prefs
           Within == container'["tts"] \subseteq container["tts"] \cup {home.tts}
<1>6. Same
  <2>1. ASSUME NEW a \in Stack, WriteCompose(a) PROVE Same
    <3>1. a \in {"ollama", "webui"} /\ home' = [home EXCEPT ![a] = [name |-> cmd.opts.name, port |-> cmd.opts.port]]
      BY <2>1 DEF WriteCompose, Stack
    <3> QED  BY <1>0, <3>1 DEF HomeSet
  <2>2. CASE WriteEnv
    BY <1>0, <2>2 DEF WriteEnv, HomeSet
  <2>3. ASSUME NEW a \in Stack, Up(a) \/ UpdateStack(a) \/ Down(a) \/ RemoveStack(a) PROVE home' = home
    BY <2>3 DEF Up, UpdateStack, Down, RemoveStack
  <2> QED  BY <2>1, <2>2, <2>3 DEF StackCall
<1>7. Within
  <2>1. \A a \in Stack : container' \in {container, Downed(a, home[a]), Upped(a, home[a])} => Within
    BY <1>0 DEF Downed, Upped
  <2>2. \/ container' = container
        \/ \E a \in Stack : container' \in {container, Downed(a, home[a]), Upped(a, home[a])}
    BY DEF StackCall, WriteCompose, Up, UpdateStack, Down, RemoveStack, WriteEnv
  <2> QED  BY <2>1, <2>2
<1> QED  BY <1>0, <1>1, <1>3, <1>4, <1>5, <1>6, <1>7, Mishaps, PortAside

\* The preferences and the compose file of an install open the window.
LEMMA WindowOpens ==
  ASSUME Orderly, NEW x \in {"prefs", "compose"}, At("tts", x), Takes("tts", x)
  PROVE  Window' /\ ~Past("tts", "take-over")'
<1>1. Has("tts", x) /\ cmd # None
  BY HeadFacts
<1>2. Has("tts", "record") /\ Due("tts", "prefs")
  BY <1>1 DEF Orderly, Complete, Has, Due
<1>3. Has("tts", "record")'
  BY <1>2, TakesFacts
<1>4. Past("tts", "prefs")'
  <2>1. CASE x = "prefs"
    BY <2>1 DEF Takes
  <2>2. CASE x = "compose"
    <3>1. Has("tts", "prefs") => 65 <= 62
      BY <2>2, HeadFacts, VoiceRanks
    <3>2. Past("tts", "prefs")
      BY <1>2, <3>1 DEF Due, Met, Has, Past
    <3> QED  BY <3>2, TakesFacts
  <2> QED  BY <2>1, <2>2
<1>5. ~Past("tts", "take-over")'
  <2>1. Past("tts", "take-over")' => RankOf("tts", "take-over") < RankOf("tts", "record")
    BY <1>3, RankIsNat DEF Past, Behind, Has, In
  <2> QED  BY <2>1, VoiceRanks
<1> QED  BY <1>3, <1>4, <1>5 DEF Window, Installing

LEMMA PortByFiles ==
  ASSUME Ground, TornIsInterrupted, StacksInv, PortInv, WritePrefs \/ WriteCompose("tts") PROVE PortInv'
<1> SUFFICES ASSUME PortClean' PROVE PortFacts'
  BY DEF PortInv
<1>0. Orderly /\ home \in HomeSet /\ "tts" \in Stack /\ bin' = bin /\ Recorded
  BY DEF Ground, Files, Stack, WritePrefs, WriteCompose, Recorded
<1>1. PortFacts
  BY <1>0, Mishaps, PortBase
<1>2. PICK x \in {"prefs", "compose"} : At("tts", x) /\ Done
  BY DEF WritePrefs, WriteCompose
<1>3. Takes("tts", x) /\ Goes("tts", x)
  BY <1>0, <1>2, DoneStep, DoneGoes DEF Succeeds
<1>4. Window' /\ ~Past("tts", "take-over")'
  BY <1>0, <1>2, <1>3, WindowOpens
<1>5. home'.manifest = home.manifest /\ home'.weights = home.weights
  BY <1>0 DEF WritePrefs, WriteCompose, HomeSet
<1>6. <<"tts", x>> # <<"all", "save">>
  OBVIOUS
<1>7. Standing("tts")' = Standing("tts")
  BY <1>0, <1>3, <1>5, <1>6, Stands DEF Goes
<1>8. OpenAgrees'
  <2>1. CASE WritePrefs
    <3>1. home'.prefs = cmd.opts.port
      BY <1>0, <2>1 DEF WritePrefs, HomeSet
    <3>2. history'.mishaps = history.mishaps \cup
            (IF bin.open # None /\ bin.open.port # cmd.opts.port THEN {"overwritten"} ELSE {})
      BY <2>1, Mishaps DEF WritePrefs
    <3>3. bin.open # None => bin.open.port = cmd.opts.port
      BY <3>2 DEF PortClean, Without
    <3> QED  BY <1>0, <3>1, <3>3 DEF OpenAgrees
  <2>2. CASE WriteCompose("tts")
    <3>1. home'.prefs = home.prefs
      BY <1>0, <2>2 DEF WriteCompose, HomeSet
    <3> QED  BY <1>0, <1>1, <3>1 DEF PortFacts, OpenAgrees
  <2> QED  BY <2>1, <2>2
<1> QED  BY <1>1, <1>4, <1>5, <1>7, <1>8 DEF PortFacts

LEMMA PortByUp ==
  ASSUME Ground, TornIsInterrupted, StacksInv, Progress, PortInv, Up("tts") PROVE PortInv'
<1> SUFFICES ASSUME PortClean' PROVE PortInv'
  BY DEF PortInv
<1>0. /\ Orderly /\ container \in [Stack -> SUBSET Compose] /\ "tts" \in Stack /\ Recorded
      /\ At("tts", "up") /\ home' = home /\ bin' = bin
  BY DEF Ground, Files, Stack, Up, Recorded
<1>1. PortFacts /\ Safe("tts")
  BY <1>0, Mishaps, PortBase
<1>2. ~Fault({"failed"})
  <2>1. Fault({"failed"}) => history'.mishaps = history.mishaps \cup {"failed"}
    BY Mishaps
  <2> QED  BY <2>1 DEF PortClean, Without
<1>3. Goes("tts", "up")
  BY <1>0, StackGoes
<1>4. <<"tts", "up">> \notin {<<"tts", "record">>, <<"tts", "healthy">>, <<"tts", "take-over">>, <<"all", "save">>}
  OBVIOUS
<1>5. Window => Startable("tts")
  <2> SUFFICES ASSUME Window PROVE Startable("tts")
    OBVIOUS
  <2>1. RankOf("tts", "up") = 68 /\ RankOf("tts", "record") = 66 /\ RankOf("tts", "compose") = 65
        /\ RankOf("tts", "take-over") = 67
    BY VoiceRanks
  <2>2. Has("tts", "healthy")
    <3>1. Has("tts", "record") => 68 <= 66
      BY <1>0, <2>1, HeadFacts
    <3> QED  BY <3>1 DEF Window, Installing
  <2>3. Past("tts", "compose") /\ Past("tts", "take-over")
    BY <1>0, <2>1, <2>2, WindowFacts DEF Installing
  <2>4. Rendered /\ OneContainer
    BY <1>1, <2>2, <2>3 DEF Progress, Installing, PortFacts
  <2>5. cmd.opts \in Option
    BY <1>0, HeadFacts DEF Running
  <2>6. home.tts \in Compose
    BY <2>4, <2>5 DEF Rendered, Option, Compose
  <2>7. PortFree("tts", home.tts)
    BY <2>4 DEF OneContainer, PortFree, Own
  <2> QED  BY <2>6, <2>7 DEF Startable
<1>6. CASE Startable("tts") /\ container' = Upped("tts", home["tts"]) /\ Done
  <2>1. container'["tts"] \subseteq container["tts"] \cup {home.tts}
    BY <1>0, <1>6 DEF Upped
  <2>2. Takes("tts", "up")
    BY <1>0, <1>6, DoneStep DEF Succeeds
  <2> QED  BY <1>0, <1>3, <1>4, <2>1, <2>2, Mishaps, PortAside
<1>7. CASE ~Startable("tts") /\ container' = container
  BY <1>0, <1>3, <1>4, <1>5, <1>7, Mishaps, PortAside
<1> QED  BY <1>2, <1>6, <1>7 DEF Up

LEMMA PortByWeights ==
  ASSUME Ground, TornIsInterrupted, StacksInv, PortInv,
         StageSource \/ InstallClient \/ FetchWeights \/ RequireModels
  PROVE  PortInv'
<1> SUFFICES ASSUME PortClean' PROVE PortInv'
  BY DEF PortInv
<1>0. /\ Orderly /\ home \in HomeSet /\ bin \in BinSet /\ "tts" \in Stack /\ Recorded
      /\ container' = container
  BY DEF Ground, Files, Stack, StageSource, Tries, InstallClient, FetchWeights, RequireModels,
         Recorded
<1>1. PortFacts /\ Safe("tts")
  BY <1>0, Mishaps, PortBase
<1>2. CASE InstallClient
  <2>1. Goes("tts", "client") /\ RankOf("tts", "client") = 61
    BY <1>0, <1>2, VoiceGoes, VoiceRanks
  <2>2. ~Window
    BY <1>0, <2>1, NoWindow DEF Goes
  <2>3. /\ home' = home \/ home' = [home EXCEPT !.client = release]
        /\ bin' = bin \/ bin' = [bin EXCEPT !.client = release]
    BY <1>2 DEF InstallClient
  <2>4. /\ home'.manifest = home.manifest /\ home'.tts = home.tts /\ home'.weights = home.weights
        /\ home'.prefs = home.prefs /\ bin'.open = bin.open
    BY <1>0, <2>3 DEF HomeSet, BinSet
  <2>5. <<"tts", "client">> \notin {<<"tts", "record">>, <<"tts", "healthy">>, <<"tts", "take-over">>, <<"all", "save">>}
    OBVIOUS
  <2> QED  BY <1>0, <2>1, <2>2, <2>4, <2>5, Mishaps, PortAside
<1>3. CASE FetchWeights
  <2>1. ~Fault({"failed"})
    <3>1. Fault({"failed"}) => history'.mishaps = history.mishaps \cup {"failed"}
      BY Mishaps
    <3> QED  BY <3>1 DEF PortClean, Without
  <2>2. At("tts", "weights") /\ Done /\ home' = [home EXCEPT !.weights = TRUE] /\ bin' = bin
    BY <1>3, <2>1 DEF FetchWeights
  <2>3. Goes("tts", "weights") /\ Takes("tts", "weights")
    BY <1>0, <1>3, <2>2, VoiceGoes, DoneStep DEF Succeeds
  <2>4. /\ home'.manifest = home.manifest /\ home'.tts = home.tts /\ home'.weights
        /\ home'.prefs = home.prefs
    BY <1>0, <2>2 DEF HomeSet
  <2>5. <<"tts", "weights">> \notin {<<"tts", "record">>, <<"tts", "healthy">>, <<"tts", "take-over">>, <<"all", "save">>}
    OBVIOUS
  <2> QED  BY <1>0, <2>2, <2>3, <2>4, <2>5, Mishaps, PortAside
<1>4. CASE RequireModels
  <2>1. At("tts", "require") /\ home' = home /\ bin' = bin /\ Goes("tts", "require")
    BY <1>0, <1>4, VoiceGoes DEF RequireModels
  <2>2. <<"tts", "require">> \notin {<<"tts", "record">>, <<"tts", "healthy">>, <<"tts", "take-over">>, <<"all", "save">>}
    OBVIOUS
  <2>3. CASE home.weights
    <3>1. Done
      BY <1>4, <2>3 DEF RequireModels
    <3>2. Takes("tts", "require")
      BY <1>0, <2>1, <3>1, DoneStep DEF Succeeds
    <3> QED  BY <1>0, <2>1, <2>2, <3>2, Mishaps, PortAside
  <2>4. CASE ~home.weights
    <3>1. Fails
      BY <1>4, <2>4 DEF RequireModels
    <3>2. Standing("tts") = None
      BY <1>1, <2>4 DEF PortFacts
    <3>3. container["tts"] = {}
      BY <1>1, <3>2 DEF Safe, Starting
    <3>4. ~Has("tts", "healthy")' /\ ~Saving' /\ Standing("tts")' = home'.manifest["tts"]
      BY <3>1, FailsStep, NoneRemain DEF Saving, Standing
    <3>5. Standing("tts")' = None
      <4>1. RankOf("tts", "require") = 64
        BY VoiceRanks
      <4>2. ~Saving
        BY <1>0, <2>1, <4>1, WindowFacts
      <4> QED  BY <2>1, <3>2, <3>4, <4>2 DEF Standing
    <3> QED  BY <1>0, <1>1, <2>1, <3>3, <3>4, <3>5 DEF PortInv, PortFacts, OpenAgrees, OneContainer, Agree
  <2> QED  BY <2>3, <2>4
<1>5. CASE StageSource
  <2>1. Goes("tts", "stage") /\ RankOf("tts", "stage") = 60
    BY <1>0, <1>5, VoiceGoes, VoiceRanks
  <2>2. ~Window
    BY <1>0, <2>1, NoWindow DEF Goes
  <2>3. home' = home /\ bin' = bin
    BY <1>5 DEF StageSource, Tries
  <2>4. <<"tts", "stage">> \notin {<<"tts", "record">>, <<"tts", "healthy">>, <<"tts", "take-over">>, <<"all", "save">>}
    OBVIOUS
  <2> QED  BY <1>0, <2>1, <2>2, <2>3, <2>4, Mishaps, PortAside
<1> QED  BY <1>2, <1>3, <1>4, <1>5

LEMMA PortByTakeOver ==
  ASSUME Ground, TornIsInterrupted, StacksInv, Progress, PortInv, TakeOver PROVE PortInv'
<1> SUFFICES ASSUME PortClean' PROVE PortFacts'
  BY DEF PortInv
<1>0. /\ Orderly /\ container \in [Stack -> SUBSET Compose] /\ "tts" \in Stack /\ Recorded
      /\ At("tts", "take-over") /\ home' = home /\ bin' = bin
  BY DEF Ground, Files, Stack, TakeOver, Recorded
<1>1. PortFacts /\ Safe("tts")
  BY <1>0, Mishaps, PortBase
<1>2. ~Fault({"failed"})
  <2>1. Fault({"failed"}) => history'.mishaps = history.mishaps \cup {"failed"}
    BY Mishaps
  <2> QED  BY <2>1 DEF PortClean, Without
<1>3. Done /\ container' = Downed("tts", cmd.opts)
  BY <1>2 DEF TakeOver
<1>4. Has("tts", "healthy") /\ Installing
  <2>1. Has("tts", "take-over") /\ cmd # None
    BY <1>0, HeadFacts
  <2> QED  BY <1>0, <2>1 DEF Orderly, Complete, Has, Installing
<1>5. Past("tts", "compose") /\ Past("tts", "prefs")
  <2>1. RankOf("tts", "take-over") = 67 /\ RankOf("tts", "compose") = 65 /\ RankOf("tts", "prefs") = 62
    BY VoiceRanks
  <2> QED  BY <1>0, <1>4, <2>1, WindowFacts
<1>6. container'["tts"] = {}
  <2>1. container'["tts"] = container["tts"] \ Own("tts", cmd.opts)
    BY <1>0, <1>3 DEF Downed
  <2>2. home.tts.name = cmd.opts.name
    BY <1>4, <1>5 DEF Progress, Rendered
  <2>3. \A k \in container["tts"] : k.name = home.tts.name
    BY <1>1 DEF Safe, Own
  <2> QED  BY <2>1, <2>2, <2>3 DEF Own
<1>7. Takes("tts", "take-over") /\ Goes("tts", "take-over")
  BY <1>0, <1>3, DoneStep, DoneGoes DEF Succeeds
<1>8. Window'
  <2>1. Has("tts", "healthy")'
    BY <1>4, <1>7, TakesFacts
  <2>2. Past("tts", "prefs")'
    BY <1>5, <1>7, TakesFacts
  <2> QED  BY <2>1, <2>2 DEF Window, Installing
<1>9. Standing("tts")' = Standing("tts")
  BY <1>0, <1>7, Stands DEF Goes
<1> QED  BY <1>0, <1>1, <1>6, <1>8, <1>9 DEF PortFacts, OpenAgrees, OneContainer

LEMMA PortByHealthy ==
  ASSUME Ground, TornIsInterrupted, StacksInv, Progress, PortInv, WaitHealthy PROVE PortInv'
<1> SUFFICES ASSUME PortClean' PROVE PortFacts'
  BY DEF PortInv
<1>0. /\ Orderly /\ Recorded /\ At("tts", "healthy") /\ home' = home /\ bin' = bin /\ container' = container
  BY DEF Ground, WaitHealthy, Tries, Recorded
<1>1. PortFacts /\ PortClean
  BY <1>0, Mishaps, PortBase, PortBefore
<1>2. ~Fault({"failed"})
  <2>1. Fault({"failed"}) => history'.mishaps = history.mishaps \cup {"failed"}
    BY Mishaps
  <2> QED  BY <2>1 DEF PortClean, Without
<1>3. Done
  BY <1>2 DEF WaitHealthy, Tries
<1>4. Has("tts", "healthy") /\ Installing /\ cmd \in Running
  BY <1>0, HeadFacts DEF Installing
<1>5. /\ Past("tts", "prefs") /\ Past("tts", "compose") /\ Past("tts", "record")
      /\ Past("tts", "take-over") /\ ~Saving
  <2>1. /\ RankOf("tts", "healthy") = 69 /\ RankOf("tts", "prefs") = 62 /\ RankOf("tts", "compose") = 65
        /\ RankOf("tts", "record") = 66 /\ RankOf("tts", "take-over") = 67
    BY VoiceRanks
  <2> QED  BY <1>0, <1>4, <2>1, WindowFacts
<1>6. Preferred /\ Rendered /\ OnRecord /\ OneContainer
  BY <1>1, <1>4, <1>5 DEF Progress, PortFacts
<1>7. Takes("tts", "healthy") /\ Goes("tts", "healthy")
  BY <1>0, <1>3, DoneStep, DoneGoes DEF Succeeds
<1>8. ~Has("tts", "healthy")'
  BY <1>7, TakesFacts
<1>9. Standing("tts")' = Standing("tts")
  BY <1>0, <1>7, Stands DEF Goes
<1>10. Standing("tts").port = cmd.opts.port
  BY <1>5, <1>6 DEF Standing, OnRecord
<1>11. home.tts \in Compose /\ home.tts.port = cmd.opts.port
  BY <1>4, <1>6 DEF Rendered, Running, Option, Compose
<1>12. home.prefs = cmd.opts.port
  BY <1>1, <1>6 DEF Preferred, PortClean, Without
<1>13. Agree'
  BY <1>0, <1>6, <1>9, <1>10, <1>11, <1>12 DEF Agree, OneContainer
<1> QED  BY <1>0, <1>1, <1>8, <1>9, <1>13 DEF PortFacts, OpenAgrees

LEMMA PortByOthersEnter ==
  ASSUME Ground, TornIsInterrupted, StacksInv, PortInv, NEW c \in Component, c # "tts", Enter(c)
  PROVE  PortInv'
<1> SUFFICES ASSUME PortClean' PROVE PortInv'
  BY DEF PortInv
<1>0. /\ Orderly /\ home \in HomeSet /\ Recorded /\ At(c, "record")
      /\ bin' = bin /\ container' = container
  BY DEF Ground, Files, Enter, Recorded
<1>1. home.manifest # Torn
  BY <1>0, Mishaps, PortBase
<1> DEFINE r == [port |-> IF c = "stab" THEN None ELSE cmd.opts.port, client |-> cmd.place]
           m == Migrated(home.manifest)
<1>2. home' = [home EXCEPT !.manifest = [m EXCEPT ![c] = r]]
  BY <1>1 DEF Enter
<1>3. m \in Manifest /\ m["tts"] = home.manifest["tts"]
  BY <1>0, <1>1, MigratedType DEF HomeSet, Stack
<1> HIDE DEF r, m
<1>4. home'.manifest["tts"] = home.manifest["tts"]
  <2>1. home'.manifest = [m EXCEPT ![c] = r]
    BY <1>0, <1>2 DEF HomeSet
  <2> QED  BY <1>3, <2>1 DEF Manifest, Component, Stack
<1>5. home'.tts = home.tts /\ home'.weights = home.weights /\ home'.prefs = home.prefs
  BY <1>0, <1>2 DEF HomeSet
<1>6. Goes(c, "record")
  BY <1>0, StackGoes
<1>7. RankOf(c, "record") \notin 63..69
  BY DEF RankOf, StackRank, StabRank, Component, Stack
<1>8. ~Window
  BY <1>0, <1>7, NoWindow
<1>9. <<c, "record">> \notin {<<"tts", "record">>, <<"tts", "healthy">>, <<"tts", "take-over">>, <<"all", "save">>}
  OBVIOUS
<1> QED  BY <1>0, <1>4, <1>5, <1>6, <1>8, <1>9, Mishaps, PortAside

LEMMA PortByEnter ==
  ASSUME Ground, TornIsInterrupted, StacksInv, Progress, PortInv, Enter("tts") PROVE PortInv'
<1> SUFFICES ASSUME PortClean' PROVE PortFacts'
  BY DEF PortInv
<1> DEFINE staged == ~cmd.opts.container /\ container["tts"] # {}
           r == [port |-> cmd.opts.port, client |-> cmd.place]
           m == Migrated(home.manifest)
<1>0. /\ Orderly /\ home \in HomeSet /\ Recorded /\ At("tts", "record")
      /\ bin' = bin /\ container' = container
  BY DEF Ground, Files, Enter, Recorded
<1>1. PortFacts /\ home.manifest # Torn /\ PortClean
  BY <1>0, Mishaps, PortBase, PortBefore
<1>2. home' = [home EXCEPT !.manifest = [m EXCEPT !["tts"] = r]] /\ Done
  BY <1>1 DEF Enter
<1>3. history'.mishaps = history.mishaps \cup (IF staged THEN {"staged"} ELSE {})
  BY Mishaps DEF Enter
<1>4. ~staged
  BY <1>3 DEF PortClean, Without
<1>5. m \in Manifest /\ r.port = cmd.opts.port
  BY <1>0, <1>1, MigratedType DEF HomeSet
<1> HIDE DEF r, m
<1>6. /\ home'.manifest["tts"] = r /\ home'.tts = home.tts /\ home'.weights = home.weights
      /\ home'.prefs = home.prefs
  BY <1>0, <1>2, <1>5 DEF HomeSet, Manifest, Component, Stack
<1>7. Has("tts", "record") /\ Installing /\ cmd # None /\ cmd \in Running
  BY <1>0, HeadFacts DEF Installing
<1>8. /\ Past("tts", "prefs") /\ Past("tts", "require") /\ Past("tts", "compose") /\ ~Saving
      /\ ~Past("tts", "take-over")
  <2>1. /\ RankOf("tts", "record") = 66 /\ RankOf("tts", "prefs") = 62 /\ RankOf("tts", "require") = 64
        /\ RankOf("tts", "compose") = 65 /\ RankOf("tts", "take-over") = 67
    BY VoiceRanks
  <2>2. Past("tts", "take-over") => 67 < 66
    BY <1>0, <2>1, HeadFacts
  <2> QED  BY <1>0, <1>7, <2>1, <2>2, WindowFacts
<1>9. Preferred /\ Rendered /\ home.weights
  BY <1>7, <1>8 DEF Progress
<1>10. Takes("tts", "record")
  BY <1>0, <1>2, DoneStep DEF Succeeds
<1>11. ~Saving' /\ Past("tts", "prefs")' /\ (Has("tts", "healthy")' <=> Has("tts", "healthy"))
  BY <1>8, <1>10, TakesFacts DEF Saving
<1>12. Has("tts", "healthy")' => ~Past("tts", "take-over")'
  <2>1. Has("tts", "healthy") => Due("tts", "take-over")
    BY <1>0, <1>7 DEF Orderly, Complete, Has, Due
  <2> QED  BY <1>8, <1>10, <1>11, <2>1, TakesFacts
<1>13. PICK q : q = r
  OBVIOUS
<1>14. Standing("tts")' = q
  BY <1>6, <1>11, <1>13 DEF Standing
<1>15. ASSUME ~Window' PROVE Agree'
  <2>1. ~Has("tts", "healthy")
    BY <1>11, <1>15 DEF Window, Installing
  <2>2. ~cmd.opts.container
    BY <1>0, <1>7, <2>1 DEF Orderly, Complete, Has
  <2>3. container["tts"] = {}
    BY <1>4, <2>2
  <2>4. home.tts \in Compose /\ home.tts.port = cmd.opts.port
    BY <1>7, <1>9 DEF Rendered, Running, Option, Compose
  <2>5. home.prefs = cmd.opts.port
    BY <1>1, <1>9 DEF Preferred, PortClean, Without
  <2>6. q.port = cmd.opts.port
    BY <1>5, <1>13
  <2> QED  BY <1>0, <1>6, <1>14, <2>3, <2>4, <2>5, <2>6 DEF Agree, OneContainer
<1>16. OpenAgrees'
  BY <1>0, <1>1, <1>6 DEF PortFacts, OpenAgrees
<1> QED  BY <1>6, <1>9, <1>12, <1>15, <1>16 DEF PortFacts

LEMMA PortBySave ==
  ASSUME Ground, TornIsInterrupted, StacksInv, PortInv, Save PROVE PortInv'
<1> SUFFICES ASSUME PortClean' PROVE PortFacts'
  BY DEF PortInv
<1>0. /\ Orderly /\ home \in HomeSet /\ Recorded /\ At("all", "save") /\ Done
      /\ bin' = bin /\ container' = container /\ home' = [home EXCEPT !.manifest = cmd.left]
  BY DEF Ground, Files, Save, Recorded
<1>1. PortFacts
  BY <1>0, Mishaps, PortBase
<1>2. Saving /\ cmd # None /\ RankOf("all", "save") = 8
  BY <1>0, HeadFacts, StackRanks DEF Saving
<1>3. ~Window /\ ~Past("tts", "take-over")
  <2>1. Past("tts", "take-over") => 67 < 8
    BY <1>0, <1>2, HeadFacts, VoiceRanks
  <2> QED  BY <1>0, <1>2, <2>1, NoWindow
<1>4. /\ home'.manifest = cmd.left /\ home'.tts = home.tts /\ home'.weights = home.weights
      /\ home'.prefs = home.prefs
  BY <1>0 DEF HomeSet
<1>5. Takes("all", "save")
  BY <1>0, DoneStep DEF Succeeds
<1>6. Standing("tts")' = Standing("tts")
  <2>1. ~Saving'
    BY <1>5, TakesFacts DEF Saving
  <2> QED  BY <1>2, <1>4, <2>1 DEF Standing
<1>7. Has("tts", "healthy")' => ~Past("tts", "take-over")'
  <2>1. Has("tts", "healthy") => Due("tts", "take-over")
    BY <1>0, <1>2 DEF Orderly, Complete, Has, Due
  <2> QED  BY <1>3, <1>5, <2>1, TakesFacts
<1>8. OpenAgrees' /\ Agree'
  BY <1>0, <1>1, <1>3, <1>4, <1>6 DEF PortFacts, OpenAgrees, Agree, OneContainer
<1> QED  BY <1>1, <1>4, <1>6, <1>7, <1>8 DEF PortFacts

LEMMA PortByRemoval ==
  ASSUME Ground, TornIsInterrupted, StacksInv, Struck, PortInv, RemoveClient \/ WipeTts PROVE PortInv'
<1> SUFFICES ASSUME PortClean' PROVE PortFacts'
  BY DEF PortInv
<1>0. /\ Orderly /\ home \in HomeSet /\ bin \in BinSet /\ Recorded /\ container' = container
      /\ "tts" \in Component
  BY DEF Ground, Files, RemoveClient, WipeTts, Recorded, Component, Stack
<1>1. PortFacts /\ Clean("tts")
  BY <1>0, Mishaps, PortBase
<1>2. container["tts"] = {} /\ Saving
  BY <1>1, DownByThen DEF RemoveClient, WipeTts
<1>3. PICK x \in {"no-client", "wipe"} : At("tts", x) /\ Takes("tts", x)
  <2>1. CASE RemoveClient
    <3>1. At("tts", "no-client") /\ cmd' = After([cmd EXCEPT !.left["tts"] = None])
      BY <2>1 DEF RemoveClient
    <3> QED  BY <1>0, <3>1, StrikeStep
  <2>2. CASE WipeTts
    <3>1. At("tts", "wipe") /\ Done
      BY <2>2 DEF WipeTts
    <3> QED  BY <1>0, <3>1, DoneStep DEF Succeeds
  <2> QED  BY <2>1, <2>2
<1>4. Saving' /\ cmd' # None
  <2>1. Saving'
    BY <1>2, <1>3, TakesFacts DEF Saving
  <2> QED  BY <2>1 DEF Saving, Has, In, Remaining
<1>5. Standing("tts")' = None
  <2>1. CASE RemoveClient
    <3>1. At("tts", "no-client") /\ cmd' = After([cmd EXCEPT !.left["tts"] = None])
      BY <2>1 DEF RemoveClient
    <3>2. cmd'.left = [cmd.left EXCEPT !["tts"] = None] /\ cmd.left \in Manifest
      BY <1>0, <1>4, <3>1, StrikeStep, HeadFacts DEF Running
    <3> QED  BY <1>4, <3>2 DEF Standing, Manifest, Component, Stack
  <2>2. CASE WipeTts
    <3>1. At("tts", "wipe") /\ Done
      BY <2>2 DEF WipeTts
    <3>2. cmd'.left = cmd.left /\ Has("tts", "wipe") /\ cmd # None
      BY <1>0, <1>4, <3>1, DoneStep, HeadFacts DEF Succeeds
    <3>3. Due("tts", "no-client")
      BY <1>0, <3>2 DEF Orderly, Complete, Has, Due
    <3>4. Has("tts", "no-client") => 5 <= 4
      BY <1>0, <3>1, HeadFacts, VoiceRanks
    <3>5. cmd.left["tts"] = None
      BY <3>2, <3>3, <3>4 DEF Struck, Due, Met, Has, Past
    <3> QED  BY <1>4, <3>2, <3>5 DEF Standing
  <2> QED  BY <2>1, <2>2
<1>6. OpenAgrees'
  <2>1. bin'.open # None => bin.open # None /\ bin'.open.port = bin.open.port
    <3>1. \A places : Unlinked(places) # None => bin.open # None /\ Unlinked(places).port = bin.open.port
      BY <1>0 DEF Unlinked, BinSet, OpenSet
    <3>2. \/ bin' = bin
          \/ bin' = [bin EXCEPT !.client = None, !.open = Unlinked(Place)]
          \/ bin' = [bin EXCEPT !.open = Unlinked({"base"})]
      BY DEF RemoveClient, WipeTts
    <3>3. bin'.open \in {bin.open, Unlinked(Place), Unlinked({"base"})}
      BY <1>0, <3>2 DEF BinSet
    <3> QED  BY <3>1, <3>3
  <2>2. home'.prefs = home.prefs \/ home'.prefs = None
    BY <1>0 DEF RemoveClient, WipeTts, HomeSet
  <2> QED  BY <1>1, <2>1, <2>2 DEF PortFacts, OpenAgrees
<1> QED  BY <1>0, <1>2, <1>5, <1>6 DEF PortFacts, OneContainer, Agree

LEMMA PortByBegin ==
  ASSUME Ground, TornIsInterrupted, StacksInv, PortInv, NEW c \in Commands, Begin(c) PROVE PortInv'
<1> SUFFICES ASSUME PortClean' PROVE PortFacts'
  BY DEF PortInv
<1>0. Files /\ home \in HomeSet /\ bin' = bin /\ container' = container
  BY DEF Ground, Files, Begin
<1>1. /\ cmd' # None /\ cmd = None /\ cmd'.left = Loaded /\ Planned(c, cmd'.calls)
      /\ cmd'.calls = Calls(c) /\ Remaining' = Elements(Calls(c))
  BY <1>0, BeginStep
<1>2. history'.mishaps = history.mishaps
  <2>1. PICK S : history \in History(S)
    BY DEF Ground
  <2> QED  BY <2>1 DEF Begin, History
<1>3. PortFacts /\ home.manifest # Torn
  BY <1>2, PortBase
<1>4. ~Window /\ ~Saving
  BY <1>1, SomeRemain DEF Window, Installing, Saving
<1>5. home' = home \/ home' = [home EXCEPT !.manifest = Migrated(home.manifest)]
  BY DEF Begin
<1>6. /\ home'.tts = home.tts /\ home'.weights = home.weights /\ home'.prefs = home.prefs
      /\ home'.manifest["tts"] = home.manifest["tts"]
  <2>1. home.manifest \in Manifest /\ Migrated(home.manifest)["tts"] = home.manifest["tts"]
    BY <1>0, <1>3, MigratedType DEF HomeSet, Stack
  <2> QED  BY <1>0, <1>5, <2>1 DEF HomeSet
<1>7. Standing("tts")' = Standing("tts")
  <2>1. Loaded["tts"] = home.manifest["tts"]
    BY <1>0, <1>3, LoadedType DEF Stack
  <2> QED  BY <1>1, <1>4, <1>6, <2>1 DEF Standing
<1>8. Has("tts", "healthy")' => ~Past("tts", "take-over")'
  <2>1. Whole(Remaining', c.opts)
    BY <1>1 DEF Planned
  <2>2. In(Remaining', "tts", "take-over") => ~Behind(Remaining', "tts", "take-over")
    BY RankIsNat DEF In, Behind
  <2> QED  BY <2>1, <2>2 DEF Whole, Has, Past
<1>9. OpenAgrees' /\ Agree'
  BY <1>0, <1>3, <1>4, <1>6, <1>7 DEF PortFacts, OpenAgrees, Agree, OneContainer
<1> QED  BY <1>3, <1>6, <1>7, <1>8, <1>9 DEF PortFacts

\* A client that opens takes the port of the preferences; one that closes gives it back.
LEMMA PortByUser ==
  ASSUME Ground, TornIsInterrupted, StacksInv, PortInv, User PROVE PortInv'
<1>0. Orderly /\ home \in HomeSet /\ bin \in BinSet
  BY DEF Ground, Files
<1>1. Recorded /\ cmd' = cmd /\ container' = container
  BY DEF User, EditModels, EditSecrets, EditDockerfile, GetRelease, Chmod, OpenClient, Edit,
         CloseClient, Detach, Recorded
<1>2. CASE (\E place \in Place : OpenClient(place)) \/ CloseClient
  <2> SUFFICES ASSUME PortClean' PROVE PortFacts'
    BY DEF PortInv
  <2>1. PortFacts
    BY <1>1, Mishaps, PortBase
  <2>2. /\ \A d, y : (Has(d, y)' <=> Has(d, y)) /\ (Past(d, y)' <=> Past(d, y))
        /\ (Window' <=> Window) /\ (Saving' <=> Saving)
    BY <1>1, SameRemain DEF Window, Installing, Saving
  <2>3. CASE \E place \in Place : OpenClient(place)
    <3>1. home' = home
      BY <2>3 DEF OpenClient
    <3>2. PICK place \in Place :
            bin' = [bin EXCEPT !.open = [place |-> place,
                                         port |-> IF home.prefs = None THEN DefaultPort ELSE home.prefs]]
      BY <2>3 DEF OpenClient
    <3>3. home.prefs # None => bin'.open.port = home.prefs
      BY <1>0, <3>2 DEF BinSet
    <3>4. Standing("tts")' = Standing("tts")
      BY <1>1, <2>2, <3>1 DEF Standing
    <3> QED  BY <1>1, <2>1, <2>2, <3>1, <3>3, <3>4 DEF PortFacts, OpenAgrees, Agree, OneContainer
  <2>4. CASE CloseClient
    <3>1. bin.open # None /\ home' = [home EXCEPT !.prefs = bin.open.port] /\ bin' = [bin EXCEPT !.open = None]
      BY <2>4 DEF CloseClient
    <3>2. /\ home'.prefs = bin.open.port /\ home'.manifest = home.manifest /\ home'.tts = home.tts
          /\ home'.weights = home.weights /\ bin'.open = None
      BY <1>0, <3>1 DEF HomeSet, BinSet
    <3>3. Standing("tts")' = Standing("tts")
      BY <1>1, <2>2, <3>2 DEF Standing
    <3>4. Agree => Agree'
      <4>1. Standing("tts") # None /\ Agree => home.prefs \in Port /\ home.prefs = home.tts.port
        BY DEF Agree, Compose
      <4>2. home.prefs \in Port => home'.prefs = home.prefs
        BY <2>1, <3>1, <3>2, InstallerAssumption DEF PortFacts, OpenAgrees
      <4> QED  BY <1>1, <3>2, <3>3, <4>1, <4>2 DEF Agree, OneContainer
    <3> QED  BY <1>1, <2>1, <2>2, <3>2, <3>3, <3>4 DEF PortFacts, OpenAgrees, OneContainer
  <2> QED  BY <1>2, <2>3, <2>4
<1>3. CASE ~((\E place \in Place : OpenClient(place)) \/ CloseClient)
  <2>1. \/ home' = home
        \/ \E v : home' = [home EXCEPT !.models = v]
        \/ \E v : home' = [home EXCEPT !.secrets = v]
    BY <1>3 DEF User, EditModels, EditSecrets, EditDockerfile, GetRelease, Chmod, Edit, Detach
  <2>2. \/ bin' = bin
        \/ \E v : bin' = [bin EXCEPT !.mode = v]
        \/ \E v : bin' = [bin EXCEPT !.attached = v]
    BY <1>3 DEF User, EditModels, EditSecrets, EditDockerfile, GetRelease, Chmod, Edit, Detach
  <2>3. /\ home'.manifest = home.manifest /\ home'.tts = home.tts /\ home'.weights = home.weights
        /\ home'.prefs = home.prefs /\ bin'.open = bin.open
    BY <1>0, <2>1, <2>2 DEF HomeSet, BinSet
  <2> QED  BY <1>0, <1>1, <2>3, Mishaps, PortAside
<1> QED  BY <1>2, <1>3

LEMMA PortStep ==
  ASSUME Ground, TornIsInterrupted, StacksInv, Progress, Struck, PortInv, [Next]_vars PROVE PortInv'
<1>1. CASE UNCHANGED vars
  <2>1. /\ Orderly /\ home' = home /\ bin' = bin /\ cmd' = cmd /\ history' = history /\ container' = container
    BY <1>1 DEF vars, Ground
  <2> QED  BY <2>1, PortAside
<1>2. CASE Interrupt \/ Tear
  <2>1. "interrupted" \in history'.mishaps
    BY <1>2, Mishaps DEF Interrupt, Tear
  <2> QED  BY <2>1 DEF PortInv, PortClean, Without
<1>3. CASE StackCall
  BY <1>3, PortByStack, PortByFiles, PortByUp
<1>4. CASE VoiceCall
  BY <1>4, PortByWeights, PortByFiles, PortByTakeOver, PortByHealthy, PortByRemoval DEF VoiceCall
<1>5. CASE StabCall
  BY <1>5, PortByStab, PortByWipeHome
<1>6. ASSUME NEW c \in Component, Enter(c) PROVE PortInv'
  BY <1>6, PortByEnter, PortByOthersEnter
<1> QED  BY <1>1, <1>2, <1>3, <1>4, <1>5, <1>6, PortBySave, PortByBegin, PortByUser DEF Next

LEMMA PortHolds == Spec => []PortInv
<1>1. Init => PortInv
  <2> SUFFICES ASSUME Init PROVE PortFacts
    BY DEF PortInv
  <2>1. PICK old \in {None, [port |-> None, client |-> None]}, config \in {None, "private"} :
          home = [EmptyHome EXCEPT !.manifest[Legacy] = old, !.config = config]
    BY DEF Init
  <2>2. home.manifest = [NoManifest EXCEPT ![Legacy] = old]
    BY <2>1 DEF EmptyHome
  <2>3. home.manifest["tts"] = None
    BY <2>2 DEF NoManifest, Component, Stack, Legacy
  <2>4. ~Saving /\ ~Has("tts", "healthy")
    BY DEF Init, Saving, Has, In, Remaining
  <2>5. bin.open = None /\ container["tts"] = {}
    BY DEF Init, Stack
  <2> QED  BY <2>3, <2>4, <2>5 DEF PortFacts, OpenAgrees, OneContainer, Agree, Standing
<1>2. Ground /\ TornIsInterrupted /\ StacksInv /\ Progress /\ Struck /\ PortInv /\ [Next]_vars => PortInv'
  BY PortStep
<1> QED  BY <1>1, <1>2, GroundHolds, TornHolds, StacksHold, ProgressHolds, StruckHolds, PTL DEF Spec

\* The voice container is published on the port on record, and the client asks
\* that one (components/tts Install, writeTuiPrefs, takeOverPort, save_prefs).
THEOREM VoicePortsAgree == Spec => []PortsAgree
<1>1. Ground /\ TornIsInterrupted /\ StacksInv /\ PortInv => PortsAgree
  <2> SUFFICES ASSUME Ground, TornIsInterrupted, StacksInv, PortInv, cmd = None, PortClean,
                      NEW k \in container["tts"]
               PROVE  home.manifest["tts"].port = k.port /\ home.prefs = k.port
    BY DEF PortsAgree, PortClean
  <2>1. ~Window /\ ~Saving
    BY SomeRemain DEF Window, Installing, Saving
  <2>2. Agree /\ Safe("tts")
    BY <2>1, PortIsClean DEF PortInv, PortFacts
  <2>3. home.manifest["tts"] # None
    BY <2>2 DEF Safe, Starting
  <2> QED  BY <2>1, <2>2, <2>3 DEF Agree, Standing, OneContainer
<1> QED  BY <1>1, GroundHolds, TornHolds, StacksHold, PortHolds, PTL
====
