---- MODULE SpeechProofs ----
(***************************************************************************)
(* What the calls of two requests may do to each other inside an engine,    *)
(* for every set of requests, voices, texts and checkpoints, and every      *)
(* VoicesInMemory.  Piper: no more voices than it may hold, however many    *)
(* calls interleave.  Qwen: what a clone is spoken by, as long as no two    *)
(* calls are inside _load together.  And what a client hears: its text in   *)
(* its order, and every sample of it, for every text, every length text.py  *)
(* cuts at, and every window and overlap of stretch.py.                     *)
(***************************************************************************)
EXTENDS Speech, FiniteSetTheorems, SequenceTheorems, WellFoundedInduction, TLAPS

\* The calls that have inserted a voice and are making room.
MakingRoom == {r \in Request : at[r] \in {"evict", "pop"}}
Engine == {"kokoro", "piper", "qwen"}
Place == {"new", "refused", "done", "failed", "stopped", "speak"} \cup Engine
         \cup {"touch", "load", "insert", "evict", "pop"}
         \cup {"check", "reuse", "unload", "forget", "fetch", "keep", "name"}

\* As much of the types as the bound needs, and that a request which was not
\* refused has an engine to go on with: Speak sends it back to that engine.
Shape ==
  /\ \E S : voices \in Seq(S)
  /\ at \in [Request -> Place]
  /\ engine \in [Request -> Engine \cup {None}]
  /\ \A r \in Request : at[r] \in {"new", "refused"} \/ engine[r] \in Engine
IInv == Shape /\ VoicesBounded

----
LEMMA MakingRoomFinite ==
  IsFiniteSet(MakingRoom) /\ Cardinality(MakingRoom) \in Nat
<1>1. IsFiniteSet(Request) /\ MakingRoom \in SUBSET Request
  BY SpeechAssumption DEF MakingRoom
<1> QED  BY <1>1, FS_Subset, FS_CardinalityType

\* The bound, with its set named.
LEMMA Bound == VoicesBounded <=> Len(voices) <= VoicesInMemory + Cardinality(MakingRoom)
  BY DEF VoicesBounded, MakingRoom

\* A request that has an engine goes somewhere: the types stay as they are.
LEMMA GoesShape ==
  ASSUME Shape, NEW r \in Request, NEW place \in Place, Goes(r, place),
         \E S : voices' \in Seq(S), UNCHANGED engine, ~At(r, "new"), ~At(r, "refused")
  PROVE  Shape'
  BY DEF Shape, Goes, At

\* A request that is not making room, before or after, leaves the bound alone
\* unless it adds a voice.
LEMMA AsideKeepsBound ==
  ASSUME IInv, NEW r \in Request, NEW place \in Place, Goes(r, place), UNCHANGED voices,
         at[r] \notin {"evict", "pop"}, place \notin {"evict", "pop"}
  PROVE  VoicesBounded'
<1>1. MakingRoom' = MakingRoom
  BY DEF MakingRoom, IInv, Shape, Goes
<1> QED  BY <1>1, Bound DEF IInv, VoicesBounded, MakingRoom

LEMMA AskPreserves == ASSUME IInv, NEW r \in Request, Ask(r) PROVE IInv'
<1>1. PICK voice \in Voice :
        \/ Goes(r, "refused") /\ UNCHANGED engine
        \/ /\ Resolve(voice) # None /\ Goes(r, Resolve(voice))
           /\ engine' = [engine EXCEPT ![r] = Resolve(voice)]
  BY DEF Ask
<1>2. Resolve(voice) # None => Resolve(voice) \in Engine
  BY DEF Resolve, Engine
<1>3. UNCHANGED voices /\ At(r, "new")
  BY DEF Ask
<1>4. CASE Goes(r, "refused") /\ UNCHANGED engine
  <2>1. Shape'
    BY <1>3, <1>4 DEF IInv, Shape, Goes, Place
  <2> QED  BY <1>3, <1>4, <2>1, AsideKeepsBound DEF IInv, At, Place
<1>5. CASE /\ Resolve(voice) # None /\ Goes(r, Resolve(voice))
           /\ engine' = [engine EXCEPT ![r] = Resolve(voice)]
  <2> DEFINE e == Resolve(voice)
  <2>1. e \in Engine /\ e \in Place /\ e \notin {"evict", "pop"}
    BY <1>2, <1>5 DEF Engine, Place
  <2>2. Goes(r, e) /\ engine' = [engine EXCEPT ![r] = e]
    BY <1>5
  <2> HIDE DEF e
  <2>3. Shape'
    BY <1>3, <2>1, <2>2 DEF IInv, Shape, Goes
  <2> QED  BY <1>3, <2>1, <2>2, <2>3, AsideKeepsBound DEF IInv, At
<1> QED  BY <1>1, <1>4, <1>5

\* The calls of one engine that touch neither voices nor the room for them.
LEMMA AsidePreserves ==
  ASSUME IInv, NEW r \in Request, NEW place \in Place, Goes(r, place),
         UNCHANGED <<voices, engine>>, ~At(r, "new"), ~At(r, "refused"),
         at[r] \notin {"evict", "pop"}, place \notin {"evict", "pop"}
  PROVE  IInv'
<1>1. \E S : voices \in Seq(S)
  BY DEF IInv, Shape
<1> QED  BY <1>1, GoesShape, AsideKeepsBound DEF IInv

LEMMA QwenPreserves == ASSUME IInv, NEW r \in Request, QwenCall(r) PROVE IInv'
<1> DEFINE Places == {"check", "reuse", "unload", "forget", "fetch", "keep", "name", "speak",
                      "failed"}
<1>1. /\ \E place \in Places : Goes(r, place)
      /\ UNCHANGED <<voices, engine>>
      /\ at[r] \in {"qwen", "check", "reuse", "unload", "forget", "fetch", "keep", "name"}
  BY DEF QwenCall, Reference, Check, Reuse, Unload, Forget, Fetch, Keep, Label, Fails, At
<1> QED  BY <1>1, AsidePreserves DEF At, Place

LEMMA SpeakPreserves == ASSUME IInv, NEW r \in Request, Speak(r) PROVE IInv'
<1>1. \E place \in {"stopped", "done", engine[r], "failed"} : Goes(r, place)
  BY DEF Speak, Fails
<1>2. engine[r] \in {"kokoro", "piper", "qwen"}
  BY DEF IInv, Shape, Speak, At, Engine
<1>3. UNCHANGED <<voices, engine>> /\ at[r] = "speak"
  BY DEF Speak, At
<1>4. PICK place \in {"stopped", "done", "kokoro", "piper", "qwen", "failed"} : Goes(r, place)
  BY <1>1, <1>2
<1> QED  BY <1>3, <1>4, AsidePreserves DEF At, Place, Engine

\* A call that moves between the places of making room, without a voice more.
LEMMA RoomPreserves ==
  ASSUME IInv, NEW r \in Request, NEW place \in {"evict", "pop"}, Goes(r, place),
         at[r] \in {"evict", "pop"}, UNCHANGED engine, \E S : voices' \in Seq(S),
         Len(voices') <= Len(voices)
  PROVE  IInv'
<1>1. MakingRoom' = MakingRoom
  BY DEF MakingRoom, IInv, Shape, Goes
<1>2. Shape'
  BY GoesShape DEF At, Place, IInv
<1>3. Len(voices) \in Nat /\ Len(voices') \in Nat /\ VoicesInMemory \in Nat
  BY SpeechAssumption DEF IInv, Shape
<1>4. Len(voices') <= VoicesInMemory + Cardinality(MakingRoom)
  BY <1>3, Bound, MakingRoomFinite DEF IInv
<1> HIDE DEF MakingRoom
<1>5. VoicesBounded' <=> Len(voices') <= VoicesInMemory + Cardinality(MakingRoom')
  BY DEF VoicesBounded, MakingRoom
<1> QED  BY <1>1, <1>2, <1>4, <1>5 DEF IInv

\* One request fewer is making room.
LEMMA LeavesRoom ==
  ASSUME IInv, NEW r \in Request, NEW place \in Place \ {"evict", "pop"}, Goes(r, place),
         at[r] \in {"evict", "pop"}, UNCHANGED <<voices, engine>>,
         Len(voices) <= VoicesInMemory
  PROVE  IInv'
<1>1. Shape'
  BY GoesShape DEF At, IInv, Shape
<1>2. Cardinality({q \in Request : at'[q] \in {"evict", "pop"}}) \in Nat
  <2>1. {q \in Request : at'[q] \in {"evict", "pop"}} \in SUBSET Request
    OBVIOUS
  <2> QED  BY <2>1, SpeechAssumption, FS_Subset, FS_CardinalityType
<1>3. Len(voices) \in Nat /\ VoicesInMemory \in Nat
  BY SpeechAssumption DEF IInv, Shape
<1> QED  BY <1>1, <1>2, <1>3 DEF VoicesBounded, IInv

LEMMA MovedLength ==
  ASSUME NEW S, voices \in Seq(S), NEW voice, voice \in Range(voices)
  PROVE  MovedToEnd(voice) \in Seq(S) /\ Len(MovedToEnd(voice)) = Len(voices)
<1> DEFINE i == CHOOSE j \in 1..Len(voices) : voices[j] = voice
<1>1. i \in 1..Len(voices) /\ voices[i] = voice
  BY DEF Range
<1> HIDE DEF i
<1>2. MovedToEnd(voice) =
        [k \in 1..Len(voices) |-> IF k < i THEN voices[k]
                                 ELSE IF k < Len(voices) THEN voices[k + 1] ELSE voice]
  BY DEF MovedToEnd, i
<1> QED  BY <1>1, <1>2

LEMMA TouchPreserves == ASSUME IInv, NEW r \in Request, TouchVoice(r) PROVE IInv'
<1> DEFINE voice == request[r].voice
<1>1. at[r] = "touch" /\ UNCHANGED engine
  BY DEF TouchVoice, At
<1>2. CASE voice \in Range(voices)
  <2>1. voices' = MovedToEnd(voice) /\ Goes(r, "speak")
    BY <1>2 DEF TouchVoice
  <2>2. PICK S : voices \in Seq(S)
    BY DEF IInv, Shape
  <2> HIDE DEF voice
  <2>3. voices' \in Seq(S) /\ Len(voices') = Len(voices)
    BY <1>2, <2>1, <2>2, MovedLength
  <2>4. Shape'
    BY <1>1, <2>1, <2>3, GoesShape DEF At, Place, IInv
  <2>5. {q \in Request : at'[q] \in {"evict", "pop"}} = {q \in Request : at[q] \in {"evict", "pop"}}
    BY <1>1, <2>1 DEF IInv, Shape, Goes
  <2> QED  BY <2>3, <2>4, <2>5 DEF IInv, VoicesBounded
<1>3. CASE voice \notin Range(voices)
  <2>1. UNCHANGED voices /\ Goes(r, "failed")
    BY <1>3 DEF TouchVoice, Fails
  <2> QED  BY <1>1, <2>1, AsidePreserves DEF At, Place
<1> QED  BY <1>2, <1>3

\* One voice more, and one request more that is making room.
LEMMA InsertPreserves == ASSUME IInv, NEW r \in Request, InsertVoice(r) PROVE IInv'
<1> DEFINE voice == request[r].voice
<1>1. /\ at[r] = "insert" /\ Goes(r, "evict") /\ UNCHANGED engine
      /\ \/ UNCHANGED voices
         \/ voices' = Append(voices, voice)
  BY DEF InsertVoice, At
<1>2. PICK S : voices \in Seq(S)
  BY DEF IInv, Shape
<1> HIDE DEF voice
<1>3. /\ voices \in Seq(S \cup {voice}) /\ voices' \in Seq(S \cup {voice})
      /\ Len(voices') \in Nat /\ Len(voices) \in Nat /\ Len(voices') <= Len(voices) + 1
  BY <1>1, <1>2
<1>4. Shape'
  BY <1>1, <1>3, GoesShape DEF At, Place, IInv
<1>5. {q \in Request : at'[q] \in {"evict", "pop"}} = MakingRoom \cup {r} /\ r \notin MakingRoom
  BY <1>1 DEF MakingRoom, IInv, Shape, Goes
<1>6. Cardinality(MakingRoom \cup {r}) = Cardinality(MakingRoom) + 1
  BY <1>5, MakingRoomFinite, FS_AddElement
<1>7. Len(voices') <= VoicesInMemory + Cardinality(MakingRoom \cup {r})
  BY <1>3, <1>6, MakingRoomFinite, Bound, SpeechAssumption DEF IInv
<1> QED  BY <1>4, <1>5, <1>7 DEF IInv, VoicesBounded

LEMMA FullEnoughPreserves == ASSUME IInv, NEW r \in Request, FullEnough(r) PROVE IInv'
<1>1. /\ at[r] = "evict" /\ UNCHANGED <<voices, engine>>
      /\ Goes(r, IF Len(voices) > VoicesInMemory THEN "pop" ELSE "speak")
  BY DEF FullEnough, At
<1>2. \E S : voices \in Seq(S)
  BY DEF IInv, Shape
<1>3. Len(voices) \in Nat /\ VoicesInMemory \in Nat
  BY <1>2, SpeechAssumption
<1>4. CASE Len(voices) > VoicesInMemory
  <2>1. Goes(r, "pop")
    BY <1>1, <1>4
  <2> QED  BY <1>1, <1>2, <1>3, <2>1, RoomPreserves
<1>5. CASE ~(Len(voices) > VoicesInMemory)
  <2>1. Goes(r, "speak") /\ Len(voices) <= VoicesInMemory
    BY <1>1, <1>3, <1>5
  <2> QED  BY <1>1, <2>1, LeavesRoom DEF Place
<1> QED  BY <1>4, <1>5

LEMMA EvictPreserves == ASSUME IInv, NEW r \in Request, EvictVoice(r) PROVE IInv'
<1>1. at[r] = "pop" /\ UNCHANGED engine
  BY DEF EvictVoice, At
<1>2. PICK S : voices \in Seq(S)
  BY DEF IInv, Shape
<1>3. CASE voices = <<>>
  <2>1. UNCHANGED voices /\ Goes(r, "failed") /\ Len(voices) <= VoicesInMemory
    BY <1>3, SpeechAssumption DEF EvictVoice, Fails
  <2> QED  BY <1>1, <2>1, LeavesRoom DEF Place
<1>4. CASE voices # <<>>
  <2>1. voices' = Tail(voices) /\ Goes(r, "evict")
    BY <1>4 DEF EvictVoice
  <2>2. voices' \in Seq(S) /\ Len(voices') <= Len(voices)
    BY <1>2, <1>4, <2>1
  <2> QED  BY <1>1, <2>1, <2>2, RoomPreserves
<1> QED  BY <1>3, <1>4

LEMMA PiperPreserves == ASSUME IInv, NEW r \in Request, PiperCall(r) PROVE IInv'
<1>1. CASE GetVoice(r)
  <2>1. /\ \E place \in {"touch", "load"} : Goes(r, place)
        /\ UNCHANGED <<voices, engine>> /\ at[r] = "piper"
    BY <1>1 DEF GetVoice, At
  <2> QED  BY <2>1, AsidePreserves DEF At, Place
<1>2. CASE LoadVoice(r)
  <2>1. /\ \E place \in {"insert", "speak", "failed"} : Goes(r, place)
        /\ UNCHANGED <<voices, engine>> /\ at[r] = "load"
    BY <1>2 DEF LoadVoice, At, Fails
  <2> QED  BY <2>1, AsidePreserves DEF At, Place
<1> QED  BY <1>1, <1>2, TouchPreserves, InsertPreserves, FullEnoughPreserves, EvictPreserves
         DEF PiperCall

----
LEMMA Start == Init => IInv
<1> SUFFICES ASSUME Init PROVE IInv
  OBVIOUS
<1>1. voices = <<>> /\ at = [r \in Request |-> "new"] /\ engine = [r \in Request |-> None]
  BY DEF Init
<1>2. Shape
  BY <1>1 DEF Shape, Place
<1>3. Len(voices) = 0 /\ VoicesInMemory \in Nat
  BY <1>1, SpeechAssumption
<1> QED  BY <1>2, <1>3, Bound, MakingRoomFinite DEF IInv

\* What is not Piper's, and what a client or a user does.
LEMMA OthersPreserve ==
  ASSUME IInv,
         \/ \E r \in Request : Kokoro(r) \/ Disconnect(r)
         \/ \E voice \in CloneVoice : EditClones(voice)
         \/ UNCHANGED vars
  PROVE  IInv'
<1>1. ASSUME NEW r \in Request, Kokoro(r) PROVE IInv'
  <2>1. Goes(r, "speak") /\ UNCHANGED <<voices, engine>> /\ at[r] = "kokoro"
    BY <1>1 DEF Kokoro, At
  <2> QED  BY <2>1, AsidePreserves DEF At, Place
<1>2. ASSUME UNCHANGED <<voices, at, engine>> PROVE IInv'
  BY <1>2 DEF IInv, Shape, VoicesBounded
<1> QED  BY <1>1, <1>2 DEF Disconnect, EditClones, vars

\* Whatever calls interleave at the voices Piper keeps, it holds no more than it
\* may, plus those of the calls that are making room (piper.py, _loaded).
THEOREM VoicesStayBounded == Spec => []VoicesBounded
<1>1. IInv /\ [Next]_vars => IInv'
  BY AskPreserves, PiperPreserves, QwenPreserves, SpeakPreserves, OthersPreserve DEF Next
<1> QED  BY Start, <1>1, PTL DEF Spec, IInv

----------------------------------------------------------------------------
(* Qwen.                                                                   *)

LoadPlace == {"reuse", "unload", "forget", "fetch", "keep", "name"}
QwenPlace == LoadPlace \cup {"qwen", "check"}
PiperPlace == {"piper", "touch", "load", "insert", "evict", "pop"}
\* A request has its fields, and what was sent is a sequence.
Fields(X, S) == [voice : X, size : X, text : X, chunks : X, sent : Seq(S), held : X, gone : X]
RequestShape == \E X, S : request \in [Request -> Fields(X, S)]

\* Where a request is says which engine it is at, and only Qwen's have a size.
Placed(r) ==
  /\ at[r] = "new" => request[r].sent = <<>> /\ request[r].held = None
  /\ at[r] \notin {"new", "refused"} => engine[r] \in Engine
  /\ at[r] \in QwenPlace => engine[r] = "qwen"
  /\ at[r] \in PiperPlace \cup {"kokoro"} => engine[r] # "qwen"
  /\ engine[r] # "qwen" => request[r].held = None /\ request[r].size = None

\* A call alone in _load finds what it left: how far it is says what is loaded.
Loaded(r) ==
  /\ at[r] = "reuse" => model = request[r].size /\ size = model
  /\ at[r] = "unload" => size = model
  /\ at[r] = "forget" => model = None
  /\ at[r] = "fetch" => model = None /\ size = None
  /\ at[r] \in {"keep", "name", "speak"} => request[r].held = request[r].size
  /\ at[r] = "name" => model = request[r].size
Spoken(r) == \A i \in 1..Len(request[r].sent) : request[r].sent[i].by = request[r].size
Alone == (\A r, q \in Loading : r = q) /\ (Loading = {} => size = model)

SInv ==
  /\ at \in [Request -> Place] /\ engine \in [Request -> Engine \cup {None}] /\ RequestShape
  /\ \A r \in Request : Placed(r)
  /\ ~overlapped => Alone /\ \A r \in Request : Loaded(r) /\ Spoken(r)

LEMMA SizeFollows == SInv => SizeAsked
  BY DEF SInv, SizeAsked, Alone, Spoken

\* What a request holds changes nothing else of it, nor of the others.
LEMMA HoldsOnly ==
  ASSUME RequestShape, NEW r \in Request, NEW h, Holds(r, h)
  PROVE  /\ RequestShape' /\ request'[r].held = h
         /\ request'[r].size = request[r].size /\ request'[r].sent = request[r].sent
         /\ \A q \in Request \ {r} : request'[q] = request[q]
<1>1. PICK X, S : request \in [Request -> Fields(X, S)]
  BY DEF RequestShape
<1>2. request[r] \in Fields(X, S)
  BY <1>1
<1> DEFINE new == [request[r] EXCEPT !.held = h]
<1>3. /\ new \in Fields(X \cup {h}, S) /\ new.held = h
      /\ new.size = request[r].size /\ new.sent = request[r].sent
  BY <1>2 DEF Fields
<1>4. request' = [request EXCEPT ![r] = new]
  BY DEF Holds
<1>5. \A q \in Request : request[q] \in Fields(X \cup {h}, S)
  BY <1>1 DEF Fields
<1> HIDE DEF new
<1>6. request' \in [Request -> Fields(X \cup {h}, S)]
  BY <1>1, <1>3, <1>4, <1>5
<1> QED  BY <1>1, <1>3, <1>4, <1>6 DEF RequestShape

LEMMA AsksOnly ==
  ASSUME RequestShape, NEW r \in Request, NEW voice, NEW s, NEW text, NEW chunks,
         Asks(r, voice, s, text, chunks)
  PROVE  /\ RequestShape' /\ request'[r].size = s
         /\ request'[r].held = request[r].held /\ request'[r].sent = request[r].sent
         /\ \A q \in Request \ {r} : request'[q] = request[q]
<1>1. PICK X, S : request \in [Request -> Fields(X, S)]
  BY DEF RequestShape
<1>2. request[r] \in Fields(X, S)
  BY <1>1
<1> DEFINE new == [request[r] EXCEPT !.voice = voice, !.size = s, !.text = text, !.chunks = chunks]
           Y == X \cup {voice, s, text, chunks}
<1>3. /\ new \in Fields(Y, S) /\ new.size = s
      /\ new.held = request[r].held /\ new.sent = request[r].sent
  BY <1>2 DEF Fields
<1>4. request' = [request EXCEPT ![r] = new]
  BY DEF Asks
<1>5. \A q \in Request : request[q] \in Fields(Y, S)
  BY <1>1 DEF Fields
<1> HIDE DEF new, Y
<1>6. request' \in [Request -> Fields(Y, S)]
  BY <1>1, <1>3, <1>4, <1>5
<1> QED  BY <1>1, <1>3, <1>4, <1>6 DEF RequestShape

LEMMA SendsOnly ==
  ASSUME RequestShape, NEW r \in Request, NEW spoken, Sends(r, spoken)
  PROVE  /\ RequestShape' /\ request'[r].held = None /\ request'[r].size = request[r].size
         /\ \E S : request[r].sent \in Seq(S)
         /\ request'[r].sent = Append(request[r].sent, spoken)
         /\ \A q \in Request \ {r} : request'[q] = request[q]
<1>1. PICK X, S : request \in [Request -> Fields(X, S)]
  BY DEF RequestShape
<1>2. request[r] \in Fields(X, S) /\ request[r].sent \in Seq(S)
  BY <1>1 DEF Fields
<1> DEFINE all == Append(request[r].sent, spoken)
           new == [request[r] EXCEPT !.sent = all, !.held = None]
           Y == X \cup {None}
           T == S \cup {spoken}
<1>3. all \in Seq(T)
  BY <1>2
<1> HIDE DEF all
<1>4. /\ new \in Fields(Y, T) /\ new.held = None
      /\ new.size = request[r].size /\ new.sent = all
  <2>1. new \in [voice : Y, size : Y, text : Y, chunks : Y, sent : Seq(T), held : Y, gone : Y]
    BY <1>2, <1>3 DEF Fields
  <2> QED  BY <1>2, <2>1 DEF Fields
<1>5. request' = [request EXCEPT ![r] = new]
  BY DEF Sends, all
<1>6. \A q \in Request : request[q] \in Fields(Y, T)
  <2>1. ASSUME NEW s \in Seq(S) PROVE s \in Seq(T)
    BY <2>1
  <2>2. ASSUME NEW q \in Request PROVE request[q] \in Fields(Y, T)
    <3>1. request[q] \in Fields(X, S)
      BY <1>1
    <3> QED  BY <2>1, <3>1 DEF Fields
  <2> QED  BY <2>2
<1> HIDE DEF new, Y, T
<1>7. request' \in [Request -> Fields(Y, T)]
  BY <1>1, <1>4, <1>5, <1>6
<1>8. request'[r] = new /\ \A q \in Request \ {r} : request'[q] = request[q]
  BY <1>1, <1>5
<1> QED  BY <1>2, <1>4, <1>7, <1>8 DEF RequestShape, all

\* A step of one request that leaves what is loaded, and who is in _load, alone.
LEMMA StepAside ==
  ASSUME SInv, NEW r \in Request, NEW place \in Place, Goes(r, place), UNCHANGED <<model, size>>,
         overlapped' = overlapped,
         at[r] \notin LoadPlace, place \notin LoadPlace,
         engine' \in [Request -> Engine \cup {None}], RequestShape',
         \A q \in Request \ {r} : engine'[q] = engine[q] /\ request'[q] = request[q],
         Placed(r)', ~overlapped => Loaded(r)' /\ Spoken(r)'
  PROVE  SInv'
<1>1. at' \in [Request -> Place] /\ \A q \in Request \ {r} : at'[q] = at[q]
  BY DEF SInv, Goes
<1>2. at'[r] = place
  BY DEF SInv, Goes
<1>3. Loading' = Loading
  BY <1>1, <1>2 DEF Loading, LoadPlace
<1>4. \A q \in Request \ {r} : Placed(q)'
  BY <1>1 DEF SInv, Placed
<1>5. ~overlapped => Alone' /\ \A q \in Request \ {r} : Loaded(q)' /\ Spoken(q)'
  <2>1. ~overlapped => Alone'
    BY <1>3 DEF SInv, Alone
  <2>2. ASSUME ~overlapped, NEW q \in Request \ {r} PROVE Loaded(q)' /\ Spoken(q)'
    BY <1>1, <2>2 DEF SInv, Loaded, Spoken
  <2> QED  BY <2>1, <2>2
<1> QED  BY <1>1, <1>4, <1>5 DEF SInv

\* Such a step that changes no request either.
LEMMA MoveAside ==
  ASSUME SInv, NEW r \in Request, NEW place \in Place \ {"new"}, Goes(r, place),
         UNCHANGED <<model, size, overlapped, engine, request>>,
         at[r] \notin LoadPlace \cup {"new", "refused"}, place \notin LoadPlace,
         place \in QwenPlace => engine[r] = "qwen",
         place \in PiperPlace \cup {"kokoro"} => engine[r] # "qwen",
         place = "speak" => engine[r] # "qwen"
  PROVE  SInv'
<1>1. at'[r] = place
  BY DEF SInv, Goes
<1>2. Placed(r)'
  BY <1>1 DEF SInv, Placed
<1>3. ~overlapped => Loaded(r)' /\ Spoken(r)'
  <2>1. ~overlapped => Spoken(r)'
    BY DEF SInv, Spoken
  <2>2. ~overlapped => Loaded(r)'
    BY <1>1 DEF SInv, Loaded, LoadPlace, Placed
  <2> QED  BY <2>1, <2>2
<1>4. engine' \in [Request -> Engine \cup {None}] /\ RequestShape'
  BY DEF SInv, RequestShape
<1> QED  BY <1>2, <1>3, <1>4, StepAside

LEMMA PiperKeepsSize == ASSUME SInv, NEW r \in Request, PiperCall(r) \/ Kokoro(r) PROVE SInv'
<1>1. /\ \E place \in {"touch", "load", "insert", "evict", "pop", "speak", "failed"} :
              Goes(r, place)
      /\ UNCHANGED <<model, size, overlapped, engine, request>>
      /\ at[r] \in PiperPlace \cup {"kokoro"}
  BY DEF PiperCall, GetVoice, TouchVoice, LoadVoice, InsertVoice, FullEnough, EvictVoice, Kokoro,
         Fails, At, PiperPlace
<1>2. engine[r] # "qwen"
  BY <1>1 DEF SInv, Placed
<1> QED  BY <1>1, <1>2, MoveAside DEF Place, PiperPlace, QwenPlace, LoadPlace

LEMMA AskKeepsSize == ASSUME SInv, NEW r \in Request, Ask(r) PROVE SInv'
<1>1. PICK voice, s, text, chunks :
        LET speaker == Resolve(voice)
        IN \/ Goes(r, "refused") /\ UNCHANGED <<engine, request>>
           \/ /\ speaker # None /\ Goes(r, speaker)
              /\ engine' = [engine EXCEPT ![r] = speaker]
              /\ Asks(r, voice, IF speaker = "qwen" THEN s ELSE None, text, chunks)
  BY DEF Ask
<1> DEFINE e == Resolve(voice)
<1>2. at[r] = "new" /\ UNCHANGED <<model, size, overlapped>>
  BY DEF Ask, At
<1>3. request[r].held = None /\ request[r].sent = <<>> /\ RequestShape /\ at'[r] # "new"
  BY <1>1, <1>2 DEF SInv, Placed, Goes, Resolve
<1>4. e # None => e \in Engine
  BY DEF Resolve, Engine
<1>5. CASE Goes(r, "refused") /\ UNCHANGED <<engine, request>>
  <2>1. at'[r] = "refused"
    BY <1>5 DEF SInv, Goes
  <2>2. Placed(r)' /\ (~overlapped => Loaded(r)' /\ Spoken(r)')
    BY <1>2, <1>5, <2>1 DEF SInv, Placed, Loaded, Spoken, QwenPlace, LoadPlace, PiperPlace
  <2>3. RequestShape' /\ engine' \in [Request -> Engine \cup {None}]
    BY <1>5 DEF SInv, RequestShape
  <2> QED  BY <1>2, <1>5, <2>2, <2>3, StepAside DEF Place, LoadPlace
<1>6. CASE /\ e # None /\ Goes(r, e) /\ engine' = [engine EXCEPT ![r] = e]
           /\ Asks(r, voice, IF e = "qwen" THEN s ELSE None, text, chunks)
  <2> HIDE DEF e
  <2>1. /\ RequestShape' /\ request'[r].size = (IF e = "qwen" THEN s ELSE None)
        /\ request'[r].held = request[r].held /\ request'[r].sent = request[r].sent
        /\ \A q \in Request \ {r} : request'[q] = request[q]
    BY <1>3, <1>6, AsksOnly
  <2>2. /\ e \in {"kokoro", "piper", "qwen"} /\ at'[r] = e
        /\ engine' \in [Request -> Engine \cup {None}] /\ engine'[r] = e
        /\ \A q \in Request \ {r} : engine'[q] = engine[q]
    BY <1>4, <1>6 DEF SInv, Goes, Engine
  <2>4. Placed(r)'
    BY <1>3, <2>1, <2>2 DEF Placed, QwenPlace, LoadPlace, PiperPlace, Engine
  <2>5. Loaded(r)'
    BY <2>2 DEF Loaded
  <2>6. Spoken(r)'
    BY <1>3, <2>1 DEF Spoken
  <2> QED  BY <1>2, <1>6, <2>1, <2>2, <2>4, <2>5, <2>6, StepAside DEF Place, LoadPlace, Engine
<1> QED  BY <1>1, <1>5, <1>6

LEMMA SpeakKeepsSize == ASSUME SInv, NEW r \in Request, Speak(r) PROVE SInv'
<1>1. /\ at[r] = "speak" /\ UNCHANGED <<model, size, overlapped, engine>>
      /\ RequestShape /\ engine[r] \in Engine
  BY DEF Speak, At, SInv, Placed
<1>2. PICK spoken :
        \/ (Goes(r, "stopped") \/ Goes(r, "failed")) /\ Holds(r, None)
        \/ /\ Goes(r, "done") \/ Goes(r, engine[r])
           /\ Sends(r, spoken) /\ spoken.by = request[r].held
  <2> DEFINE chunk == request[r].chunks[Len(request[r].sent) + 1]
             s == [chunk |-> chunk, by |-> request[r].held, samples |-> TimeStretch(Length(chunk))]
  <2>1. s.by = request[r].held
    OBVIOUS
  <2>2. \/ (Goes(r, "stopped") \/ Goes(r, "failed")) /\ Holds(r, None)
        \/ (Goes(r, "done") \/ Goes(r, engine[r])) /\ Sends(r, s)
    BY DEF Speak, Fails
  <2> QED  BY <2>1, <2>2
<1>3. PICK place \in {"stopped", "failed", "done", "kokoro", "piper", "qwen"} :
        Goes(r, place) /\ at'[r] = place /\ (place \in Engine => engine[r] = place)
  BY <1>1, <1>2 DEF Goes, Engine, SInv
<1>4. /\ RequestShape' /\ request'[r].held = None /\ request'[r].size = request[r].size
      /\ \A q \in Request \ {r} : request'[q] = request[q]
  BY <1>1, <1>2, HoldsOnly, SendsOnly
<1>5. Placed(r)'
  BY <1>1, <1>3, <1>4 DEF SInv, Placed, QwenPlace, LoadPlace, PiperPlace, Engine
<1>6. ~overlapped => Spoken(r)'
  <2>1. CASE Holds(r, None)
    BY <1>1, <1>4, <2>1, HoldsOnly DEF SInv, Spoken
  <2>2. CASE Sends(r, spoken) /\ spoken.by = request[r].held
    <3>1. PICK S : request[r].sent \in Seq(S)
      BY <1>1, <2>2, SendsOnly
    <3> DEFINE sent == request[r].sent
    <3>2. request'[r].sent = Append(sent, spoken)
      BY <1>1, <2>2, SendsOnly
    <3>3. ~overlapped => spoken.by = request[r].size
      BY <1>1, <2>2 DEF SInv, Loaded
    <3>4. ~overlapped => \A i \in 1..Len(sent) : sent[i].by = request[r].size
      BY DEF SInv, Spoken
    <3> HIDE DEF sent
    <3>5. \A i \in 1..Len(Append(sent, spoken)) :
            Append(sent, spoken)[i] = IF i <= Len(sent) THEN sent[i] ELSE spoken
      BY <3>1 DEF sent
    <3>6. \A i \in 1..Len(Append(sent, spoken)) : i <= Len(sent) => i \in 1..Len(sent)
      BY <3>1 DEF sent
    <3> QED  BY <1>4, <3>2, <3>3, <3>4, <3>5, <3>6 DEF Spoken
  <2> QED  BY <1>2, <2>1, <2>2
<1>7. Loaded(r)'
  BY <1>3 DEF Loaded
<1> QED  BY <1>1, <1>3, <1>4, <1>5, <1>6, <1>7, StepAside DEF SInv, Place, LoadPlace, Engine

\* A client that goes away, a clone that comes or goes.
LEMMA OthersKeepSize ==
  ASSUME SInv,
         \/ \E r \in Request : Disconnect(r)
         \/ \E voice \in CloneVoice : EditClones(voice)
         \/ UNCHANGED vars
  PROVE  SInv'
<1>1. CASE UNCHANGED <<model, size, at, engine, request, overlapped>>
  BY <1>1 DEF SInv, RequestShape, Placed, Loaded, Spoken, Alone, Loading
<1>2. ASSUME NEW r \in Request, Disconnect(r) PROVE SInv'
  <2>1. PICK X, S : request \in [Request -> Fields(X, S)]
    BY DEF SInv, RequestShape
  <2> DEFINE new == [request[r] EXCEPT !.gone = TRUE]
  <2>2. request' = [request EXCEPT ![r] = new]
    BY <1>2 DEF Disconnect
  <2>3. /\ new \in Fields(X \cup {TRUE}, S) /\ new.size = request[r].size
        /\ new.held = request[r].held /\ new.sent = request[r].sent
    <3>1. request[r] \in Fields(X, S)
      BY <2>1
    <3> QED  BY <3>1 DEF Fields
  <2>4. \A q \in Request : request[q] \in Fields(X \cup {TRUE}, S)
    BY <2>1 DEF Fields
  <2> HIDE DEF new
  <2>5. request' \in [Request -> Fields(X \cup {TRUE}, S)]
    BY <2>1, <2>2, <2>3, <2>4
  <2>6. \A q \in Request : /\ request'[q].size = request[q].size
                           /\ request'[q].held = request[q].held
                           /\ request'[q].sent = request[q].sent
    BY <2>1, <2>2, <2>3
  <2>7. UNCHANGED <<model, size, at, engine, overlapped>>
    BY <1>2 DEF Disconnect
  <2>8. \A q \in Request : Placed(q)'
    BY <2>6, <2>7 DEF SInv, Placed
  <2>9. ~overlapped => \A q \in Request : Loaded(q)' /\ Spoken(q)'
    BY <2>6, <2>7 DEF SInv, Loaded, Spoken
  <2>10. ~overlapped => Alone'
    BY <2>7 DEF SInv, Alone, Loading
  <2> QED  BY <2>5, <2>7, <2>8, <2>9, <2>10 DEF SInv, RequestShape
<1> QED  BY <1>1, <1>2 DEF EditClones, vars

\* In _load.  A call alone there finds what it left; two that meet are excused.
LEMMA StepInside ==
  ASSUME SInv, NEW r \in Request, NEW place \in Place, Goes(r, place),
         at[r] \in LoadPlace, place \notin {"new", "qwen", "check", "kokoro"} \cup PiperPlace,
         UNCHANGED <<engine, overlapped>>, RequestShape',
         request'[r].size = request[r].size, request'[r].sent = request[r].sent,
         \A q \in Request \ {r} : request'[q] = request[q],
         ~overlapped => Loaded(r)' /\ (place \notin LoadPlace => size' = model')
  PROVE  SInv'
<1>1. /\ at' \in [Request -> Place] /\ at'[r] = place
      /\ \A q \in Request \ {r} : at'[q] = at[q]
  BY DEF SInv, Goes
<1>2. engine[r] = "qwen"
  BY DEF SInv, Placed, QwenPlace
<1>3. \A q \in Request : Placed(q)'
  <2>1. Placed(r)'
    BY <1>1, <1>2 DEF SInv, Placed, Engine, PiperPlace
  <2> QED  BY <1>1, <2>1 DEF SInv, Placed
<1>4. ASSUME ~overlapped PROVE Alone' /\ \A q \in Request : Loaded(q)' /\ Spoken(q)'
  <2>1. \A q \in Request \ {r} : at[q] \notin LoadPlace
    BY <1>4 DEF SInv, Alone, Loading, LoadPlace
  <2>2. Loading' \subseteq {r} /\ (Loading' = {} => place \notin LoadPlace)
    BY <1>1, <2>1 DEF Loading, LoadPlace
  <2>3. ASSUME NEW q \in Request \ {r} PROVE Loaded(q)' /\ Spoken(q)'
    <3>1. at'[q] = at[q] /\ request'[q] = request[q] /\ at[q] \notin LoadPlace
      BY <1>1, <2>1
    <3>2. Loaded(q) /\ Spoken(q)
      BY <1>4 DEF SInv
    <3> QED  BY <3>1, <3>2 DEF Loaded, Spoken, LoadPlace
  <2>4. Spoken(r)'
    BY <1>4 DEF SInv, Spoken
  <2> QED  BY <1>4, <2>2, <2>3, <2>4 DEF Alone
<1> QED  BY <1>1, <1>3, <1>4 DEF SInv

\* The second to enter is seen; the first finds the name and the checkpoint agree.
LEMMA CheckKeepsSize == ASSUME SInv, NEW r \in Request, Check(r) PROVE SInv'
<1>1. PICK place \in {"reuse", "unload"} :
        /\ Goes(r, place)
        /\ place = "reuse" => size = request[r].size
  BY DEF Check
<1>2. /\ at[r] = "check" /\ overlapped' = (overlapped \/ Loading # {})
      /\ UNCHANGED <<model, size, engine, request>>
  BY DEF Check, At
<1>3. /\ at' \in [Request -> Place] /\ at'[r] = place
      /\ \A q \in Request \ {r} : at'[q] = at[q]
  BY <1>1 DEF SInv, Goes, Place
<1>4. \A q \in Request : Placed(q)'
  <2>1. Placed(r)'
    BY <1>1, <1>2, <1>3 DEF SInv, Placed, QwenPlace, LoadPlace, PiperPlace
  <2> QED  BY <1>2, <1>3, <2>1 DEF SInv, Placed
<1>5. ASSUME ~overlapped' PROVE Alone' /\ \A q \in Request : Loaded(q)' /\ Spoken(q)'
  <2>1. ~overlapped /\ Loading = {} /\ size = model
    BY <1>2, <1>5 DEF SInv, Alone
  <2>2. \A q \in Request : at[q] \notin LoadPlace
    BY <2>1 DEF Loading, LoadPlace
  <2>3. Loading' = {r}
    BY <1>3, <2>2 DEF Loading, LoadPlace
  <2>4. Loaded(r)'
    BY <1>1, <1>2, <1>3, <2>1 DEF Loaded
  <2>5. \A q \in Request \ {r} : Loaded(q)'
    BY <1>2, <1>3, <2>1 DEF SInv, Loaded
  <2>6. \A q \in Request : Spoken(q)'
    BY <1>2, <2>1 DEF SInv, Spoken
  <2> QED  BY <2>3, <2>4, <2>5, <2>6 DEF Alone
<1>6. RequestShape' /\ engine' \in [Request -> Engine \cup {None}]
  BY <1>2 DEF SInv, RequestShape
<1> QED  BY <1>3, <1>4, <1>5, <1>6 DEF SInv

LEMMA QwenKeepsSize == ASSUME SInv, NEW r \in Request, QwenCall(r) PROVE SInv'
<1>1. RequestShape /\ (UNCHANGED request => RequestShape')
  BY DEF SInv, RequestShape
<1>2. \A place \in Place : Goes(r, place) => at'[r] = place
  BY DEF SInv, Goes
<1>3. ~overlapped => Loaded(r)
  BY DEF SInv
<1>4. CASE Reference(r)
  <2>1. /\ at[r] = "qwen" /\ UNCHANGED <<model, size, overlapped, engine, request>>
        /\ Goes(r, "check") \/ Goes(r, "failed")
    BY <1>4 DEF Reference, Fails, At
  <2>2. engine[r] = "qwen"
    BY <2>1 DEF SInv, Placed, QwenPlace
  <2> QED  BY <2>1, <2>2, MoveAside DEF Place, LoadPlace, PiperPlace
<1>5. CASE Reuse(r)
  <2>1. at[r] = "reuse" /\ UNCHANGED <<model, size, overlapped, engine>>
    BY <1>5 DEF Reuse, At
  <2>2. ~overlapped => model = request[r].size /\ size = model
    BY <1>3, <2>1 DEF Loaded
  <2>3. CASE Goes(r, "failed") /\ UNCHANGED request
    <3>1. Loaded(r)'
      BY <1>2, <2>3 DEF Loaded, Place
    <3> QED  BY <1>1, <2>1, <2>2, <2>3, <3>1, StepInside DEF Place, LoadPlace, PiperPlace
  <2>4. CASE Goes(r, "speak") /\ Holds(r, model)
    <3>1. /\ RequestShape' /\ request'[r].held = model
          /\ request'[r].size = request[r].size /\ request'[r].sent = request[r].sent
          /\ \A q \in Request \ {r} : request'[q] = request[q]
      BY <1>1, <2>4, HoldsOnly
    <3>2. ~overlapped => Loaded(r)'
      BY <1>2, <2>2, <2>4, <3>1 DEF Loaded, Place
    <3> QED  BY <2>1, <2>2, <2>4, <3>1, <3>2, StepInside DEF Place, LoadPlace, PiperPlace
  <2> QED  BY <1>5, <2>3, <2>4 DEF Reuse, Fails
<1>6. CASE Unload(r)
  <2>1. at[r] = "unload" /\ UNCHANGED <<size, overlapped, engine, request>>
    BY <1>6 DEF Unload, At
  <2>2. PICK place \in {"fetch", "forget"} :
          /\ Goes(r, place)
          /\ place = "fetch" => model' = None /\ size' = None
          /\ place = "forget" => model' = None
    BY <1>6 DEF Unload
  <2>3. Loaded(r)'
    BY <1>2, <2>2 DEF Loaded, Place
  <2> QED  BY <1>1, <2>1, <2>2, <2>3, StepInside DEF Place, LoadPlace, PiperPlace
<1>7. CASE Forget(r)
  <2>1. /\ at[r] = "forget" /\ size' = None /\ Goes(r, "fetch")
        /\ UNCHANGED <<model, overlapped, engine, request>>
    BY <1>7 DEF Forget, At
  <2>2. ~overlapped => Loaded(r)'
    BY <1>2, <1>3, <2>1 DEF Loaded, Place
  <2> QED  BY <1>1, <2>1, <2>2, StepInside DEF Place, LoadPlace, PiperPlace
<1>8. CASE Fetch(r)
  <2>1. at[r] = "fetch" /\ UNCHANGED <<model, size, overlapped, engine>>
    BY <1>8 DEF Fetch, At
  <2>2. ~overlapped => size = model
    BY <1>3, <2>1 DEF Loaded
  <2>3. CASE Goes(r, "failed") /\ UNCHANGED request
    <3>1. Loaded(r)'
      BY <1>2, <2>3 DEF Loaded, Place
    <3> QED  BY <1>1, <2>1, <2>2, <2>3, <3>1, StepInside DEF Place, LoadPlace, PiperPlace
  <2>4. CASE Goes(r, "keep") /\ Holds(r, request[r].size)
    <3>1. /\ RequestShape' /\ request'[r].held = request[r].size
          /\ request'[r].size = request[r].size /\ request'[r].sent = request[r].sent
          /\ \A q \in Request \ {r} : request'[q] = request[q]
      BY <1>1, <2>4, HoldsOnly
    <3>2. Loaded(r)'
      BY <1>2, <2>4, <3>1 DEF Loaded, Place
    <3> QED  BY <2>1, <2>2, <2>4, <3>1, <3>2, StepInside DEF Place, LoadPlace, PiperPlace
  <2> QED  BY <1>8, <2>3, <2>4 DEF Fetch, Fails
<1>9. CASE Keep(r)
  <2>1. /\ at[r] = "keep" /\ model' = request[r].held /\ Goes(r, "name")
        /\ UNCHANGED <<size, overlapped, engine, request>>
    BY <1>9 DEF Keep, At
  <2>2. ~overlapped => Loaded(r)'
    BY <1>2, <1>3, <2>1 DEF Loaded, Place
  <2> QED  BY <1>1, <2>1, <2>2, StepInside DEF Place, LoadPlace, PiperPlace
<1>10. CASE Label(r)
  <2>1. /\ at[r] = "name" /\ size' = request[r].size /\ Goes(r, "speak")
        /\ UNCHANGED <<model, overlapped, engine, request>>
    BY <1>10 DEF Label, At
  <2>2. ~overlapped => Loaded(r)' /\ size' = model'
    BY <1>2, <1>3, <2>1 DEF Loaded, Place
  <2> QED  BY <1>1, <2>1, <2>2, StepInside DEF Place, LoadPlace, PiperPlace
<1> QED  BY <1>4, <1>5, <1>6, <1>7, <1>8, <1>9, <1>10, CheckKeepsSize DEF QwenCall

LEMMA SizeStart == Init => SInv
<1> SUFFICES ASSUME Init PROVE SInv
  OBVIOUS
<1>1. /\ at = [r \in Request |-> "new"] /\ engine = [r \in Request |-> None]
      /\ request = [r \in Request |-> NoRequest] /\ model = None /\ size = None
  BY DEF Init
<1>2. RequestShape
  <2>1. NoRequest \in Fields({None, <<>>, FALSE}, {})
    BY DEF NoRequest, Fields
  <2> QED  BY <1>1, <2>1 DEF RequestShape
<1>3. \A r \in Request : Placed(r) /\ Loaded(r) /\ Spoken(r)
  BY <1>1 DEF Placed, Loaded, Spoken, NoRequest, QwenPlace, LoadPlace, PiperPlace
<1>4. Alone
  BY <1>1 DEF Alone, Loading
<1> QED  BY <1>1, <1>2, <1>3, <1>4 DEF SInv, Place

\* While no two calls have been inside _load together, every chunk of a clone is
\* spoken by the checkpoint that was asked for (qwen.py, _load).
THEOREM SizeIsAsked == Spec => []SizeAsked
<1>1. SInv /\ [Next]_vars => SInv'
  BY AskKeepsSize, PiperKeepsSize, QwenKeepsSize, SpeakKeepsSize, OthersKeepSize DEF Next
<1> QED  BY SizeStart, SizeFollows, <1>1, PTL DEF Spec

----------------------------------------------------------------------------
(* Induction, and what a fold is.                                          *)

\* A non-empty set of naturals has a least element.
LEMMA LeastElement ==
  ASSUME NEW T \in SUBSET Nat, T # {}
  PROVE  \E x \in T : \A y \in T : x <= y
<1>1. PICK x \in T : \A y \in T : ~(<<y, x>> \in OpToRel(<, Nat))
  <2>1. \E x \in T : \A y \in T : ~(<<y, x>> \in OpToRel(<, Nat))
    BY NatLessThanWellFounded, WFMin
  <2> QED  BY <2>1
<1>2. \A y \in T : <<y, x>> \in Nat \X Nat /\ (y < x => <<y, x>> \in OpToRel(<, Nat))
  BY DEF OpToRel
<1>3. \A y \in T : ~(y < x)
  BY <1>1, <1>2
<1> QED  BY <1>3

\* Induction, with a set for what is proved of each number.
LEMMA Induction ==
  ASSUME NEW T \in SUBSET Nat, 0 \in T, \A n \in T : n + 1 \in T
  PROVE  T = Nat
<1>1. SUFFICES ASSUME Nat \ T # {} PROVE FALSE
  OBVIOUS
<1>2. PICK n \in Nat \ T : \A m \in Nat \ T : n <= m
  BY <1>1, LeastElement
<1>3. n - 1 \in Nat
  BY <1>2
<1>4. n - 1 \in T
  BY <1>2, <1>3
<1> QED  BY <1>2, <1>4

\* The same between two numbers.
LEMMA UpTo ==
  ASSUME NEW k \in Nat, NEW n \in Nat, NEW T, k \in T,
         \A m \in k..(n - 1) : m \in T => m + 1 \in T
  PROVE  \A i \in k..n : i \in T
<1> DEFINE S == {m \in Nat : k + m <= n => k + m \in T}
<1>1. S \in SUBSET Nat /\ 0 \in S
  OBVIOUS
<1>2. ASSUME NEW m \in S PROVE m + 1 \in S
  <2>1. ASSUME k + (m + 1) <= n PROVE k + (m + 1) \in T
    <3>1. m \in Nat /\ k + m \in k..(n - 1) /\ (k + m) + 1 = k + (m + 1) /\ k + m \in T
      BY <2>1
    <3> QED  BY <3>1
  <2>2. m + 1 \in Nat
    OBVIOUS
  <2> QED  BY <2>1, <2>2
<1> HIDE DEF S
<1>3. S = Nat
  BY <1>1, <1>2, Induction
<1>4. ASSUME NEW i \in k..n PROVE i \in T
  <2>1. i - k \in S /\ k + (i - k) = i /\ i <= n
    BY <1>3
  <2> QED  BY <2>1 DEF S
<1> QED  BY <1>4

\* The sequences over X, from the empty one by appending.
LEMMA AppendInduction ==
  ASSUME NEW X, NEW P \in SUBSET Seq(X), <<>> \in P, \A s \in P, x \in X : Append(s, x) \in P
  PROVE  P = Seq(X)
<1> DEFINE T == {n \in Nat : \A s \in Seq(X) : Len(s) = n => s \in P}
<1>1. 0 \in T
  <2>1. \A s \in Seq(X) : Len(s) = 0 => s = <<>>
    BY EmptySeq
  <2> QED  BY <2>1
<1>2. ASSUME NEW n \in T PROVE n + 1 \in T
  <2>1. ASSUME NEW s \in Seq(X), Len(s) = n + 1 PROVE s \in P
    <3>1. s # <<>> /\ n \in Nat
      BY <1>2, <2>1
    <3>2. PICK t \in Seq(X), x \in X : s = Append(t, x)
      BY <3>1, SequenceEmptyOrAppend
    <3>3. Len(t) = n
      BY <2>1, <3>1, <3>2
    <3>4. t \in P
      BY <1>2, <3>3
    <3> QED  BY <3>2, <3>4
  <2> QED  BY <1>2, <2>1
<1>3. T = Nat
  <2> HIDE DEF T
  <2>1. T \in SUBSET Nat
    BY DEF T
  <2> QED  BY <1>1, <1>2, <2>1, Induction
<1>4. ASSUME NEW s \in Seq(X) PROVE s \in P
  <2>1. Len(s) \in T
    BY <1>3, LenProperties
  <2> QED  BY <2>1
<1> QED  BY <1>4

\* The greatest of the first numbers, with which a fold begins.
LEMMA GreatestIs ==
  ASSUME NEW n \in Nat, NEW s \in SUBSET (1..n), NEW m \in s, \A i \in s : m >= i
  PROVE  Max(s) = m
<1> DEFINE G == CHOOSE x \in s : \A y \in s : x >= y
<1>1. \E x \in s : \A y \in s : x >= y
  OBVIOUS
<1>2. G \in s /\ \A y \in s : G >= y
  BY <1>1
<1> HIDE DEF G
<1>3. G >= m /\ m >= G /\ G \in Nat /\ m \in Nat
  BY <1>2
<1>4. G = m
  BY <1>3
<1> QED  BY <1>4 DEF Max, G

\* What a fold over the first n numbers is defined by: its value for each set of them.
Step(V, n) == [V \X (1..n) -> V]
HasFold(V, n, base, step) ==
  \E g \in [SUBSET (1..n) -> V] :
    \A s \in SUBSET (1..n) :
      g[s] = IF s = {} THEN base ELSE step[<<g[s \ {Max(s)}], Max(s)>>]

LEMMA FoldExists ==
  ASSUME NEW V, NEW n \in Nat, NEW base \in V, NEW step \in Step(V, n)
  PROVE  HasFold(V, n, base, step)
<1> DEFINE Folds(g, m) == \A s \in SUBSET (1..m) :
             g[s] = IF s = {} THEN base ELSE step[<<g[s \ {Max(s)}], Max(s)>>]
           Some(m) == \E g \in [SUBSET (1..m) -> V] : Folds(g, m)
           T == {m \in Nat : m <= n => Some(m)}
<1> HIDE DEF Some
<1>1. 0 \in T
  <2> DEFINE g == [s \in SUBSET (1..0) |-> base]
  <2>1. \A s \in SUBSET (1..0) : s = {}
    OBVIOUS
  <2>2. g \in [SUBSET (1..0) -> V]
    OBVIOUS
  <2>3. Folds(g, 0)
    BY <2>1
  <2> QED  BY <2>2, <2>3 DEF Some
<1>2. ASSUME NEW m \in T PROVE m + 1 \in T
  <2>1. SUFFICES ASSUME m + 1 <= n PROVE Some(m + 1)
    BY <1>2
  <2>2. m \in Nat /\ m <= n
    BY <1>2, <2>1
  <2>3. PICK g \in [SUBSET (1..m) -> V] : Folds(g, m)
    BY <1>2, <2>2 DEF Some
  <2> DEFINE h == [s \in SUBSET (1..(m + 1)) |->
                     IF m + 1 \in s THEN step[<<g[s \ {m + 1}], m + 1>>] ELSE g[s]]
  <2>4. \A s \in SUBSET (1..(m + 1)) :
          /\ m + 1 \notin s => s \in SUBSET (1..m)
          /\ s \ {m + 1} \in SUBSET (1..m)
    <3>1. \A i \in 1..(m + 1) : i # m + 1 => i \in 1..m
      BY <2>2
    <3> QED  BY <3>1
  <2>5. ASSUME NEW s \in SUBSET (1..(m + 1))
        PROVE  /\ h[s] \in V
               /\ h[s] = IF s = {} THEN base ELSE step[<<h[s \ {Max(s)}], Max(s)>>]
    <3>1. CASE m + 1 \in s
      <4>1. Max(s) = m + 1
        <5>1. m + 1 \in Nat /\ \A i \in s : m + 1 >= i
          BY <2>2
        <5> HIDE DEF h
        <5> QED  BY <3>1, <5>1, GreatestIs
      <4>2. g[s \ {m + 1}] \in V /\ m + 1 \in 1..n
        BY <2>1, <2>2, <2>3, <2>4
      <4>3. h[s] = step[<<g[s \ {m + 1}], m + 1>>] /\ h[s \ {m + 1}] = g[s \ {m + 1}]
        BY <2>4, <3>1
      <4>4. <<g[s \ {m + 1}], m + 1>> \in V \X (1..n)
        BY <4>2
      <4>5. h[s] \in V
        <5> HIDE DEF h
        <5> QED  BY <4>3, <4>4 DEF Step
      <4> HIDE DEF h
      <4> QED  BY <3>1, <4>1, <4>3, <4>5
    <3>2. CASE m + 1 \notin s
      <4>1. s \in SUBSET (1..m) /\ s \ {Max(s)} \in SUBSET (1..m) /\ m + 1 \notin s \ {Max(s)}
        BY <2>4, <3>2
      <4>2. h[s] = g[s] /\ h[s \ {Max(s)}] = g[s \ {Max(s)}]
        BY <2>2, <3>2, <4>1
      <4>3. g[s] = IF s = {} THEN base ELSE step[<<g[s \ {Max(s)}], Max(s)>>]
        BY <2>3, <4>1
      <4>4. g[s] \in V
        BY <2>3, <4>1
      <4> HIDE DEF h
      <4> QED  BY <4>2, <4>3, <4>4
    <3> QED  BY <3>1, <3>2
  <2>6. h \in [SUBSET (1..(m + 1)) -> V]
    <3>1. \A s \in SUBSET (1..(m + 1)) : h[s] \in V
      BY <2>5
    <3> QED  BY <3>1
  <2>7. Folds(h, m + 1)
    <3> HIDE DEF h
    <3> QED  BY <2>5
  <2> QED  BY <2>6, <2>7 DEF Some
<1>3. T = Nat
  <2> HIDE DEF T
  <2>1. T \in SUBSET Nat
    BY DEF T
  <2> QED  BY <1>1, <1>2, <2>1, Induction
<1>4. Some(n)
  BY <1>3
<1> QED  BY <1>4 DEF Some, HasFold

LEMMA GreatestExists ==
  ASSUME NEW n \in Nat, NEW s \in SUBSET (1..n), s # {}
  PROVE  Max(s) \in s /\ \A i \in s : i <= Max(s)
<1> DEFINE T == {n - i : i \in s}
<1>1. \A i \in s : i \in Nat /\ n - i \in Nat
  OBVIOUS
<1>2. T \in SUBSET Nat /\ T # {}
  BY <1>1
<1> HIDE DEF T
<1>3. PICK x \in T : \A y \in T : x <= y
  BY <1>2, LeastElement
<1>4. PICK m \in s : x = n - m
  BY <1>3 DEF T
<1>5. ASSUME NEW i \in s PROVE m >= i
  <2>1. n - m <= n - i
    BY <1>3, <1>4 DEF T
  <2> QED  BY <1>1, <2>1
<1>6. Max(s) = m
  BY <1>5, GreatestIs
<1> QED  BY <1>1, <1>5, <1>6

\* A fold over a sequence goes from its first element to its last.
LEMMA FoldSteps ==
  ASSUME NEW n \in Nat
  PROVE  /\ 1..0 = {} /\ 1..0 \in SUBSET (1..n)
         /\ \A m \in 1..n : /\ 1..m \in SUBSET (1..n) /\ 1..m # {}
                           /\ (1..m) \ {m} = 1..(m - 1) /\ Max(1..m) = m
<1>1. 1..0 = {} /\ 1..0 \in SUBSET (1..n)
  OBVIOUS
<1>2. ASSUME NEW m \in 1..n
      PROVE  /\ 1..m \in SUBSET (1..n) /\ 1..m # {}
             /\ (1..m) \ {m} = 1..(m - 1) /\ Max(1..m) = m
  <2>1. 1..m \in SUBSET (1..n) /\ m \in 1..m /\ (1..m) \ {m} = 1..(m - 1)
    OBVIOUS
  <2>2. \A i \in 1..m : m >= i
    OBVIOUS
  <2>3. Max(1..m) = m
    BY <2>1, <2>2, GreatestIs
  <2> QED  BY <2>1, <2>3
<1> QED  BY <1>1, <1>2

\* A length is a number, be it of no clause at all.
LEMMA LengthType == ASSUME NEW chunk \in Seq(Clause) PROVE Length(chunk) \in Int
<1>1. PICK n \in Nat : n = Len(chunk) /\ DOMAIN chunk = 1..n
  OBVIOUS
<1>2. PICK step \in [Int \X (1..n) -> Int] :
        \A v \in Int, i \in 1..n : step[<<v, i>>] = v + chunk[i].len + 1
  <2> DEFINE step == [p \in Int \X (1..n) |-> p[1] + chunk[p[2]].len + 1]
  <2>1. \A p \in Int \X (1..n) : p[1] \in Int /\ chunk[p[2]] \in Clause
    BY <1>1
  <2>2. \A p \in Int \X (1..n) : p[1] + chunk[p[2]].len + 1 \in Int
    BY <2>1 DEF Clause
  <2>3. step \in [Int \X (1..n) -> Int]
    BY <2>2
  <2>4. \A v \in Int, i \in 1..n : step[<<v, i>>] = v + chunk[i].len + 1
    OBVIOUS
  <2> QED  BY <2>3, <2>4
<1> DEFINE Body(g) == [s \in SUBSET (1..n) |->
                         IF s = {} THEN -1 ELSE g[s \ {Max(s)}] + chunk[Max(s)].len + 1]
           iter == CHOOSE g : g = Body(g)
<1>4. PICK g \in [SUBSET (1..n) -> Int] :
        \A s \in SUBSET (1..n) :
          g[s] = IF s = {} THEN -1 ELSE step[<<g[s \ {Max(s)}], Max(s)>>]
  <2>1. step \in Step(Int, n) /\ -1 \in Int
    BY DEF Step
  <2>2. HasFold(Int, n, -1, step)
    BY <2>1, FoldExists
  <2> QED  BY <2>2 DEF HasFold
<1>5. g = Body(g)
  <2>1. ASSUME NEW s \in SUBSET (1..n)
        PROVE  g[s] = IF s = {} THEN -1 ELSE g[s \ {Max(s)}] + chunk[Max(s)].len + 1
    <3>1. g[s \ {Max(s)}] \in Int
      OBVIOUS
    <3>2. s # {} => Max(s) \in 1..n
      BY <1>1, GreatestExists
    <3> QED  BY <1>2, <1>4, <3>1, <3>2
  <2> QED  BY <2>1
<1>6. iter = Body(iter)
  BY <1>5
<1>7. Length(chunk) = iter[1..n]
  BY <1>1 DEF Length, FoldLeft, MapThenFoldSet
<1> HIDE DEF iter
<1>8. iter[1..0] = -1 /\ \A m \in 1..n : iter[1..m] = iter[1..(m - 1)] + chunk[m].len + 1
  <2>1. \A s \in SUBSET (1..n) :
          iter[s] = IF s = {} THEN -1 ELSE iter[s \ {Max(s)}] + chunk[Max(s)].len + 1
    BY <1>6
  <2> HIDE DEF Body
  <2>2. ASSUME NEW m \in 1..n PROVE iter[1..m] = iter[1..(m - 1)] + chunk[m].len + 1
    <3>1. /\ 1..m \in SUBSET (1..n) /\ 1..m # {} /\ (1..m) \ {m} = 1..(m - 1) /\ Max(1..m) = m
      BY FoldSteps
    <3> QED  BY <2>1, <3>1
  <2>3. iter[1..0] = -1
    BY <2>1, FoldSteps
  <2> QED  BY <2>2, <2>3
<1> DEFINE T == {m \in 0..n : iter[1..m] \in Int}
<1>9. 0 \in T
  BY <1>8
<1>10. ASSUME NEW m \in 0..(n - 1), m \in T PROVE m + 1 \in T
  <2>1. m + 1 \in 1..n /\ iter[1..m] \in Int /\ chunk[m + 1] \in Clause /\ (m + 1) - 1 = m
    BY <1>1, <1>10
  <2>2. iter[1..(m + 1)] = iter[1..m] + chunk[m + 1].len + 1
    BY <1>8, <2>1
  <2>3. iter[1..(m + 1)] \in Int
    BY <2>1, <2>2 DEF Clause
  <2> QED  BY <2>1, <2>3
<1> HIDE DEF T
<1>11. \A m \in 0..n : m \in T
  BY <1>9, <1>10, UpTo
<1>12. n \in 0..n
  OBVIOUS
<1> QED  BY <1>7, <1>11, <1>12 DEF T

----------------------------------------------------------------------------
(* Sequences one after another.                                            *)

\* One sequence after another.
LEMMA FlattenSteps ==
  ASSUME NEW X, NEW ss \in Seq(Seq(X)), ss # <<>>
  PROVE  \E f \in [1..Len(ss) -> Seq(X)] :
           /\ FlattenSeq(ss) = f[Len(ss)] /\ f[1] = ss[1]
           /\ \A i \in 1..Len(ss) : i # 1 => f[i] = f[i - 1] \o ss[i]
<1>1. PICK n \in Nat : n = Len(ss) /\ n # 0
  OBVIOUS
<1>2. PICK step \in Step(Seq(X), n) :
        \A v \in Seq(X), i \in 1..n : step[<<v, i>>] = IF i = 1 THEN ss[i] ELSE v \o ss[i]
  <2> DEFINE step == [p \in Seq(X) \X (1..n) |-> IF p[2] = 1 THEN ss[p[2]] ELSE p[1] \o ss[p[2]]]
  <2>1. \A p \in Seq(X) \X (1..n) : p[1] \in Seq(X) /\ ss[p[2]] \in Seq(X)
    BY <1>1
  <2>2. \A p \in Seq(X) \X (1..n) :
          (IF p[2] = 1 THEN ss[p[2]] ELSE p[1] \o ss[p[2]]) \in Seq(X)
    BY <2>1
  <2>3. step \in Step(Seq(X), n)
    BY <2>2 DEF Step
  <2>4. \A v \in Seq(X), i \in 1..n : step[<<v, i>>] = IF i = 1 THEN ss[i] ELSE v \o ss[i]
    OBVIOUS
  <2> QED  BY <2>3, <2>4
<1>3. PICK g \in [SUBSET (1..n) -> Seq(X)] :
        \A s \in SUBSET (1..n) :
          g[s] = IF s = {} THEN <<>> ELSE step[<<g[s \ {Max(s)}], Max(s)>>]
  <2>1. <<>> \in Seq(X)
    OBVIOUS
  <2>2. HasFold(Seq(X), n, <<>>, step)
    BY <2>1, FoldExists
  <2> QED  BY <2>2 DEF HasFold
<1> DEFINE Body(f) == [i \in 1..n |-> IF i = 1 THEN ss[i] ELSE f[i - 1] \o ss[i]]
           h == [i \in 1..n |-> g[1..i]]
           flatten == CHOOSE f : f = Body(f)
<1>4. h = Body(h)
  <2>1. ASSUME NEW i \in 1..n PROVE h[i] = IF i = 1 THEN ss[i] ELSE h[i - 1] \o ss[i]
    <3>1. /\ 1..i \in SUBSET (1..n) /\ 1..i # {} /\ (1..i) \ {i} = 1..(i - 1) /\ Max(1..i) = i
      BY FoldSteps
    <3>2. 1..(i - 1) \in SUBSET (1..n)
      OBVIOUS
    <3>3. g[1..i] = step[<<g[1..(i - 1)], i>>] /\ g[1..(i - 1)] \in Seq(X)
      BY <1>3, <3>1, <3>2
    <3>4. g[1..i] = IF i = 1 THEN ss[i] ELSE g[1..(i - 1)] \o ss[i]
      BY <1>2, <3>3
    <3>5. i # 1 => i - 1 \in 1..n
      OBVIOUS
    <3> QED  BY <3>4, <3>5
  <2> QED  BY <2>1
<1>5. flatten = Body(flatten)
  BY <1>4
<1>6. FlattenSeq(ss) = flatten[n]
  BY <1>1 DEF FlattenSeq
<1> HIDE DEF flatten, h
<1>7. /\ flatten[1] = ss[1] /\ DOMAIN flatten = 1..n
      /\ \A i \in 1..n : i # 1 => flatten[i] = flatten[i - 1] \o ss[i]
  <2>1. \A i \in 1..n : flatten[i] = IF i = 1 THEN ss[i] ELSE flatten[i - 1] \o ss[i]
    BY <1>5
  <2>2. DOMAIN flatten = 1..n
    BY <1>5
  <2>3. 1 \in 1..n
    BY <1>1
  <2> HIDE DEF Body
  <2>4. \A i \in 1..n : i # 1 => flatten[i] = flatten[i - 1] \o ss[i]
    BY <2>1
  <2>5. flatten[1] = ss[1]
    BY <2>1, <2>3
  <2> QED  BY <2>2, <2>4, <2>5
<1> DEFINE T == {i \in 1..n : flatten[i] \in Seq(X)}
<1>8. 1 \in T
  BY <1>1, <1>7
<1>9. ASSUME NEW m \in 1..(n - 1), m \in T PROVE m + 1 \in T
  <2>1. m + 1 \in 1..n /\ m + 1 # 1 /\ (m + 1) - 1 = m
    OBVIOUS
  <2>2. flatten[m] \in Seq(X) /\ ss[m + 1] \in Seq(X)
    BY <1>1, <1>9, <2>1
  <2>3. flatten[m + 1] = flatten[m] \o ss[m + 1]
    BY <1>7, <2>1
  <2>4. flatten[m + 1] \in Seq(X)
    BY <2>2, <2>3
  <2> QED  BY <2>1, <2>4
<1> HIDE DEF T
<1>10. \A i \in 1..n : i \in T
  BY <1>8, <1>9, UpTo
<1>11. flatten \in [1..n -> Seq(X)]
  <2>1. flatten = [i \in 1..n |-> flatten[i]]
    BY <1>5
  <2>2. \A i \in 1..n : flatten[i] \in Seq(X)
    BY <1>10 DEF T
  <2> HIDE DEF Body
  <2> QED  BY <2>1, <2>2
<1> HIDE DEF Body
<1> QED  BY <1>1, <1>6, <1>7, <1>11

LEMMA FlattenType ==
  ASSUME NEW X, NEW ss \in Seq(Seq(X))
  PROVE  FlattenSeq(ss) \in Seq(X) /\ (ss = <<>> => FlattenSeq(ss) = <<>>)
<1>1. CASE ss = <<>>
  BY <1>1 DEF FlattenSeq
<1>2. CASE ss # <<>>
  <2>1. PICK f \in [1..Len(ss) -> Seq(X)] : FlattenSeq(ss) = f[Len(ss)]
    BY <1>2, FlattenSteps
  <2>2. Len(ss) \in 1..Len(ss)
    BY <1>2, EmptySeq
  <2> QED  BY <1>2, <2>1, <2>2
<1> QED  BY <1>1, <1>2

Associates(S) == \A a, b, c \in S : (a \o b) \o c = a \o (b \o c)
LEMMA Associative == \A X : Associates(Seq(X))
  BY ConcatAssociative DEF Associates
LEMMA Regroup ==
  ASSUME NEW S, Associates(S), NEW a \in S, NEW b \in S, NEW c \in S
  PROVE  (a \o b) \o c = a \o (b \o c)
  BY Zenon DEF Associates

LEMMA FlattenAppend ==
  ASSUME NEW X, NEW ss \in Seq(Seq(X)), NEW s \in Seq(X)
  PROVE  FlattenSeq(Append(ss, s)) = FlattenSeq(ss) \o s
<1>1. PICK n \in Nat : n = Len(ss)
  OBVIOUS
<1>2. PICK tt \in Seq(Seq(X)) : tt = Append(ss, s)
  <2>1. Append(ss, s) \in Seq(Seq(X))
    BY AppendProperties
  <2> QED  BY <2>1
<1>3. tt # <<>> /\ Len(tt) = n + 1 /\ tt[n + 1] = s /\ \A i \in 1..n : tt[i] = ss[i]
  BY <1>1, <1>2
<1>4. PICK g \in [1..(n + 1) -> Seq(X)] :
        /\ FlattenSeq(tt) = g[n + 1] /\ g[1] = tt[1]
        /\ \A i \in 1..(n + 1) : i # 1 => g[i] = g[i - 1] \o tt[i]
  <2>1. tt # <<>>
    BY <1>3
  <2>2. \E g \in [1..Len(tt) -> Seq(X)] :
          /\ FlattenSeq(tt) = g[Len(tt)] /\ g[1] = tt[1]
          /\ \A i \in 1..Len(tt) : i # 1 => g[i] = g[i - 1] \o tt[i]
    BY <2>1, FlattenSteps
  <2> QED  BY <1>3, <2>2
<1>5. CASE n = 0
  <2>1. ss = <<>> /\ FlattenSeq(ss) = <<>>
    BY <1>1, <1>5, EmptySeq, FlattenType
  <2>2. FlattenSeq(tt) = s
    BY <1>3, <1>4, <1>5
  <2>3. <<>> \o s = s
    BY ConcatEmptySeq
  <2> QED  BY <1>2, <2>1, <2>2, <2>3
<1>6. CASE n # 0
  <2>1. ss # <<>>
    BY <1>1, <1>6
  <2>2. PICK f \in [1..n -> Seq(X)] :
          /\ FlattenSeq(ss) = f[n] /\ f[1] = ss[1]
          /\ \A i \in 1..n : i # 1 => f[i] = f[i - 1] \o ss[i]
    BY <1>1, <2>1, FlattenSteps
  <2> DEFINE T == {i \in 1..n : f[i] = g[i]}
  <2>3. 1 \in T
    BY <1>3, <1>4, <1>6, <2>2
  <2>4. ASSUME NEW m \in 1..(n - 1), m \in T PROVE m + 1 \in T
    <3>1. m + 1 \in 1..n /\ m + 1 \in 1..(n + 1) /\ m + 1 # 1 /\ (m + 1) - 1 = m
      OBVIOUS
    <3>2. f[m + 1] = f[m] \o ss[m + 1] /\ g[m + 1] = g[m] \o tt[m + 1]
      BY <1>4, <2>2, <3>1
    <3>3. f[m + 1] = g[m + 1]
      BY <1>3, <2>4, <3>1, <3>2
    <3> QED  BY <3>1, <3>3
  <2> HIDE DEF T
  <2>5. \A i \in 1..n : i \in T
    BY <2>3, <2>4, UpTo
  <2>6. n \in 1..n /\ n + 1 \in 1..(n + 1) /\ n + 1 # 1 /\ (n + 1) - 1 = n
    BY <1>6
  <2>7. f[n] = g[n]
    BY <2>5, <2>6 DEF T
  <2>8. g[n + 1] = g[n] \o tt[n + 1]
    BY <1>4, <2>6
  <2> QED  BY <1>2, <1>3, <1>4, <2>2, <2>7, <2>8
<1> QED  BY <1>5, <1>6

LEMMA FlattenConcat ==
  ASSUME NEW X, NEW ss \in Seq(Seq(X)), NEW tt \in Seq(Seq(X))
  PROVE  FlattenSeq(ss \o tt) = FlattenSeq(ss) \o FlattenSeq(tt)
<1>0. Associates(Seq(X)) /\ Associates(Seq(Seq(X)))
  BY Associative
<1> DEFINE P == {uu \in Seq(Seq(X)) : FlattenSeq(ss \o uu) = FlattenSeq(ss) \o FlattenSeq(uu)}
<1>1. <<>> \in P
  <2>1. ss \o <<>> = ss /\ <<>> \in Seq(Seq(X)) /\ FlattenSeq(<<>>) = <<>>
    BY ConcatEmptySeq, FlattenType, EmptySeq
  <2>2. FlattenSeq(ss) \o <<>> = FlattenSeq(ss)
    BY FlattenType, ConcatEmptySeq
  <2> QED  BY <2>1, <2>2
<1>2. ASSUME NEW uu \in P, NEW s \in Seq(X) PROVE Append(uu, s) \in P
  <2>1. uu \in Seq(Seq(X)) /\ ss \o uu \in Seq(Seq(X)) /\ Append(uu, s) \in Seq(Seq(X))
    OBVIOUS
  <2>2. ss \o Append(uu, s) = Append(ss \o uu, s)
    <3>1. <<s>> \in Seq(Seq(X)) /\ Append(uu, s) = uu \o <<s>>
          /\ Append(ss \o uu, s) = (ss \o uu) \o <<s>>
      BY <2>1, AppendIsConcat
    <3> QED  BY <1>0, <2>1, <3>1 DEF Associates
  <2>3. FlattenSeq(Append(ss \o uu, s)) = (FlattenSeq(ss) \o FlattenSeq(uu)) \o s
    BY <1>2, <2>1, FlattenAppend
  <2>4. FlattenSeq(Append(uu, s)) = FlattenSeq(uu) \o s
    BY <2>1, FlattenAppend
  <2>5. (FlattenSeq(ss) \o FlattenSeq(uu)) \o s = FlattenSeq(ss) \o (FlattenSeq(uu) \o s)
    <3>1. FlattenSeq(ss) \in Seq(X) /\ FlattenSeq(uu) \in Seq(X)
      BY <2>1, FlattenType
    <3> QED  BY <1>0, <3>1 DEF Associates
  <2> QED  BY <2>1, <2>2, <2>3, <2>4, <2>5
<1>3. P = Seq(Seq(X))
  <2>1. P \in SUBSET Seq(Seq(X))
    OBVIOUS
  <2> HIDE DEF P
  <2> QED  BY <1>1, <1>2, <2>1, AppendInduction
<1> QED  BY <1>3

LEMMA FlattenOne ==
  ASSUME NEW X, NEW s \in Seq(X)
  PROVE  FlattenSeq(<<s>>) = s
<1>1. <<>> \in Seq(Seq(X)) /\ Append(<<>>, s) = <<s>> /\ FlattenSeq(<<>>) = <<>>
  <2>1. <<>> \in Seq(Seq(X)) /\ Append(<<>>, s) = <<s>>
    OBVIOUS
  <2> QED  BY <2>1, FlattenType
<1>2. FlattenSeq(Append(<<>>, s)) = FlattenSeq(<<>>) \o s
  BY <1>1, FlattenAppend
<1>3. <<>> \o s = s
  BY ConcatEmptySeq
<1> QED  BY <1>1, <1>2, <1>3

\* The first of the sequences make a prefix.
LEMMA FlattenPrefix ==
  ASSUME NEW X, NEW ss \in Seq(Seq(X)), NEW k \in 0..Len(ss)
  PROVE  IsPrefix(FlattenSeq(SubSeq(ss, 1, k)), FlattenSeq(ss))
<1>1. PICK a \in Seq(Seq(X)) : a = SubSeq(ss, 1, k)
  <2>1. SubSeq(ss, 1, k) \in Seq(Seq(X))
    BY SubSeqProperties
  <2> QED  BY <2>1
<1>2. PICK b \in Seq(Seq(X)) : b = SubSeq(ss, k + 1, Len(ss))
  <2>1. SubSeq(ss, k + 1, Len(ss)) \in Seq(Seq(X))
    BY SubSeqProperties
  <2> QED  BY <2>1
<1>3. ss = a \o b
  <2>1. SubSeq(ss, 1, k) \o SubSeq(ss, k + 1, Len(ss)) = SubSeq(ss, 1, Len(ss))
    <3>1. Len(ss) \in Nat /\ 1 \in 1..(Len(ss) + 1) /\ k \in 0..Len(ss) /\ Len(ss) \in k..Len(ss)
          /\ 1 - 1 = 0
      OBVIOUS
    <3> QED  BY <3>1, ConcatAdjacentSubSeq
  <2>2. SubSeq(ss, 1, Len(ss)) = ss
    OBVIOUS
  <2> QED  BY <1>1, <1>2, <2>1, <2>2
<1>4. FlattenSeq(ss) = FlattenSeq(a) \o FlattenSeq(b)
  BY <1>3, FlattenConcat
<1>5. FlattenSeq(a) \in Seq(X) /\ FlattenSeq(b) \in Seq(X)
  BY FlattenType
<1>6. \A s \in Seq(X), t \in Seq(X) : IsPrefix(s, s \o t)
  <2>1. ASSUME NEW s \in Seq(X), NEW t \in Seq(X) PROVE IsPrefix(s, s \o t)
    <3>1. Len(s) <= Len(s \o t) /\ SubSeq(s, 1, Len(s)) = SubSeq(s \o t, 1, Len(s))
      OBVIOUS
    <3> QED  BY <3>1 DEF IsPrefix
  <2> QED  BY <2>1
<1> QED  BY <1>1, <1>4, <1>5, <1>6

\* What they hold, they hold together.
LEMMA FlattenRange ==
  ASSUME NEW X, NEW ss \in Seq(Seq(X))
  PROVE  Range(FlattenSeq(ss)) = UNION {Range(ss[i]) : i \in 1..Len(ss)}
<1> DEFINE Held(uu) == UNION {Range(uu[i]) : i \in 1..Len(uu)}
           P == {uu \in Seq(Seq(X)) : Range(FlattenSeq(uu)) = Held(uu)}
<1>1. <<>> \in P
  <2>1. Range(<<>>) = {} /\ Len(<<>>) = 0
    BY DEF Range
  <2>2. FlattenSeq(<<>>) = <<>> /\ <<>> \in Seq(Seq(X))
    BY FlattenType, EmptySeq
  <2>3. Held(<<>>) = {}
    BY <2>1
  <2> HIDE DEF Held
  <2> QED  BY <2>1, <2>2, <2>3
<1>2. ASSUME NEW uu \in P, NEW s \in Seq(X) PROVE Append(uu, s) \in P
  <2>1. uu \in Seq(Seq(X)) /\ Append(uu, s) \in Seq(Seq(X)) /\ FlattenSeq(uu) \in Seq(X)
    BY FlattenType
  <2>2. Range(FlattenSeq(uu) \o s) = Range(FlattenSeq(uu)) \cup Range(s)
    BY <2>1, RangeConcatenation
  <2>3. Held(Append(uu, s)) = Held(uu) \cup Range(s)
    <3>1. PICK n \in Nat : n = Len(uu)
      BY <2>1
    <3>2. PICK vv \in Seq(Seq(X)) : vv = Append(uu, s)
      BY <2>1
    <3>3. Len(vv) = n + 1 /\ vv[n + 1] = s /\ \A i \in 1..n : vv[i] = uu[i]
      BY <2>1, <3>1, <3>2
    <3>4. UNION {Range(vv[i]) : i \in 1..(n + 1)} =
            (UNION {Range(vv[i]) : i \in 1..n}) \cup Range(vv[n + 1])
      <4>1. 1..(n + 1) = (1..n) \cup {n + 1}
        OBVIOUS
      <4> QED  BY <4>1
    <3>5. UNION {Range(vv[i]) : i \in 1..n} = UNION {Range(uu[i]) : i \in 1..n}
      BY <3>3
    <3> QED  BY <3>1, <3>2, <3>3, <3>4, <3>5
  <2>4. FlattenSeq(Append(uu, s)) = FlattenSeq(uu) \o s
    BY <2>1, FlattenAppend
  <2>5. Range(FlattenSeq(uu)) = Held(uu)
    BY <1>2
  <2> HIDE DEF Held
  <2> QED  BY <2>1, <2>2, <2>3, <2>4, <2>5
<1>3. P = Seq(Seq(X))
  <2>1. P \in SUBSET Seq(Seq(X))
    OBVIOUS
  <2> HIDE DEF P
  <2> QED  BY <1>1, <1>2, <2>1, AppendInduction
<1> QED  BY <1>3

----------------------------------------------------------------------------
(* The text, cut up.                                                       *)

Chunk == Seq(Clause) \ {<<>>}
\* SplitSentences, with the next clause.
Joined(chunks, c) ==
  IF chunks = <<>> THEN <<<<c>>>>
  ELSE IF Last(Last(chunks)).stop /\ Length(Last(chunks)) >= MinChars
  THEN Append(chunks, <<c>>)
  ELSE Append(Front(chunks), Append(Last(chunks), c))

LEMMA JoinedKeeps ==
  ASSUME NEW chunks \in Seq(Chunk), NEW c \in Clause
  PROVE  /\ Joined(chunks, c) \in Seq(Chunk)
         /\ FlattenSeq(Joined(chunks, c)) = Append(FlattenSeq(chunks), c)
<1>1. <<c>> \in Chunk /\ <<c>> \in Seq(Clause) /\ chunks \in Seq(Seq(Clause))
  <2>1. <<c>> \in Seq(Clause) /\ <<c>> # <<>>
    OBVIOUS
  <2>2. chunks \in Seq(Seq(Clause))
    BY SeqMonotonic DEF Chunk
  <2> QED  BY <2>1, <2>2 DEF Chunk
<1>2. CASE chunks = <<>>
  <2>1. Joined(chunks, c) = <<<<c>>>> /\ FlattenSeq(chunks) = <<>>
    BY <1>1, <1>2, FlattenType DEF Joined
  <2>2. PICK one \in Chunk : one = <<c>> /\ one \in Seq(Clause)
    BY <1>1
  <2>3. FlattenSeq(<<one>>) = one
    BY <2>2, FlattenOne
  <2>4. Append(<<>>, c) = one
    BY <2>2
  <2>5. <<one>> \in Seq(Chunk)
    OBVIOUS
  <2> QED  BY <2>1, <2>2, <2>3, <2>4, <2>5
<1>3. CASE Joined(chunks, c) = Append(chunks, <<c>>)
  <2>1. FlattenSeq(Append(chunks, <<c>>)) = FlattenSeq(chunks) \o <<c>>
    BY <1>1, FlattenAppend
  <2>2. FlattenSeq(chunks) \o <<c>> = Append(FlattenSeq(chunks), c)
    BY <1>1, FlattenType, AppendIsConcat
  <2>3. Append(chunks, <<c>>) \in Seq(Chunk)
    BY <1>1, AppendProperties
  <2> QED  BY <1>3, <2>1, <2>2, <2>3
<1>4. CASE chunks # <<>> /\ Joined(chunks, c) = Append(Front(chunks), Append(Last(chunks), c))
  <2>1. PICK first \in Seq(Chunk), last \in Chunk : chunks = Append(first, last)
    BY <1>4, SequenceEmptyOrAppend
  <2>2. Front(chunks) = first /\ Last(chunks) = last
    <3>1. Len(chunks) = Len(first) + 1 /\ Len(first) \in Nat /\ chunks[Len(first) + 1] = last
      BY <2>1
    <3>2. SubSeq(Append(first, last), 1, Len(first)) = first
      BY <3>1
    <3> QED  BY <2>1, <3>1, <3>2 DEF Front, Last
  <2>3. last \in Seq(Clause) /\ first \in Seq(Seq(Clause)) /\ Append(last, c) \in Chunk
    <3>1. last \in Seq(Clause) /\ Append(last, c) \in Seq(Clause) /\ Append(last, c) # <<>>
      BY AppendProperties DEF Chunk
    <3>2. first \in Seq(Seq(Clause))
      BY SeqMonotonic DEF Chunk
    <3> QED  BY <3>1, <3>2 DEF Chunk
  <2>4. PICK all \in Seq(Clause) : all = FlattenSeq(first)
    BY <2>3, FlattenType
  <2>5. FlattenSeq(chunks) = all \o last
    BY <2>1, <2>3, <2>4, FlattenAppend
  <2>6. FlattenSeq(Append(first, Append(last, c))) = all \o Append(last, c)
    <3>1. Append(last, c) \in Seq(Clause)
      BY <2>3 DEF Chunk
    <3> QED  BY <2>3, <2>4, <3>1, FlattenAppend
  <2>7. all \o Append(last, c) = Append(all \o last, c)
    BY <2>3
  <2>8. Append(first, Append(last, c)) \in Seq(Chunk)
    BY <2>3, AppendProperties
  <2> QED  BY <1>4, <2>2, <2>5, <2>6, <2>7, <2>8
<1> QED  BY <1>2, <1>3, <1>4 DEF Joined

\* Sentences are the text, and none is empty.
LEMMA SentencesAreWhole ==
  ASSUME NEW text \in Seq(Clause)
  PROVE  SplitSentences(text) \in Seq(Chunk) /\ FlattenSeq(SplitSentences(text)) = text
<1>1. PICK n \in Nat : n = Len(text) /\ DOMAIN text = 1..n
  OBVIOUS
<1> DEFINE V == Seq(Chunk)
<1>2. PICK step \in Step(V, n) :
        \A v \in V, i \in 1..n : step[<<v, i>>] = Joined(v, text[i])
  <2> DEFINE step == [p \in V \X (1..n) |-> Joined(p[1], text[p[2]])]
  <2>1. ASSUME NEW p \in V \X (1..n) PROVE Joined(p[1], text[p[2]]) \in V
    <3>1. p[1] \in Seq(Chunk) /\ text[p[2]] \in Clause
      BY <1>1
    <3> QED  BY <3>1, JoinedKeeps
  <2>2. step \in Step(V, n)
    BY <2>1 DEF Step
  <2>3. \A v \in V, i \in 1..n : step[<<v, i>>] = Joined(v, text[i])
    OBVIOUS
  <2> QED  BY <2>2, <2>3
<1>3. PICK g \in [SUBSET (1..n) -> V] :
        \A s \in SUBSET (1..n) :
          g[s] = IF s = {} THEN <<>> ELSE step[<<g[s \ {Max(s)}], Max(s)>>]
  <2>1. <<>> \in V
    OBVIOUS
  <2> HIDE DEF V
  <2>2. HasFold(V, n, <<>>, step)
    BY <2>1, FoldExists
  <2> QED  BY <2>2 DEF HasFold
<1> DEFINE Body(h) == [s \in SUBSET (1..n) |->
                         IF s = {} THEN <<>> ELSE Joined(h[s \ {Max(s)}], text[Max(s)])]
           iter == CHOOSE h : h = Body(h)
<1>4. g = Body(g)
  <2>1. ASSUME NEW s \in SUBSET (1..n)
        PROVE  g[s] = IF s = {} THEN <<>> ELSE Joined(g[s \ {Max(s)}], text[Max(s)])
    <3>1. g[s \ {Max(s)}] \in V
      OBVIOUS
    <3>2. s # {} => Max(s) \in 1..n
      BY <1>1, GreatestExists
    <3> QED  BY <1>2, <1>3, <3>1, <3>2
  <2> QED  BY <2>1
<1>5. iter = Body(iter)
  BY <1>4
<1>6. SplitSentences(text) = iter[1..n]
  BY <1>1 DEF SplitSentences, FoldLeft, MapThenFoldSet, Joined
<1> HIDE DEF iter
<1>7. iter[1..0] = <<>> /\ \A m \in 1..n : iter[1..m] = Joined(iter[1..(m - 1)], text[m])
  <2>1. \A s \in SUBSET (1..n) :
          iter[s] = IF s = {} THEN <<>> ELSE Joined(iter[s \ {Max(s)}], text[Max(s)])
    BY <1>5
  <2> QED  BY <2>1, FoldSteps
<1> DEFINE Whole(chunks, m) == chunks \in Seq(Chunk) /\ FlattenSeq(chunks) = SubSeq(text, 1, m)
           T == {m \in 0..n : Whole(iter[1..m], m)}
<1>8. 0 \in T
  <2>1. <<>> \in Seq(Chunk) /\ <<>> \in Seq(Seq(Clause)) /\ SubSeq(text, 1, 0) = <<>>
    OBVIOUS
  <2>2. FlattenSeq(<<>>) = <<>>
    BY <2>1, FlattenType
  <2>3. Whole(iter[1..0], 0)
    BY <1>7, <2>1, <2>2
  <2> HIDE DEF Whole
  <2> QED  BY <2>3
<1>9. ASSUME NEW m \in 0..(n - 1), m \in T PROVE m + 1 \in T
  <2>1. m + 1 \in 1..n /\ text[m + 1] \in Clause /\ (m + 1) - 1 = m
    BY <1>1
  <2>2. PICK before \in Seq(Chunk) : before = iter[1..m] /\ FlattenSeq(before) = SubSeq(text, 1, m)
    BY <1>9
  <2>3. iter[1..(m + 1)] = Joined(before, text[m + 1])
    BY <1>7, <2>1, <2>2
  <2>4. Joined(before, text[m + 1]) \in Seq(Chunk)
        /\ FlattenSeq(Joined(before, text[m + 1])) = Append(SubSeq(text, 1, m), text[m + 1])
    BY <2>1, <2>2, JoinedKeeps
  <2>5. Append(SubSeq(text, 1, m), text[m + 1]) = SubSeq(text, 1, m + 1)
    BY <1>1, <2>1
  <2>6. Whole(iter[1..(m + 1)], m + 1)
    BY <2>3, <2>4, <2>5
  <2> HIDE DEF Whole
  <2> QED  BY <2>1, <2>6
<1> HIDE DEF T
<1>10. \A m \in 0..n : m \in T
  BY <1>8, <1>9, UpTo
<1>11. n \in T /\ SubSeq(text, 1, n) = text
  BY <1>1, <1>10
<1> QED  BY <1>6, <1>11 DEF T

\* What is left behind a cut is not nothing.
LEMMA CutIsInside ==
  ASSUME NEW sentence \in Seq(Clause)
  PROVE  ClauseCut(sentence) = 0 \/ ClauseCut(sentence) \in 1..(Len(sentence) - 1)
<1> DEFINE cuts == {i \in 1..(Len(sentence) - 1) :
                      ~sentence[i].stop /\ Length(SubSeq(sentence, 1, i)) \in MinHead..FirstChars}
<1>1. CASE cuts = {}
  BY <1>1 DEF ClauseCut
<1>2. CASE cuts # {}
  <2>1. cuts \in SUBSET (1..Len(sentence)) /\ Len(sentence) \in Nat
        /\ \A i \in cuts : i \in 1..(Len(sentence) - 1)
    OBVIOUS
  <2>2. ClauseCut(sentence) = CHOOSE i \in cuts : \A j \in cuts : j <= i
    BY <1>2 DEF ClauseCut
  <2> HIDE DEF cuts
  <2>3. Max(cuts) \in cuts /\ \A j \in cuts : j <= Max(cuts)
    BY <1>2, <2>1, GreatestExists
  <2>4. ClauseCut(sentence) \in cuts
    BY <2>2, <2>3
  <2> QED  BY <2>1, <2>4
<1> QED  BY <1>1, <1>2

\* A chunk in two.
LEMMA CutIsWhole ==
  ASSUME NEW chunk \in Chunk, NEW cut \in 1..(Len(chunk) - 1)
  PROVE  /\ SubSeq(chunk, 1, cut) \in Chunk /\ SubSeq(chunk, cut + 1, Len(chunk)) \in Chunk
         /\ SubSeq(chunk, 1, cut) \o SubSeq(chunk, cut + 1, Len(chunk)) = chunk
<1>1. PICK n \in Nat : n = Len(chunk) /\ chunk \in Seq(Clause) /\ \A i \in 1..n : chunk[i] \in Clause
  BY DEF Chunk
<1>2. SubSeq(chunk, 1, cut) \in Seq(Clause) /\ Len(SubSeq(chunk, 1, cut)) # 0
  BY <1>1, SubSeqProperties
<1>3. SubSeq(chunk, cut + 1, n) \in Seq(Clause) /\ Len(SubSeq(chunk, cut + 1, n)) # 0
  BY <1>1, SubSeqProperties
<1>4. SubSeq(chunk, 1, cut) \o SubSeq(chunk, cut + 1, n) = SubSeq(chunk, 1, n)
  <2>1. 1 \in 1..(n + 1) /\ cut \in (1 - 1)..n /\ n \in cut..n
    BY <1>1
  <2> QED  BY <1>1, <2>1, ConcatAdjacentSubSeq
<1>5. SubSeq(chunk, 1, n) = chunk
  BY <1>1
<1>6. Len(<<>>) = 0
  OBVIOUS
<1> QED  BY <1>1, <1>2, <1>3, <1>4, <1>5, <1>6 DEF Chunk

LEMMA FlattenPair ==
  ASSUME NEW X, NEW s \in Seq(X), NEW ss \in Seq(Seq(X))
  PROVE  FlattenSeq(<<s>> \o ss) = s \o FlattenSeq(ss)
<1>1. <<s>> \in Seq(Seq(X)) /\ FlattenSeq(<<s>>) = s
  BY FlattenOne
<1> QED  BY <1>1, FlattenConcat

\* A stream says its text, and no chunk of it is empty.
LEMMA SplitIsWhole ==
  ASSUME NEW text \in Seq(Clause)
  PROVE  SplitForStreaming(text) \in Seq(Chunk) /\ FlattenSeq(SplitForStreaming(text)) = text
<1>1. PICK chunks \in Seq(Chunk) : chunks = SplitSentences(text) /\ FlattenSeq(chunks) = text
  BY SentencesAreWhole
<1>2. PICK cut : cut = IF chunks = <<>> THEN 0 ELSE ClauseCut(chunks[1])
  OBVIOUS
<1> DEFINE front == SubSeq(chunks[1], 1, cut)
           back == SubSeq(chunks[1], cut + 1, Len(chunks[1]))
<1>3. SplitForStreaming(text) =
        IF cut = 0 THEN chunks
        ELSE <<front>> \o (IF Len(chunks) > 1 /\ Length(back) < MinChars
                           THEN <<back \o chunks[2]>> \o SubSeq(chunks, 3, Len(chunks))
                           ELSE <<back>> \o Tail(chunks))
  BY <1>1, <1>2 DEF SplitForStreaming
<1>4. CASE cut = 0
  BY <1>1, <1>3, <1>4
<1>5. CASE cut # 0
  <2>1. chunks # <<>> /\ cut = ClauseCut(chunks[1])
    BY <1>2, <1>5
  <2>2. PICK n \in Nat : n = Len(chunks) /\ n >= 1 /\ \A i \in 1..n : chunks[i] \in Chunk
    BY <2>1, EmptySeq
  <2>3. PICK one \in Chunk : one = chunks[1] /\ one \in Seq(Clause)
    BY <2>2 DEF Chunk
  <2>4. cut \in 1..(Len(one) - 1)
    BY <1>5, <2>1, <2>3, CutIsInside
  <2>5. PICK h \in Chunk, t \in Chunk : h = front /\ t = back /\ h \o t = one
    <3>1. /\ SubSeq(one, 1, cut) \in Chunk /\ SubSeq(one, cut + 1, Len(one)) \in Chunk
          /\ SubSeq(one, 1, cut) \o SubSeq(one, cut + 1, Len(one)) = one
      BY <2>4, CutIsWhole
    <3> QED  BY <2>3, <3>1
  <2> HIDE DEF front, back
  <2>6. h \in Seq(Clause) /\ t \in Seq(Clause)
    BY DEF Chunk
  <2>7. Associates(Seq(Clause))
    BY Associative
  <2>8. PICK rest \in Seq(Chunk) : rest = Tail(chunks) /\ chunks = <<one>> \o rest
    <3>1. Tail(chunks) \in Seq(Chunk) /\ chunks = <<Head(chunks)>> \o Tail(chunks)
      BY <2>1, HeadTailProperties, ConcatSimplifications
    <3>2. Head(chunks) = one
      BY <2>3
    <3> QED  BY <3>1, <3>2
  <2>9. rest \in Seq(Seq(Clause)) /\ FlattenSeq(rest) \in Seq(Clause)
    <3>1. rest \in Seq(Seq(Clause))
      BY SeqMonotonic DEF Chunk
    <3> QED  BY <3>1, FlattenType
  <2>10. text = h \o (t \o FlattenSeq(rest))
    <3>1. text = one \o FlattenSeq(rest)
      BY <1>1, <2>3, <2>8, <2>9, FlattenPair
    <3>2. (h \o t) \o FlattenSeq(rest) = h \o (t \o FlattenSeq(rest))
      BY <2>6, <2>7, <2>9 DEF Associates
    <3> QED  BY <2>5, <3>1, <3>2
  <2>11. CASE SplitForStreaming(text) = <<h>> \o (<<t>> \o rest)
    <3>1. <<h>> \o (<<t>> \o rest) \in Seq(Chunk)
      OBVIOUS
    <3>2. <<t>> \o rest \in Seq(Seq(Clause))
      BY <2>6, <2>9
    <3>3. FlattenSeq(<<t>> \o rest) = t \o FlattenSeq(rest)
      BY <2>6, <2>9, FlattenPair
    <3>4. FlattenSeq(<<h>> \o (<<t>> \o rest)) = h \o (t \o FlattenSeq(rest))
      BY <2>6, <3>2, <3>3, FlattenPair
    <3> QED  BY <2>10, <2>11, <3>1, <3>4
  <2>12. CASE /\ n > 1
              /\ SplitForStreaming(text) = <<h>> \o (<<t \o chunks[2]>> \o SubSeq(chunks, 3, n))
    <3>1. PICK two \in Chunk : two = chunks[2] /\ two \in Seq(Clause)
      BY <2>2, <2>12 DEF Chunk
    <3>2. PICK more \in Seq(Chunk) : more = SubSeq(chunks, 3, n) /\ rest = <<two>> \o more
      <4>1. SubSeq(chunks, 3, n) \in Seq(Chunk)
        BY <2>2, SubSeqProperties
      <4>2. Tail(chunks) = <<chunks[2]>> \o SubSeq(chunks, 3, n)
        BY <2>2, <2>12
      <4> QED  BY <2>8, <3>1, <4>1, <4>2
    <3>3. more \in Seq(Seq(Clause)) /\ FlattenSeq(more) \in Seq(Clause)
      <4>1. more \in Seq(Seq(Clause))
        BY SeqMonotonic DEF Chunk
      <4> QED  BY <4>1, FlattenType
    <3>4. PICK both \in Chunk : both = t \o two /\ both \in Seq(Clause)
      <4>1. t \o two \in Seq(Clause) /\ t \o two # <<>>
        BY <2>6, <3>1, ConcatProperties, ConcatEqualIffEmpty DEF Chunk
      <4> QED  BY <4>1 DEF Chunk
    <3>5. FlattenSeq(rest) = two \o FlattenSeq(more)
      BY <3>1, <3>2, <3>3, FlattenPair
    <3>6. FlattenSeq(<<both>> \o more) = both \o FlattenSeq(more)
      BY <3>3, <3>4, FlattenPair
    <3>7. both \o FlattenSeq(more) = t \o (two \o FlattenSeq(more))
      <4>1. (t \o two) \o FlattenSeq(more) = t \o (two \o FlattenSeq(more))
        <5>1. t \in Seq(Clause) /\ two \in Seq(Clause) /\ FlattenSeq(more) \in Seq(Clause)
          BY <2>6, <3>1, <3>3
        <5> QED  BY <2>7, <5>1, Regroup, SMTT(30)
      <4> QED  BY <3>4, <4>1
    <3>8. <<both>> \o more \in Seq(Seq(Clause)) /\ <<h>> \o (<<both>> \o more) \in Seq(Chunk)
      BY <3>3, <3>4
    <3>9. FlattenSeq(<<h>> \o (<<both>> \o more)) = h \o (both \o FlattenSeq(more))
      BY <2>6, <3>6, <3>8, FlattenPair
    <3>10. SplitForStreaming(text) = <<h>> \o (<<both>> \o more)
      BY <2>12, <3>1, <3>2, <3>4
    <3> QED  BY <2>10, <3>5, <3>7, <3>8, <3>9, <3>10
  <2> QED  BY <1>3, <1>5, <2>2, <2>5, <2>8, <2>11, <2>12
<1> QED  BY <1>4, <1>5

----------------------------------------------------------------------------
(* The windows.                                                            *)

\* Division rounds down.
LEMMA DivisionBounds ==
  ASSUME NEW a \in Int, NEW d \in Nat \ {0}
  PROVE  /\ a \div d \in Int
         /\ (a \div d) * d <= a /\ a < ((a \div d) + 1) * d
  OBVIOUS
LEMMA ProductKeepsOrder ==
  ASSUME NEW a \in Int, NEW b \in Int, NEW d \in Nat \ {0}
  PROVE  /\ a <= b => a * d <= b * d
         /\ a * d < b * d => a < b
  OBVIOUS
LEMMA NextProduct ==
  ASSUME NEW a \in Int, NEW d \in Int
  PROVE  (a + 1) * d = a * d + d /\ a * d \in Int
  OBVIOUS

\* Numbers one after another.
Run(first, last) == [k \in 1..(last - first + 1) |-> first + k - 1]
LEMMA RunIs ==
  ASSUME NEW first \in Int, NEW last \in Int
  PROVE  Run(first, last) \in Seq(Int) /\ Range(Run(first, last)) = first..last
<1>1. Run(first, last) \in Seq(Int)
  <2>1. CASE last - first + 1 \in Nat
    <3>1. \A k \in 1..(last - first + 1) : first + k - 1 \in Int
      OBVIOUS
    <3> QED  BY <2>1, <3>1 DEF Run
  <2>2. CASE last - first + 1 \notin Nat
    <3>1. 1..(last - first + 1) = {} /\ 1..0 = {}
      BY <2>2
    <3>2. Run(first, last) = <<>>
      BY <3>1 DEF Run
    <3> QED  BY <3>2
  <2> QED  BY <2>1, <2>2
<1>2. Range(Run(first, last)) = {first + k - 1 : k \in 1..(last - first + 1)}
  BY DEF Range, Run
<1>3. ASSUME NEW x \in first..last PROVE \E k \in 1..(last - first + 1) : x = first + k - 1
  <2>1. x - first + 1 \in 1..(last - first + 1) /\ x = first + (x - first + 1) - 1
    OBVIOUS
  <2> QED  BY <2>1
<1>4. \A k \in 1..(last - first + 1) : first + k - 1 \in first..last
  OBVIOUS
<1> QED  BY <1>1, <1>2, <1>3, <1>4

\* Where a window starts, where it is heard from, and where it ends.
Starts(total, n, i) == IF i > n THEN total - Window ELSE (i - 1) * (Window - Overlap)
Heard(total, n, i) == Starts(total, n, i) + (IF i = 1 THEN 1 ELSE Overlap + 1)
Windows(total) == (total - Window + (Window - Overlap) - 1) \div (Window - Overlap)

\* The windows of more samples than one holds: as many as are needed.
LEMMA WindowsReach ==
  ASSUME NEW total \in Int, total > Window
  PROVE  LET n == Windows(total)
             step == Window - Overlap
         IN /\ n \in Nat \ {0} /\ step \in Nat \ {0}
            /\ n * step >= total - Window /\ (n - 1) * step < total - Window
<1> DEFINE step == Window - Overlap
           a == total - Window + step - 1
           n == a \div step
<1>1. /\ step \in Nat \ {0} /\ a \in Int /\ a >= step /\ total - Window \in Int
      /\ Window \in Nat /\ a = total - Window + step - 1
  BY SpeechAssumption
<1>2. n = Windows(total)
  BY DEF Windows
<1>3. n \in Int /\ n * step <= a /\ a < (n + 1) * step
  <2> HIDE DEF a, step
  <2> QED  BY <1>1, DivisionBounds
<1> HIDE DEF n, a, step
<1>4. (n + 1) * step = n * step + step /\ n * step \in Int
      /\ ((n - 1) + 1) * step = (n - 1) * step + step /\ (n - 1) * step \in Int
      /\ (n - 1) + 1 = n
  BY <1>1, <1>3, NextProduct
<1>5. n * step >= total - Window /\ (n - 1) * step < total - Window
  BY <1>1, <1>3, <1>4
<1>6. n \in Nat \ {0}
  <2>1. 0 * step < n * step
    BY <1>1, <1>4, <1>5
  <2>2. 0 < n
    BY <1>1, <1>3, <2>1, ProductKeepsOrder
  <2> QED  BY <1>3, <2>2
<1> QED  BY <1>1, <1>2, <1>5, <1>6 DEF step

\* Every sample is in what is heard of a window, and nothing else is.
LEMMA WindowsCover ==
  ASSUME NEW total \in Int, total > Window
  PROVE  LET n == Windows(total)
         IN UNION {Heard(total, n, i)..(Starts(total, n, i) + Window) : i \in 1..(n + 1)} = 1..total
<1> DEFINE s == Window - Overlap
<1>1. PICK n \in Nat \ {0}, step \in Nat \ {0} :
        /\ n = Windows(total) /\ step = s
        /\ n * step >= total - Window /\ (n - 1) * step < total - Window
  BY WindowsReach
<1>2. /\ Window \in Nat /\ Overlap \in Nat /\ Window = step + Overlap
  BY <1>1, SpeechAssumption
<1>3. (n - 1) * step \in Int /\ n * step = (n - 1) * step + step /\ n * step \in Int
  <2>1. n = (n - 1) + 1 /\ n - 1 \in Int
    BY <1>1
  <2> QED  BY <1>1, <2>1, NextProduct
<1> HIDE DEF s
<1>4. ASSUME NEW i \in 1..(n + 1)
      PROVE  /\ Starts(total, n, i) \in Int /\ Starts(total, n, i) >= 0
             /\ Starts(total, n, i) + Window <= total
             /\ Heard(total, n, i) \in Int /\ Heard(total, n, i) >= 1
  <2>1. CASE i = n + 1
    <3>1. Starts(total, n, i) = total - Window
      BY <1>1, <2>1 DEF Starts
    <3> QED  BY <1>1, <1>2, <3>1 DEF Heard
  <2>2. CASE i \in 1..n
    <3>1. i - 1 \in Int /\ n - 1 \in Int /\ i - 1 <= n - 1 /\ 0 <= i - 1 /\ 0 \in Int
      BY <1>1, <2>2
    <3>2. (i - 1) * step <= (n - 1) * step /\ 0 * step <= (i - 1) * step
      BY <1>1, <3>1, ProductKeepsOrder
    <3>3. (i - 1) * step \in Int /\ 0 * step = 0
      BY <1>1, <3>1, NextProduct
    <3>4. Starts(total, n, i) = (i - 1) * step
      BY <1>1, <2>2 DEF Starts, s
    <3> QED  BY <1>1, <1>2, <1>3, <3>2, <3>3, <3>4 DEF Heard
  <2> QED  BY <1>1, <2>1, <2>2
<1>5. ASSUME NEW x \in 1..total
      PROVE  \E i \in 1..(n + 1) : x \in Heard(total, n, i)..(Starts(total, n, i) + Window)
  <2>1. CASE x <= Window
    <3>1. 1 \in 1..(n + 1) /\ Starts(total, n, 1) = (1 - 1) * step
      BY <1>1 DEF Starts, s
    <3>2. (1 - 1) * step = 0
      BY <1>1
    <3>3. x \in Heard(total, n, 1)..(Starts(total, n, 1) + Window)
      BY <1>2, <2>1, <3>1, <3>2 DEF Heard
    <3> QED  BY <3>1, <3>3
  <2>2. CASE x > (n - 1) * step + Window
    <3>1. n + 1 \in 1..(n + 1) /\ Starts(total, n, n + 1) = total - Window /\ n + 1 # 1
      BY <1>1 DEF Starts
    <3>2. Heard(total, n, n + 1) = total - Window + (Overlap + 1)
      BY <3>1 DEF Heard
    <3>3. x \in Heard(total, n, n + 1)..(Starts(total, n, n + 1) + Window)
      BY <1>1, <1>2, <1>3, <2>2, <3>1, <3>2
    <3> QED  BY <3>1, <3>3
  <2>3. CASE x > Window /\ x <= (n - 1) * step + Window
    <3> DEFINE quotient == (x - Window - 1) \div step
    <3>1. PICK q \in Int : q = quotient /\ q * step <= x - Window - 1
                           /\ x - Window - 1 < (q + 1) * step
      <4>1. x - Window - 1 \in Int
        BY <1>2
      <4> QED  BY <1>1, <4>1, DivisionBounds
    <3>2. (q + 1) * step = q * step + step /\ q * step \in Int /\ (q + 1) * step \in Int
      BY <1>1, NextProduct
    <3> HIDE DEF quotient
    <3>3. q + 1 > 0
      <4>1. 0 * step < (q + 1) * step
        BY <1>1, <1>2, <2>3, <3>1, <3>2
      <4> QED  BY <1>1, <4>1, ProductKeepsOrder
    <3>4. q < n - 1
      <4>1. q * step < (n - 1) * step
        BY <1>1, <1>2, <1>3, <2>3, <3>1, <3>2
      <4>2. n - 1 \in Int
        BY <1>1
      <4> QED  BY <1>1, <4>1, <4>2, ProductKeepsOrder
    <3>5. q + 2 \in 1..(n + 1) /\ q + 2 \in 1..n /\ q + 2 # 1 /\ (q + 2) - 1 = q + 1
      BY <1>1, <3>3, <3>4
    <3>6. Starts(total, n, q + 2) = (q + 1) * step
      BY <1>1, <3>5 DEF Starts, s
    <3>7. Heard(total, n, q + 2) = (q + 1) * step + (Overlap + 1)
      BY <3>5, <3>6 DEF Heard
    <3>8. x \in Heard(total, n, q + 2)..(Starts(total, n, q + 2) + Window)
      BY <1>1, <1>2, <2>3, <3>1, <3>2, <3>6, <3>7
    <3> QED  BY <3>5, <3>8
  <2> QED  BY <1>1, <1>2, <1>3, <2>1, <2>2, <2>3
<1>6. \A i \in 1..(n + 1) :
        \A x \in Heard(total, n, i)..(Starts(total, n, i) + Window) : x \in 1..total
  BY <1>2, <1>4
<1> QED  BY <1>1, <1>5, <1>6

\* The pieces in their order: of each what is heard of its window.
Stretched(bounds) ==
  LET Piece(i) == LET first == bounds[i][1] + (IF i = 1 THEN 1 ELSE Overlap + 1)
                  IN [k \in 1..(bounds[i][2] - first + 1) |-> first + k - 1]
  IN FlattenSeq([i \in 1..Len(bounds) |-> Piece(i)])

Spanned(bounds, m) ==
  UNION {(bounds[i][1] + (IF i = 1 THEN 1 ELSE Overlap + 1))..bounds[i][2] : i \in 1..m}

LEMMA PiecesCover ==
  ASSUME NEW m \in Nat, NEW bounds \in [1..m -> Int \X Int], Len(bounds) = m
  PROVE  Range(Stretched(bounds)) = Spanned(bounds, m)
<1> DEFINE From(i) == bounds[i][1] + (IF i = 1 THEN 1 ELSE Overlap + 1)
           pieces == [i \in 1..m |-> Run(From(i), bounds[i][2])]
<1>1. ASSUME NEW i \in 1..m
      PROVE  /\ Run(From(i), bounds[i][2]) \in Seq(Int)
             /\ Range(Run(From(i), bounds[i][2])) = From(i)..bounds[i][2]
  <2>1. From(i) \in Int /\ bounds[i][2] \in Int
    BY SpeechAssumption
  <2> QED  BY <2>1, RunIs
<1>2. PICK ss \in Seq(Seq(Int)) : ss = pieces /\ Len(ss) = m
                                  /\ \A i \in 1..m : Range(ss[i]) = From(i)..bounds[i][2]
  <2> HIDE DEF From
  <2>1. pieces \in Seq(Seq(Int)) /\ Len(pieces) = m
    BY <1>1
  <2>2. \A i \in 1..m : pieces[i] = Run(From(i), bounds[i][2])
    OBVIOUS
  <2> QED  BY <1>1, <2>1, <2>2
<1>3. Range(FlattenSeq(ss)) = UNION {Range(ss[i]) : i \in 1..m}
  <2>1. Range(FlattenSeq(ss)) = UNION {Range(ss[i]) : i \in 1..Len(ss)}
    BY FlattenRange
  <2> QED  BY <1>2, <2>1
<1>4. UNION {Range(ss[i]) : i \in 1..m} = UNION {From(i)..bounds[i][2] : i \in 1..m}
  <2> HIDE DEF From
  <2>1. {Range(ss[i]) : i \in 1..m} = {From(i)..bounds[i][2] : i \in 1..m}
    BY <1>2
  <2> QED  BY <2>1
<1>5. pieces = [i \in 1..m |-> [k \in 1..(bounds[i][2] - From(i) + 1) |-> From(i) + k - 1]]
  BY DEF Run
<1>6. Stretched(bounds) = FlattenSeq(pieces)
  BY <1>5 DEF Stretched
<1>7. Spanned(bounds, m) = UNION {From(i)..bounds[i][2] : i \in 1..m}
  BY DEF Spanned
<1> HIDE DEF From, pieces
<1> QED  BY <1>2, <1>3, <1>4, <1>6, <1>7

\* At any speed every sample of a chunk is heard, and none beside them.
LEMMA EverySampleIsHeard ==
  ASSUME NEW total \in Int
  PROVE  Range(TimeStretch(total)) = 1..total
<1>1. PICK bounds : bounds = StretchBounds(total) /\ TimeStretch(total) = Stretched(bounds)
  BY DEF TimeStretch, Stretched
<1>2. CASE total <= Window
  <2>1. bounds = <<<<0, total>>>> /\ Len(bounds) = 1 /\ bounds \in [1..1 -> Int \X Int]
    BY <1>1, <1>2 DEF StretchBounds
  <2>2. Spanned(bounds, 1) = 1..total
    <3>1. 1..1 = {1} /\ bounds[1] = <<0, total>>
      BY <2>1
    <3>2. bounds[1][1] + (IF 1 = 1 THEN 1 ELSE Overlap + 1) = 1 /\ bounds[1][2] = total
      BY <3>1
    <3> QED  BY <3>1, <3>2 DEF Spanned
  <2> QED  BY <1>1, <2>1, <2>2, PiecesCover
<1>3. CASE ~(total <= Window)
  <2>1. total > Window
    BY <1>3, SpeechAssumption
  <2>2. PICK n \in Nat : n = Windows(total)
    BY <2>1, WindowsReach
  <2>3. bounds = [i \in 1..(n + 1) |-> <<Starts(total, n, i), Starts(total, n, i) + Window>>]
    BY <1>1, <1>3, <2>2 DEF StretchBounds, Starts, Windows
  <2>4. \A i \in 1..(n + 1) : Starts(total, n, i) \in Int /\ Starts(total, n, i) + Window \in Int
    BY SpeechAssumption DEF Starts
  <2>5. bounds \in [1..(n + 1) -> Int \X Int] /\ Len(bounds) = n + 1
    BY <2>3, <2>4
  <2>6. \A i \in 1..(n + 1) : /\ bounds[i][1] = Starts(total, n, i)
                              /\ bounds[i][2] = Starts(total, n, i) + Window
    BY <2>3
  <2>7. Spanned(bounds, n + 1) = 1..total
    <3>1. \A i \in 1..(n + 1) :
            bounds[i][1] + (IF i = 1 THEN 1 ELSE Overlap + 1) = Heard(total, n, i)
      BY <2>6 DEF Heard
    <3>2. Spanned(bounds, n + 1) =
            UNION {Heard(total, n, i)..(Starts(total, n, i) + Window) : i \in 1..(n + 1)}
      BY <2>6, <3>1 DEF Spanned
    <3>3. LET k == Windows(total)
          IN UNION {Heard(total, k, i)..(Starts(total, k, i) + Window) : i \in 1..(k + 1)} = 1..total
      BY <2>1, WindowsCover
    <3> QED  BY <2>2, <3>2, <3>3
  <2>8. n + 1 \in Nat
    OBVIOUS
  <2>9. Range(Stretched(bounds)) = Spanned(bounds, n + 1)
    BY <2>5, <2>8, PiecesCover
  <2> QED  BY <1>1, <2>7, <2>9
<1> QED  BY <1>2, <1>3

----------------------------------------------------------------------------
(* What was sent is what comes first of the chunks, which are the text.    *)

Idle == {"new", "refused"}
Over == {"done", "failed", "stopped"}
Split(r) ==
  LET this == request[r]
  IN at[r] \notin Idle => this.chunks \in Seq(Chunk) /\ FlattenSeq(this.chunks) = this.text
Order(r) ==
  LET this == request[r]
  IN /\ at[r] \in Idle => this.text = <<>> /\ this.chunks = <<>>
     /\ Len(this.sent) <= Len(this.chunks)
     /\ at[r] \notin Idle \cup Over => Len(this.sent) < Len(this.chunks)
     /\ at[r] = "done" => Len(this.sent) = Len(this.chunks)
     /\ \A i \in 1..Len(this.sent) : /\ this.sent[i].chunk = this.chunks[i]
                                     /\ this.sent[i].samples = TimeStretch(Length(this.chunks[i]))
Orders == \A r \in Request : Split(r) /\ Order(r)

LEMMA OrderIsSpoken == ASSUME SInv, Orders PROVE SpokenInOrder
<1> SUFFICES ASSUME NEW r \in Request
             PROVE  LET sent == request[r].sent
                        said == FlattenSeq([i \in 1..Len(sent) |-> sent[i].chunk])
                    IN /\ IsPrefix(said, request[r].text)
                       /\ At(r, "done") => said = request[r].text
                       /\ \A i \in 1..Len(sent) :
                            /\ sent[i].chunk # <<>>
                            /\ Range(sent[i].samples) = 1..Length(sent[i].chunk)
  BY DEF SpokenInOrder
<1>0. PICK S : request[r].sent \in Seq(S)
  BY DEF SInv, RequestShape, Fields
<1>1. PICK sent \in Seq(S) : sent = request[r].sent
  BY <1>0
<1>2. PICK chunks, text : chunks = request[r].chunks /\ text = request[r].text
  OBVIOUS
<1> DEFINE parts == [i \in 1..Len(sent) |-> sent[i].chunk]
<1>3. CASE at[r] \in Idle
  <2>1. text = <<>> /\ Len(sent) = 0 /\ at[r] # "done"
    BY <1>1, <1>2, <1>3 DEF Orders, Order, Idle
  <2>2. parts = <<>> /\ FlattenSeq(<<>>) = <<>> /\ IsPrefix(<<>>, <<>>)
    BY <2>1 DEF FlattenSeq, IsPrefix
  <2> QED  BY <1>1, <1>2, <2>1, <2>2 DEF At
<1>4. CASE at[r] \notin Idle
  <2>1. /\ chunks \in Seq(Chunk) /\ FlattenSeq(chunks) = text /\ Len(sent) <= Len(chunks)
        /\ at[r] = "done" => Len(sent) = Len(chunks)
        /\ \A i \in 1..Len(sent) : /\ sent[i].chunk = chunks[i]
                                   /\ sent[i].samples = TimeStretch(Length(chunks[i]))
    BY <1>1, <1>2, <1>4 DEF Orders, Order, Split
  <2>2. PICK k \in Nat : k = Len(sent) /\ k \in 0..Len(chunks)
    BY <1>1, <2>1
  <2>3. chunks \in Seq(Seq(Clause))
    BY <2>1, SeqMonotonic DEF Chunk
  <2>4. parts = SubSeq(chunks, 1, k)
    <3>1. SubSeq(chunks, 1, k) = [i \in 1..k |-> chunks[i]]
      BY <2>1, <2>2
    <3> QED  BY <2>1, <2>2, <3>1
  <2> HIDE DEF parts
  <2>5. IsPrefix(FlattenSeq(parts), text)
    BY <2>1, <2>2, <2>3, <2>4, FlattenPrefix
  <2>6. At(r, "done") => FlattenSeq(parts) = text
    <3>1. SubSeq(chunks, 1, Len(chunks)) = chunks
      BY <2>1
    <3> QED  BY <2>1, <2>2, <2>4, <3>1 DEF At
  <2>7. ASSUME NEW i \in 1..Len(sent)
        PROVE  sent[i].chunk # <<>> /\ Range(sent[i].samples) = 1..Length(sent[i].chunk)
    <3>1. i \in 1..Len(chunks)
      BY <1>1, <2>1
    <3>2. PICK chunk \in Chunk : chunk = chunks[i] /\ chunk \in Seq(Clause) /\ chunk # <<>>
      BY <2>1, <3>1 DEF Chunk
    <3>3. Length(chunk) \in Int
      BY <3>2, LengthType
    <3>4. Range(TimeStretch(Length(chunk))) = 1..Length(chunk)
      BY <3>3, EverySampleIsHeard
    <3> QED  BY <2>1, <3>2, <3>4
  <2> QED  BY <1>1, <1>2, <2>5, <2>6, <2>7 DEF parts
<1> QED  BY <1>3, <1>4

\* A step that changes neither what a request says nor what was sent of it, and
\* does not end its stream well.
Quiet(r) ==
  /\ request'[r].text = request[r].text /\ request'[r].chunks = request[r].chunks
  /\ request'[r].sent = request[r].sent
  /\ \/ at'[r] = at[r]
     \/ at[r] \notin Idle \cup Over /\ at'[r] \notin Idle \cup {"done"}

LEMMA QuietKeeps ==
  ASSUME NEW r \in Request, Split(r), Order(r), Quiet(r)
  PROVE  Split(r)' /\ Order(r)'
<1>1. at'[r] \in Idle => at[r] \in Idle
  BY DEF Quiet, Idle, Over
<1>2. at'[r] \notin Idle => at[r] \notin Idle
  BY DEF Quiet, Idle, Over
<1>3. at'[r] \notin Idle \cup Over => at[r] \notin Idle \cup Over
  BY DEF Quiet, Idle, Over
<1>4. at'[r] = "done" => at[r] = "done"
  BY DEF Quiet, Idle, Over
<1>5. Split(r)'
  BY <1>2 DEF Split, Quiet
<1> QED  BY <1>1, <1>3, <1>4, <1>5 DEF Order, Quiet

LEMMA HoldsIsQuiet ==
  ASSUME RequestShape, NEW r \in Request, NEW h, Holds(r, h)
  PROVE  \A q \in Request : /\ request'[q].text = request[q].text
                            /\ request'[q].chunks = request[q].chunks
                            /\ request'[q].sent = request[q].sent
<1>1. PICK X, S : request \in [Request -> Fields(X, S)]
  BY DEF RequestShape
<1>2. request[r] \in Fields(X, S)
  BY <1>1
<1> DEFINE new == [request[r] EXCEPT !.held = h]
<1>3. /\ new.text = request[r].text /\ new.chunks = request[r].chunks
      /\ new.sent = request[r].sent
  BY <1>2 DEF Fields
<1>4. request' = [request EXCEPT ![r] = new]
  BY DEF Holds
<1> HIDE DEF new
<1> QED  BY <1>1, <1>3, <1>4

LEMMA QuietSteps ==
  ASSUME SInv,
         \/ \E r \in Request : PiperCall(r) \/ QwenCall(r) \/ Kokoro(r) \/ Disconnect(r)
         \/ \E voice \in CloneVoice : EditClones(voice)
         \/ UNCHANGED vars,
         NEW q \in Request
  PROVE  Quiet(q)
<1>1. CASE UNCHANGED <<at, request>>
  BY <1>1 DEF Quiet
<1>2. ASSUME NEW r \in Request, PiperCall(r) \/ QwenCall(r) \/ Kokoro(r) PROVE Quiet(q)
  <2>1. PICK place : Goes(r, place) /\ place \notin Idle \cup {"done"} /\ at[r] \notin Idle \cup Over
    BY <1>2 DEF PiperCall, GetVoice, TouchVoice, LoadVoice, InsertVoice, FullEnough, EvictVoice,
                QwenCall, Reference, Check, Reuse, Unload, Forget, Fetch, Keep, Label,
                Kokoro, Fails, At, Idle, Over
  <2>2. UNCHANGED request \/ \E h : Holds(r, h)
    BY <1>2 DEF PiperCall, GetVoice, TouchVoice, LoadVoice, InsertVoice, FullEnough, EvictVoice,
                QwenCall, Reference, Check, Reuse, Unload, Forget, Fetch, Keep, Label, Kokoro
  <2>3. /\ request'[q].text = request[q].text /\ request'[q].chunks = request[q].chunks
        /\ request'[q].sent = request[q].sent
    BY <2>2, HoldsIsQuiet DEF SInv
  <2>4. at'[q] = IF q = r THEN place ELSE at[q]
    BY <2>1 DEF SInv, Goes
  <2> QED  BY <2>1, <2>3, <2>4 DEF Quiet
<1>3. ASSUME NEW r \in Request, Disconnect(r) PROVE Quiet(q)
  <2>1. PICK X, S : request \in [Request -> Fields(X, S)]
    BY DEF SInv, RequestShape
  <2>2. request[r] \in Fields(X, S)
    BY <2>1
  <2> DEFINE new == [request[r] EXCEPT !.gone = TRUE]
  <2>3. /\ new.text = request[r].text /\ new.chunks = request[r].chunks
        /\ new.sent = request[r].sent
    BY <2>2 DEF Fields
  <2>4. request' = [request EXCEPT ![r] = new] /\ UNCHANGED at
    BY <1>3 DEF Disconnect
  <2> HIDE DEF new
  <2> QED  BY <2>1, <2>3, <2>4 DEF Quiet
<1> QED  BY <1>1, <1>2, <1>3 DEF EditClones, vars

LEMMA OthersQuiet ==
  ASSUME SInv, NEW r \in Request, NEW place, Goes(r, place),
         \A q \in Request \ {r} : request'[q] = request[q]
  PROVE  \A q \in Request \ {r} : Quiet(q)
  BY DEF Quiet, SInv, Goes

\* A request that is accepted says its text, and has something to say.
LEMMA AskOrders == ASSUME SInv, Orders, NEW r \in Request, Ask(r) PROVE Orders'
<1>1. PICK voice, text, streamed, chunks :
        /\ text \in Text /\ streamed \in BOOLEAN
        /\ chunks = IF streamed THEN SplitForStreaming(text) ELSE <<text>>
        /\ streamed \/ text # <<>>
        /\ \/ Goes(r, "refused") /\ UNCHANGED request
           \/ /\ Resolve(voice) # None /\ chunks # <<>> /\ Goes(r, Resolve(voice))
              /\ \E z : Asks(r, voice, z, text, chunks)
  BY DEF Ask
<1>2. at[r] = "new" /\ at'[r] # "new"
  <2>1. \A place : Goes(r, place) => at'[r] = place
    BY DEF SInv, Goes
  <2> QED  BY <1>1, <2>1 DEF Ask, At, Resolve
<1>3. /\ request[r].text = <<>> /\ request[r].chunks = <<>> /\ request[r].sent = <<>>
      /\ RequestShape
  BY <1>2 DEF Orders, Order, Idle, SInv, Placed
<1>4. CASE Goes(r, "refused") /\ UNCHANGED request
  <2>1. at'[r] = "refused"
    BY <1>4 DEF SInv, Goes
  <2>2. Split(r)' /\ Order(r)'
    <3>1. Len(<<>>) = 0
      OBVIOUS
    <3> QED  BY <1>3, <1>4, <2>1, <3>1 DEF Split, Order, Idle, Over
  <2>3. \A q \in Request \ {r} : Quiet(q)
    BY <1>4, OthersQuiet
  <2> QED  BY <2>2, <2>3, QuietKeeps DEF Orders
<1>5. ASSUME Resolve(voice) # None, chunks # <<>>, Goes(r, Resolve(voice)),
             NEW z, Asks(r, voice, z, text, chunks)
      PROVE  Orders'
  <2>1. at'[r] \in {"kokoro", "piper", "qwen"}
    <3>1. Resolve(voice) \in {"kokoro", "piper", "qwen"}
      BY <1>5 DEF Resolve
    <3> QED  BY <1>5, <3>1 DEF SInv, Goes
  <2>2. /\ request'[r].sent = <<>> /\ request'[r].text = text /\ request'[r].chunks = chunks
        /\ \A q \in Request \ {r} : request'[q] = request[q]
    <3>1. PICK X, S : request \in [Request -> Fields(X, S)]
      BY <1>3 DEF RequestShape
    <3>2. request[r] \in Fields(X, S)
      BY <3>1
    <3> DEFINE new == [request[r] EXCEPT !.voice = voice, !.size = z, !.text = text,
                                         !.chunks = chunks]
    <3>3. new.text = text /\ new.chunks = chunks /\ new.sent = request[r].sent
      BY <3>2 DEF Fields
    <3>4. request' = [request EXCEPT ![r] = new]
      BY <1>5 DEF Asks
    <3> HIDE DEF new
    <3> QED  BY <1>3, <3>1, <3>3, <3>4
  <2>3. chunks \in Seq(Chunk) /\ FlattenSeq(chunks) = text
    <3>1. text \in Seq(Clause)
      BY <1>1, SpeechAssumption
    <3>2. CASE streamed
      BY <1>1, <3>1, <3>2, SplitIsWhole
    <3>3. CASE ~streamed
      <4>1. text \in Chunk
        BY <1>1, <3>1, <3>3 DEF Chunk
      <4>2. <<text>> \in Seq(Chunk)
        BY <4>1
      <4>3. chunks = <<text>>
        BY <1>1, <3>3
      <4> QED  BY <3>1, <4>2, <4>3, FlattenOne
    <3> QED  BY <3>2, <3>3
  <2>4. Split(r)'
    BY <2>2, <2>3 DEF Split
  <2>5. Order(r)'
    <3>1. Len(<<>>) = 0 /\ Len(chunks) \in Nat /\ Len(chunks) > 0
      BY <1>5, <2>3, EmptySeq
    <3> QED  BY <2>1, <2>2, <3>1 DEF Order, Idle, Over
  <2>6. \A q \in Request \ {r} : Quiet(q)
    BY <1>5, <2>2, OthersQuiet
  <2> QED  BY <2>4, <2>5, <2>6, QuietKeeps DEF Orders
<1> QED  BY <1>1, <1>4, <1>5

\* The next chunk is sent, and after the last there is none.
LEMMA SpeakOrders == ASSUME SInv, Orders, NEW r \in Request, Speak(r) PROVE Orders'
<1>1. at[r] = "speak" /\ RequestShape /\ engine[r] \in {"kokoro", "piper", "qwen"}
  BY DEF Speak, At, SInv, Placed, Engine
<1>0. PICK S : request[r].sent \in Seq(S)
  BY DEF SInv, RequestShape, Fields
<1>2. PICK sent \in Seq(S) : sent = request[r].sent
  BY <1>0
<1>3. PICK chunks \in Seq(Chunk) : /\ chunks = request[r].chunks
                                   /\ FlattenSeq(chunks) = request[r].text
                                   /\ Len(sent) < Len(chunks)
  BY <1>1, <1>2 DEF Orders, Split, Order, Idle, Over
<1>4. PICK n \in Nat, m \in Nat : n = Len(sent) /\ m = Len(chunks) /\ n < m
  BY <1>2, <1>3
<1>5. \A place : Goes(r, place) => at'[r] = place
  BY DEF SInv, Goes
<1>6. ASSUME NEW place \in {"stopped", "failed"}, Goes(r, place), Holds(r, None) PROVE Orders'
  <2>1. \A q \in Request : /\ request'[q].text = request[q].text
                           /\ request'[q].chunks = request[q].chunks
                           /\ request'[q].sent = request[q].sent
    BY <1>1, <1>6, HoldsIsQuiet
  <2>2. \A q \in Request : at'[q] = IF q = r THEN place ELSE at[q]
    BY <1>6 DEF SInv, Goes
  <2>3. \A q \in Request : Quiet(q)
    BY <1>1, <2>1, <2>2 DEF Quiet, Idle, Over
  <2> QED  BY <2>3, QuietKeeps DEF Orders
<1>7. ASSUME NEW spoken, Sends(r, spoken), spoken.chunk = chunks[n + 1],
             spoken.samples = TimeStretch(Length(chunks[n + 1])),
             Goes(r, IF n + 1 = m THEN "done" ELSE engine[r])
      PROVE  Orders'
  <2> DEFINE all == Append(sent, spoken)
  <2>1. /\ request'[r].sent = all /\ request'[r].text = request[r].text
        /\ request'[r].chunks = chunks
        /\ \A q \in Request \ {r} : request'[q] = request[q]
    <3>1. PICK X, Z : request \in [Request -> Fields(X, Z)]
      BY <1>1 DEF RequestShape
    <3>2. request[r] \in Fields(X, Z)
      BY <3>1
    <3> DEFINE new == [request[r] EXCEPT !.sent = all, !.held = None]
    <3>3. new.text = request[r].text /\ new.chunks = chunks /\ new.sent = all
      BY <1>3, <3>2 DEF Fields
    <3>4. request' = [request EXCEPT ![r] = new]
      BY <1>2, <1>7 DEF Sends
    <3> HIDE DEF new, all
    <3> QED  BY <3>1, <3>3, <3>4
  <2>2. /\ Len(all) = n + 1 /\ all[n + 1] = spoken /\ \A i \in 1..n : all[i] = sent[i]
    BY <1>2, <1>4
  <2> HIDE DEF all
  <2>3. \A i \in 1..n : /\ sent[i].chunk = chunks[i]
                        /\ sent[i].samples = TimeStretch(Length(chunks[i]))
    BY <1>2, <1>3, <1>4 DEF Orders, Order
  <2>4. ASSUME NEW i \in 1..(n + 1)
        PROVE  all[i].chunk = chunks[i] /\ all[i].samples = TimeStretch(Length(chunks[i]))
    <3>1. CASE i = n + 1
      BY <1>7, <2>2, <3>1
    <3>2. CASE i \in 1..n
      BY <2>2, <2>3, <3>2
    <3> QED  BY <3>1, <3>2
  <2>5. at'[r] = IF n + 1 = m THEN "done" ELSE engine[r]
    BY <1>5, <1>7
  <2>6. Split(r)'
    BY <1>3, <2>1 DEF Split
  <2>7. Order(r)'
    <3>1. at'[r] \notin Idle
      BY <1>1, <2>5 DEF Idle
    <3>2. at'[r] = "done" => n + 1 = m
      BY <1>1, <2>5
    <3>3. at'[r] \notin Over => n + 1 < m
      BY <1>4, <2>5 DEF Over
    <3>4. n + 1 <= m
      BY <1>4
    <3> QED  BY <1>4, <2>1, <2>2, <2>4, <3>1, <3>2, <3>3, <3>4 DEF Order, Idle, Over
  <2>8. \A q \in Request \ {r} : Quiet(q)
    BY <1>7, <2>1, OthersQuiet
  <2> QED  BY <2>6, <2>7, <2>8, QuietKeeps DEF Orders
<1>8. \/ \E place \in {"stopped", "failed"} : Goes(r, place) /\ Holds(r, None)
      \/ \E spoken : /\ Sends(r, spoken) /\ spoken.chunk = chunks[n + 1]
                     /\ spoken.samples = TimeStretch(Length(chunks[n + 1]))
                     /\ Goes(r, IF n + 1 = m THEN "done" ELSE engine[r])
  <2> DEFINE this == request[r]
             chunk == this.chunks[Len(this.sent) + 1]
             spoken == [chunk |-> chunk, by |-> this.held, samples |-> TimeStretch(Length(chunk))]
  <2>1. \/ Goes(r, "stopped") /\ Holds(r, None)
        \/ /\ Goes(r, IF Len(this.sent) + 1 = Len(this.chunks) THEN "done" ELSE engine[r])
           /\ Sends(r, spoken)
        \/ Goes(r, "failed") /\ Holds(r, None)
    BY DEF Speak, Fails
  <2>2. chunk = chunks[n + 1] /\ Len(this.sent) = n /\ Len(this.chunks) = m
    BY <1>2, <1>3, <1>4
  <2>3. spoken.chunk = chunk /\ spoken.samples = TimeStretch(Length(chunk))
    OBVIOUS
  <2> HIDE DEF spoken, chunk, this
  <2> QED  BY <2>1, <2>2, <2>3
<1> QED  BY <1>6, <1>7, <1>8

LEMMA OrdersStart == Init => Orders
<1> SUFFICES ASSUME Init, NEW r \in Request PROVE Split(r) /\ Order(r)
  BY DEF Orders
<1>1. at[r] = "new" /\ request[r] = NoRequest
  BY DEF Init
<1>2. NoRequest.text = <<>> /\ NoRequest.chunks = <<>> /\ NoRequest.sent = <<>> /\ Len(<<>>) = 0
  BY DEF NoRequest
<1> QED  BY <1>1, <1>2 DEF Split, Order, Idle, Over

\* What a client hears is its text from the beginning, clause by clause, all of it
\* when the stream ended well, and every sample of each chunk, whatever other
\* requests do, for every text, every length to cut at and every window.
THEOREM TextIsSpokenInOrder == Spec => []SpokenInOrder
<1>1. SInv /\ [Next]_vars => SInv'
  BY AskKeepsSize, PiperKeepsSize, QwenKeepsSize, SpeakKeepsSize, OthersKeepSize DEF Next
<1>2. SInv /\ Orders /\ [Next]_vars => Orders'
  <2> SUFFICES ASSUME SInv, Orders, [Next]_vars PROVE Orders'
    OBVIOUS
  <2>1. ASSUME NEW r \in Request, Ask(r) \/ Speak(r) PROVE Orders'
    BY <2>1, AskOrders, SpeakOrders
  <2>2. ASSUME \/ \E r \in Request : PiperCall(r) \/ QwenCall(r) \/ Kokoro(r) \/ Disconnect(r)
               \/ \E voice \in CloneVoice : EditClones(voice)
               \/ UNCHANGED vars
        PROVE  Orders'
    <3>1. \A q \in Request : Quiet(q)
      BY <2>2, QuietSteps
    <3> QED  BY <3>1, QuietKeeps DEF Orders
  <2> QED  BY <2>1, <2>2 DEF Next
<1>3. SInv /\ Orders => SpokenInOrder
  BY OrderIsSpoken
<1> QED  BY SizeStart, OrdersStart, <1>1, <1>2, <1>3, PTL DEF Spec
====
