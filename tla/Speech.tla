---- MODULE Speech ----
(***************************************************************************)
(* A request to speak, in the TTS backend: the text is cut into chunks      *)
(* (text.py), the voice finds its engine (registry.py, voices.py), and one  *)
(* chunk after another is synthesized (routes/tts.py, engines/), stretched  *)
(* (stretch.py) and sent.  The calls of an engine run in worker threads     *)
(* without a lock, so those of two requests interleave at every access to   *)
(* what an engine keeps: Piper's voices in memory, and Qwen's checkpoint.   *)
(* A client that goes away stops its stream, but not the call under way.   *)
(***************************************************************************)
EXTENDS Integers, FiniteSets, SequencesExt

CONSTANTS
  Request,         \* requests, each made once
  KokoroVoice, PiperVoice,   \* ids the engines know
  CloneVoice,      \* ids the voices directory may hold; they may be the same
  Size,            \* Qwen's checkpoints
  Engines,         \* sets of engines an install may have
  Text,            \* texts that are sent
  MinChars, FirstChars, MinHead, \* lengths text.py cuts at
  Window, Overlap, \* samples stretched at a time, and shared by neighbours
  VoicesInMemory,
  None

Voice == KokoroVoice \cup PiperVoice \cup CloneVoice
\* A text is what is between its commas and full stops: a length, and whether a
\* sentence ends there.
Clause == [len : Nat \ {0}, stop : BOOLEAN]

ASSUME SpeechAssumption ==
  /\ \A text \in Text : text \in Seq(Clause)
  /\ VoicesInMemory \in Nat \ {0} /\ Overlap \in Nat /\ Window \in Nat /\ Overlap < Window
  /\ None \notin Voice \cup Size /\ IsFiniteSet(Request)

VARIABLES
  installed, \* the engines that are there
  clones,    \* the clones whose file is there
  voices,    \* PiperEngine._cache, the least recently used first
  model,     \* QwenEngine._model: a checkpoint that was loaded
  size,      \* QwenEngine._loaded_size
  at,        \* where each request is
  engine,    \* what speaks it
  request,   \* what it asks, and what was sent
  overlapped \* two calls have been inside QwenEngine._load at once

vars == <<installed, clones, voices, model, size, at, engine, request, overlapped>>

----------------------------------------------------------------------------
(* text.py                                                                 *)

Length(chunk) == FoldLeft(LAMBDA n, c : n + c.len + 1, -1, chunk)

\* Sentences, short ones together with the next.
SplitSentences(text) ==
  FoldLeft(LAMBDA chunks, c :
             IF chunks = <<>> THEN <<<<c>>>>
             ELSE IF Last(Last(chunks)).stop /\ Length(Last(chunks)) >= MinChars
             THEN Append(chunks, <<c>>)
             ELSE Append(Front(chunks), Append(Last(chunks), c)),
           <<>>, text)

\* The last comma that leaves a head neither too short nor too long; 0 for none.
ClauseCut(sentence) ==
  LET cuts == {i \in 1..(Len(sentence) - 1) :
                 ~sentence[i].stop /\ Length(SubSeq(sentence, 1, i)) \in MinHead..FirstChars}
  IN IF cuts = {} THEN 0 ELSE CHOOSE i \in cuts : \A j \in cuts : j <= i

\* Mutant: a short remainder is dropped with nothing to ride along with.
SplitForStreamingShort(text) ==
  LET chunks == SplitSentences(text)
      cut == IF chunks = <<>> THEN 0 ELSE ClauseCut(chunks[1])
      tail == SubSeq(chunks[1], cut + 1, Len(chunks[1]))
  IN IF cut = 0 THEN chunks
     ELSE <<SubSeq(chunks[1], 1, cut)>>
          \o (IF Length(tail) < MinChars
              THEN IF Len(chunks) = 1 THEN <<>>
                   ELSE <<tail \o chunks[2]>> \o SubSeq(chunks, 3, Len(chunks))
              ELSE <<tail>> \o Tail(chunks))

SplitForStreaming(text) ==
  LET chunks == SplitSentences(text)
      cut == IF chunks = <<>> THEN 0 ELSE ClauseCut(chunks[1])
      tail == SubSeq(chunks[1], cut + 1, Len(chunks[1]))
  IN IF cut = 0 THEN chunks
     ELSE <<SubSeq(chunks[1], 1, cut)>>
          \o (IF Len(chunks) > 1 /\ Length(tail) < MinChars
              THEN <<tail \o chunks[2]>> \o SubSeq(chunks, 3, Len(chunks))
              ELSE <<tail>> \o Tail(chunks))

----------------------------------------------------------------------------
(* stretch.py                                                              *)

\* The windows of `total` samples; the last ends where the samples end.
StretchBounds(total) ==
  IF total <= Window THEN <<<<0, total>>>>
  ELSE LET step == Window - Overlap
           n == (total - Window + step - 1) \div step
       IN [i \in 1..(n + 1) |-> LET start == IF i > n THEN total - Window ELSE (i - 1) * step
                                IN <<start, start + Window>>]

\* The samples one hears, at any speed: of each window after the first the
\* Overlap is blended into the one before, however much they really share.
TimeStretch(total) ==
  LET bounds == StretchBounds(total)
      Piece(i) == LET first == bounds[i][1] + (IF i = 1 THEN 1 ELSE Overlap + 1)
                  IN [k \in 1..(bounds[i][2] - first + 1) |-> first + k - 1]
  IN FlattenSeq([i \in 1..Len(bounds) |-> Piece(i)])

----------------------------------------------------------------------------
(* registry.py                                                             *)

\* The engine of a voice, or None: the answer is then 404 or 503.
Resolve(voice) ==
  IF voice \in clones THEN IF "qwen" \in installed THEN "qwen" ELSE None
  ELSE IF "kokoro" \in installed /\ voice \in KokoroVoice THEN "kokoro"
  ELSE IF "piper" \in installed /\ voice \in PiperVoice THEN "piper" ELSE None

NoRequest == [voice |-> None, size |-> None, text |-> <<>>, chunks |-> <<>>, sent |-> <<>>,
              held |-> None, gone |-> FALSE]

Init ==
  /\ installed \in Engines /\ clones \in SUBSET CloneVoice
  /\ voices = <<>> /\ model = None /\ size = None
  /\ at = [r \in Request |-> "new"] /\ engine = [r \in Request |-> None]
  /\ request = [r \in Request |-> NoRequest]
  /\ overlapped = FALSE

At(r, place) == at[r] = place
Goes(r, place) == at' = [at EXCEPT ![r] = place]
Fails(r) == Goes(r, "failed")
Holds(r, held) == request' = [request EXCEPT ![r].held = held]
Asks(r, voice, s, text, chunks) ==
  request' = [request EXCEPT ![r] = [@ EXCEPT !.voice = voice, !.size = s, !.text = text,
                                              !.chunks = chunks]]

\* text_to_speech, stream_tts_pcm: a stream is cut up, and must not be empty.
\* (What an engine makes of an empty text in one piece is its own matter.)
Ask(r) ==
  /\ At(r, "new")
  /\ \E voice \in Voice, s \in Size, text \in Text, streamed \in BOOLEAN :
       LET chunks == IF streamed THEN SplitForStreaming(text) ELSE <<text>>
           speaker == Resolve(voice)
       IN /\ streamed \/ text # <<>>
          /\ IF speaker = None \/ chunks = <<>>
             THEN Goes(r, "refused") /\ UNCHANGED <<engine, request>>
             ELSE /\ Goes(r, speaker)
                  /\ engine' = [engine EXCEPT ![r] = speaker]
                  /\ Asks(r, voice, IF speaker = "qwen" THEN s ELSE None, text, chunks)
  /\ UNCHANGED <<installed, clones, voices, model, size, overlapped>>

----------------------------------------------------------------------------
(* piper.py, PiperEngine._loaded.                                          *)

GetVoice(r) ==
  /\ At(r, "piper")
  /\ Goes(r, IF request[r].voice \in Range(voices) THEN "touch" ELSE "load")
  /\ UNCHANGED <<installed, clones, voices, model, size, engine, request, overlapped>>

MovedToEnd(voice) ==
  LET i == CHOOSE j \in 1..Len(voices) : voices[j] = voice
  IN [k \in 1..Len(voices) |-> IF k < i THEN voices[k]
                               ELSE IF k < Len(voices) THEN voices[k + 1] ELSE voice]

\* move_to_end, which raises a KeyError if the voice was evicted meanwhile.
TouchVoice(r) ==
  /\ At(r, "touch")
  /\ LET voice == request[r].voice
     IN IF voice \in Range(voices)
        THEN voices' = MovedToEnd(voice) /\ Goes(r, "speak")
        ELSE UNCHANGED voices /\ Fails(r)
  /\ UNCHANGED <<installed, clones, model, size, engine, request, overlapped>>

\* Without Piper's Python API the CLI speaks, from the model's file: no voice is kept.
LoadVoice(r) ==
  /\ At(r, "load")
  /\ Goes(r, "insert") \/ Goes(r, "speak") \/ Fails(r)
  /\ UNCHANGED <<installed, clones, voices, model, size, engine, request, overlapped>>

\* Two requests may have loaded the same voice: the second replaces the first.
InsertVoice(r) ==
  /\ At(r, "insert")
  /\ voices' = IF request[r].voice \in Range(voices) THEN voices
               ELSE Append(voices, request[r].voice)
  /\ Goes(r, "evict")
  /\ UNCHANGED <<installed, clones, model, size, engine, request, overlapped>>

\* Mutant: the new voice is not counted.
FullEnoughLate(r) ==
  /\ At(r, "evict")
  /\ Goes(r, IF Len(voices) - 1 > VoicesInMemory THEN "pop" ELSE "speak")
  /\ UNCHANGED <<installed, clones, voices, model, size, engine, request, overlapped>>

\* The length is read, and then the oldest is popped.
FullEnough(r) ==
  /\ At(r, "evict")
  /\ Goes(r, IF Len(voices) > VoicesInMemory THEN "pop" ELSE "speak")
  /\ UNCHANGED <<installed, clones, voices, model, size, engine, request, overlapped>>

EvictVoice(r) ==
  /\ At(r, "pop")
  /\ IF voices = <<>> THEN Fails(r) /\ UNCHANGED voices
     ELSE Goes(r, "evict") /\ voices' = Tail(voices)
  /\ UNCHANGED <<installed, clones, model, size, engine, request, overlapped>>

----------------------------------------------------------------------------
(* qwen.py, QwenEngine._load.                                              *)

Loading == {r \in Request : at[r] \in {"reuse", "unload", "forget", "fetch", "keep", "name"}}

\* Mutant: a checkpoint is a checkpoint.
CheckAny(r) ==
  /\ At(r, "check")
  /\ Goes(r, IF model # None THEN "reuse" ELSE "unload")
  /\ overlapped' = (overlapped \/ Loading # {})
  /\ UNCHANGED <<installed, clones, voices, model, size, engine, request>>

Reference(r) ==
  /\ At(r, "qwen")
  /\ IF request[r].voice \in clones THEN Goes(r, "check") ELSE Fails(r)
  /\ UNCHANGED <<installed, clones, voices, model, size, engine, request, overlapped>>

Check(r) ==
  /\ At(r, "check")
  /\ Goes(r, IF size = request[r].size /\ model # None THEN "reuse" ELSE "unload")
  /\ overlapped' = (overlapped \/ Loading # {})
  /\ UNCHANGED <<installed, clones, voices, model, size, engine, request>>

\* `return self._model`, whatever that is by now.
Reuse(r) ==
  /\ At(r, "reuse")
  /\ IF model = None THEN Fails(r) /\ UNCHANGED request ELSE Goes(r, "speak") /\ Holds(r, model)
  /\ UNCHANGED <<installed, clones, voices, model, size, engine, overlapped>>

Unload(r) ==
  /\ At(r, "unload")
  /\ IF model = None /\ size = None THEN Goes(r, "fetch") /\ UNCHANGED model
     ELSE Goes(r, "forget") /\ model' = None
  /\ UNCHANGED <<installed, clones, voices, size, engine, request, overlapped>>

Forget(r) ==
  /\ At(r, "forget") /\ Goes(r, "fetch")
  /\ size' = None
  /\ UNCHANGED <<installed, clones, voices, model, engine, request, overlapped>>

Fetch(r) ==
  /\ At(r, "fetch")
  /\ \/ Goes(r, "keep") /\ Holds(r, request[r].size)
     \/ Fails(r) /\ UNCHANGED request
  /\ UNCHANGED <<installed, clones, voices, model, size, engine, overlapped>>

Keep(r) ==
  /\ At(r, "keep") /\ Goes(r, "name")
  /\ model' = request[r].held
  /\ UNCHANGED <<installed, clones, voices, size, engine, request, overlapped>>

Label(r) ==
  /\ At(r, "name") /\ Goes(r, "speak")
  /\ size' = request[r].size
  /\ UNCHANGED <<installed, clones, voices, model, engine, request, overlapped>>

----------------------------------------------------------------------------
(* The stream.                                                             *)

\* kokoro.py loads its model once, when its voices are listed.
Kokoro(r) ==
  /\ At(r, "kokoro") /\ Goes(r, "speak")
  /\ UNCHANGED <<installed, clones, voices, model, size, engine, request, overlapped>>

Sends(r, spoken) ==
  request' = [request EXCEPT ![r].sent = Append(@, spoken), ![r].held = None]

\* The engine answers (Piper by its CLI when its voice makes no sound), the audio
\* is stretched and sent, and the next chunk's call begins; or the engine fails,
\* and the stream ends where it is.
Speak(r) ==
  /\ At(r, "speak")
  /\ LET this == request[r]
         chunk == this.chunks[Len(this.sent) + 1]
         spoken == [chunk |-> chunk, by |-> this.held,
                    samples |-> TimeStretch(Length(chunk))]
     IN \/ this.gone /\ Goes(r, "stopped") /\ Holds(r, None)
        \/ /\ ~this.gone
           /\ Goes(r, IF Len(this.sent) + 1 = Len(this.chunks) THEN "done" ELSE engine[r])
           /\ Sends(r, spoken)
        \/ Fails(r) /\ Holds(r, None)
  /\ UNCHANGED <<installed, clones, voices, model, size, engine, overlapped>>

Active(r) == at[r] \notin {"new", "refused", "done", "failed", "stopped"}

\* The client goes away.  The call in its worker thread runs on.
Disconnect(r) ==
  /\ Active(r) /\ ~request[r].gone
  /\ request' = [request EXCEPT ![r].gone = TRUE]
  /\ UNCHANGED <<installed, clones, voices, model, size, at, engine, overlapped>>

\* The voices directory is the registry: its files come and go.
EditClones(voice) ==
  /\ clones' = IF voice \in clones THEN clones \ {voice} ELSE clones \cup {voice}
  /\ UNCHANGED <<installed, voices, model, size, at, engine, request, overlapped>>

----------------------------------------------------------------------------
PiperCall(r) ==
  GetVoice(r) \/ TouchVoice(r) \/ LoadVoice(r) \/ InsertVoice(r) \/ FullEnough(r) \/ EvictVoice(r)
QwenCall(r) ==
  \/ Reference(r) \/ Check(r) \/ Reuse(r) \/ Unload(r) \/ Forget(r)
  \/ Fetch(r) \/ Keep(r) \/ Label(r)

Next ==
  \/ \E r \in Request : Ask(r) \/ PiperCall(r) \/ QwenCall(r) \/ Kokoro(r) \/ Speak(r) \/ Disconnect(r)
  \/ \E voice \in CloneVoice : EditClones(voice)

Spec == Init /\ [][Next]_vars

----------------------------------------------------------------------------
(* What must be true.                                                      *)

\* Piper holds no more voices than it may, plus those of the calls that have
\* just inserted one and are about to make room: whatever calls interleave.
VoicesBounded ==
  Len(voices) <= VoicesInMemory + Cardinality({r \in Request : at[r] \in {"evict", "pop"}})

\* What a client hears is its text from the beginning, clause by clause, and all
\* of it when the stream ended well; and of each chunk every sample, at any speed.
\* (Samples near the end of a long chunk may be heard twice.)
SpokenInOrder ==
  \A r \in Request :
    LET sent == request[r].sent
        said == FlattenSeq([i \in 1..Len(sent) |-> sent[i].chunk])
    IN /\ IsPrefix(said, request[r].text)
       /\ At(r, "done") => said = request[r].text
       /\ \A i \in 1..Len(sent) :
            /\ sent[i].chunk # <<>>
            /\ Range(sent[i].samples) = 1..Length(sent[i].chunk)

\* While no two calls have been inside _load together, each chunk of a clone is
\* spoken by the checkpoint its request asks for, whatever other requests did
\* between its chunks, and between loads the name on record is the checkpoint's.
SizeAsked ==
  ~overlapped =>
    /\ \A r \in Request : \A i \in 1..Len(request[r].sent) :
         request[r].sent[i].by = request[r].size
    /\ Loading = {} => size = model
====
