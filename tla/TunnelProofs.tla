---- MODULE TunnelProofs ----
(***************************************************************************)
(* Proofs about Tunnel, for every set of process ids: the old state file   *)
(* is retired, no ssh process outlives its record, a stack that was        *)
(* stopped is on record, and closing all tunnels closes all.               *)
(*                                                                         *)
(* Between commands each is about the records only.  While one runs, what  *)
(* it knows takes their place: the process it has started and not saved,   *)
(* the stack it has stopped and not put back, the tunnels it has listed    *)
(* and not closed.                                                         *)
(***************************************************************************)
EXTENDS Tunnel, TLAPS, SequenceTheorems

\* tunnel.Down has removed the file, or both: nothing is on record for the kind.
Closed == At({"up"}, "reach") \/ At({"up"}, "start") \/ At({"up"}, "save")
Unlinked == At({"up", "down", "downall"}, "retire")
ClosedIsUnrecorded ==
  /\ Closed => record[cmd.kind] = None /\ (cmd.kind = "ollama" => legacy = None)
  /\ Unlinked => cmd.kind = "ollama" /\ record["ollama"] = None

\* A live process is on record, or in the hands of the command about to save it.
\* One that has been told to go is not live: its record may be removed.
OnRecord(p) == \E kind \in Kind : IsUp(kind) /\ Get(kind).pid = p
InHand(p) == At({"up"}, "save") /\ cmd.todo = <<p>>
AliveIsKnown == mishaps = {} => \A p \in Pid : Alive(p) => OnRecord(p) \/ InHand(p)
HandIsFull == At({"up"}, "save") => \E p \in Pid : cmd.todo = <<p>>
Removing == At({"up", "down", "downall"}, "unlink") \/ Unlinked
RemovedIsSilent ==
  Removing => \A p \in Pid : Alive(p) => ~(IsUp(cmd.kind) /\ Get(cmd.kind).pid = p)

\* A stack that is owed is on record, or the running command will put it back;
\* a command that did not stop its stack itself has none to put back, and one
\* that closes a tunnel puts back what the record says, as long as it says it.
Recorded(kind) == IsUp(kind) /\ Get(kind).localStopped = TRUE
Opening ==
  \/ At({"up"}, "close") \/ At({"up"}, "unlink") \/ At({"up"}, "retire")
  \/ Closed \/ At({"up"}, "fail")
ClosingDown == At({"down", "downall"}, "unlink") \/ At({"down", "downall"}, "retire")
WillRestore(kind) ==
  /\ ~Idle /\ cmd.kind = kind
  /\ \/ (Opening \/ ClosingDown) /\ cmd.stopped = TRUE
     \/ At({"down", "downall"}, "restore")
OwedIsKnown ==
  "killed" \notin mishaps => \A kind \in Kind :
    owed[kind] = TRUE /\ kind \notin repointed => Recorded(kind) \/ WillRestore(kind)
OpeningOwesNothing ==
  At({"up"}, "stop") \/ (Opening /\ cmd.stopped # TRUE) =>
    (owed[cmd.kind] = TRUE => cmd.kind \in repointed)
ClosingKnows ==
  /\ At({"down", "downall"}, "unlink") => (cmd.stopped = TRUE <=> Recorded(cmd.kind))
  /\ At({"down", "downall"}, "retire") /\ legacy # None =>
       (cmd.stopped = TRUE <=> Recorded(cmd.kind))

\* `down` of all: a tunnel that is up is this one or one of those to come.
Todo == {cmd.todo[i] : i \in 1..Len(cmd.todo)}
Closing == At({"down", "downall"}, "close") \/ ClosingDown \/ At({"down", "downall"}, "restore")
DownIsListed ==
  Closing =>
    /\ cmd.todo \in Seq(Kind)
    /\ cmd.op = "down" => cmd.todo = <<>>
    /\ cmd.op = "downall" =>
         \A kind \in Kind :
           Get(kind) # None => kind \in Todo \/ (cmd.pc # "restore" /\ kind = cmd.kind)

Inv ==
  /\ TypeOK /\ OldFileRetired /\ ClosedIsUnrecorded /\ HandIsFull /\ AliveIsKnown
  /\ RemovedIsSilent /\ OwedIsKnown /\ OpeningOwesNothing /\ ClosingKnows /\ DownIsListed

----
LEMMA KindIs == Kind = {"ollama", "tts"} /\ Kinds[1] = "ollama" /\ Kinds[2] = "tts"
<1>1. Kinds = <<"ollama", "tts">> /\ Len(Kinds) = 2
  BY DEF Kinds
<1> QED  BY <1>1 DEF Kind

Processes == [Pid -> [port : Kind, phase : {"unused", "connecting", "forwarding", "closing", "gone"}]]
Place == {"stop", "close", "unlink", "retire", "reach", "start", "save", "fail", "restore"}

LEMMA RunningType ==
  ASSUME TypeOK, ~Idle
  PROVE  /\ cmd \in Commands /\ cmd.kind \in Kind /\ cmd.stopped \in BOOLEAN
         /\ cmd.op \in {"up", "down", "downall"}
BY DEF TypeOK, Idle, Commands

\* A command moves to another place.
LEMMA GotoFacts ==
  ASSUME cmd \in Commands, NEW pc \in Place, Goto(pc)
  PROVE  /\ cmd' \in Commands /\ ~Idle' /\ cmd'.pc = pc
         /\ cmd'.op = cmd.op /\ cmd'.kind = cmd.kind
         /\ cmd'.stopped = cmd.stopped /\ cmd'.todo = cmd.todo
BY NoneAssumption DEF Goto, Commands, Idle, Place

LEMMA CommandFacts ==
  ASSUME NEW o \in {"up", "down", "downall"}, NEW k \in Kind, NEW at \in {"stop", "close"},
         NEW rest \in Seq(Kind),
         cmd' = [op |-> o, kind |-> k, pc |-> at, stopped |-> FALSE, todo |-> rest]
  PROVE  /\ cmd' \in Commands /\ ~Idle'
         /\ cmd'.op = o /\ cmd'.kind = k /\ cmd'.pc = at /\ cmd'.todo = rest
<1>1. rest \in Seq(Kind \cup Pid)
  OBVIOUS
<1>2. cmd' \in Commands
  BY <1>1 DEF Commands
<1>3. cmd'.op = o /\ cmd'.kind = k /\ cmd'.pc = at /\ cmd'.todo = rest
  OBVIOUS
<1> QED  BY <1>2, <1>3, NoneAssumption DEF Idle

\* SIGTERM: the process of the kind's tunnel is on its way out.
LEMMA TerminatedFacts ==
  ASSUME TypeOK, NEW kind \in Kind, ssh' = Terminated(kind)
  PROVE  /\ ssh' \in Processes
         /\ \A p \in Pid : Alive(p)' => Alive(p) /\ ~(IsUp(kind) /\ Get(kind).pid = p)
<1>1. ASSUME NEW p \in Pid
      PROVE  /\ ssh'[p] \in [port : Kind,
                             phase : {"unused", "connecting", "forwarding", "closing", "gone"}]
             /\ Alive(p)' => Alive(p) /\ ~(IsUp(kind) /\ Get(kind).pid = p)
  <2>1. ssh[p] \in [port : Kind, phase : {"unused", "connecting", "forwarding", "closing", "gone"}]
    BY DEF TypeOK
  <2>2. CASE ~IsUp(kind) \/ Get(kind).pid # p \/ ~Alive(p)
    <3>1. ssh'[p] = ssh[p]
      BY <2>2 DEF Terminated
    <3> QED  BY <2>1, <2>2, <3>1 DEF Alive
  <2>3. CASE ~(~IsUp(kind) \/ Get(kind).pid # p \/ ~Alive(p))
    <3>1. ssh'[p] = [ssh[p] EXCEPT !.phase = IF @ = "forwarding" THEN "closing" ELSE "gone"]
      BY <2>3 DEF Terminated
    <3>2. ssh'[p].phase \in {"closing", "gone"} /\ ssh'[p].port = ssh[p].port
          /\ ssh'[p] \in [port : Kind, phase : {"closing", "gone"}]
      BY <2>1, <3>1
    <3> QED  BY <2>1, <3>2 DEF Alive
  <2> QED  BY <2>2, <2>3
<1>2. ssh' = [p \in Pid |-> ssh'[p]]
  BY DEF Terminated
<1> QED  BY <1>1, <1>2 DEF Processes

Files == <<record, legacy>>

LEMMA SameFiles ==
  ASSUME UNCHANGED Files
  PROVE  /\ \A kind : Get(kind)' = Get(kind)
         /\ \A kind : IsUp(kind)' <=> IsUp(kind)
         /\ \A p : OnRecord(p)' <=> OnRecord(p)
         /\ \A kind : Recorded(kind)' <=> Recorded(kind)
         /\ OldFileRetired' <=> OldFileRetired
BY DEF Files, Get, IsUp, OnRecord, Recorded, OldFileRetired

\* When no command runs, the parts of the invariant about one are empty.
LEMMA IdleAfter ==
  ASSUME Idle', TypeOK', OldFileRetired', AliveIsKnown', OwedIsKnown'
  PROVE  Inv'
<1>1. ClosedIsUnrecorded' /\ HandIsFull' /\ RemovedIsSilent'
  BY DEF ClosedIsUnrecorded, HandIsFull, RemovedIsSilent, Closed, Unlinked, Removing, At
<1>2. OpeningOwesNothing' /\ ClosingKnows' /\ DownIsListed'
  BY DEF OpeningOwesNothing, ClosingKnows, DownIsListed, Opening, Closed, Closing, ClosingDown, At
<1> QED  BY <1>1, <1>2 DEF Inv

----
(* Steps outside the commands, and their beginnings.                       *)

\* An ssh process takes its port, or goes.
LEMMA SshKeeps ==
  ASSUME Inv, NEW p \in Pid, SshConnects(p) \/ SshExits(p)
  PROVE  Inv'
<1>1. PICK phase \in {"forwarding", "gone"} : ssh' = [ssh EXCEPT ![p].phase = phase]
  BY DEF SshConnects, SshExits, SetPhase
<1>2. UNCHANGED <<record, legacy, stack, cmd, owed, repointed, mishaps>> /\ (phase = "gone" \/ Alive(p))
  BY <1>1 DEF SshConnects, SshExits, SetPhase, Alive, Inv, TypeOK
<1>3. ssh' \in Processes /\ \A q \in Pid : Alive(q)' => Alive(q)
  BY <1>1, <1>2 DEF Inv, TypeOK, Alive, Processes
<1>4. TypeOK'
  BY <1>2, <1>3 DEF Inv, TypeOK, Processes
<1>5. AliveIsKnown'
  BY <1>2, <1>3, SameFiles DEF Inv, AliveIsKnown, InHand, At, Idle, Files
<1>6. RemovedIsSilent'
  BY <1>2, <1>3, SameFiles DEF Inv, RemovedIsSilent, Removing, Unlinked, At, Idle, Files
<1>7. OldFileRetired' /\ ClosedIsUnrecorded' /\ HandIsFull' /\ OpeningOwesNothing'
  BY <1>2 DEF Inv, OldFileRetired, ClosedIsUnrecorded, HandIsFull, OpeningOwesNothing,
     Closed, Unlinked, Opening, At, Idle
<1>8. OwedIsKnown' /\ ClosingKnows'
  BY <1>2, SameFiles DEF Inv, OwedIsKnown, ClosingKnows, WillRestore, Opening, Closed, ClosingDown,
     At, Idle, Files
<1>9. DownIsListed'
  BY <1>2, SameFiles DEF Inv, DownIsListed, Closing, ClosingDown, At, Idle, Todo, Files
<1> QED  BY <1>4, <1>5, <1>6, <1>7, <1>8, <1>9 DEF Inv

\* A stack is started, stopped or removed by hand: nothing is owed any more.
LEMMA StackKeeps ==
  ASSUME Inv, NEW kind \in Kind, StartStack(kind) \/ StopStack(kind) \/ RemoveStack(kind)
  PROVE  Inv'
<1>1. PICK to \in {"running", "stopped", "absent"} : SetStack(kind, to)
  BY DEF StartStack, StopStack, RemoveStack
<1>2. /\ Idle /\ stack' = [stack EXCEPT ![kind] = to] /\ owed' = [owed EXCEPT ![kind] = FALSE]
      /\ repointed' = repointed \ {kind} /\ UNCHANGED <<record, legacy, ssh, cmd, mishaps>>
  BY <1>1 DEF SetStack
<1>3. TypeOK' /\ Idle'
  BY <1>2 DEF Inv, TypeOK, Idle
<1>4. OwedIsKnown'
  BY <1>2, SameFiles DEF Inv, TypeOK, OwedIsKnown, WillRestore, Files
<1>5. OldFileRetired'
  BY <1>2 DEF Inv, OldFileRetired
<1>6. AliveIsKnown'
  BY <1>2, SameFiles DEF Inv, AliveIsKnown, InHand, At, Idle, Alive, Files
<1> QED  BY <1>3, <1>4, <1>5, <1>6, IdleAfter

LEMMA BeginUpKeeps ==
  ASSUME Inv, NEW kind \in Kind, BeginUp(kind) PROVE Inv'
<1>1. /\ Idle /\ cmd' = Command("up", kind, "stop", FALSE, <<>>)
      /\ repointed' = (IF owed[kind] THEN repointed \cup {kind} ELSE repointed)
      /\ UNCHANGED <<record, legacy, stack, ssh, owed, mishaps>>
  BY DEF BeginUp
<1>2. cmd' \in Commands /\ ~Idle' /\ cmd'.op = "up" /\ cmd'.kind = kind /\ cmd'.pc = "stop"
  <2>1. <<>> \in Seq(Kind)
    OBVIOUS
  <2>2. cmd' = [op |-> "up", kind |-> kind, pc |-> "stop", stopped |-> FALSE, todo |-> <<>>]
    BY <1>1 DEF Command
  <2> QED  BY <2>1, <2>2, CommandFacts
<1>3. TypeOK'
  BY <1>1, <1>2 DEF Inv, TypeOK
<1>4. OpeningOwesNothing'
  BY <1>1, <1>2 DEF Inv, TypeOK, OpeningOwesNothing
<1>5. OwedIsKnown'
  BY <1>1, SameFiles DEF Inv, OwedIsKnown, WillRestore, Files
<1>6. OldFileRetired' /\ ClosedIsUnrecorded' /\ HandIsFull' /\ RemovedIsSilent'
  BY <1>1, <1>2 DEF Inv, OldFileRetired, ClosedIsUnrecorded, HandIsFull, RemovedIsSilent, Closed,
     Unlinked, Removing, At
<1>7. ClosingKnows' /\ DownIsListed'
  BY <1>2 DEF ClosingKnows, DownIsListed, Closing, ClosingDown, At
<1>8. AliveIsKnown'
  BY <1>1, SameFiles DEF Inv, AliveIsKnown, InHand, At, Alive, Files
<1> QED  BY <1>3, <1>4, <1>5, <1>6, <1>7, <1>8 DEF Inv

\* What is listed is what is up, in the order of Kinds.
LEMMA ActiveFacts ==
  ASSUME Active # <<>>
  PROVE  /\ Active \in Seq(Kind) /\ Head(Active) \in Kind /\ Tail(Active) \in Seq(Kind)
         /\ \A kind \in Kind :
              IsUp(kind) =>
                kind = Head(Active) \/ \E i \in 1..Len(Tail(Active)) : Tail(Active)[i] = kind
<1> DEFINE a == IsUp("ollama")
           b == IsUp("tts")
<1>1. Active = Listed("ollama") \o Listed("tts")
  BY KindIs DEF Active
<1>2. CASE a /\ b
  <2>1. Active = <<"ollama">> \o <<"tts">>
    BY <1>1, <1>2 DEF Listed
  <2>2. <<"ollama">> \in Seq(Kind) /\ <<"tts">> \in Seq(Kind)
    BY KindIs
  <2>3. Active \in Seq(Kind) /\ Len(Active) = 2 /\ Active[1] = "ollama" /\ Active[2] = "tts"
    BY <2>1, <2>2
  <2>4. Head(Active) = "ollama"
    BY <2>3
  <2>5. Tail(Active) \in Seq(Kind)
    BY <2>3
  <2>6. Len(Tail(Active)) = 1
    BY <2>3
  <2>7. \A i \in 1..Len(Tail(Active)) : Tail(Active)[i] = Active[i + 1]
    BY <2>3, HeadTailProperties
  <2>8. 1 \in 1..Len(Tail(Active)) /\ Tail(Active)[1] = "tts"
    <3>1. 1 \in 1..Len(Tail(Active))
      BY <2>6
    <3>2. Tail(Active)[1] = Active[1 + 1]
      BY <2>7, <3>1
    <3> QED  BY <2>3, <3>1, <3>2
  <2>9. \A kind \in Kind : kind = "ollama" \/ kind = "tts"
    BY KindIs
  <2>10. "ollama" \in Kind
    BY KindIs
  <2> QED  BY <2>3, <2>4, <2>5, <2>8, <2>9, <2>10
<1>3. CASE a /\ ~b
  <2>1. Active = <<"ollama">> /\ Head(Active) = "ollama" /\ Tail(Active) = <<>>
    BY <1>1, <1>3 DEF Listed
  <2> QED  BY <1>3, <2>1, KindIs
<1>4. CASE ~a /\ b
  <2>1. Active = <<"tts">> /\ Head(Active) = "tts" /\ Tail(Active) = <<>>
    BY <1>1, <1>4 DEF Listed
  <2> QED  BY <1>4, <2>1, KindIs
<1>5. CASE ~a /\ ~b
  BY <1>1, <1>5 DEF Listed
<1> QED  BY <1>2, <1>3, <1>4, <1>5

\* When nothing is up, every kind is on the list.
LEMMA KindsFacts ==
  /\ Head(Kinds) \in Kind /\ Tail(Kinds) \in Seq(Kind)
  /\ \A kind \in Kind :
       kind = Head(Kinds) \/ \E i \in 1..Len(Tail(Kinds)) : Tail(Kinds)[i] = kind
<1>1. Kinds \in Seq(Kind) /\ Len(Kinds) = 2 /\ Kinds[1] = "ollama" /\ Kinds[2] = "tts"
  BY KindIs DEF Kinds
<1>2. Head(Kinds) = "ollama" /\ "ollama" \in Kind
  BY <1>1, KindIs
<1>3. Tail(Kinds) \in Seq(Kind) /\ Len(Tail(Kinds)) = 1
  BY <1>1
<1>4. \A i \in 1..Len(Tail(Kinds)) : Tail(Kinds)[i] = Kinds[i + 1]
  BY <1>1, HeadTailProperties
<1>5. 1 \in 1..Len(Tail(Kinds)) /\ Tail(Kinds)[1] = "tts"
  <2>1. 1 \in 1..Len(Tail(Kinds))
    BY <1>3
  <2>2. Tail(Kinds)[1] = Kinds[1 + 1]
    BY <1>4, <2>1
  <2> QED  BY <1>1, <2>1, <2>2
<1>6. \A kind \in Kind : kind = "ollama" \/ kind = "tts"
  BY KindIs
<1> QED  BY <1>2, <1>3, <1>5, <1>6

\* `down`, of one kind or of what is listed.
LEMMA BeginDownFacts ==
  ASSUME Inv, (\E kind \in Kind : BeginDown(kind)) \/ BeginDownAll
  PROVE  \/ cmd' = Failed
         \/ /\ cmd' \in Commands /\ ~Idle' /\ cmd'.op \in {"down", "downall"} /\ cmd'.pc = "close"
            /\ cmd'.todo \in Seq(Kind)
            /\ cmd'.op = "down" => cmd'.todo = <<>>
            /\ cmd'.op = "downall" =>
                 \A kind \in Kind : Get(kind) # None => kind \in Todo' \/ kind = cmd'.kind
<1>1. CASE \E kind \in Kind : BeginDown(kind)
  <2>1. PICK kind \in Kind : cmd' = Command("down", kind, "close", FALSE, <<>>)
    BY <1>1 DEF BeginDown
  <2>2. <<>> \in Seq(Kind)
    OBVIOUS
  <2>3. cmd' = [op |-> "down", kind |-> kind, pc |-> "close", stopped |-> FALSE, todo |-> <<>>]
    BY <2>1 DEF Command
  <2>4. cmd' \in Commands /\ ~Idle' /\ cmd'.op = "down" /\ cmd'.pc = "close" /\ cmd'.todo = <<>>
    BY <2>2, <2>3, CommandFacts
  <2> QED  BY <2>2, <2>4
<1>2. CASE BeginDownAll /\ ~ActiveFails
  <2>1. PICK list : /\ list = IF Active = <<>> THEN Kinds ELSE Active
                    /\ cmd' = Command("downall", Head(list), "close", FALSE, Tail(list))
    BY <1>2 DEF BeginDownAll
  <2>2. \A kind \in Kind : Get(kind) # None => IsUp(kind)
    BY <1>2 DEF ActiveFails, IsUp, Get, Inv, TypeOK
  <2>3. /\ Head(list) \in Kind /\ Tail(list) \in Seq(Kind)
        /\ \A kind \in Kind :
             Get(kind) # None =>
               kind = Head(list) \/ \E i \in 1..Len(Tail(list)) : Tail(list)[i] = kind
    <3>1. CASE Active = <<>>
      BY <2>1, <3>1, KindsFacts
    <3>2. CASE Active # <<>>
      BY <2>1, <2>2, <3>2, ActiveFacts
    <3> QED  BY <3>1, <3>2
  <2>4. cmd' = [op |-> "downall", kind |-> Head(list), pc |-> "close", stopped |-> FALSE,
                todo |-> Tail(list)]
    BY <2>1 DEF Command
  <2>5. cmd' \in Commands /\ ~Idle' /\ cmd'.op = "downall" /\ cmd'.pc = "close"
        /\ cmd'.kind = Head(list) /\ cmd'.todo = Tail(list)
    BY <2>3, <2>4, CommandFacts
  <2> QED  BY <2>3, <2>5 DEF Todo
<1>3. CASE BeginDownAll /\ ActiveFails
  BY <1>3 DEF BeginDownAll, Fails
<1> QED  BY <1>1, <1>2, <1>3

LEMMA BeginDownKeeps ==
  ASSUME Inv, (\E kind \in Kind : BeginDown(kind)) \/ BeginDownAll PROVE Inv'
<1>1. Idle /\ UNCHANGED <<record, legacy, stack, ssh, owed, repointed, mishaps>>
  BY DEF BeginDown, BeginDownAll
<1>2. OwedIsKnown'
  BY <1>1, SameFiles DEF Inv, OwedIsKnown, WillRestore, Files
<1>3. AliveIsKnown'
  BY <1>1, SameFiles DEF Inv, AliveIsKnown, InHand, At, Alive, Files
<1>4. OldFileRetired'
  BY <1>1 DEF Inv, OldFileRetired
<1>5. CASE cmd' = Failed
  <2>1. TypeOK' /\ Idle'
    BY <1>1, <1>5 DEF Inv, TypeOK, Idle
  <2> QED  BY <1>2, <1>3, <1>4, <2>1, IdleAfter
<1>6. CASE /\ cmd' \in Commands /\ ~Idle' /\ cmd'.op \in {"down", "downall"} /\ cmd'.pc = "close"
           /\ cmd'.todo \in Seq(Kind)
           /\ cmd'.op = "down" => cmd'.todo = <<>>
           /\ cmd'.op = "downall" =>
                \A kind \in Kind : Get(kind) # None => kind \in Todo' \/ kind = cmd'.kind
  <2>1. TypeOK'
    BY <1>1, <1>6 DEF Inv, TypeOK
  <2>2. DownIsListed'
    BY <1>1, <1>6, SameFiles DEF DownIsListed, Files
  <2>3. ClosedIsUnrecorded' /\ HandIsFull' /\ RemovedIsSilent'
    BY <1>6 DEF ClosedIsUnrecorded, HandIsFull, RemovedIsSilent, Closed, Unlinked, Removing, At
  <2>4. OpeningOwesNothing' /\ ClosingKnows'
    BY <1>6 DEF OpeningOwesNothing, ClosingKnows, Opening, Closed, At
  <2> QED  BY <1>2, <1>3, <1>4, <2>1, <2>2, <2>3, <2>4 DEF Inv
<1> QED  BY <1>5, <1>6, BeginDownFacts

----
(* The steps of a command that opens a tunnel.                             *)

LEMMA StopLocalKeeps ==
  ASSUME Inv, StopLocal PROVE Inv'
<1>1. /\ ~Idle /\ cmd.op = "up" /\ cmd.pc = "stop" /\ cmd \in Commands /\ cmd.kind \in Kind
      /\ UNCHANGED <<record, legacy, ssh, mishaps>>
  BY RunningType DEF StopLocal, At, Inv
<1>2. \/ cmd' = Failed /\ UNCHANGED <<stack, owed, repointed>>
      \/ /\ cmd' \in Commands /\ ~Idle' /\ cmd'.op = "up" /\ cmd'.pc = "close"
         /\ cmd'.kind = cmd.kind
         /\ \/ UNCHANGED <<stack, owed, repointed>>
            \/ /\ stack' = [stack EXCEPT ![cmd.kind] = "stopped"]
               /\ owed' = [owed EXCEPT ![cmd.kind] = TRUE]
               /\ repointed' = repointed \ {cmd.kind}
               /\ cmd'.stopped = TRUE
  <2>1. CASE Goto("close") /\ UNCHANGED <<stack, owed, repointed>>
    BY <1>1, <2>1, GotoFacts DEF Place
  <2>2. CASE /\ stack' = [stack EXCEPT ![cmd.kind] = "stopped"]
             /\ owed' = [owed EXCEPT ![cmd.kind] = TRUE]
             /\ repointed' = repointed \ {cmd.kind}
             /\ cmd' = [cmd EXCEPT !.pc = "close", !.stopped = TRUE]
    <3>1. cmd' \in Commands /\ cmd'.op = "up" /\ cmd'.pc = "close" /\ cmd'.kind = cmd.kind
          /\ cmd'.stopped = TRUE
      BY <1>1, <2>2 DEF Commands
    <3> QED  BY <2>2, <3>1, NoneAssumption DEF Idle
  <2>3. CASE Fails /\ UNCHANGED <<stack, owed, repointed>>
    BY <2>3 DEF Fails
  <2> QED  BY <2>1, <2>2, <2>3 DEF StopLocal
<1>3. TypeOK'
  BY <1>1, <1>2 DEF Inv, TypeOK
<1>4. AliveIsKnown'
  BY <1>1, SameFiles DEF Inv, AliveIsKnown, InHand, At, Alive, Files
<1>5. OldFileRetired'
  BY <1>1 DEF Inv, OldFileRetired
<1>6. ~\E kind \in Kind : WillRestore(kind)
  BY <1>1 DEF WillRestore, Opening, Closed, ClosingDown, At
<1>7. CASE cmd' = Failed /\ UNCHANGED <<stack, owed, repointed>>
  <2>1. OwedIsKnown' /\ Idle'
    BY <1>1, <1>6, <1>7, SameFiles DEF Inv, OwedIsKnown, Files, Idle
  <2> QED  BY <1>3, <1>4, <1>5, <2>1, IdleAfter
<1>8. CASE /\ cmd' \in Commands /\ ~Idle' /\ cmd'.op = "up" /\ cmd'.pc = "close"
           /\ cmd'.kind = cmd.kind
           /\ \/ UNCHANGED <<stack, owed, repointed>>
              \/ /\ stack' = [stack EXCEPT ![cmd.kind] = "stopped"]
                 /\ owed' = [owed EXCEPT ![cmd.kind] = TRUE]
                 /\ repointed' = repointed \ {cmd.kind}
                 /\ cmd'.stopped = TRUE
  <2>1. OwedIsKnown'
    BY <1>1, <1>6, <1>8, SameFiles DEF Inv, TypeOK, OwedIsKnown, WillRestore, Opening, At, Files
  <2>2. OpeningOwesNothing'
    BY <1>1, <1>8 DEF Inv, TypeOK, OpeningOwesNothing, Opening, Closed, At
  <2>3. ClosedIsUnrecorded' /\ HandIsFull' /\ RemovedIsSilent'
    BY <1>8 DEF ClosedIsUnrecorded, HandIsFull, RemovedIsSilent, Closed, Unlinked, Removing, At
  <2>4. ClosingKnows' /\ DownIsListed'
    BY <1>8 DEF ClosingKnows, DownIsListed, Closing, ClosingDown, At
  <2> QED  BY <1>3, <1>4, <1>5, <2>1, <2>2, <2>3, <2>4 DEF Inv
<1> QED  BY <1>2, <1>7, <1>8

\* A step within the part of `up` that follows the closing, in which no process
\* is started and the kind's file is not written, or torn.
LEMMA ClosedKeeps ==
  ASSUME Inv, Closed, cmd' \in Commands, ~Idle', cmd'.op = "up", cmd'.pc \in {"start", "fail"},
         cmd'.kind = cmd.kind, cmd'.stopped = cmd.stopped,
         mishaps' \subseteq {"killed", "unsaved"}, mishaps \subseteq mishaps',
         cmd.pc # "save" \/ mishaps' # {},
         record' = record \/ (cmd'.pc = "fail" /\ record' = [record EXCEPT ![cmd.kind] = Torn]),
         UNCHANGED <<legacy, stack, ssh, owed, repointed>>,
         record' # record => mishaps' # {}
  PROVE  Inv'
<1>1. cmd.kind \in Kind /\ ~Idle /\ cmd.op = "up"
  BY RunningType DEF Inv, Closed, At
<1>2. TypeOK'
  BY <1>1 DEF Inv, TypeOK
<1>3. /\ record[cmd.kind] = None /\ (cmd.kind = "ollama" => legacy = None)
      /\ ~Recorded(cmd.kind)
  BY NoneAssumption DEF Inv, ClosedIsUnrecorded, Recorded, IsUp, Get
<1>4. ClosedIsUnrecorded' /\ OldFileRetired'
  BY <1>1, <1>3, KindIs DEF Inv, TypeOK, ClosedIsUnrecorded, OldFileRetired, Closed, Unlinked, At
<1>5. HandIsFull' /\ RemovedIsSilent' /\ ClosingKnows' /\ DownIsListed'
  BY DEF HandIsFull, RemovedIsSilent, ClosingKnows, DownIsListed, Removing, Unlinked, Closing,
     ClosingDown, At
<1>6. AliveIsKnown'
  <2>1. CASE mishaps' # {}
    BY <2>1 DEF AliveIsKnown
  <2>2. CASE mishaps' = {}
    BY <1>1, <2>2, SameFiles DEF Inv, AliveIsKnown, InHand, At, Alive, Files
  <2> QED  BY <2>1, <2>2
<1>7. OpeningOwesNothing'
  BY DEF Inv, OpeningOwesNothing, Opening, Closed, At
<1>8. OwedIsKnown'
  <2>1. SUFFICES ASSUME "killed" \notin mishaps', NEW other \in Kind, owed[other] = TRUE,
                        other \notin repointed
                 PROVE  Recorded(other)' \/ WillRestore(other)'
    BY DEF OwedIsKnown
  <2>2. Recorded(other) \/ WillRestore(other)
    BY <2>1 DEF Inv, OwedIsKnown
  <2>3. CASE other = cmd.kind
    <3>1. WillRestore(other)
      BY <1>3, <2>2, <2>3
    <3> QED  BY <2>3, <3>1 DEF WillRestore, Opening, Closed, ClosingDown, At
  <2>4. CASE other # cmd.kind
    <3>1. Recorded(other)
      BY <2>2, <2>4 DEF WillRestore
    <3>2. record'[other] = record[other]
      BY <1>1, <2>4 DEF Inv, TypeOK
    <3> QED  BY <3>1, <3>2 DEF Recorded, IsUp, Get
  <2> QED  BY <2>3, <2>4
<1> QED  BY <1>2, <1>4, <1>5, <1>6, <1>7, <1>8 DEF Inv

LEMMA ReachKeeps ==
  ASSUME Inv, Reach PROVE Inv'
<1>1. /\ cmd \in Commands /\ Closed /\ cmd.op = "up" /\ cmd.pc = "reach"
      /\ mishaps \subseteq {"killed", "unsaved"}
      /\ UNCHANGED <<record, legacy, stack, ssh, owed, repointed, mishaps>>
  BY RunningType DEF Reach, Closed, At, Inv, TypeOK
<1>2. /\ cmd' \in Commands /\ ~Idle' /\ cmd'.op = "up" /\ cmd'.pc \in {"start", "fail"}
      /\ cmd'.kind = cmd.kind /\ cmd'.stopped = cmd.stopped
  BY <1>1, GotoFacts DEF Reach, Place
<1> QED  BY <1>1, <1>2, ClosedKeeps

LEMMA SaveFailsKeeps ==
  ASSUME Inv, SaveFails PROVE Inv'
<1>1. /\ cmd \in Commands /\ Closed /\ cmd.op = "up"
      /\ mishaps' = mishaps \cup {"unsaved"} /\ mishaps \subseteq {"killed", "unsaved"}
      /\ record' = record \/ record' = [record EXCEPT ![cmd.kind] = Torn]
      /\ UNCHANGED <<legacy, stack, ssh, owed, repointed>>
  BY RunningType DEF SaveFails, Closed, At, Inv, TypeOK
<1>2. /\ cmd' \in Commands /\ ~Idle' /\ cmd'.op = "up" /\ cmd'.pc = "fail"
      /\ cmd'.kind = cmd.kind /\ cmd'.stopped = cmd.stopped
  BY <1>1, GotoFacts DEF SaveFails, Place
<1>3. mishaps' \subseteq {"killed", "unsaved"} /\ mishaps \subseteq mishaps' /\ mishaps' # {}
  BY <1>1
<1> QED  BY <1>1, <1>2, <1>3, ClosedKeeps

LEMMA StartSshKeeps ==
  ASSUME Inv, StartSsh PROVE Inv'
<1>1. /\ ~Idle /\ cmd \in Commands /\ Closed /\ cmd.op = "up" /\ cmd.pc = "start"
      /\ cmd.kind \in Kind /\ mishaps \subseteq {"killed", "unsaved"}
      /\ UNCHANGED <<record, legacy, stack, owed, repointed, mishaps>>
  BY RunningType DEF StartSsh, Closed, At, Inv, TypeOK
<1>2. CASE Goto("fail") /\ UNCHANGED ssh
  <2>1. /\ cmd' \in Commands /\ ~Idle' /\ cmd'.op = "up" /\ cmd'.pc = "fail"
        /\ cmd'.kind = cmd.kind /\ cmd'.stopped = cmd.stopped
    BY <1>1, <1>2, GotoFacts DEF Place
  <2> QED  BY <1>1, <1>2, <2>1, ClosedKeeps
<1>3. ASSUME NEW p \in Pid, ssh' = [ssh EXCEPT ![p] = [port |-> cmd.kind, phase |-> "connecting"]],
             cmd' = [cmd EXCEPT !.pc = "save", !.todo = <<p>>]
      PROVE  Inv'
  <2>1. /\ cmd' \in Commands /\ ~Idle' /\ cmd'.op = "up" /\ cmd'.pc = "save"
        /\ cmd'.kind = cmd.kind /\ cmd'.stopped = cmd.stopped /\ cmd'.todo = <<p>>
    <3>1. <<p>> \in Seq(Kind \cup Pid)
      OBVIOUS
    <3>2. cmd' \in Commands
      BY <1>1, <1>3, <3>1 DEF Commands
    <3>3. cmd'.op = "up" /\ cmd'.pc = "save" /\ cmd'.kind = cmd.kind
          /\ cmd'.stopped = cmd.stopped /\ cmd'.todo = <<p>>
      BY <1>1, <1>3 DEF Commands
    <3> QED  BY <3>2, <3>3, NoneAssumption DEF Idle
  <2>2. ssh' \in Processes /\ \A q \in Pid : Alive(q)' => q = p \/ Alive(q)
    BY <1>1, <1>3 DEF Inv, TypeOK, Alive, Processes
  <2>3. TypeOK'
    BY <1>1, <2>1, <2>2 DEF Inv, TypeOK, Processes
  <2>4. AliveIsKnown'
    BY <1>1, <2>1, <2>2, SameFiles DEF Inv, AliveIsKnown, InHand, At, Files
  <2>5. ClosedIsUnrecorded'
    BY <1>1, <2>1 DEF Inv, ClosedIsUnrecorded, Closed, Unlinked, At
  <2>6. OldFileRetired' /\ HandIsFull'
    BY <1>1, <2>1 DEF Inv, OldFileRetired, HandIsFull
  <2>7. RemovedIsSilent' /\ ClosingKnows' /\ DownIsListed'
    BY <2>1 DEF RemovedIsSilent, ClosingKnows, DownIsListed, Removing, Unlinked, Closing,
       ClosingDown, At
  <2>8. OwedIsKnown'
    BY <1>1, <2>1, SameFiles DEF Inv, OwedIsKnown, WillRestore, Opening, Closed, ClosingDown, At, Files
  <2>9. OpeningOwesNothing'
    BY <1>1, <2>1 DEF Inv, OpeningOwesNothing, Opening, Closed, At
  <2> QED  BY <2>3, <2>4, <2>5, <2>6, <2>7, <2>8, <2>9 DEF Inv
<1> QED  BY <1>2, <1>3 DEF StartSsh

LEMMA SaveKeeps ==
  ASSUME Inv, Save PROVE Inv'
<1>1. PICK kind \in Kind, p \in Pid :
        /\ ~Idle /\ Closed /\ cmd \in Commands /\ cmd.op = "up" /\ cmd.pc = "save"
        /\ cmd.kind = kind /\ cmd.todo = <<p>>
        /\ record' = [record EXCEPT ![kind] = [pid |-> p, localStopped |-> cmd.stopped]]
        /\ cmd' = None /\ UNCHANGED <<legacy, stack, ssh, owed, repointed, mishaps>>
  <2>1. ~Idle /\ cmd \in Commands /\ cmd.op = "up" /\ cmd.pc = "save" /\ cmd.kind \in Kind
    BY RunningType DEF Save, At, Inv
  <2>2. PICK p \in Pid : cmd.todo = <<p>>
    BY DEF Save, Inv, HandIsFull
  <2>3. Head(cmd.todo) = p
    BY <2>2
  <2> QED  BY <2>1, <2>2, <2>3 DEF Save, Return, Closed, At
<1>2. [pid |-> p, localStopped |-> cmd.stopped] \in State /\ cmd.stopped \in BOOLEAN
  BY <1>1 DEF State, Commands
<1>3. /\ record[kind] = None /\ (kind = "ollama" => legacy = None) /\ ~IsUp(kind)
  BY <1>1, NoneAssumption DEF Inv, ClosedIsUnrecorded, IsUp, Get
<1>4. /\ record' \in [Kind -> State \cup {None, Torn}] /\ record'[kind] \in State
      /\ record'[kind].pid = p /\ record'[kind].localStopped = cmd.stopped
      /\ \A other \in Kind \ {kind} : record'[other] = record[other]
  BY <1>1, <1>2 DEF Inv, TypeOK
<1>5. /\ IsUp(kind)' /\ Get(kind)'.pid = p /\ Get(kind)'.localStopped = cmd.stopped
      /\ \A other \in Kind \ {kind} : Get(other)' = Get(other)
  BY <1>1, <1>4, NoneAssumption DEF Get, IsUp
<1>6. TypeOK' /\ Idle'
  BY <1>1, <1>4 DEF Inv, TypeOK, Idle
<1>7. OldFileRetired'
  BY <1>1, <1>3, <1>4, KindIs DEF Inv, OldFileRetired
<1>8. AliveIsKnown'
  <2>1. SUFFICES ASSUME mishaps = {}, NEW q \in Pid, Alive(q)
                 PROVE  OnRecord(q)'
    BY <1>1 DEF AliveIsKnown, Alive
  <2>2. OnRecord(q) \/ InHand(q)
    BY <2>1 DEF Inv, AliveIsKnown
  <2>3. CASE InHand(q)
    <3>1. p = q
      BY <1>1, <2>3 DEF InHand
    <3> QED  BY <1>5, <3>1 DEF OnRecord
  <2>4. CASE OnRecord(q)
    <3>1. PICK other \in Kind : IsUp(other) /\ Get(other).pid = q
      BY <2>4 DEF OnRecord
    <3>2. other # kind
      BY <1>3, <3>1
    <3> QED  BY <1>5, <3>1, <3>2 DEF OnRecord, IsUp
  <2> QED  BY <2>2, <2>3, <2>4
<1>9. OwedIsKnown'
  <2>1. SUFFICES ASSUME "killed" \notin mishaps, NEW other \in Kind, owed[other] = TRUE,
                        other \notin repointed
                 PROVE  Recorded(other)'
    BY <1>1 DEF OwedIsKnown
  <2>2. CASE other = kind
    <3>1. cmd.stopped = TRUE
      BY <1>1, <2>1, <2>2 DEF Inv, OpeningOwesNothing, Opening
    <3> QED  BY <1>5, <2>2, <3>1 DEF Recorded
  <2>3. CASE other # kind
    <3>1. Recorded(other)
      BY <1>1, <2>1, <2>3 DEF Inv, OwedIsKnown, WillRestore
    <3> QED  BY <1>5, <2>3, <3>1 DEF Recorded, IsUp
  <2> QED  BY <2>2, <2>3
<1> QED  BY <1>6, <1>7, <1>8, <1>9, IdleAfter

\* The local stack is put back, or the user knows that it is not.
LEMMA RestoreFacts ==
  ASSUME TypeOK, NEW kind \in Kind, RestoreLocal(kind)
  PROVE  /\ stack' \in [Kind -> {"running", "stopped", "absent"}]
         /\ owed' = [owed EXCEPT ![kind] = FALSE] /\ owed' \in [Kind -> BOOLEAN]
         /\ repointed' = repointed \ {kind}
BY DEF TypeOK, RestoreLocal

LEMMA UpFailsKeeps ==
  ASSUME Inv, UpFails PROVE Inv'
<1>1. PICK kind \in Kind :
        /\ ~Idle /\ cmd \in Commands /\ cmd.op = "up" /\ cmd.pc = "fail" /\ cmd.kind = kind
        /\ cmd.stopped \in BOOLEAN
        /\ IF cmd.stopped THEN RestoreLocal(kind) ELSE UNCHANGED <<stack, owed, repointed>>
        /\ cmd' = Failed /\ UNCHANGED <<record, legacy, ssh, mishaps>>
  BY RunningType DEF UpFails, Fails, At, Inv
<1>2. /\ stack' \in [Kind -> {"running", "stopped", "absent"}]
      /\ owed' \in [Kind -> BOOLEAN] /\ repointed' \subseteq Kind
      /\ \A other \in Kind \ {kind} :
           owed'[other] = owed[other] /\ (other \in repointed' <=> other \in repointed)
      /\ owed'[kind] = TRUE => cmd.stopped # TRUE /\ UNCHANGED <<owed, repointed>>
  <2>1. CASE cmd.stopped
    BY <1>1, <2>1, RestoreFacts DEF Inv, TypeOK
  <2>2. CASE ~cmd.stopped
    BY <1>1, <2>2 DEF Inv, TypeOK
  <2> QED  BY <1>1, <2>1, <2>2
<1>3. TypeOK' /\ Idle'
  BY <1>1, <1>2 DEF Inv, TypeOK, Idle
<1>4. OwedIsKnown'
  <2>1. SUFFICES ASSUME "killed" \notin mishaps, NEW other \in Kind, owed'[other] = TRUE,
                        other \notin repointed'
                 PROVE  Recorded(other)
    BY <1>1, SameFiles DEF OwedIsKnown, Files
  <2>2. CASE other = kind
    BY <1>1, <1>2, <2>1, <2>2 DEF Inv, OpeningOwesNothing, Opening, At
  <2>3. CASE other # kind
    BY <1>1, <1>2, <2>1, <2>3 DEF Inv, OwedIsKnown, WillRestore
  <2> QED  BY <2>2, <2>3
<1>5. AliveIsKnown'
  BY <1>1, SameFiles DEF Inv, AliveIsKnown, InHand, At, Alive, Files
<1>6. OldFileRetired'
  BY <1>1 DEF Inv, OldFileRetired
<1> QED  BY <1>3, <1>4, <1>5, <1>6, IdleAfter

----
(* The steps of tunnel.Down, and of a command that closes tunnels.         *)

\* The next tunnel on the list, if any is left.
LEMMA NextDownFacts ==
  ASSUME TypeOK, Closing, DownIsListed, NextDown
  PROVE  \/ cmd' = None /\ Todo = {}
         \/ /\ cmd' \in Commands /\ ~Idle' /\ cmd'.op = "downall" /\ cmd.op = "downall"
            /\ cmd'.pc = "close" /\ cmd'.todo \in Seq(Kind)
            /\ \A kind \in Todo : kind \in Todo' \/ kind = cmd'.kind
<1>1. cmd.op \in {"down", "downall"} /\ cmd.todo \in Seq(Kind)
      /\ (cmd.op = "down" => cmd.todo = <<>>)
  BY DEF Closing, ClosingDown, At, DownIsListed
<1>2. CASE cmd.todo = <<>>
  BY <1>2 DEF NextDown, Return, Todo
<1>3. CASE cmd.todo # <<>>
  <2>1. Head(cmd.todo) \in Kind /\ Tail(cmd.todo) \in Seq(Kind)
    BY <1>1, <1>3
  <2>2. cmd' = [op |-> "downall", kind |-> Head(cmd.todo), pc |-> "close", stopped |-> FALSE,
                todo |-> Tail(cmd.todo)]
    BY <1>3 DEF NextDown, Command
  <2>3. cmd' \in Commands /\ ~Idle' /\ cmd'.op = "downall" /\ cmd'.pc = "close"
        /\ cmd'.kind = Head(cmd.todo) /\ cmd'.todo = Tail(cmd.todo)
    BY <2>1, <2>2, CommandFacts
  <2>4. ASSUME NEW kind \in Todo PROVE kind \in Todo' \/ kind = cmd'.kind
    <3>1. PICK i \in 1..Len(cmd.todo) : kind = cmd.todo[i]
      BY DEF Todo
    <3>2. CASE i = 1
      BY <1>1, <1>3, <2>3, <3>1, <3>2
    <3>3. CASE i # 1
      <4>1. i - 1 \in 1..Len(Tail(cmd.todo))
        BY <1>1, <1>3, <3>3
      <4>2. Tail(cmd.todo)[i - 1] = cmd.todo[(i - 1) + 1]
        BY <1>1, <1>3, <4>1, HeadTailProperties
      <4>3. (i - 1) + 1 = i
        BY <1>1
      <4> QED  BY <2>3, <3>1, <4>1, <4>2, <4>3 DEF Todo
    <3> QED  BY <3>2, <3>3
  <2> QED  BY <1>1, <1>3, <2>1, <2>3, <2>4
<1> QED  BY <1>2, <1>3

\* A step of tunnel.Down that ends in an error: nothing has changed but the
\* command, and what `down` was to put back is still on record.
LEMMA DownFailsKeeps ==
  ASSUME Inv, At({"up", "down", "downall"}, "close") \/ Removing, DownFails,
         ClosingDown /\ cmd.stopped = TRUE => Recorded(cmd.kind),
         UNCHANGED <<record, legacy, stack, ssh, owed, repointed, mishaps>>
  PROVE  Inv'
<1>1. ~Idle /\ cmd \in Commands /\ cmd.op \in {"up", "down", "downall"} /\ cmd.kind \in Kind
      /\ cmd.pc \in {"close", "unlink", "retire"}
  BY RunningType DEF Inv, At, Removing, Unlinked
<1>2. OldFileRetired'
  BY DEF Inv, OldFileRetired
<1>3. AliveIsKnown'
  BY <1>1, SameFiles DEF Inv, AliveIsKnown, InHand, At, Alive, Files
<1>4. CASE cmd.op = "up"
  <2>1. /\ cmd' \in Commands /\ ~Idle' /\ cmd'.op = "up" /\ cmd'.pc = "fail"
        /\ cmd'.kind = cmd.kind /\ cmd'.stopped = cmd.stopped
    BY <1>1, <1>4, GotoFacts DEF DownFails, Place
  <2>2. TypeOK'
    BY <2>1 DEF Inv, TypeOK
  <2>3. Opening /\ Opening'
    BY <1>1, <1>4, <2>1 DEF Opening, At
  <2>4. OwedIsKnown' /\ OpeningOwesNothing'
    BY <1>1, <1>4, <2>1, <2>3, SameFiles DEF Inv, OwedIsKnown, OpeningOwesNothing, WillRestore,
       At, Files
  <2>5. ClosedIsUnrecorded' /\ HandIsFull' /\ RemovedIsSilent'
    BY <2>1 DEF ClosedIsUnrecorded, HandIsFull, RemovedIsSilent, Closed, Unlinked, Removing, At
  <2>6. ClosingKnows' /\ DownIsListed'
    BY <2>1 DEF ClosingKnows, DownIsListed, Closing, ClosingDown, At
  <2> QED  BY <1>2, <1>3, <2>2, <2>4, <2>5, <2>6 DEF Inv
<1>5. CASE cmd.op # "up"
  <2>1. cmd' = Failed /\ Idle'
    BY <1>5 DEF DownFails, Fails, Idle
  <2>2. TypeOK'
    BY <2>1 DEF Inv, TypeOK
  <2>3. OwedIsKnown'
    <3>1. SUFFICES ASSUME "killed" \notin mishaps, NEW other \in Kind, owed[other] = TRUE,
                          other \notin repointed
                   PROVE  Recorded(other)
      BY SameFiles DEF OwedIsKnown, Files
    <3>2. Recorded(other) \/ WillRestore(other)
      BY <3>1 DEF Inv, OwedIsKnown
    <3>3. CASE WillRestore(other)
      <4>1. ClosingDown /\ cmd.stopped = TRUE /\ cmd.kind = other
        BY <1>1, <1>5, <3>3 DEF WillRestore, Opening, Closed, At
      <4> QED  BY <4>1
    <3> QED  BY <3>2, <3>3
  <2> QED  BY <1>2, <1>3, <2>1, <2>2, <2>3, IdleAfter
<1> QED  BY <1>4, <1>5

LEMMA CloseKeeps ==
  ASSUME Inv, Close PROVE Inv'
<1>1. PICK kind \in Kind :
        /\ ~Idle /\ cmd \in Commands /\ cmd.op \in {"up", "down", "downall"} /\ cmd.pc = "close"
        /\ cmd.kind = kind /\ cmd.stopped \in BOOLEAN
        /\ UNCHANGED <<record, legacy, stack, owed, repointed, mishaps>>
  BY RunningType DEF Close, At, Inv
<1>2. CASE DownFails /\ UNCHANGED ssh
  <2>1. At({"up", "down", "downall"}, "close") /\ ~ClosingDown
    BY <1>1 DEF At, ClosingDown
  <2> QED  BY <1>1, <1>2, <2>1, DownFailsKeeps
<1>3. CASE /\ ssh' = Terminated(kind)
           /\ cmd' = [cmd EXCEPT !.pc = "unlink",
                                 !.stopped = IF cmd.op = "up" THEN @
                                             ELSE IsUp(kind) /\ Get(kind).localStopped]
  <2>1. IsUp(kind) => Get(kind).localStopped \in BOOLEAN
    BY DEF IsUp, State
  <2>2. PICK back \in BOOLEAN :
          back = (IF cmd.op = "up" THEN cmd.stopped ELSE IsUp(kind) /\ Get(kind).localStopped)
    BY <1>1, <2>1
  <2>3. /\ cmd' \in Commands /\ cmd'.op = cmd.op /\ cmd'.pc = "unlink"
        /\ cmd'.kind = kind /\ cmd'.todo = cmd.todo /\ cmd'.stopped = back
    BY <1>1, <1>3, <2>2 DEF Commands
  <2>4. ~Idle'
    BY <2>3, NoneAssumption DEF Idle
  <2>5. /\ cmd.op = "up" => cmd'.stopped = cmd.stopped
        /\ cmd.op # "up" => (cmd'.stopped = TRUE <=> Recorded(kind))
    BY <2>1, <2>2, <2>3 DEF Recorded
  <2>6. ssh' \in Processes
        /\ \A p \in Pid : Alive(p)' => Alive(p) /\ ~(IsUp(kind) /\ Get(kind).pid = p)
    BY <1>3, TerminatedFacts DEF Inv
  <2>7. TypeOK'
    BY <1>1, <2>3, <2>6 DEF Inv, TypeOK, Processes
  <2>8. OldFileRetired' /\ HandIsFull' /\ ClosedIsUnrecorded'
    BY <1>1, <2>3 DEF Inv, OldFileRetired, HandIsFull, ClosedIsUnrecorded, Closed, Unlinked, At
  <2>9. AliveIsKnown'
    BY <1>1, <2>6, SameFiles DEF Inv, AliveIsKnown, InHand, At, Files
  <2>10. RemovedIsSilent'
    BY <1>1, <2>3, <2>6, SameFiles DEF RemovedIsSilent, Files
  <2>11. OwedIsKnown'
    <3>1. SUFFICES ASSUME "killed" \notin mishaps, NEW other \in Kind, owed[other] = TRUE,
                          other \notin repointed
                   PROVE  Recorded(other) \/ WillRestore(other)'
      BY <1>1, SameFiles DEF OwedIsKnown, Files
    <3>2. Recorded(other) \/ WillRestore(other)
      BY <3>1 DEF Inv, OwedIsKnown
    <3>3. CASE WillRestore(other)
      <4>1. cmd.op = "up" /\ cmd.stopped = TRUE /\ kind = other
        BY <1>1, <3>3 DEF WillRestore, Opening, Closed, ClosingDown, At
      <4> QED  BY <2>3, <2>4, <2>5, <4>1 DEF WillRestore, Opening, At
    <3> QED  BY <3>2, <3>3
  <2>12. OpeningOwesNothing'
    BY <1>1, <2>3, <2>5 DEF Inv, OpeningOwesNothing, Opening, Closed, At
  <2>13. ClosingKnows'
    BY <1>1, <2>3, <2>5, SameFiles DEF ClosingKnows, At, Files
  <2>14. DownIsListed'
    <3>1. SUFFICES ASSUME cmd.op # "up" PROVE DownIsListed'
      BY <2>3 DEF DownIsListed, Closing, ClosingDown, At
    <3>2. Closing /\ Todo' = Todo
      BY <1>1, <2>3, <3>1 DEF Closing, At, Todo
    <3> QED  BY <1>1, <2>3, <3>1, <3>2, SameFiles DEF Inv, DownIsListed, Files
  <2> QED  BY <2>7, <2>8, <2>9, <2>10, <2>11, <2>12, <2>13, <2>14 DEF Inv
<1> QED  BY <1>1, <1>2, <1>3 DEF Close

\* What follows tunnel.Down: the target is tried, the stack is put back, or the
\* next tunnel is closed.
LEMMA DownedFacts ==
  ASSUME Inv, Removing, Downed
  PROVE  \/ /\ cmd' \in Commands /\ ~Idle' /\ cmd.op = "up" /\ cmd'.op = "up"
            /\ cmd'.pc = "reach" /\ cmd'.kind = cmd.kind /\ cmd'.stopped = cmd.stopped
         \/ /\ cmd' \in Commands /\ ~Idle' /\ cmd.op \in {"down", "downall"}
            /\ cmd'.op = cmd.op /\ cmd'.pc = "restore" /\ cmd'.kind = cmd.kind
            /\ cmd'.todo = cmd.todo
         \/ cmd.op # "up" /\ cmd.stopped # TRUE /\ cmd' = None /\ Todo = {}
         \/ /\ cmd.stopped # TRUE /\ cmd' \in Commands /\ ~Idle'
            /\ cmd'.op = "downall" /\ cmd.op = "downall"
            /\ cmd'.pc = "close" /\ cmd'.todo \in Seq(Kind)
            /\ \A kind \in Todo : kind \in Todo' \/ kind = cmd'.kind
<1>1. ~Idle /\ cmd \in Commands /\ cmd.op \in {"up", "down", "downall"} /\ cmd.stopped \in BOOLEAN
      /\ cmd.pc \in {"unlink", "retire"}
  BY RunningType DEF Inv, At, Removing, Unlinked
<1>2. CASE cmd.op = "up"
  BY <1>1, <1>2, GotoFacts DEF Downed, Place
<1>3. CASE cmd.op # "up" /\ cmd.stopped
  BY <1>1, <1>3, GotoFacts DEF Downed, Place
<1>4. CASE cmd.op # "up" /\ ~cmd.stopped
  <2>1. NextDown /\ Closing
    BY <1>1, <1>4 DEF Downed, Closing, ClosingDown, At
  <2> QED  BY <1>4, <2>1, NextDownFacts DEF Inv
<1> QED  BY <1>1, <1>2, <1>3, <1>4

\* The kind's last file is gone, and tunnel.Down is over.
LEMMA DownedKeeps ==
  ASSUME Inv, Removing, Downed, OldFileRetired',
         record' \in [Kind -> State \cup {None, Torn}], legacy' \in State \cup {None, Torn},
         record'[cmd.kind] = None, cmd.kind = "ollama" => legacy' = None,
         \A other \in Kind \ {cmd.kind} : Get(other)' = Get(other),
         UNCHANGED <<stack, ssh, owed, repointed, mishaps>>
  PROVE  Inv'
<1>1. PICK kind \in Kind :
        /\ ~Idle /\ cmd \in Commands /\ cmd.op \in {"up", "down", "downall"}
        /\ cmd.pc \in {"unlink", "retire"} /\ cmd.kind = kind
  BY RunningType DEF Inv, At, Removing, Unlinked
<1>2. Get(kind)' = None /\ \A other \in Kind \ {kind} : Get(other)' = Get(other)
  BY <1>1 DEF Get
<1>3. TypeOK' /\ (cmd' = None => Idle')
  BY DownedFacts DEF Inv, TypeOK, Idle
<1>4. AliveIsKnown'
  <2>1. SUFFICES ASSUME mishaps = {}, NEW p \in Pid, Alive(p)
                 PROVE  OnRecord(p)'
    BY DEF AliveIsKnown, Alive
  <2>2. OnRecord(p) /\ ~(IsUp(kind) /\ Get(kind).pid = p)
    BY <1>1, <2>1 DEF Inv, AliveIsKnown, InHand, At, RemovedIsSilent
  <2> QED  BY <1>2, <2>2 DEF OnRecord, IsUp
<1>5. \A other \in Kind \ {kind} : Recorded(other)' <=> Recorded(other)
  BY <1>2 DEF Recorded, IsUp
<1>6. "killed" \notin mishaps =>
        \A other \in Kind : owed[other] = TRUE /\ other \notin repointed =>
          IF other = kind THEN cmd.stopped = TRUE ELSE Recorded(other)
  <2>1. SUFFICES ASSUME "killed" \notin mishaps, NEW other \in Kind, owed[other] = TRUE,
                        other \notin repointed
                 PROVE  IF other = kind THEN cmd.stopped = TRUE ELSE Recorded(other)
    OBVIOUS
  <2>2. Recorded(other) \/ WillRestore(other)
    BY <2>1 DEF Inv, OwedIsKnown
  <2>3. WillRestore(other) => other = kind /\ cmd.stopped = TRUE
    BY <1>1 DEF WillRestore, At
  <2>4. CASE other = kind /\ cmd.op = "up"
    BY <1>1, <2>1, <2>4 DEF Inv, OpeningOwesNothing, Opening, At
  <2>5. CASE other = kind /\ cmd.op # "up" /\ Recorded(other)
    <3>1. cmd.pc = "retire" => legacy # None
      BY <1>1, <2>5, NoneAssumption DEF Inv, ClosedIsUnrecorded, Unlinked, At, Recorded, IsUp, Get
    <3> QED  BY <1>1, <2>5, <3>1 DEF Inv, ClosingKnows, At
  <2> QED  BY <2>2, <2>3, <2>4, <2>5
<1>7. CASE /\ cmd' \in Commands /\ ~Idle' /\ cmd.op = "up" /\ cmd'.op = "up"
           /\ cmd'.pc = "reach" /\ cmd'.kind = cmd.kind /\ cmd'.stopped = cmd.stopped
  <2>1. OwedIsKnown'
    BY <1>1, <1>5, <1>6, <1>7 DEF OwedIsKnown, WillRestore, Opening, Closed, At
  <2>2. OpeningOwesNothing'
    BY <1>1, <1>7 DEF Inv, OpeningOwesNothing, Opening, Closed, At
  <2>3. ClosedIsUnrecorded' /\ HandIsFull' /\ RemovedIsSilent'
    BY <1>7 DEF ClosedIsUnrecorded, HandIsFull, RemovedIsSilent, Closed, Unlinked, Removing, At
  <2>4. ClosingKnows' /\ DownIsListed'
    BY <1>7 DEF ClosingKnows, DownIsListed, Closing, ClosingDown, At
  <2> QED  BY <1>3, <1>4, <2>1, <2>2, <2>3, <2>4 DEF Inv
<1>8. ASSUME cmd.op # "up"
      PROVE  /\ Closing /\ cmd.todo \in Seq(Kind) /\ (cmd.op = "down" => cmd.todo = <<>>)
             /\ cmd.op = "downall" => \A other \in Kind : Get(other)' # None => other \in Todo
  <2>1. Closing
    BY <1>1, <1>8 DEF Closing, ClosingDown, At
  <2> QED  BY <1>1, <1>2, <2>1 DEF Inv, DownIsListed
<1>9. CASE /\ cmd' \in Commands /\ ~Idle' /\ cmd.op \in {"down", "downall"}
           /\ cmd'.op = cmd.op /\ cmd'.pc = "restore" /\ cmd'.kind = cmd.kind
           /\ cmd'.todo = cmd.todo
  <2>1. OwedIsKnown'
    BY <1>1, <1>5, <1>6, <1>9 DEF OwedIsKnown, WillRestore, At
  <2>2. Todo' = Todo
    BY <1>9 DEF Todo
  <2>3. DownIsListed'
    BY <1>8, <1>9, <2>2 DEF DownIsListed
  <2>4. ClosedIsUnrecorded' /\ HandIsFull' /\ RemovedIsSilent'
    BY <1>9 DEF ClosedIsUnrecorded, HandIsFull, RemovedIsSilent, Closed, Unlinked, Removing, At
  <2>5. OpeningOwesNothing' /\ ClosingKnows'
    BY <1>9 DEF OpeningOwesNothing, ClosingKnows, Opening, Closed, At
  <2> QED  BY <1>3, <1>4, <2>1, <2>3, <2>4, <2>5 DEF Inv
<1>10. CASE cmd.op # "up" /\ cmd.stopped # TRUE /\ cmd' = None /\ Todo = {}
  <2>1. OwedIsKnown'
    BY <1>5, <1>6, <1>10 DEF OwedIsKnown
  <2> QED  BY <1>3, <1>4, <1>10, <2>1, IdleAfter
<1>11. CASE /\ cmd.stopped # TRUE /\ cmd' \in Commands /\ ~Idle'
            /\ cmd'.op = "downall" /\ cmd.op = "downall"
            /\ cmd'.pc = "close" /\ cmd'.todo \in Seq(Kind)
            /\ \A other \in Todo : other \in Todo' \/ other = cmd'.kind
  <2>1. OwedIsKnown'
    BY <1>5, <1>6, <1>11 DEF OwedIsKnown
  <2>2. DownIsListed'
    BY <1>8, <1>11 DEF DownIsListed
  <2>3. ClosedIsUnrecorded' /\ HandIsFull' /\ RemovedIsSilent'
    BY <1>11 DEF ClosedIsUnrecorded, HandIsFull, RemovedIsSilent, Closed, Unlinked, Removing, At
  <2>4. OpeningOwesNothing' /\ ClosingKnows'
    BY <1>11 DEF OpeningOwesNothing, ClosingKnows, Opening, Closed, At
  <2> QED  BY <1>3, <1>4, <2>1, <2>2, <2>3, <2>4 DEF Inv
<1> QED  BY <1>7, <1>9, <1>10, <1>11, DownedFacts

\* The old file is next: what it says, nobody else says, and it says nothing of
\* a process that lives.
LEMMA ToRetireKeeps ==
  ASSUME Inv, At({"up", "down", "downall"}, "unlink"), cmd.kind = "ollama", Goto("retire"),
         record' = [record EXCEPT !["ollama"] = None],
         UNCHANGED <<legacy, stack, ssh, owed, repointed, mishaps>>
  PROVE  Inv'
<1>1. ~Idle /\ cmd \in Commands /\ cmd.op \in {"up", "down", "downall"} /\ cmd.pc = "unlink"
      /\ Removing /\ "ollama" \in Kind
  BY RunningType, KindIs DEF Inv, At, Removing
<1>2. /\ cmd' \in Commands /\ ~Idle' /\ cmd'.pc = "retire" /\ cmd'.op = cmd.op
      /\ cmd'.kind = "ollama" /\ cmd'.stopped = cmd.stopped /\ cmd'.todo = cmd.todo
  BY <1>1, GotoFacts DEF Place
<1>3. /\ record' \in [Kind -> State \cup {None, Torn}] /\ record'["ollama"] = None
      /\ \A other \in Kind \ {"ollama"} : record'[other] = record[other]
  BY <1>1 DEF Inv, TypeOK
<1>4. TypeOK' /\ OldFileRetired'
  BY <1>2, <1>3 DEF Inv, TypeOK, OldFileRetired
<1>5. legacy # None => record' = record
  BY <1>1, <1>3 DEF Inv, TypeOK, OldFileRetired
<1>6. /\ \A other \in Kind \ {"ollama"} : Get(other)' = Get(other)
      /\ IsUp("ollama")' => IsUp("ollama") /\ Get("ollama")' = Get("ollama")
      /\ Get("ollama")' # None => Get("ollama") # None
  <2>1. \A other \in Kind \ {"ollama"} : Get(other)' = Get(other)
    BY <1>3 DEF Get
  <2>2. CASE legacy # None
    <3>1. Get("ollama")' = Get("ollama")
      BY <1>5, <2>2 DEF Get
    <3> QED  BY <2>1, <3>1 DEF IsUp
  <2>3. CASE legacy = None
    <3>1. Get("ollama")' = None
      BY <1>3, <2>3 DEF Get
    <3> QED  BY <2>1, <3>1, NoneAssumption DEF IsUp
  <2> QED  BY <2>2, <2>3
<1>7. RemovedIsSilent'
  <2>1. \A p \in Pid : Alive(p) => ~(IsUp("ollama") /\ Get("ollama").pid = p)
    BY <1>1 DEF Inv, RemovedIsSilent
  <2> QED  BY <1>2, <1>6, <2>1 DEF RemovedIsSilent, Alive
<1>8. AliveIsKnown'
  <2>1. SUFFICES ASSUME mishaps = {}, NEW p \in Pid, Alive(p)
                 PROVE  OnRecord(p)'
    BY DEF AliveIsKnown, Alive
  <2>2. OnRecord(p) /\ ~(IsUp("ollama") /\ Get("ollama").pid = p)
    BY <1>1, <2>1 DEF Inv, AliveIsKnown, InHand, At, RemovedIsSilent
  <2> QED  BY <1>6, <2>2 DEF OnRecord, IsUp
<1>9. OwedIsKnown'
  <2>1. SUFFICES ASSUME "killed" \notin mishaps, NEW other \in Kind, owed[other] = TRUE,
                        other \notin repointed
                 PROVE  Recorded(other)' \/ WillRestore(other)'
    BY DEF OwedIsKnown
  <2>2. Recorded(other) \/ WillRestore(other)
    BY <2>1 DEF Inv, OwedIsKnown
  <2>3. CASE other # "ollama"
    <3>1. Recorded(other)
      BY <2>2, <2>3 DEF WillRestore
    <3> QED  BY <1>6, <2>3, <3>1 DEF Recorded, IsUp
  <2>4. CASE other = "ollama"
    <3>1. cmd.stopped = TRUE
      BY <1>1, <2>1, <2>2, <2>4 DEF Inv, OpeningOwesNothing, Opening, ClosingKnows, WillRestore, At
    <3> QED  BY <1>1, <1>2, <2>4, <3>1 DEF WillRestore, Opening, ClosingDown, At
  <2> QED  BY <2>3, <2>4
<1>10. OpeningOwesNothing'
  BY <1>1, <1>2 DEF Inv, OpeningOwesNothing, Opening, Closed, At
<1>11. ClosingKnows'
  <2>1. SUFFICES ASSUME legacy # None, cmd.op # "up"
                 PROVE  cmd.stopped = TRUE <=> Recorded("ollama")'
    BY <1>1, <1>2 DEF ClosingKnows, At
  <2>2. Recorded("ollama")' <=> Recorded("ollama")
    BY <1>5, <2>1, SameFiles DEF Files
  <2> QED  BY <1>1, <2>1, <2>2 DEF Inv, ClosingKnows, At
<1>12. ClosedIsUnrecorded' /\ HandIsFull'
  BY <1>2, <1>3 DEF ClosedIsUnrecorded, HandIsFull, Closed, At
<1>13. DownIsListed'
  <2>1. SUFFICES ASSUME cmd.op # "up" PROVE DownIsListed'
    BY <1>2 DEF DownIsListed, Closing, ClosingDown, At
  <2>2. Closing /\ Todo' = Todo
    BY <1>1, <1>2, <2>1 DEF Closing, ClosingDown, At, Todo
  <2>3. \A other \in Kind : Get(other)' # None => Get(other) # None
    BY <1>6
  <2> QED  BY <1>1, <1>2, <2>2, <2>3 DEF Inv, DownIsListed
<1> QED  BY <1>4, <1>7, <1>8, <1>9, <1>10, <1>11, <1>12, <1>13 DEF Inv

LEMMA UnlinkKeeps ==
  ASSUME Inv, Unlink PROVE Inv'
<1>1. PICK kind \in Kind :
        /\ ~Idle /\ cmd.op \in {"up", "down", "downall"} /\ cmd.pc = "unlink" /\ cmd.kind = kind
        /\ At({"up", "down", "downall"}, "unlink") /\ Removing
        /\ UNCHANGED <<legacy, stack, ssh, owed, repointed, mishaps>>
  BY RunningType DEF Unlink, At, Removing, Inv
<1>2. CASE UNCHANGED record /\ DownFails
  <2>1. ClosingDown /\ cmd.stopped = TRUE => Recorded(cmd.kind)
    BY <1>1 DEF Inv, ClosingKnows, ClosingDown, At
  <2> QED  BY <1>1, <1>2, <2>1, DownFailsKeeps
<1>3. CASE record' = [record EXCEPT ![kind] = None] /\ kind = "ollama" /\ Goto("retire")
  BY <1>1, <1>3, ToRetireKeeps
<1>4. CASE record' = [record EXCEPT ![kind] = None] /\ kind # "ollama" /\ Downed
  <2>1. /\ record' \in [Kind -> State \cup {None, Torn}] /\ record'[kind] = None
        /\ \A other \in Kind \ {kind} : record'[other] = record[other]
    BY <1>4 DEF Inv, TypeOK
  <2>2. OldFileRetired' /\ \A other \in Kind \ {kind} : Get(other)' = Get(other)
    BY <1>1, <1>4, <2>1, KindIs DEF Inv, OldFileRetired, Get
  <2>3. legacy' \in State \cup {None, Torn}
    BY <1>1 DEF Inv, TypeOK
  <2> QED  BY <1>1, <1>4, <2>1, <2>2, <2>3, DownedKeeps
<1> QED  BY <1>1, <1>2, <1>3, <1>4 DEF Unlink

LEMMA RetireKeeps ==
  ASSUME Inv, Retire PROVE Inv'
<1>1. /\ ~Idle /\ cmd.op \in {"up", "down", "downall"} /\ cmd.pc = "retire"
      /\ cmd.kind = "ollama" /\ record["ollama"] = None /\ Removing
      /\ UNCHANGED <<record, stack, ssh, owed, repointed, mishaps>>
  BY DEF Retire, At, Removing, Unlinked, Inv, ClosedIsUnrecorded
<1>2. CASE legacy # None /\ UNCHANGED legacy /\ DownFails
  <2>1. ClosingDown /\ cmd.stopped = TRUE => Recorded(cmd.kind)
    BY <1>1, <1>2 DEF Inv, ClosingKnows, ClosingDown, At
  <2> QED  BY <1>1, <1>2, <2>1, DownFailsKeeps
<1>3. CASE legacy' = None /\ Downed
  <2>1. OldFileRetired' /\ \A other \in Kind \ {"ollama"} : Get(other)' = Get(other)
    BY <1>1, <1>3 DEF OldFileRetired, Get
  <2>2. record' \in [Kind -> State \cup {None, Torn}] /\ legacy' \in State \cup {None, Torn}
    BY <1>1, <1>3 DEF Inv, TypeOK
  <2> QED  BY <1>1, <1>3, <2>1, <2>2, DownedKeeps
<1> QED  BY <1>2, <1>3 DEF Retire

\* Whether the stack came back or not, it is not owed any more.
LEMMA RestoreAfterDownFacts ==
  ASSUME Inv, RestoreAfterDown
  PROVE  \/ cmd' = None /\ Todo = {}
         \/ cmd' = Failed
         \/ /\ cmd' \in Commands /\ ~Idle' /\ cmd'.op = "downall" /\ cmd.op = "downall"
            /\ cmd'.pc = "close" /\ cmd'.todo \in Seq(Kind)
            /\ \A kind \in Todo : kind \in Todo' \/ kind = cmd'.kind
<1>1. Closing
  BY DEF RestoreAfterDown, At, Closing
<1>2. CASE NextDown
  BY <1>1, <1>2, NextDownFacts DEF Inv
<1>3. CASE Fails
  BY <1>3 DEF Fails
<1> QED  BY <1>2, <1>3 DEF RestoreAfterDown

LEMMA RestoreAfterDownKeeps ==
  ASSUME Inv, RestoreAfterDown PROVE Inv'
<1>1. PICK kind \in Kind :
        /\ cmd.kind = kind /\ RestoreLocal(kind) /\ UNCHANGED <<record, legacy, ssh, mishaps>>
        /\ ~Idle /\ Closing /\ cmd.pc = "restore" /\ cmd.op \in {"down", "downall"}
  BY RunningType DEF RestoreAfterDown, At, Closing, Inv
<1>2. /\ stack' \in [Kind -> {"running", "stopped", "absent"}]
      /\ owed' = [owed EXCEPT ![kind] = FALSE] /\ owed' \in [Kind -> BOOLEAN]
      /\ repointed' = repointed \ {kind}
  BY <1>1, RestoreFacts DEF Inv
<1>3. TypeOK' /\ (cmd' \in {None, Failed} => Idle')
  BY <1>1, <1>2, RestoreAfterDownFacts DEF Inv, TypeOK, Idle
<1>4. OwedIsKnown'
  <2>1. SUFFICES ASSUME "killed" \notin mishaps, NEW other \in Kind, owed'[other] = TRUE,
                        other \notin repointed'
                 PROVE  Recorded(other)
    BY <1>1, SameFiles DEF OwedIsKnown, Files
  <2>2. other # kind /\ owed[other] = TRUE /\ other \notin repointed
    BY <1>2, <2>1 DEF Inv, TypeOK
  <2> QED  BY <1>1, <2>1, <2>2 DEF Inv, OwedIsKnown, WillRestore
<1>5. AliveIsKnown'
  BY <1>1, SameFiles DEF Inv, AliveIsKnown, InHand, At, Alive, Files
<1>6. OldFileRetired'
  BY <1>1 DEF Inv, OldFileRetired
<1>7. CASE cmd' \in {None, Failed}
  BY <1>3, <1>4, <1>5, <1>6, <1>7, IdleAfter
<1>8. CASE /\ cmd' \in Commands /\ ~Idle' /\ cmd'.op = "downall" /\ cmd.op = "downall"
           /\ cmd'.pc = "close" /\ cmd'.todo \in Seq(Kind)
           /\ \A other \in Todo : other \in Todo' \/ other = cmd'.kind
  <2>1. \A other \in Kind : Get(other) # None => other \in Todo
    BY <1>1, <1>8 DEF Inv, DownIsListed
  <2>2. \A other \in Kind : Get(other)' = Get(other)
    BY <1>1, SameFiles DEF Files
  <2>3. DownIsListed'
    BY <1>8, <2>1, <2>2 DEF DownIsListed
  <2>4. ClosedIsUnrecorded' /\ HandIsFull' /\ RemovedIsSilent'
    BY <1>8 DEF ClosedIsUnrecorded, HandIsFull, RemovedIsSilent, Closed, Unlinked, Removing, At
  <2>5. OpeningOwesNothing' /\ ClosingKnows'
    BY <1>8 DEF OpeningOwesNothing, ClosingKnows, Opening, Closed, At
  <2> QED  BY <1>3, <1>4, <1>5, <1>6, <2>3, <2>4, <2>5 DEF Inv
<1> QED  BY <1>7, <1>8, RestoreAfterDownFacts

\* A command that is killed excuses every other part; the old file is gone before
\* a new one is begun, so that one cut short does not stand beside it.
LEMMA KilledKeeps ==
  ASSUME Inv, Killed PROVE Inv'
<1>1. cmd' = Failed /\ mishaps' = mishaps \cup {"killed"} /\ ~Idle
      /\ UNCHANGED <<legacy, stack, ssh, owed, repointed>>
  BY DEF Killed, Fails
<1>2. record' \in [Kind -> State \cup {None, Torn}] /\ OldFileRetired'
  <2>1. CASE UNCHANGED record
    BY <1>1, <2>1 DEF Inv, TypeOK, OldFileRetired
  <2>2. CASE At({"up"}, "save") /\ record' = [record EXCEPT ![cmd.kind] = Torn]
    <3>1. cmd.kind \in Kind /\ (cmd.kind = "ollama" => legacy = None)
      BY <1>1, <2>2, RunningType DEF Inv, ClosedIsUnrecorded, Closed
    <3> QED  BY <1>1, <2>2, <3>1, KindIs DEF Inv, TypeOK, OldFileRetired
  <2> QED  BY <2>1, <2>2 DEF Killed
<1>3. TypeOK' /\ Idle'
  BY <1>1, <1>2 DEF Inv, TypeOK, Idle
<1>4. AliveIsKnown' /\ OwedIsKnown'
  BY <1>1 DEF AliveIsKnown, OwedIsKnown
<1> QED  BY <1>2, <1>3, <1>4, IdleAfter

----
(* The invariant, and what follows from it.                                *)

LEMMA Start == Init => Inv
<1>1. SUFFICES ASSUME Init PROVE Inv
  OBVIOUS
<1>2. /\ record = [kind \in Kind |-> None] /\ cmd = None /\ owed = [kind \in Kind |-> FALSE]
      /\ repointed = {} /\ mishaps = {} /\ stack \in [Kind -> {"running", "stopped", "absent"}]
  BY <1>1 DEF Init
<1>3. /\ legacy \in State \cup {None, Torn} /\ ssh \in Processes
      /\ \A p \in Pid : Alive(p) => legacy \in State /\ legacy.pid = p
  <2>1. NoSsh \in [port : Kind, phase : {"unused", "connecting", "forwarding", "closing", "gone"}]
        /\ NoSsh.phase = "unused"
    BY KindIs DEF NoSsh
  <2>2. CASE legacy \in {None, Torn} /\ ssh = [p \in Pid |-> NoSsh]
    BY <2>1, <2>2 DEF Alive, Processes
  <2>3. ASSUME NEW p \in Pid, NEW port \in Kind,
               legacy = [pid |-> p, localStopped |-> FALSE],
               ssh = [[q \in Pid |-> NoSsh] EXCEPT ![p] = [port |-> port, phase |-> "forwarding"]]
        PROVE  /\ legacy \in State \cup {None, Torn} /\ ssh \in Processes
               /\ \A q \in Pid : Alive(q) => legacy \in State /\ legacy.pid = q
    <3>1. legacy \in State /\ legacy.pid = p
      BY <2>3 DEF State
    <3>2. ssh \in Processes /\ \A q \in Pid : q # p => ssh[q].phase = "unused"
      BY <2>1, <2>3 DEF Processes
    <3> QED  BY <3>1, <3>2 DEF Alive
  <2> QED  BY <1>1, <2>2, <2>3 DEF Init
<1>4. TypeOK /\ Idle
  BY <1>2, <1>3 DEF TypeOK, Processes, Idle
<1>5. AliveIsKnown
  <2>1. SUFFICES ASSUME NEW p \in Pid, Alive(p) PROVE OnRecord(p)
    BY DEF AliveIsKnown
  <2>2. Get("ollama") = legacy /\ legacy \in State /\ legacy.pid = p
    BY <1>2, <1>3, <2>1, KindIs, NoneAssumption DEF Get
  <2> QED  BY <2>2, KindIs DEF OnRecord, IsUp
<1>6. OldFileRetired /\ OwedIsKnown
  BY <1>2, KindIs DEF OldFileRetired, OwedIsKnown
<1>7. ClosedIsUnrecorded /\ HandIsFull /\ RemovedIsSilent
  BY <1>4 DEF ClosedIsUnrecorded, HandIsFull, RemovedIsSilent, Closed, Unlinked, Removing, At
<1>8. OpeningOwesNothing /\ ClosingKnows /\ DownIsListed
  BY <1>4 DEF OpeningOwesNothing, ClosingKnows, DownIsListed, Opening, Closed, Closing, ClosingDown, At
<1> QED  BY <1>4, <1>5, <1>6, <1>7, <1>8 DEF Inv

LEMMA StepKeeps == Inv /\ [Next]_vars => Inv'
<1>1. SUFFICES ASSUME Inv, [Next]_vars PROVE Inv'
  OBVIOUS
<1>2. CASE UNCHANGED vars
  <2>1. UNCHANGED <<record, legacy, stack, ssh, cmd, owed, repointed, mishaps>>
    BY <1>2 DEF vars
  <2>2. TypeOK' /\ OldFileRetired' /\ HandIsFull' /\ ClosedIsUnrecorded'
    BY <1>1, <2>1 DEF Inv, TypeOK, OldFileRetired, HandIsFull, ClosedIsUnrecorded, Closed, Unlinked,
       At, Idle
  <2>3. AliveIsKnown' /\ RemovedIsSilent'
    BY <1>1, <2>1, SameFiles DEF Inv, AliveIsKnown, RemovedIsSilent, InHand, Removing, Unlinked, At,
       Idle, Alive, Files
  <2>4. OwedIsKnown' /\ ClosingKnows'
    BY <1>1, <2>1, SameFiles DEF Inv, OwedIsKnown, ClosingKnows, WillRestore, Opening, Closed,
       ClosingDown, At, Idle, Files
  <2>5. OpeningOwesNothing'
    BY <1>1, <2>1 DEF Inv, OpeningOwesNothing, Opening, Closed, At, Idle
  <2>6. DownIsListed'
    BY <1>1, <2>1, SameFiles DEF Inv, DownIsListed, Closing, ClosingDown, At, Idle, Todo, Files
  <2> QED  BY <2>2, <2>3, <2>4, <2>5, <2>6 DEF Inv
<1>3. CASE Next
  <2>1. CASE \E kind \in Kind : BeginUp(kind)
    BY <1>1, <2>1, BeginUpKeeps
  <2>2. CASE (\E kind \in Kind : BeginDown(kind)) \/ BeginDownAll
    BY <1>1, <2>2, BeginDownKeeps
  <2>3. CASE StopLocal
    BY <1>1, <2>3, StopLocalKeeps
  <2>4. CASE Close
    BY <1>1, <2>4, CloseKeeps
  <2>5. CASE Unlink
    BY <1>1, <2>5, UnlinkKeeps
  <2>6. CASE Retire
    BY <1>1, <2>6, RetireKeeps
  <2>7. CASE Reach
    BY <1>1, <2>7, ReachKeeps
  <2>8. CASE StartSsh
    BY <1>1, <2>8, StartSshKeeps
  <2>9. CASE Save
    BY <1>1, <2>9, SaveKeeps
  <2>10. CASE SaveFails
    BY <1>1, <2>10, SaveFailsKeeps
  <2>11. CASE UpFails
    BY <1>1, <2>11, UpFailsKeeps
  <2>12. CASE RestoreAfterDown
    BY <1>1, <2>12, RestoreAfterDownKeeps
  <2>13. CASE Killed
    BY <1>1, <2>13, KilledKeeps
  <2>14. CASE \E p \in Pid : SshConnects(p) \/ SshExits(p)
    BY <1>1, <2>14, SshKeeps
  <2>15. CASE \E kind \in Kind : StartStack(kind) \/ StopStack(kind) \/ RemoveStack(kind)
    BY <1>1, <2>15, StackKeeps
  <2> QED  BY <1>3, <2>1, <2>2, <2>3, <2>4, <2>5, <2>6, <2>7, <2>8, <2>9, <2>10, <2>11, <2>12,
              <2>13, <2>14, <2>15 DEF Next, CommandStep
<1> QED  BY <1>1, <1>2, <1>3

\* Whatever the number of processes, and whatever fails or is killed: the files,
\* the processes and the running command agree.
THEOREM Invariance == Spec => []Inv
BY Start, StepKeeps, PTL DEF Spec

\* The files, the processes and the command keep their types.
THEOREM TypeCorrect == Spec => []TypeOK
<1>1. Inv => TypeOK
  BY DEF Inv
<1> QED  BY <1>1, Invariance, PTL

\* The file of the single tunnel of old never stands beside the new one, so that
\* an upgrade neither forgets a tunnel nor resurrects one.
THEOREM OldFileIsRetired == Spec => []OldFileRetired
<1>1. Inv => OldFileRetired
  BY DEF Inv
<1> QED  BY <1>1, Invariance, PTL

\* Between commands, as long as none was killed and every file was written, a
\* live ssh process is on record.
THEOREM NoProcessOrphaned == Spec => []NoOrphan
<1>1. Inv => NoOrphan
  BY DEF Inv, NoOrphan, AliveIsKnown, OnRecord, InHand, At
<1> QED  BY <1>1, Invariance, PTL

\* Between commands, as long as none was killed, a stack that a tunnel stopped is
\* one that closing the tunnel starts again.
THEOREM OwedStaysRecorded == Spec => []OwedIsRecorded
<1>1. ASSUME Inv, Idle, "killed" \notin mishaps, NEW kind \in Kind, owed[kind], kind \notin repointed
      PROVE  IsUp(kind) /\ Get(kind).localStopped
  <2>1. owed[kind] = TRUE
    BY <1>1 DEF Inv, TypeOK
  <2>2. Recorded(kind)
    BY <1>1, <2>1 DEF Inv, OwedIsKnown, WillRestore
  <2> QED  BY <2>2 DEF Recorded
<1>2. Inv => OwedIsRecorded
  BY <1>1 DEF OwedIsRecorded
<1> QED  BY <1>2, Invariance, PTL

\* The last tunnel of the list is off the record, and so are all.
LEMMA DownAllEmptiesRecord ==
  ASSUME Inv, [Next]_vars, DownAllSucceeds
  PROVE  /\ \A kind \in Kind : Get(kind)' = None
         /\ UNCHANGED mishaps
<1>1. /\ ~Idle /\ cmd' = None /\ cmd.op = "downall" /\ cmd \in Commands /\ cmd.kind \in Kind
  BY RunningType DEF DownAllSucceeds, Inv
<1>2. Unlink \/ Retire \/ RestoreAfterDown
  <2>1. Next /\ cmd' # cmd
    BY <1>1 DEF vars, Idle
  <2>2. ~\E k \in Kind : BeginUp(k) \/ BeginDown(k) \/ StartStack(k) \/ StopStack(k) \/ RemoveStack(k)
    BY <1>1 DEF BeginUp, BeginDown, StartStack, StopStack, RemoveStack, SetStack
  <2>3. ~BeginDownAll /\ ~\E p \in Pid : SshConnects(p) \/ SshExits(p)
    BY <1>1, <2>1 DEF BeginDownAll, SshConnects, SshExits, SetPhase
  <2>4. ~(StopLocal \/ Reach \/ StartSsh \/ Save \/ SaveFails \/ UpFails)
    BY <1>1 DEF StopLocal, Reach, StartSsh, Save, SaveFails, UpFails, At
  <2>5. ~Killed
    BY <1>1, NoneAssumption DEF Killed, Fails
  <2>6. ~Close
    <3>1. SUFFICES ASSUME Close PROVE FALSE
      OBVIOUS
    <3>2. ~DownFails
      BY <1>1, NoneAssumption DEF DownFails, Fails
    <3>3. PICK back \in BOOLEAN : cmd' = [cmd EXCEPT !.pc = "unlink", !.stopped = back]
      <4>1. IsUp(cmd.kind) => Get(cmd.kind).localStopped \in BOOLEAN
        BY DEF IsUp, State
      <4> QED  BY <1>1, <3>1, <3>2, <4>1 DEF Close
    <3>4. cmd' \in Commands
      BY <1>1, <3>3 DEF Commands
    <3> QED  BY <1>1, <3>4, NoneAssumption
  <2> QED  BY <2>1, <2>2, <2>3, <2>4, <2>5, <2>6 DEF Next, CommandStep
<1>3. Idle' /\ ~DownFails /\ ~Goto("retire")
  <2>1. Idle' /\ ~DownFails
    BY <1>1, NoneAssumption DEF Idle, DownFails, Fails
  <2> QED  BY <1>1, <2>1, GotoFacts DEF Place
<1>4. CASE Unlink
  <2>1. /\ record' = [record EXCEPT ![cmd.kind] = None] /\ cmd.kind # "ollama" /\ Downed /\ Removing
        /\ UNCHANGED <<legacy, mishaps>>
    BY <1>3, <1>4 DEF Unlink, Removing
  <2>2. PICK kind \in Kind : kind = cmd.kind
    BY <1>1
  <2>4. /\ record'[kind] = None
        /\ \A other \in Kind \ {kind} : record'[other] = record[other]
    BY <2>1, <2>2 DEF Inv, TypeOK
  <2>5. Get(kind)' = None /\ \A other \in Kind \ {kind} : Get(other)' = Get(other)
    BY <2>1, <2>2, <2>4 DEF Get
  <2>3. Todo = {} /\ Closing
    BY <1>1, <1>3, <1>4, <2>1, DownedFacts DEF Closing, ClosingDown, Unlink, At
  <2> QED  BY <1>1, <2>1, <2>2, <2>3, <2>5 DEF Inv, DownIsListed
<1>5. CASE Retire
  <2>1. /\ legacy' = None /\ Downed /\ Removing /\ UNCHANGED <<record, mishaps>>
        /\ cmd.kind = "ollama" /\ record["ollama"] = None
    BY <1>3, <1>5 DEF Retire, Removing, Unlinked, Inv, ClosedIsUnrecorded
  <2>2. Get("ollama")' = None /\ \A other \in Kind \ {"ollama"} : Get(other)' = Get(other)
    BY <2>1 DEF Get
  <2>3. Todo = {} /\ Closing
    BY <1>1, <1>3, <1>5, <2>1, DownedFacts DEF Closing, ClosingDown, Retire, At
  <2> QED  BY <1>1, <2>1, <2>2, <2>3 DEF Inv, DownIsListed
<1>6. CASE RestoreAfterDown
  <2>1. cmd.pc = "restore" /\ UNCHANGED <<record, legacy, mishaps>> /\ Closing
    BY <1>6 DEF RestoreAfterDown, At, Closing
  <2>2. Todo = {}
    BY <1>1, <1>3, <1>6, RestoreAfterDownFacts, NoneAssumption
  <2>3. \A other \in Kind : Get(other) = None
    BY <1>1, <2>1, <2>2 DEF Inv, DownIsListed
  <2> QED  BY <2>1, <2>3, SameFiles DEF Files
<1> QED  BY <1>2, <1>4, <1>5, <1>6

\* Closing all tunnels, when it succeeds, leaves none on record and, when nothing
\* was killed or left unsaved before, no process that serves one.
THEOREM DownAllClosesAll == Spec => DownAllCloses
<1>1. ASSUME Inv, [Next]_vars, DownAllSucceeds
      PROVE  /\ \A kind \in Kind : Get(kind)' = None
             /\ mishaps = {} => \A p \in Pid : ~Alive(p)'
  <2>1. (\A kind \in Kind : Get(kind)' = None) /\ UNCHANGED mishaps
    BY <1>1, DownAllEmptiesRecord
  <2>2. Inv' /\ Idle'
    BY <1>1, StepKeeps DEF DownAllSucceeds, Idle
  <2>3. mishaps = {} => \A p \in Pid : ~Alive(p)'
    BY <2>1, <2>2, NoneAssumption DEF Inv, AliveIsKnown, OnRecord, IsUp, InHand, At
  <2> QED  BY <2>1, <2>3
<1>2. Inv /\ [Next]_vars =>
        [DownAllSucceeds => /\ \A kind \in Kind : Get(kind)' = None
                            /\ mishaps = {} => \A p \in Pid : ~Alive(p)']_vars
  BY <1>1
<1> QED  BY <1>2, Invariance, PTL DEF Spec, DownAllCloses
====
