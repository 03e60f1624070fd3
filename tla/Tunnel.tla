---- MODULE Tunnel ----
(***************************************************************************)
(* The SSH tunnels of `stables` (internal/tunnel/tunnel.go) and the        *)
(* commands that open and close them (internal/cli/cli.go), with what they *)
(* act on: the state files, the local stacks run by docker compose, and    *)
(* the ssh processes that outlive the command that started them.           *)
(*                                                                         *)
(* A forward binds the port its component listens on, so a kind is also a *)
(* port.  Commands run one at a time, each in steps: between two of them   *)
(* an ssh process may connect, die, or finish dying.  Hosts, messages and  *)
(* the Mode field are left out: a state file here is a remote one, because *)
(* no command saves any other.  A file is written in place, so that one    *)
(* whose write was cut short is there and cannot be parsed: torn.          *)
(***************************************************************************)
EXTENDS Naturals, Sequences

CONSTANTS
  Pid,        \* bound: ssh processes started, each id used once
  None,       \* no file; a command that has returned
  Torn,       \* a file that cannot be parsed
  Failed      \* a command that returned an error, or was killed

Kinds == <<"ollama", "tts">>
Kind == {Kinds[i] : i \in 1..Len(Kinds)}

VARIABLES
  record,     \* ~/.stables/tunnels/<kind>
  legacy,     \* ~/.stables/tunnels/current, from before there were kinds
  stack,      \* the local stack of each kind
  ssh,        \* the forwarding processes
  cmd,        \* the command that is running, or how the last one ended
  owed,       \* history: a command stopped the stack, and nobody has started
              \* it, stopped it again or been told that it would not start
  repointed,  \* history: kinds whose tunnel was replaced while owed
  mishaps     \* history: commands killed half way, state files not written

vars == <<record, legacy, stack, ssh, cmd, owed, repointed, mishaps>>

State == [pid : Pid, localStopped : BOOLEAN]
Commands == [op : {"up", "down", "downall"}, kind : Kind,
             pc : {"stop", "close", "unlink", "retire", "reach", "start", "save", "fail", "restore"},
             stopped : BOOLEAN, todo : Seq(Kind \cup Pid)]

ASSUME NoneAssumption ==
  /\ None # Torn /\ None # Failed
  /\ None \notin State /\ Torn \notin State
  /\ None \notin Commands /\ Failed \notin Commands

Alive(p) == ssh[p].phase \in {"connecting", "forwarding"}
HoldsPort(p, kind) == ssh[p].port = kind /\ ssh[p].phase \in {"forwarding", "closing"}
PortFree(kind) == stack[kind] # "running" /\ \A p \in Pid : ~HoldsPort(p, kind)

\* tunnel.Get: the kind's file, or for ollama the file from before kinds.  A torn
\* file is an error; a torn old one is as good as none.
Get(kind) ==
  IF record[kind] # None THEN record[kind]
  ELSE IF kind = "ollama" /\ legacy # Torn THEN legacy ELSE None

IsUp(kind) == Get(kind) \in State

\* tunnel.Active, which fails with the first file that does.
ActiveFails == \E kind \in Kind : Get(kind) = Torn
Listed(kind) == IF IsUp(kind) THEN <<kind>> ELSE <<>>
Active == Listed(Kinds[1]) \o Listed(Kinds[2])

\* Mutant of Terminated: the process is forgotten, not killed.
Forgotten(kind) == ssh

\* SIGTERM: the process is not waited for, and holds its port until it is gone.
Terminated(kind) ==
  [p \in Pid |->
     IF ~IsUp(kind) \/ Get(kind).pid # p \/ ~Alive(p) THEN ssh[p]
     ELSE [ssh[p] EXCEPT !.phase = IF @ = "forwarding" THEN "closing" ELSE "gone"]]

----
(* Commands *)

Command(op, kind, pc, stopped, todo) ==
  [op |-> op, kind |-> kind, pc |-> pc, stopped |-> stopped, todo |-> todo]

Idle == cmd \in {None, Failed}
At(op, pc) == ~Idle /\ cmd.op \in op /\ cmd.pc = pc
Goto(pc) == cmd' = [cmd EXCEPT !.pc = pc]
Return == cmd' = None
Fails == cmd' = Failed

\* `stables <kind> tunnel <target>`
BeginUp(kind) ==
  /\ Idle
  /\ cmd' = Command("up", kind, "stop", FALSE, <<>>)
  /\ repointed' = IF owed[kind] THEN repointed \cup {kind} ELSE repointed
  /\ UNCHANGED <<record, legacy, stack, ssh, owed, mishaps>>

\* stopLocalForPort.  A stack that `compose ps` does not report, stopped or
\* because docker does not answer, counts as not running.
StopLocal ==
  /\ At({"up"}, "stop")
  /\ \/ /\ Goto("close")
        /\ UNCHANGED <<stack, owed, repointed>>
     \/ /\ stack[cmd.kind] = "running"
        /\ stack' = [stack EXCEPT ![cmd.kind] = "stopped"]
        /\ owed' = [owed EXCEPT ![cmd.kind] = TRUE]
        /\ repointed' = repointed \ {cmd.kind}
        /\ cmd' = [cmd EXCEPT !.pc = "close", !.stopped = TRUE]
     \/ /\ stack[cmd.kind] = "running"
        /\ Fails
        /\ UNCHANGED <<stack, owed, repointed>>
  /\ UNCHANGED <<record, legacy, ssh, mishaps>>

\* checkReachable
Reach ==
  /\ At({"up"}, "reach")
  /\ Goto("start") \/ Goto("fail")
  /\ UNCHANGED <<record, legacy, stack, ssh, owed, repointed, mishaps>>

\* sshForward: started and left; whether it will hold the port is not known yet.
StartSsh ==
  /\ At({"up"}, "start")
  /\ \/ \E p \in Pid :
          /\ ssh[p].phase = "unused"
          /\ ssh' = [ssh EXCEPT ![p] = [port |-> cmd.kind, phase |-> "connecting"]]
          /\ cmd' = [cmd EXCEPT !.pc = "save", !.todo = <<p>>]
     \/ /\ Goto("fail")
        /\ UNCHANGED ssh
  /\ UNCHANGED <<record, legacy, stack, owed, repointed, mishaps>>

Save ==
  /\ At({"up"}, "save")
  /\ record' = [record EXCEPT ![cmd.kind] =
                  [pid |-> Head(cmd.todo), localStopped |-> cmd.stopped]]
  /\ Return
  /\ UNCHANGED <<legacy, stack, ssh, owed, repointed, mishaps>>

\* The file cannot be written, or not to its end: the error path, with ssh left
\* running.
SaveFails ==
  /\ At({"up"}, "save")
  /\ record' \in {record, [record EXCEPT ![cmd.kind] = Torn]}
  /\ mishaps' = mishaps \cup {"unsaved"}
  /\ Goto("fail")
  /\ UNCHANGED <<legacy, stack, ssh, owed, repointed>>

\* restoreLocal: `compose up -d`, which needs an install and the port, and may
\* fail anyway.  The user is told when it does.
RestoreLocal(kind) ==
  /\ \/ /\ stack[kind] # "absent" /\ (stack[kind] = "running" \/ PortFree(kind))
        /\ stack' = [stack EXCEPT ![kind] = "running"]
     \/ UNCHANGED stack
  /\ owed' = [owed EXCEPT ![kind] = FALSE]
  /\ repointed' = repointed \ {kind}

\* Mutant of UpFails: the error is reported and nothing is put back.
UpFailsOnly ==
  /\ At({"up"}, "fail")
  /\ Fails
  /\ UNCHANGED <<record, legacy, stack, ssh, owed, repointed, mishaps>>

UpFails ==
  /\ At({"up"}, "fail")
  /\ IF cmd.stopped THEN RestoreLocal(cmd.kind) ELSE UNCHANGED <<stack, owed, repointed>>
  /\ Fails
  /\ UNCHANGED <<record, legacy, ssh, mishaps>>

\* `stables <kind> tunnel down`
BeginDown(kind) ==
  /\ Idle
  /\ cmd' = Command("down", kind, "close", FALSE, <<>>)
  /\ UNCHANGED <<record, legacy, stack, ssh, owed, repointed, mishaps>>

\* `stables tunnel down`: each tunnel that is up, until one fails.  When none is,
\* tunnel.DownAll goes through the kinds, for the files that may be there.
BeginDownAll ==
  /\ Idle
  /\ IF ActiveFails THEN Fails
     ELSE LET list == IF Active = <<>> THEN Kinds ELSE Active IN
          cmd' = Command("downall", Head(list), "close", FALSE, Tail(list))
  /\ UNCHANGED <<record, legacy, stack, ssh, owed, repointed, mishaps>>

\* Mutant of NextDown: the first tunnel only.
FirstDownOnly == Return

NextDown ==
  IF cmd.todo = <<>> THEN Return
  ELSE cmd' = Command("downall", Head(cmd.todo), "close", FALSE, Tail(cmd.todo))

----
(* tunnel.Down: the first part of tunnel.Up, before the target is tried, and *)
(* the whole of `down` but for the stack.  An error is the caller's error.   *)

Downed ==
  IF cmd.op = "up" THEN Goto("reach")
  ELSE IF cmd.stopped THEN Goto("restore") ELSE NextDown

DownFails == IF cmd.op = "up" THEN Goto("fail") ELSE Fails

\* What `down` must put back is read before the file goes.
Close ==
  /\ At({"up", "down", "downall"}, "close")
  /\ \/ /\ Get(cmd.kind) = Torn
        /\ DownFails
        /\ UNCHANGED ssh
     \/ /\ Get(cmd.kind) # Torn
        /\ ssh' = Terminated(cmd.kind)
        /\ cmd' = [cmd EXCEPT !.pc = "unlink",
                              !.stopped = IF cmd.op = "up" THEN @
                                          ELSE IsUp(cmd.kind) /\ Get(cmd.kind).localStopped]
  /\ UNCHANGED <<record, legacy, stack, owed, repointed, mishaps>>

\* The removal of a file that is there may fail.
Unlink ==
  /\ At({"up", "down", "downall"}, "unlink")
  /\ \/ /\ record' = [record EXCEPT ![cmd.kind] = None]
        /\ IF cmd.kind = "ollama" THEN Goto("retire") ELSE Downed
     \/ /\ record[cmd.kind] # None
        /\ DownFails
        /\ UNCHANGED record
  /\ UNCHANGED <<legacy, stack, ssh, owed, repointed, mishaps>>

\* Mutant of Retire: its error is dropped.
RetireUnchecked ==
  /\ At({"up", "down", "downall"}, "retire")
  /\ legacy' \in {legacy, None}
  /\ Downed
  /\ UNCHANGED <<record, stack, ssh, owed, repointed, mishaps>>

Retire ==
  /\ At({"up", "down", "downall"}, "retire")
  /\ \/ /\ legacy' = None
        /\ Downed
     \/ /\ legacy # None
        /\ DownFails
        /\ UNCHANGED legacy
  /\ UNCHANGED <<record, stack, ssh, owed, repointed, mishaps>>

RestoreAfterDown ==
  /\ At({"down", "downall"}, "restore")
  /\ RestoreLocal(cmd.kind)
  /\ IF stack'[cmd.kind] = "running" THEN NextDown ELSE Fails
  /\ UNCHANGED <<record, legacy, ssh, mishaps>>

\* Ctrl-C, a lost terminal: the command stops where it is, in the middle of
\* writing its file too.
Killed ==
  /\ ~Idle
  /\ mishaps' = mishaps \cup {"killed"}
  /\ Fails
  /\ \/ UNCHANGED record
     \/ At({"up"}, "save") /\ record' = [record EXCEPT ![cmd.kind] = Torn]
  /\ UNCHANGED <<legacy, stack, ssh, owed, repointed>>

CommandStep ==
  \/ StopLocal \/ Close \/ Unlink \/ Retire \/ Reach \/ StartSsh \/ Save \/ SaveFails
  \/ UpFails \/ RestoreAfterDown \/ Killed

----
(* The ssh processes *)

SetPhase(p, phase) ==
  /\ ssh' = [ssh EXCEPT ![p].phase = phase]
  /\ UNCHANGED <<record, legacy, stack, cmd, owed, repointed, mishaps>>

\* ExitOnForwardFailure: it takes the port or leaves.
SshConnects(p) ==
  /\ ssh[p].phase = "connecting"
  /\ SetPhase(p, IF PortFree(ssh[p].port) THEN "forwarding" ELSE "gone")

\* The network goes, the host goes, or the signal has had its effect.
SshExits(p) ==
  /\ ssh[p].phase \in {"connecting", "forwarding", "closing"}
  /\ SetPhase(p, "gone")

----
(* What the user does with the stacks between tunnel commands: up, down,    *)
(* install and remove of the component.                                     *)

SetStack(kind, to) ==
  /\ Idle
  /\ stack' = [stack EXCEPT ![kind] = to]
  /\ owed' = [owed EXCEPT ![kind] = FALSE]
  /\ repointed' = repointed \ {kind}
  /\ UNCHANGED <<record, legacy, ssh, cmd, mishaps>>

StartStack(kind) == stack[kind] # "running" /\ PortFree(kind) /\ SetStack(kind, "running")
\* Mutant of StopStack: a state that is neither stopped nor removed.
StopStackDown(kind) == stack[kind] # "absent" /\ SetStack(kind, "down")

StopStack(kind) == stack[kind] # "absent" /\ SetStack(kind, "stopped")
RemoveStack(kind) == stack[kind] # "absent" /\ SetStack(kind, "absent")

----

NoSsh == [port |-> "ollama", phase |-> "unused"]

\* A fresh start, or an upgrade with the old single tunnel up: it is on record as
\* the ollama one, and may forward either port.  Or its file is torn, and the
\* process long gone.
Init ==
  /\ record = [kind \in Kind |-> None]
  /\ \/ legacy \in {None, Torn} /\ ssh = [p \in Pid |-> NoSsh]
     \/ \E p \in Pid, port \in Kind :
          /\ legacy = [pid |-> p, localStopped |-> FALSE]
          /\ ssh = [[q \in Pid |-> NoSsh] EXCEPT ![p] = [port |-> port, phase |-> "forwarding"]]
  /\ stack \in [Kind -> {"running", "stopped", "absent"}]
  /\ \A kind \in Kind : stack[kind] = "running" => \A p \in Pid : ~HoldsPort(p, kind)
  /\ cmd = None
  /\ owed = [kind \in Kind |-> FALSE]
  /\ repointed = {}
  /\ mishaps = {}

Next ==
  \/ \E kind \in Kind : BeginUp(kind) \/ BeginDown(kind)
  \/ BeginDownAll
  \/ CommandStep
  \/ \E p \in Pid : SshConnects(p) \/ SshExits(p)
  \/ \E kind \in Kind : StartStack(kind) \/ StopStack(kind) \/ RemoveStack(kind)

Spec == Init /\ [][Next]_vars

----
(* Properties *)

TypeOK ==
  /\ record \in [Kind -> State \cup {None, Torn}]
  /\ legacy \in State \cup {None, Torn}
  /\ stack \in [Kind -> {"running", "stopped", "absent"}]
  /\ ssh \in [Pid -> [port : Kind,
                      phase : {"unused", "connecting", "forwarding", "closing", "gone"}]]
  /\ cmd \in Commands \cup {None, Failed}
  /\ owed \in [Kind -> BOOLEAN]
  /\ repointed \subseteq Kind
  /\ mishaps \subseteq {"killed", "unsaved"}

\* As long as no command was killed and every new file could be written, no ssh
\* process outlives its record: what forwards a port can be closed by `down`,
\* whatever else failed.
NoOrphan ==
  Idle /\ mishaps = {} =>
    \A p \in Pid : Alive(p) => \E kind \in Kind : IsUp(kind) /\ Get(kind).pid = p

\* A stack that a tunnel command stopped has been started again, or the tunnel's
\* record says that `down` must: unless the tunnel was pointed elsewhere
\* meanwhile, or a command was killed.  An error, of the old file, the target or
\* the new file, does not lose it.
OwedIsRecorded ==
  Idle /\ "killed" \notin mishaps =>
    \A kind \in Kind :
      owed[kind] /\ kind \notin repointed => IsUp(kind) /\ Get(kind).localStopped

\* "an upgrade neither forgets a tunnel that is already up nor resurrects one
\* that was closed": the old file never stands beside the new one, torn or not,
\* whatever failed or was killed.
OldFileRetired == record["ollama"] # None => legacy = None

DownAllSucceeds == ~Idle /\ cmd.op = "downall" /\ cmd' = None

\* "close them all": `stables tunnel down` that succeeds leaves no tunnel on
\* record, and no process that still serves one unless it was lost before.
DownAllCloses ==
  [][DownAllSucceeds =>
       /\ \A kind \in Kind : Get(kind)' = None
       /\ mishaps = {} => \A p \in Pid : ~Alive(p)']_vars

\* "that is recorded, so `down` puts back what it took away": the same as
\* OwedIsRecorded without the exception for a tunnel pointed elsewhere.
PutsBack ==
  Idle /\ mishaps = {} =>
    \A kind \in Kind : owed[kind] => IsUp(kind) /\ Get(kind).localStopped
====
