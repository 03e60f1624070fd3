---- MODULE MCInstaller ----
(* Command lines enough for every call: each component alone, stab merging    *)
(* and, from a sealed installer, under force; the voice stack under two names *)
(* and on two ports, on the second with the weights that are there or none.   *)
EXTENDS Installer, TLC

Plain == [force |-> FALSE, password |-> TRUE, port |-> 1, name |-> "stables",
          container |-> TRUE, models |-> TRUE, clean |-> FALSE]
Line(op, component) == [op |-> op, component |-> component, opts |-> Plain]
With(line, option, value) == [line EXCEPT !.opts = [@ EXCEPT ![option] = value]]

MCCommands ==
  {Line("install", "stab"),
   With(With(Line("install", "stab"), "force", TRUE), "password", FALSE),
   Line("start", "stab"), Line("update", "stab"), Line("fetch", "stab"),
   Line("clean-install", "stab"),
   Line("install", "webui"), Line("fetch", "webui"),
   With(Line("reinstall", "tts"), "clean", TRUE),
   Line("install", "tts"), With(With(Line("install", "tts"), "port", 2), "models", FALSE),
   With(Line("install", "tts"), "name", "other"),
   With(Line("install", "tts"), "container", FALSE), Line("reinstall", "tts"),
   Line("up", "tts"), Line("down", "tts"), Line("update", "all"), Line("remove", "all")}
====
