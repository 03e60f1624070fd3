---- MODULE MCSpeechClient ----
(* Two tasks are enough for a cancelled request and its successor, and for   *)
(* an announcement that meets either.  The safety run has two messages, so    *)
(* that a batch can be cut short, and the Settings with their URL editor; the *)
(* other two runs have one message, and the menus and the help.              *)
EXTENDS SpeechClient, TLC

MCLimits == {}
MCMaxDropped == {}
MCSettingsKeys == {"esc", "enter", "settings"}
MCMenuKeys == {"esc", "enter", "voices", "help"}
MCTasks == Permutations(Task)
====
