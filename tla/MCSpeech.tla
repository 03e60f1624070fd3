---- MODULE MCSpeech ----
(* Three voices contend for the two Piper holds, two clones' sizes for the    *)
(* one checkpoint; `both` is a preset and may be a clone.  The texts take each  *)
(* way through the splitting, and their chunks each way through the windows.  *)
EXTENDS Speech, TLC

End(n) == [len |-> n, stop |-> TRUE]
Comma(n) == [len |-> n, stop |-> FALSE]
MCText == {
  <<>>,
  <<Comma(3), End(1)>>,
  <<End(1), End(2), End(4)>>,
  <<Comma(2), Comma(2), End(5)>>,
  <<Comma(3), End(1), End(3)>>}
MCEngines == {{"kokoro", "piper", "qwen"}, {"piper"}}
MCRequests == Permutations(Request)
====
