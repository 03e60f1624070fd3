---- MODULE Editor ----
(***************************************************************************)
(* The text area of the voice client: the text, its cursor and the undo    *)
(* and redo stacks (AppState in tts/tui/src/app.rs; the keys that edit and *)
(* the cursor's moves over wrapped lines in main.rs).                      *)
(*                                                                         *)
(* Positions count characters, as the code's cursor does: position n is    *)
(* after the first n.  Conversion to byte offsets is left out, and a       *)
(* character is a letter or the line break.                                *)
(***************************************************************************)
EXTENDS Integers, Sequences

CONSTANTS
  Letter,   \* the characters that can be typed
  NL,       \* the line break, which only a clip brings in
  Clips,    \* the texts the clipboard offers
  Limit,    \* UNDO_LIMIT
  Width,    \* the widths of the text area
  MaxLen    \* bound: length of a text

Char == Letter \cup {NL}

ASSUME ClipsAssumption == Clips \subseteq Seq(Char)
ASSUME LimitAssumption == Limit \in Nat \ {0}
ASSUME WidthAssumption == Width \subseteq Nat
ASSUME MaxLenAssumption == MaxLen \in Nat

VARIABLES
  text,     \* app.text
  cursor,   \* app.tts_cursor
  undo,     \* app.tts_undo, newest last
  redo      \* app.tts_redo, newest last

vars == <<text, cursor, undo, redo>>

Snapshot == [text : Seq(Char), cursor : Nat]
Here == [text |-> text, cursor |-> cursor]

SmallerOf(a, b) == IF a < b THEN a ELSE b
Last(s) == s[Len(s)]
Front(s) == SubSeq(s, 1, Len(s) - 1)

----
(* Undo and redo *)

\* Mutant of Capped: the newest snapshot is the one that is dropped.
CappedAtEnd(stack) == IF Len(stack) > Limit THEN Front(stack) ELSE stack

Capped(stack) == IF Len(stack) > Limit THEN Tail(stack) ELSE stack

PushSnapshot == undo' = Capped(Append(undo, Here))

Restore(s) == text' = s.text /\ cursor' = s.cursor

\* Mutant of PushUndo: the redo stack is kept.
PushUndoKeepingRedo == PushSnapshot /\ UNCHANGED redo

\* push_tts_undo, before every edit.
PushUndo == PushSnapshot /\ redo' = <<>>

Undo ==
  /\ undo # <<>>
  /\ undo' = Front(undo)
  /\ redo' = IF Len(redo) < Limit THEN Append(redo, Here) ELSE redo
  /\ Restore(Last(undo))

\* Mutant of Redo: what is redone cannot be undone.
RedoForgets ==
  /\ redo # <<>>
  /\ redo' = Front(redo)
  /\ Restore(Last(redo))
  /\ UNCHANGED undo

Redo ==
  /\ redo # <<>>
  /\ redo' = Front(redo)
  /\ PushSnapshot
  /\ Restore(Last(redo))

----
(* Edits *)

Before(n) == SubSeq(text, 1, n)
After(n) == SubSeq(text, n + 1, Len(text))

Type(c) ==
  /\ Len(text) < MaxLen
  /\ PushUndo
  /\ text' = Before(cursor) \o <<c>> \o After(cursor)
  /\ cursor' = cursor + 1

\* Mutant of Backspace: the cursor stays.
BackspaceInPlace ==
  /\ cursor > 0
  /\ PushUndo
  /\ text' = Before(cursor - 1) \o After(cursor)
  /\ UNCHANGED cursor

Backspace ==
  /\ cursor > 0
  /\ PushUndo
  /\ text' = Before(cursor - 1) \o After(cursor)
  /\ cursor' = cursor - 1

Breaks == {n \in 1..Len(text) : text[n] = NL}
IsLineStart(n) == n \in Breaks \cup {0}
IsLineEnd(n) == n \in Breaks \cup {Len(text)}

\* delete_current_line: from the line's first character through its line break.
\* Behind the last character the line of that character counts.
DeleteLine ==
  /\ PushUndo
  /\ IF text = <<>> THEN UNCHANGED <<text, cursor>>
     ELSE LET pos == SmallerOf(cursor, Len(text) - 1)
          IN  \E first \in 0..pos, last \in (pos + 1)..Len(text) :
                /\ IsLineStart(first) /\ \A n \in (first + 1)..pos : ~IsLineStart(n)
                /\ IsLineEnd(last) /\ \A n \in (pos + 1)..(last - 1) : ~IsLineEnd(n)
                /\ text' = Before(first) \o After(last)
                /\ cursor' = first

ClearText ==
  /\ PushUndo
  /\ text' = <<>>
  /\ cursor' = 0

\* A clip replaces the text; the cursor goes behind it.
TakeClip(clip) ==
  /\ PushUndo
  /\ text' = clip
  /\ cursor' = Len(clip)

Edit ==
  \/ \E c \in Letter : Type(c)
  \/ Backspace \/ DeleteLine \/ ClearText
  \/ \E clip \in Clips : TakeClip(clip)

----
(* The cursor *)

\* The column after each character: 0 where a visual line begins, after a line
\* break or when the line is as wide as the area.
Column(t, width) ==
  LET col[n \in 0..Len(t)] ==
        IF n = 0 \/ t[n] = NL \/ col[n - 1] + 1 >= width THEN 0 ELSE col[n - 1] + 1
  IN  col

\* visual_line_starts, as a set: the code's list is ascending.
LineStarts(t, width) == {n \in 0..Len(t) : n = 0 \/ Column(t, width)[n] = 0}

\* The start of the line c is on; whether that is the last line, and where the
\* next one starts.
LineAt(starts, c) == CHOOSE s \in starts : s <= c /\ \A r \in starts : r <= c => r <= s
OnLastLine(starts, c) == \A r \in starts : r <= c
NextLine(starts, c) == CHOOSE s \in starts : s > c /\ \A r \in starts : r > c => r >= s

\* Mutant of Up: the column is kept beyond the end of the line above.
UpAnyColumn(t, c, width) ==
  LET starts == LineStarts(t, width)
      line   == LineAt(starts, c)
      above  == LineAt(starts, line - 1)
  IN  IF line = 0 THEN c ELSE above + (c - line)

\* cursor_move_up: the same column of the line above, or its last character's.
Up(t, c, width) ==
  LET starts == LineStarts(t, width)
      line   == LineAt(starts, c)
      above  == LineAt(starts, line - 1)
  IN  IF line = 0 THEN c ELSE above + SmallerOf(c - line, line - above - 1)

\* cursor_move_down: the length of the next line includes the place where the one
\* after it begins, so the cursor may end up there.
Down(t, c, width) ==
  LET starts == LineStarts(t, width)
      line   == LineAt(starts, c)
      below  == NextLine(starts, c)
      end    == IF OnLastLine(starts, below) THEN Len(t) ELSE NextLine(starts, below)
  IN  IF OnLastLine(starts, c) THEN c
      ELSE SmallerOf(SmallerOf(below + (c - line), end), Len(t))

MoveUp ==
  /\ \E width \in Width : cursor' = Up(text, cursor, width)
  /\ UNCHANGED <<text, undo, redo>>

MoveDown ==
  /\ \E width \in Width : cursor' = Down(text, cursor, width)
  /\ UNCHANGED <<text, undo, redo>>

MoveLeft ==
  /\ cursor > 0
  /\ cursor' = cursor - 1
  /\ UNCHANGED <<text, undo, redo>>

MoveRight ==
  /\ cursor < Len(text)
  /\ cursor' = cursor + 1
  /\ UNCHANGED <<text, undo, redo>>

----

Init ==
  /\ text = <<>>
  /\ cursor = 0
  /\ undo = <<>>
  /\ redo = <<>>

Next ==
  \/ Edit \/ Undo \/ Redo
  \/ MoveUp \/ MoveDown \/ MoveLeft \/ MoveRight

Spec == Init /\ [][Next]_vars

----
(* Properties *)

TypeOK ==
  /\ text \in Seq(Char)
  /\ cursor \in Nat
  /\ undo \in Seq(Snapshot)
  /\ redo \in Seq(Snapshot)

Inside(s) == s.cursor <= Len(s.text)

\* "always kept <= text.chars().count()": the cursor never leaves the text, nor
\* will it when a snapshot is restored.
CursorInside ==
  /\ Inside(Here)
  /\ \A i \in 1..Len(undo) : Inside(undo[i])
  /\ \A i \in 1..Len(redo) : Inside(redo[i])

\* The caps on both stacks ("a session that edits for hours holds at most 100
\* snapshots") hold for the two together, so that neither cap ever bites while
\* a snapshot travels from one to the other.
HistoryBounded == Len(undo) + Len(redo) <= Limit

\* Undo and redo are each other's inverse: what one takes back, the other has on
\* top of its stack, and neither cap drops anything on the way.
UndoIsReversible ==
  [][/\ Undo => redo' = Append(redo, Here)
     /\ Redo => undo' = Append(undo, Here)]_vars

\* Every step that changes the text can be taken back: what it changed is on top
\* of one of the stacks, with the cursor where it was.
NoEditLost ==
  [][text' # text =>
       \/ undo' # <<>> /\ Last(undo') = Here
       \/ redo' # <<>> /\ Last(redo') = Here]_vars

\* Up goes to the line above, whatever the widths of the two lines.
UpGoesOneLine ==
  \A width \in Width :
    LET starts == LineStarts(text, width)
        line   == LineAt(starts, cursor)
    IN  line > 0 =>
          LineAt(starts, Up(text, cursor, width)) = LineAt(starts, line - 1)
====
