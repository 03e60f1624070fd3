---- MODULE EditorProofs ----
(***************************************************************************)
(* The text area for every alphabet, clipboard, width, stack limit and     *)
(* length of text: the cursor stays inside, the two stacks together stay   *)
(* within the limit, and from that, undo and redo are inverse.             *)
(***************************************************************************)
EXTENDS Editor, SequenceTheorems, WellFoundedInduction, TLAPS

----
(* Lines *)

\* A non-empty set of naturals has a least element.
LEMMA LeastElement ==
  ASSUME NEW T \in SUBSET Nat, T # {}
  PROVE  \E x \in T : \A y \in T : x <= y
<1>1. \E x \in T : \A y \in T : ~(<<y, x>> \in OpToRel(<, Nat))
  BY NatLessThanWellFounded, WFMin
<1>2. PICK x \in T : \A y \in T : ~(<<y, x>> \in OpToRel(<, Nat))
  BY <1>1
<1>3. \A y \in T : <<y, x>> \in Nat \X Nat /\ (y < x => <<y, x>> \in OpToRel(<, Nat))
  BY DEF OpToRel
<1>4. \A y \in T : ~(y < x)
  BY <1>2, <1>3
<1> QED  BY <1>4

\* The line of a position exists, and starts at or before it.
LEMMA LineAtExists ==
  ASSUME NEW starts \in SUBSET Nat, 0 \in starts, NEW c \in Nat
  PROVE  /\ LineAt(starts, c) \in starts
         /\ LineAt(starts, c) <= c
         /\ \A r \in starts : r <= c => r <= LineAt(starts, c)
<1> DEFINE T == {c - s : s \in {r \in starts : r <= c}}
<1>1. T \in SUBSET Nat /\ c \in T
  OBVIOUS
<1>2. PICK x \in T : \A y \in T : x <= y
  BY <1>1, LeastElement
<1>3. PICK s \in starts : s <= c /\ x = c - s
  BY <1>2
<1>4. \A r \in starts : r <= c => r <= s
  <2> SUFFICES ASSUME NEW r \in starts, r <= c PROVE r <= s
    OBVIOUS
  <2>1. c - r \in T
    OBVIOUS
  <2> QED  BY <2>1, <1>2, <1>3
<1> QED  BY <1>3, <1>4 DEF LineAt

\* Every position from a line's start on, up to the next start, is on that line.
LEMMA SameLine ==
  ASSUME NEW starts \in SUBSET Nat, 0 \in starts, NEW c \in Nat, NEW p \in Nat,
         LineAt(starts, c) <= p, p <= c
  PROVE  LineAt(starts, p) = LineAt(starts, c)
<1>1. /\ LineAt(starts, c) \in Nat /\ LineAt(starts, p) \in Nat
      /\ LineAt(starts, c) \in starts /\ LineAt(starts, p) \in starts
  BY LineAtExists
<1>2. LineAt(starts, c) <= LineAt(starts, p)
  BY <1>1, LineAtExists
<1>3. LineAt(starts, p) <= LineAt(starts, c)
  <2>1. LineAt(starts, p) <= c
    BY <1>1, LineAtExists
  <2> QED  BY <1>1, <2>1, LineAtExists
<1> QED  BY <1>1, <1>2, <1>3

\* Unless it is on the last line, the next line exists, and starts behind it.
LEMMA NextLineExists ==
  ASSUME NEW starts \in SUBSET Nat, NEW c \in Nat, ~OnLastLine(starts, c)
  PROVE  /\ NextLine(starts, c) \in starts
         /\ NextLine(starts, c) > c
<1> DEFINE T == {r \in starts : r > c}
<1>1. T \in SUBSET Nat
  OBVIOUS
<1>2. T # {}
  <2>1. PICK r \in starts : ~(r <= c)
    BY DEF OnLastLine
  <2> QED  BY <2>1
<1>3. PICK x \in T : \A y \in T : x <= y
  BY <1>1, <1>2, LeastElement
<1>4. x \in starts /\ x > c /\ \A r \in starts : r > c => r >= x
  BY <1>3
<1> QED  BY <1>4 DEF NextLine

LEMMA LineStartsType ==
  ASSUME NEW t \in Seq(Char), NEW width \in Width
  PROVE  /\ LineStarts(t, width) \subseteq 0..Len(t)
         /\ LineStarts(t, width) \in SUBSET Nat
         /\ 0 \in LineStarts(t, width)
  BY LenProperties DEF LineStarts

\* The cursor's moves over lines stay inside the text.
LEMMA UpInside ==
  ASSUME NEW t \in Seq(Char), NEW c \in 0..Len(t), NEW width \in Width
  PROVE  Up(t, c, width) \in 0..Len(t)
<1> DEFINE starts == LineStarts(t, width)
           line   == LineAt(starts, c)
           above  == LineAt(starts, line - 1)
<1>1. starts \in SUBSET Nat /\ 0 \in starts /\ Len(t) \in Nat /\ c \in Nat
  BY LineStartsType, LenProperties
<1>2. line \in Nat /\ line <= c
  BY <1>1, LineAtExists
<1>3. CASE line = 0
  BY <1>3 DEF Up
<1>4. CASE line # 0
  <2>1. above \in Nat /\ above <= line - 1
    BY <1>1, <1>2, <1>4, LineAtExists
  <2>2. Up(t, c, width) = above + SmallerOf(c - line, line - above - 1)
    BY <1>4 DEF Up
  <2> HIDE DEF starts, line, above
  <2> QED  BY <1>1, <1>2, <2>1, <2>2 DEF SmallerOf
<1> QED  BY <1>3, <1>4

LEMMA DownInside ==
  ASSUME NEW t \in Seq(Char), NEW c \in 0..Len(t), NEW width \in Width
  PROVE  Down(t, c, width) \in 0..Len(t)
<1> DEFINE starts == LineStarts(t, width)
           line   == LineAt(starts, c)
           below  == NextLine(starts, c)
           end    == IF OnLastLine(starts, below) THEN Len(t) ELSE NextLine(starts, below)
<1>1. starts \in SUBSET Nat /\ 0 \in starts /\ Len(t) \in Nat /\ c \in Nat
  BY LineStartsType, LenProperties
<1>2. line \in Nat /\ line <= c
  BY <1>1, LineAtExists
<1>3. CASE OnLastLine(starts, c)
  BY <1>3 DEF Down
<1>4. CASE ~OnLastLine(starts, c)
  <2>1. below \in Nat
    BY <1>1, <1>4, NextLineExists
  <2>2. end \in Nat
    BY <1>1, <2>1, NextLineExists
  <2>3. Down(t, c, width) = SmallerOf(SmallerOf(below + (c - line), end), Len(t))
    BY <1>4 DEF Down
  <2> HIDE DEF starts, line, below, end
  <2> QED  BY <1>1, <1>2, <2>1, <2>2, <2>3 DEF SmallerOf
<1> QED  BY <1>3, <1>4

----
(* The stacks *)

LEMMA FrontAndLast ==
  ASSUME NEW s \in Seq(Snapshot), s # <<>>
  PROVE  /\ Front(s) \in Seq(Snapshot)
         /\ Len(s) >= 1
         /\ Len(Front(s)) = Len(s) - 1
         /\ \A i \in 1..Len(Front(s)) : Front(s)[i] = s[i]
         /\ Last(s) \in Snapshot
         /\ Last(s) = s[Len(s)]
<1>1. Len(s) \in Nat /\ Len(s) >= 1
  BY EmptySeq, LenProperties
<1>2. Last(s) \in Snapshot
  BY <1>1, ElementOfSeq DEF Last
<1>3. \A i \in 1..Len(s) - 1 : s[i] \in Snapshot
  BY <1>1, ElementOfSeq
<1>4. /\ SubSeq(s, 1, Len(s) - 1) \in Seq(Snapshot)
      /\ Len(SubSeq(s, 1, Len(s) - 1)) = Len(s) - 1
      /\ \A i \in 1..Len(s) - 1 : SubSeq(s, 1, Len(s) - 1)[i] = s[i]
  <2> DEFINE n == Len(s) - 1
  <2>1. n \in Nat
    BY <1>1
  <2>2. \A i \in 1..n : s[i] \in Snapshot /\ 1 + i - 1 = i
    BY <1>1, <1>3
  <2> HIDE DEF n
  <2>3. /\ SubSeq(s, 1, n) \in Seq(Snapshot)
        /\ Len(SubSeq(s, 1, n)) = n
        /\ \A i \in 1..n : SubSeq(s, 1, n)[i] = s[i]
    BY <2>1, <2>2, SubSeqProperties
  <2> QED  BY <2>3 DEF n
<1>5. Front(s) = SubSeq(s, 1, Len(s) - 1) /\ Last(s) = s[Len(s)]
  BY DEF Front, Last
<1> HIDE DEF Front
<1> QED  BY <1>1, <1>2, <1>4, <1>5

\* What pushing a snapshot leaves on the stack: it is within the limit, the new
\* snapshot is on top, and below it is what was there, all of it if there was room.
LEMMA CappedPush ==
  ASSUME NEW s \in Seq(Snapshot), NEW e \in Snapshot, Len(s) <= Limit
  PROVE  /\ Capped(Append(s, e)) \in Seq(Snapshot)
         /\ Capped(Append(s, e)) # <<>>
         /\ Len(Capped(Append(s, e))) <= Limit
         /\ Len(s) < Limit => Capped(Append(s, e)) = Append(s, e)
         /\ Last(Capped(Append(s, e))) = e
         /\ \A i \in 1..Len(Capped(Append(s, e))) :
              \/ Capped(Append(s, e))[i] = e
              \/ \E j \in 1..Len(s) : Capped(Append(s, e))[i] = s[j]
<1> DEFINE a == Append(s, e)
<1>1. /\ a \in Seq(Snapshot)
      /\ Len(s) \in Nat
      /\ Limit \in Nat /\ Limit >= 1
      /\ Len(a) = Len(s) + 1
      /\ a[Len(s) + 1] = e
      /\ \A j \in 1..Len(s) : a[j] = s[j]
  BY AppendProperties, LenProperties, LimitAssumption
<1>2. CASE Len(s) < Limit
  <2>1. Capped(a) = a
    BY <1>1, <1>2 DEF Capped
  <2>2. a # <<>>
    BY <1>1, EmptySeq
  <2>3. Last(a) = e
    BY <1>1 DEF Last
  <2>4. \A i \in 1..Len(a) : a[i] = e \/ \E j \in 1..Len(s) : a[i] = s[j]
    BY <1>1
  <2> QED  BY <1>1, <1>2, <2>1, <2>2, <2>3, <2>4
<1>3. CASE Len(s) = Limit
  <2>1. a # <<>>
    BY <1>1, EmptySeq
  <2>2. Capped(a) = Tail(a)
    BY <1>1, <1>3 DEF Capped
  <2>3. /\ Tail(a) \in Seq(Snapshot)
        /\ Len(Tail(a)) = Limit
        /\ \A i \in 1..Limit : Tail(a)[i] = a[i + 1]
    BY <1>1, <1>3, <2>1, HeadTailProperties
  <2>4. Tail(a) # <<>>
    BY <1>1, <2>3, EmptySeq
  <2>5. Last(Tail(a)) = e
    BY <1>1, <1>3, <2>3 DEF Last
  <2>6. \A i \in 1..Limit : Tail(a)[i] = e \/ \E j \in 1..Len(s) : Tail(a)[i] = s[j]
    <3> SUFFICES ASSUME NEW i \in 1..Limit
                 PROVE  Tail(a)[i] = e \/ \E j \in 1..Len(s) : Tail(a)[i] = s[j]
      OBVIOUS
    <3>1. CASE i = Limit
      BY <3>1, <1>1, <1>3, <2>3
    <3>2. CASE i < Limit
      BY <3>2, <1>1, <1>3, <2>3
    <3>3. i = Limit \/ i < Limit
      BY <1>1
    <3> QED  BY <3>1, <3>2, <3>3
  <2> QED  BY <1>1, <1>3, <2>2, <2>3, <2>4, <2>5, <2>6
<1> QED  BY <1>1, <1>2, <1>3

LEMMA PushedOnTop ==
  ASSUME NEW s \in Seq(Snapshot), NEW e \in Snapshot
  PROVE  Append(s, e) # <<>> /\ Last(Append(s, e)) = e
  BY AppendProperties, EmptySeq, LenProperties DEF Last

----
(* The invariant *)

Inv == TypeOK /\ CursorInside /\ HistoryBounded

LEMMA Bounds ==
  ASSUME Inv
  PROVE  /\ Here \in Snapshot /\ Inside(Here)
         /\ Len(text) \in Nat /\ cursor \in 0..Len(text)
         /\ Len(undo) \in Nat /\ Len(redo) \in Nat /\ Limit \in Nat
         /\ Len(undo) <= Limit /\ Len(redo) <= Limit
  BY LenProperties, LimitAssumption
     DEF Inv, TypeOK, CursorInside, HistoryBounded, Here, Inside, Snapshot

\* What a deletion does to the text: n characters are kept in front, and those
\* from m on behind.
LEMMA Cut ==
  ASSUME Inv, NEW n \in 0..Len(text), NEW m \in 0..Len(text)
  PROVE  /\ Before(n) \in Seq(Char) /\ Len(Before(n)) = n
         /\ After(m) \in Seq(Char) /\ Len(After(m)) = Len(text) - m
         /\ Before(n) \o After(m) \in Seq(Char)
         /\ Len(Before(n) \o After(m)) = n + (Len(text) - m)
<1>1. text \in Seq(Char) /\ Len(text) \in Nat
  BY LenProperties DEF Inv, TypeOK
<1>2. \A i \in 1..Len(text) : text[i] \in Char
  BY <1>1, ElementOfSeq
<1>3. Before(n) \in Seq(Char) /\ Len(Before(n)) = n
  BY <1>1, <1>2, SubSeqProperties DEF Before
<1>4. After(m) \in Seq(Char) /\ Len(After(m)) = Len(text) - m
  BY <1>1, <1>2, SubSeqProperties DEF After
<1> QED  BY <1>3, <1>4, ConcatProperties

\* What typing a character does to it.
LEMMA Insert ==
  ASSUME Inv, NEW n \in 0..Len(text), NEW c \in Char
  PROVE  /\ Before(n) \o <<c>> \o After(n) \in Seq(Char)
         /\ Len(Before(n) \o <<c>> \o After(n)) = Len(text) + 1
<1>1. <<c>> \in Seq(Char) /\ Len(<<c>>) = 1
  OBVIOUS
<1>2. Before(n) \o <<c>> \in Seq(Char) /\ Len(Before(n) \o <<c>>) = n + 1
  BY <1>1, Cut, ConcatProperties
<1>3. /\ (Before(n) \o <<c>>) \o After(n) \in Seq(Char)
      /\ Len((Before(n) \o <<c>>) \o After(n)) = (n + 1) + (Len(text) - n)
  BY <1>2, Cut, ConcatProperties
<1>4. Len(text) \in Nat
  BY Bounds
<1> QED  BY <1>3, <1>4

\* A step that pushes a snapshot and leaves the cursor inside a text.
LEMMA PushKeepsInv ==
  ASSUME Inv, PushUndo, text' \in Seq(Char), cursor' \in Nat, cursor' <= Len(text')
  PROVE  Inv'
<1>1. /\ undo' \in Seq(Snapshot)
      /\ Len(undo') \in Nat /\ Len(undo') <= Limit
      /\ \A i \in 1..Len(undo') : undo'[i] = Here \/ \E j \in 1..Len(undo) : undo'[i] = undo[j]
  BY Bounds, CappedPush, LenProperties DEF Inv, TypeOK, PushUndo, PushSnapshot
<1>2. redo' \in Seq(Snapshot) /\ Len(redo') = 0
  BY DEF PushUndo
<1>3. \A i \in 1..Len(undo') : Inside(undo'[i])
  BY <1>1, Bounds DEF Inv, CursorInside
<1>4. Inside(Here)'
  BY DEF Inside, Here
<1> QED  BY <1>1, <1>2, <1>3, <1>4, Bounds DEF Inv, TypeOK, CursorInside, HistoryBounded

LEMMA EditKeepsInv ==
  ASSUME Inv, Edit
  PROVE  Inv'
<1>1. ASSUME NEW c \in Letter, Type(c) PROVE Inv'
  <2>1. c \in Char /\ cursor \in 0..Len(text)
    BY Bounds DEF Char
  <2>2. /\ text' \in Seq(Char)
        /\ Len(text') = Len(text) + 1
        /\ cursor' = cursor + 1
    BY <1>1, <2>1, Insert DEF Type
  <2> QED  BY <1>1, <2>2, Bounds, PushKeepsInv DEF Type
<1>2. CASE Backspace
  <2>1. cursor - 1 \in 0..Len(text) /\ cursor \in 0..Len(text)
    BY <1>2, Bounds DEF Backspace
  <2>2. /\ text' \in Seq(Char)
        /\ Len(text') = (cursor - 1) + (Len(text) - cursor)
        /\ cursor' = cursor - 1
    BY <1>2, <2>1, Cut DEF Backspace
  <2> QED  BY <1>2, <2>1, <2>2, Bounds, PushKeepsInv DEF Backspace
<1>3. CASE DeleteLine
  <2>1. CASE text = <<>>
    BY <1>3, <2>1, Bounds, PushKeepsInv DEF DeleteLine, Inv, TypeOK
  <2>2. CASE text # <<>>
    <3>1. Len(text) \in Nat /\ Len(text) >= 1
      BY <2>2, EmptySeq, LenProperties DEF Inv, TypeOK
    <3> DEFINE pos == SmallerOf(cursor, Len(text) - 1)
    <3>2. pos \in 0..Len(text) - 1
      BY <3>1, Bounds DEF SmallerOf
    <3>3. PICK first \in 0..pos, last \in (pos + 1)..Len(text) :
            text' = Before(first) \o After(last) /\ cursor' = first
      BY <1>3, <2>2 DEF DeleteLine
    <3> HIDE DEF pos
    <3>4. first \in 0..Len(text) /\ last \in 0..Len(text)
      BY <3>1, <3>2
    <3>5. /\ text' \in Seq(Char)
          /\ Len(text') = first + (Len(text) - last)
      BY <3>3, <3>4, Cut
    <3>6. PushUndo
      BY <1>3 DEF DeleteLine
    <3> QED  BY <3>1, <3>3, <3>4, <3>5, <3>6, PushKeepsInv
  <2> QED  BY <2>1, <2>2
<1>4. CASE ClearText
  BY <1>4, PushKeepsInv DEF ClearText
<1>5. ASSUME NEW clip \in Clips, TakeClip(clip) PROVE Inv'
  BY <1>5, PushKeepsInv, LenProperties, ClipsAssumption DEF TakeClip
<1> QED  BY <1>1, <1>2, <1>3, <1>4, <1>5 DEF Edit

LEMMA UndoKeepsInv ==
  ASSUME Inv, Undo
  PROVE  Inv' /\ redo' = Append(redo, Here)
<1> USE Bounds
<1>1. undo \in Seq(Snapshot) /\ undo # <<>> /\ redo \in Seq(Snapshot)
  BY DEF Undo, Inv, TypeOK
<1>2. /\ undo' \in Seq(Snapshot)
      /\ Len(undo') = Len(undo) - 1
      /\ \A i \in 1..Len(undo') : undo'[i] = undo[i]
      /\ Len(undo) >= 1
  BY <1>1, FrontAndLast DEF Undo
<1>3. redo' = Append(redo, Here)
  BY <1>2 DEF Undo, Inv, HistoryBounded
<1>4. /\ redo' \in Seq(Snapshot)
      /\ Len(redo') = Len(redo) + 1
      /\ \A i \in 1..Len(redo') : redo'[i] = Here \/ \E j \in 1..Len(redo) : redo'[i] = redo[j]
  BY <1>1, <1>3, AppendProperties
<1>5. /\ undo[Len(undo)] \in Snapshot
      /\ Inside(undo[Len(undo)])
      /\ text' = undo[Len(undo)].text
      /\ cursor' = undo[Len(undo)].cursor
  BY <1>1, <1>2, FrontAndLast DEF Undo, Restore, Inv, CursorInside
<1>6. text' \in Seq(Char) /\ cursor' \in Nat /\ Inside(Here)'
  BY <1>5 DEF Snapshot, Inside, Here
<1>7. \A i \in 1..Len(undo') : Inside(undo'[i])
  BY <1>2 DEF Inv, CursorInside
<1>8. \A i \in 1..Len(redo') : Inside(redo'[i])
  BY <1>4, Bounds DEF Inv, CursorInside
<1>9. HistoryBounded'
  BY <1>2, <1>4 DEF Inv, HistoryBounded
<1> QED  BY <1>2, <1>3, <1>4, <1>6, <1>7, <1>8, <1>9 DEF Inv, TypeOK, CursorInside

LEMMA RedoKeepsInv ==
  ASSUME Inv, Redo
  PROVE  Inv' /\ undo' = Append(undo, Here)
<1> USE Bounds
<1>1. redo \in Seq(Snapshot) /\ redo # <<>> /\ undo \in Seq(Snapshot)
  BY DEF Redo, Inv, TypeOK
<1>2. /\ redo' \in Seq(Snapshot)
      /\ Len(redo') = Len(redo) - 1
      /\ \A i \in 1..Len(redo') : redo'[i] = redo[i]
      /\ Len(redo) >= 1
  BY <1>1, FrontAndLast DEF Redo
<1>3. undo' = Append(undo, Here)
  <2>1. Len(undo) < Limit
    BY <1>2 DEF Inv, HistoryBounded
  <2> QED  BY <1>1, <2>1, CappedPush DEF Redo, PushSnapshot
<1>4. /\ undo' \in Seq(Snapshot)
      /\ Len(undo') = Len(undo) + 1
      /\ \A i \in 1..Len(undo') : undo'[i] = Here \/ \E j \in 1..Len(undo) : undo'[i] = undo[j]
  BY <1>1, <1>3, AppendProperties
<1>5. /\ redo[Len(redo)] \in Snapshot
      /\ Inside(redo[Len(redo)])
      /\ text' = redo[Len(redo)].text
      /\ cursor' = redo[Len(redo)].cursor
  BY <1>1, <1>2, FrontAndLast DEF Redo, Restore, Inv, CursorInside
<1>6. text' \in Seq(Char) /\ cursor' \in Nat /\ Inside(Here)'
  BY <1>5 DEF Snapshot, Inside, Here
<1>7. \A i \in 1..Len(redo') : Inside(redo'[i])
  BY <1>2 DEF Inv, CursorInside
<1>8. \A i \in 1..Len(undo') : Inside(undo'[i])
  BY <1>4 DEF Inv, CursorInside
<1>9. HistoryBounded'
  BY <1>2, <1>4 DEF Inv, HistoryBounded
<1> QED  BY <1>2, <1>3, <1>4, <1>6, <1>7, <1>8, <1>9 DEF Inv, TypeOK, CursorInside

\* A step that only moves the cursor.
LEMMA MoveKeepsInv ==
  ASSUME Inv, UNCHANGED <<text, undo, redo>>, cursor' \in 0..Len(text)
  PROVE  Inv'
  BY Bounds DEF Inv, TypeOK, CursorInside, HistoryBounded, Inside, Here

----
(* The theorems *)

LEMMA InitInv == Init => Inv
  BY LimitAssumption
     DEF Init, Inv, TypeOK, CursorInside, HistoryBounded, Inside, Here, Snapshot

LEMMA NextKeepsInv == Inv /\ [Next]_vars => Inv'
<1> SUFFICES ASSUME Inv, [Next]_vars PROVE Inv'
  OBVIOUS
<1>1. CASE Edit
  BY <1>1, EditKeepsInv
<1>2. CASE Undo
  BY <1>2, UndoKeepsInv
<1>3. CASE Redo
  BY <1>3, RedoKeepsInv
<1>4. CASE MoveUp
  BY <1>4, Bounds, UpInside, MoveKeepsInv DEF MoveUp, Inv, TypeOK
<1>5. CASE MoveDown
  BY <1>5, Bounds, DownInside, MoveKeepsInv DEF MoveDown, Inv, TypeOK
<1>6. CASE MoveLeft
  BY <1>6, Bounds, MoveKeepsInv DEF MoveLeft
<1>7. CASE MoveRight
  BY <1>7, Bounds, MoveKeepsInv DEF MoveRight
<1>8. CASE UNCHANGED vars
  BY <1>8, Bounds, MoveKeepsInv DEF vars
<1> QED  BY <1>1, <1>2, <1>3, <1>4, <1>5, <1>6, <1>7, <1>8 DEF Next

\* The types, the cursor and the stacks, as one inductive invariant: the cursor
\* needs the snapshots' cursors inside their texts, and the snapshots get there
\* from a cursor inside the text.
THEOREM Invariance == Spec => []Inv
<1>1. Init => Inv
  BY InitInv
<1>2. Inv /\ [Next]_vars => Inv'
  BY NextKeepsInv
<1> QED  BY <1>1, <1>2, PTL DEF Spec

\* Text, cursor and both stacks keep their types.
THEOREM TypeCorrect == Spec => []TypeOK
<1>1. Inv => TypeOK
  BY DEF Inv
<1> QED  BY <1>1, Invariance, PTL

\* tts_cursor is "always kept <= text.chars().count()", by every key, paste, undo
\* and redo, and for every width of the text area.
THEOREM CursorStaysInside == Spec => []CursorInside
<1>1. Inv => CursorInside
  BY DEF Inv
<1> QED  BY <1>1, Invariance, PTL

\* The two stacks together hold at most UNDO_LIMIT snapshots.
THEOREM HistoryIsBounded == Spec => []HistoryBounded
<1>1. Inv => HistoryBounded
  BY DEF Inv
<1> QED  BY <1>1, Invariance, PTL

\* Undo and redo are each other's inverse: the caps never drop what travels from
\* one stack to the other.
THEOREM UndoIsInverse == Spec => UndoIsReversible
<1>1. Inv /\ [Next]_vars =>
        [/\ Undo => redo' = Append(redo, Here)
         /\ Redo => undo' = Append(undo, Here)]_vars
  BY UndoKeepsInv, RedoKeepsInv
<1> QED  BY <1>1, Invariance, PTL DEF Spec, UndoIsReversible

\* Whatever changes the text leaves the old text and cursor on top of a stack.
THEOREM EveryEditCanBeTakenBack == Spec => NoEditLost
<1>1. ASSUME Inv, Next, text' # text
      PROVE  \/ undo' # <<>> /\ Last(undo') = Here
             \/ redo' # <<>> /\ Last(redo') = Here
  <2>1. CASE Edit
    <3>1. PushSnapshot
      BY <2>1 DEF Edit, Type, Backspace, DeleteLine, ClearText, TakeClip, PushUndo
    <3> QED  BY <1>1, <3>1, Bounds, CappedPush DEF PushSnapshot, Inv, TypeOK
  <2>2. CASE Undo
    BY <1>1, <2>2, UndoKeepsInv, Bounds, PushedOnTop DEF Inv, TypeOK
  <2>3. CASE Redo
    BY <1>1, <2>3, RedoKeepsInv, Bounds, PushedOnTop DEF Inv, TypeOK
  <2>4. ~(MoveUp \/ MoveDown \/ MoveLeft \/ MoveRight)
    BY <1>1 DEF MoveUp, MoveDown, MoveLeft, MoveRight
  <2> QED  BY <1>1, <2>1, <2>2, <2>3, <2>4 DEF Next
<1>2. Inv /\ [Next]_vars =>
        [text' # text =>
           \/ undo' # <<>> /\ Last(undo') = Here
           \/ redo' # <<>> /\ Last(redo') = Here]_vars
  BY <1>1
<1> QED  BY <1>2, Invariance, PTL DEF Spec, NoEditLost

\* Up goes to the line above for every text, cursor and width, also when the line
\* above is shorter or the area one column wide.
THEOREM UpIsOneLine == Spec => []UpGoesOneLine
<1>1. Inv => UpGoesOneLine
  <2> SUFFICES ASSUME Inv, NEW width \in Width,
                      LineAt(LineStarts(text, width), cursor) > 0
               PROVE  LineAt(LineStarts(text, width), Up(text, cursor, width))
                        = LineAt(LineStarts(text, width),
                                 LineAt(LineStarts(text, width), cursor) - 1)
    BY DEF UpGoesOneLine
  <2> DEFINE starts == LineStarts(text, width)
             line   == LineAt(starts, cursor)
             above  == LineAt(starts, line - 1)
  <2>1. starts \in SUBSET Nat /\ 0 \in starts /\ cursor \in Nat
    BY LineStartsType DEF Inv, TypeOK
  <2>2. line \in Nat /\ line <= cursor /\ line - 1 \in Nat
    BY <2>1, LineAtExists
  <2>3. above \in Nat /\ above <= line - 1
    BY <2>1, <2>2, LineAtExists
  <2>4. Up(text, cursor, width) = above + SmallerOf(cursor - line, line - above - 1)
    BY <2>2 DEF Up
  <2> HIDE DEF starts, line, above
  <2>5. Up(text, cursor, width) \in Nat /\ above <= Up(text, cursor, width)
          /\ Up(text, cursor, width) <= line - 1
    BY <2>1, <2>2, <2>3, <2>4 DEF SmallerOf
  <2>6. LineAt(starts, Up(text, cursor, width)) = LineAt(starts, line - 1)
    BY <2>1, <2>2, <2>5, SameLine DEF above
  <2> QED  BY <2>6 DEF starts, line
<1> QED  BY <1>1, Invariance, PTL
====
