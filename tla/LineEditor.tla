----------------------------- MODULE LineEditor ------------------------------
(* The console's line editor (utilities/LineEditor.cpp) and the terminal it      *)
(* writes to. The line is bytes; a character of more than one byte is <<"lead",   *)
(* ch>>, so that two such characters share their first byte. The terminal wraps   *)
(* late, as real ones do, and has as many rows as it needs; its width stands      *)
(* still. `text`, `caret` and `clip` are what the keys mean on characters.        *)
EXTENDS Once, Integers, Sequences, SequencesExt, FiniteSetsExt

CONSTANTS Columns, TabWidth,   \* of the terminal; a tab is written as spaces
          Prompt,              \* characters
          Wide,                \* characters of two bytes and two cells
          Accented,            \* characters of two bytes and one cell
          Typed, Pastes,       \* what is typed, and pasted with its end marker
          Vocabularies,        \* sets of words the completer may know
          MaxBytes, MaxKeys, MaxHistory   \* MaxHistory is 1000 in the code

VARIABLES line, cursor, yank, history, historyPosition, draft,
          cursorRow,     \* cursorRow_: rows between the prompt and the cursor
          drained,       \* the last key found nothing queued behind it
          screen, reading, words, keys,
          crossed,       \* since the prompt, a tab has been drawn across the right margin
          text, caret, clip

edited == <<line, cursor, yank, historyPosition, draft>>
meant == <<text, caret, clip>>
vars == <<edited, history, cursorRow, drained, screen, crossed, reading, words, keys, meant>>

Multibyte == Wide \cup Accented
Encode(t) == FlattenSeq([i \in DOMAIN t |-> IF t[i] \in Multibyte THEN <<"lead", t[i]>> ELSE <<t[i]>>])
Decode(bytes) == SelectSeq(bytes, LAMBDA b : b # "lead")
Continuation(b) == b \in Multibyte
Spaces == {" ", "tab", "nl"}
WordCharacter(b) == b \in Multibyte \cup {"lead", "a"}

PreviousCharacter(bytes, p) ==
    IF p = 0 THEN 0 ELSE Max({q \in 0..(p - 1) : q = 0 \/ ~Continuation(bytes[q + 1])})
NextCharacter(bytes, p) ==
    IF p >= Len(bytes) THEN Len(bytes)
    ELSE Min({q \in (p + 1)..Len(bytes) : q = Len(bytes) \/ ~Continuation(bytes[q + 1])})

SkipBackward(bytes, p, Stop(_)) ==
    Max({0} \cup {q \in 1..p : Stop(bytes[PreviousCharacter(bytes, q) + 1])})
SkipForward(bytes, p, Stop(_)) == Min({Len(bytes)} \cup {q \in p..(Len(bytes) - 1) : Stop(bytes[q + 1])})
WordBackward(bytes, p) ==
    SkipBackward(bytes, SkipBackward(bytes, p, WordCharacter), LAMBDA b : ~WordCharacter(b))
WordForward(bytes, p) ==
    SkipForward(bytes, SkipForward(bytes, p, LAMBDA b : ~WordCharacter(b)), WordCharacter)

-----------------------------------------------------------------------------
(* The terminal. A column equal to Columns is a wrap that waits for the next glyph. *)
Blank == [i \in 1..Columns |-> " "]
Above == [i \in 1..Columns |-> "above"]
FreshScreen == [rows |-> <<Above, Blank>>, r |-> 2, c |-> 0]
Width(ch) == IF ch \in Wide THEN 2 ELSE 1

LineFeed(t) ==
    [rows |-> IF t.r = Len(t.rows) THEN Append(t.rows, Blank) ELSE t.rows, r |-> t.r + 1, c |-> 0]
Glyph(t, ch) ==
    With(IF t.c + Width(ch) > Columns THEN LineFeed(t) ELSE t, LAMBDA u :
         [u EXCEPT !.rows[u.r] = [i \in 1..Columns |-> IF i \in (u.c + 1)..(u.c + Width(ch)) THEN ch ELSE @[i]],
                   !.c = @ + Width(ch)])
Write(t, ch) ==
    IF ch = "nl" THEN LineFeed(t)
    ELSE IF ch = "tab" THEN FoldLeft(Glyph, t, [i \in 1..TabWidth |-> " "])
    ELSE Glyph(t, ch)
WriteAll(t, chars) == FoldLeft(Write, t, chars)
Return(t) == [t EXCEPT !.c = 0]
Up(t, n) == [t EXCEPT !.r = Max({1, @ - n})]
Right(t, n) == [t EXCEPT !.c = Min({Columns - 1, @ + n})]
EraseBelow(t) ==
    [t EXCEPT !.rows = [SubSeq(@, 1, t.r) EXCEPT ![t.r] = [i \in 1..Columns |-> IF i > t.c THEN " " ELSE @[i]]]]

(* Where refresh expects the terminal after some of the line: a row from the prompt *)
(* and a column.                                                                    *)
Advance(at, ch) ==
    IF ch = "nl" THEN [row |-> at.row + 1, column |-> 0]
    ELSE LET w == IF ch = "tab" THEN TabWidth ELSE Width(ch)
         IN IF at.column + w > Columns THEN [row |-> at.row + 1, column |-> w]
            ELSE [at EXCEPT !.column = @ + w]
Cell(at) == at.row * Columns + at.column
Position(bytes, end) ==
    With(FoldLeft(LAMBDA n, ch : n + Width(ch), 0, Prompt), LAMBDA before :
         Cell(FoldLeft(Advance, [row |-> before \div Columns, column |-> before % Columns],
                       Decode(SubSeq(bytes, 1, end)))))

MarginFault(t, finish) == t
(* At the right margin the terminal is made to wrap. *)
Margin(t, finish) ==
    IF finish > 0 /\ finish % Columns = 0 THEN Return(WriteAll(t, <<" ">>)) ELSE t
(* What refresh leaves on a screen whose cursor it believes `row` rows below the prompt. *)
MovedBack(t, finish, target) ==
    Right(Return(Up(t, (finish \div Columns) - (target \div Columns))), target % Columns)
Redrawn(t, row, bytes, finish, target) ==
    MovedBack(Margin(WriteAll(EraseBelow(Up(Return(t), row)), Prompt \o Decode(bytes)), finish), finish, target)
Refreshed(t, row, bytes, p) == Redrawn(t, row, bytes, Position(bytes, Len(bytes)), Position(bytes, p))
RefreshedRow(bytes, p) == Position(bytes, p) \div Columns

-----------------------------------------------------------------------------
(* The keys on characters. *)
WordStart(t, i) == t[i + 1] \in Multibyte \cup {"a"} /\ (i = 0 \/ t[i] \notin Multibyte \cup {"a"})
WordBefore(i) == Max({0} \cup {j \in 0..(i - 1) : WordStart(text, j)})
WordAfter(i) == Min({Len(text)} \cup {j \in (i + 1)..(Len(text) - 1) : WordStart(text, j)})
Means(t, i, c) == text' = t /\ caret' = i /\ clip' = c
Cut(i, j) == SubSeq(text, 1, i) \o SubSeq(text, j + 1, Len(text))
Insert(t) == SubSeq(text, 1, caret) \o t \o SubSeq(text, caret + 1, Len(text))

StartLine ==
    /\ line' = <<>> /\ cursor' = 0 /\ yank' = <<>> /\ draft' = <<>>
    /\ text' = <<>> /\ caret' = 0 /\ clip' = <<>>
Init ==
    /\ line = <<>> /\ cursor = 0 /\ yank = <<>> /\ draft = <<>> /\ text = <<>> /\ caret = 0 /\ clip = <<>>
    /\ history = <<>> /\ historyPosition = 0 /\ cursorRow = 0 /\ drained = TRUE
    /\ screen = Refreshed(FreshScreen, 0, <<>>, 0)
    /\ crossed = FALSE /\ reading = TRUE /\ words \in Vocabularies /\ keys = 0

Key == reading /\ keys < MaxKeys /\ keys' = keys + 1 /\ UNCHANGED <<reading, words, history>>
(* After a key: the screen is drawn when nothing is queued. *)
TabCrosses(chars) ==
    \E i \in DOMAIN chars :
        chars[i] = "tab" /\ LET c == WriteAll(FreshScreen, Prompt \o SubSeq(chars, 1, i - 1)).c
                            IN c + TabWidth > Columns /\ c < Columns
RedrawOn(t, row, damaged) ==
    \E quiet \in BOOLEAN :
        /\ drained' = quiet
        /\ crossed' = (damaged \/ (quiet /\ TabCrosses(Decode(line'))))
        /\ IF quiet THEN screen' = Refreshed(t, row, line', cursor') /\ cursorRow' = RefreshedRow(line', cursor')
                    ELSE screen' = t /\ cursorRow' = row
Redraw == RedrawOn(screen, cursorRow, crossed)
Edit(bytes, p) == line' = bytes /\ cursor' = p /\ UNCHANGED <<historyPosition, draft>> /\ Redraw
Replace(from, to, bytes) == Edit(SubSeq(line, 1, from) \o bytes \o SubSeq(line, to + 1, Len(line)), from + Len(bytes))

TypeKey ==
    /\ Key
    /\ \E ch \in Typed :
        /\ Len(line) + Len(Encode(<<ch>>)) <= MaxBytes
        /\ Replace(cursor, cursor, Encode(<<ch>>))
        /\ UNCHANGED yank /\ Means(Insert(<<ch>>), caret + 1, clip)

(* Ctrl+B, Ctrl+F, Ctrl+A, Ctrl+E, the arrows, Home and End, and Meta or Ctrl with *)
(* an arrow, which moves by words.                                                  *)
Moves ==
    { <<PreviousCharacter(line, cursor), Max({0, caret - 1})>>, <<NextCharacter(line, cursor), Min({Len(text), caret + 1})>>,
      <<0, 0>>, <<Len(line), Len(text)>>,
      <<WordBackward(line, cursor), WordBefore(caret)>>, <<WordForward(line, cursor), WordAfter(caret)>> }
MoveKey ==
    /\ Key /\ UNCHANGED yank
    /\ \E move \in Moves : Edit(line, move[1]) /\ Means(text, move[2], clip)

(* Backspace, and Ctrl+D on a line. Delete is below: it takes a word. *)
EraseKey ==
    /\ Key /\ UNCHANGED yank
    /\ \/ \E left \in {PreviousCharacter(line, cursor)} :
            Replace(left, cursor, <<>>) /\ Means(Cut(Max({0, caret - 1}), caret), Max({0, caret - 1}), clip)
       \/ /\ line # <<>>
          /\ Replace(cursor, NextCharacter(line, cursor), <<>>)
          /\ Means(Cut(caret, Min({Len(text), caret + 1})), caret, clip)

(* Ctrl+K, Ctrl+U, Ctrl+W or Meta+Backspace, and Meta+D or Delete, whose parameter  *)
(* `3` is also read as its modifier.                                                *)
Kills ==
    { [from |-> cursor, to |-> Len(line), i |-> caret, j |-> Len(text)],
      [from |-> 0, to |-> cursor, i |-> 0, j |-> caret],
      [from |-> WordBackward(line, cursor), to |-> cursor, i |-> WordBefore(caret), j |-> caret],
      [from |-> cursor, to |-> WordForward(line, cursor), i |-> caret, j |-> WordAfter(caret)] }
KillKey ==
    /\ Key
    /\ \E kill \in Kills :
        /\ yank' = SubSeq(line, kill.from + 1, kill.to)
        /\ Replace(kill.from, kill.to, <<>>)
        /\ Means(Cut(kill.i, kill.j), kill.i, SubSeq(text, kill.i + 1, kill.j))

YankKey ==
    /\ Key /\ UNCHANGED yank
    /\ Len(line) + Len(yank) <= MaxBytes
    /\ Replace(cursor, cursor, yank)
    /\ Means(Insert(clip), caret + Len(clip), clip)

(* Ctrl+T. *)
Transposed(left, right, end) ==
    Edit(SubSeq(line, 1, left) \o SubSeq(line, right + 1, end) \o SubSeq(line, left + 1, right)
           \o SubSeq(line, end + 1, Len(line)), end)
MeansTransposed(j) ==
    Means([i \in DOMAIN text |-> IF j > 0 /\ i = j THEN text[j + 1] ELSE IF j > 0 /\ i = j + 1 THEN text[j] ELSE text[i]],
          j + 1, clip)
TransposeKey ==
    /\ Key /\ UNCHANGED yank
    /\ IF cursor > 0 /\ Len(line) > 1
       THEN /\ \E right \in {IF cursor = Len(line) THEN PreviousCharacter(line, cursor) ELSE cursor} :
                Transposed(PreviousCharacter(line, right), right, NextCharacter(line, right))
            /\ MeansTransposed(IF caret = Len(text) THEN caret - 1 ELSE caret)
       ELSE Edit(line, cursor) /\ UNCHANGED meant

(* What is pasted up to the end marker, with line endings made newlines. *)
Marker == <<"esc", "[", "~">>
PastePending(s, value) ==
    [s EXCEPT !.pending = Tail(@), !.return = value = "cr",
              !.pasted = IF value = "cr" \/ (value = "nl" /\ ~s.return) THEN Append(@, "nl")
                         ELSE IF value \in {"nl", "esc"} THEN @ ELSE Append(@, value)]
RECURSIVE FlushPending(_)
FlushPending(s) ==
    IF s.pending = <<>> \/ IsPrefix(s.pending, Marker) THEN s ELSE FlushPending(PastePending(s, Head(s.pending)))
PasteByte(state, b) ==
    IF state.done THEN state
    ELSE IF Append(state.pending, b) = Marker THEN [state EXCEPT !.done = TRUE]
    ELSE FlushPending([state EXCEPT !.pending = Append(@, b)])
Pasted(bytes) ==
    FoldLeft(PasteByte, [pending |-> <<>>, pasted |-> <<>>, return |-> FALSE, done |-> FALSE], bytes).pasted
(* Meant: one newline for each line ending, and no other control characters. *)
Normal(t) ==
    LET kept == {i \in DOMAIN t : t[i] # "esc" /\ ~(t[i] = "nl" /\ i > 1 /\ t[i - 1] = "cr")}
    IN [n \in 1..Cardinality(kept) |->
          LET i == CHOOSE i \in kept : Cardinality({j \in kept : j <= i}) = n IN IF t[i] = "cr" THEN "nl" ELSE t[i]]
PasteKey ==
    /\ Key /\ UNCHANGED yank
    /\ \E t \in Pastes :
        /\ Len(line) + Len(Encode(t)) <= MaxBytes
        /\ \E pasted \in {Pasted(Encode(t) \o Marker)} : Replace(cursor, cursor, pasted)
        /\ \E meaning \in {Normal(t)} : Means(Insert(meaning), caret + Len(meaning), clip)

-----------------------------------------------------------------------------
CommonPrefix(S) ==
    LET w == CHOOSE w \in S : TRUE
    IN SubSeq(w, 1, Max({n \in 0..Len(w) : \A v \in S : IsPrefix(SubSeq(w, 1, n), v)}))
Backslashes(s) ==
    Max({n \in 0..Len(s) : \A i \in (Len(s) - n + 1)..Len(s) : s[i] = "\\"})
(* No part of a character is inserted, *)
WholeCharacters(common, candidates) ==
    IF \E w \in candidates : Len(w) > Len(common) /\ Continuation(w[Len(common) + 1])
    THEN SubSeq(common, 1, PreviousCharacter(common, Len(common))) ELSE common
(* nor half of an escape. *)
WholeEscapes(common, candidates) ==
    IF Cardinality(candidates) > 1 /\ Backslashes(common) % 2 # 0 THEN Front(common) ELSE common
Inserted(candidates) == WholeEscapes(WholeCharacters(CommonPrefix(candidates), candidates), candidates)

(* The rows above the one a new prompt is written on are no longer the editor's. *)
Collapse(t) == [rows |-> <<Above>> \o SubSeq(t.rows, t.r, Len(t.rows)), r |-> 2, c |-> t.c]
AtEnd == Refreshed(screen, cursorRow, line, Len(line))

(* Tab completes the word before the cursor from the words of the session, or lists *)
(* them when they have nothing more in common.                                      *)
Listed(candidates) ==
    Collapse(FoldSet(LAMBDA w, t : LineFeed(WriteAll(t, Decode(w))), LineFeed(AtEnd), candidates))
Complete(start, candidates) ==
    \E common \in {IF candidates = {} THEN <<>> ELSE Inserted(candidates)} :
        IF Len(common) > cursor - start
        THEN start + Len(common) + Len(line) - cursor <= MaxBytes /\ Replace(start, cursor, common)
        ELSE /\ UNCHANGED <<line, cursor, historyPosition, draft>>
             /\ IF Cardinality(candidates) > 1 THEN RedrawOn(Listed(candidates), 0, FALSE) ELSE Redraw
Extension(full, several) == IF several /\ Backslashes(full) % 2 # 0 THEN Front(full) ELSE full
MeansComplete(first, same) ==
    \E extension \in {IF same = {} THEN <<>> ELSE Extension(CommonPrefix(same), Cardinality(same) > 1)} :
        IF Len(extension) > caret - first
        THEN Means(SubSeq(text, 1, first) \o extension \o SubSeq(text, caret + 1, Len(text)), first + Len(extension), clip)
        ELSE UNCHANGED meant
StartOfWord(t, i) == Max({0} \cup {j \in 1..i : t[j] \in Spaces})
CompleteKey ==
    /\ Key /\ UNCHANGED yank
    /\ \E first \in {StartOfWord(text, caret)} :
        MeansComplete(first, {w \in words : IsPrefix(SubSeq(text, first + 1, caret), w)})
    /\ \E start \in {StartOfWord(line, cursor)} :
        Complete(start, {w \in {Encode(w) : w \in words} : IsPrefix(SubSeq(line, start + 1, cursor), w)})

(* Up and Ctrl+P, Down and Ctrl+N. *)
Recall(position, saved) ==
    /\ historyPosition' = position /\ draft' = saved /\ UNCHANGED yank
    /\ \E bytes \in {IF position < Len(history) THEN history[position + 1] ELSE saved} :
        /\ line' = bytes /\ cursor' = Len(bytes)
        /\ Means(Decode(bytes), Len(Decode(bytes)), clip)
    /\ Redraw
Stay == Edit(line, cursor) /\ UNCHANGED <<yank, meant>>
Recalls ==
    IF history = <<>> THEN {}
    ELSE { <<Max({0, historyPosition - 1}), IF historyPosition = Len(history) THEN line ELSE draft>> }
         \cup IF historyPosition < Len(history) THEN { <<historyPosition + 1, draft>> } ELSE {}
HistoryKey ==
    /\ Key
    /\ \/ \E recall \in Recalls : Recall(recall[1], recall[2])
       \/ historyPosition = Len(history) /\ Stay
(* Ctrl+R. *)
Holding(t, part) == \E j \in 0..Len(t) : IsPrefix(part, SubSeq(t, j + 1, Len(t)))
SearchKey ==
    /\ Key
    /\ \E found \in {{i \in 0..(historyPosition - 1) : Holding(history[i + 1], line)}} :
        IF found = {} THEN Stay ELSE Recall(Max(found), draft)

(* A key without a meaning, and an escape whose rest comes too late: the latter draws. *)
IgnoredKey ==
    /\ Key
    /\ \/ UNCHANGED <<edited, cursorRow, drained, screen, crossed, meant>>
       \/ Stay
(* Ctrl+L. *)
ClearKey ==
    /\ Key /\ UNCHANGED <<edited, meant>>
    /\ RedrawOn(FreshScreen, 0, FALSE)

-----------------------------------------------------------------------------
Remembered ==
    IF (\A i \in DOMAIN line : line[i] \in Spaces) \/ (history # <<>> /\ Last(history) = line) THEN history
    ELSE Append(IF Len(history) = MaxHistory THEN Tail(history) ELSE history, line)
Leave(t) ==
    /\ reading /\ reading' = FALSE
    /\ screen' = LineFeed(t) /\ crossed' = (crossed \/ TabCrosses(Decode(line)))
    /\ cursor' = Len(line) /\ caret' = Len(text)
    /\ UNCHANGED <<line, yank, historyPosition, draft, cursorRow, words, text, clip>>
(* Enter, or the end of the input behind a line: the cursor is put behind the     *)
(* command before the line feed.                                                  *)
Submit ==
    /\ keys < MaxKeys /\ keys' = keys + 1
    /\ Leave(AtEnd) /\ drained' = TRUE
    /\ history' = Remembered
Interrupt ==
    /\ keys < MaxKeys /\ keys' = keys + 1
    /\ Leave(WriteAll(AtEnd, <<"^", "C">>)) /\ drained' = TRUE
    /\ UNCHANGED history
(* The end of the input, or Ctrl+D, on an empty line. *)
End ==
    /\ line = <<>>
    /\ keys < MaxKeys /\ keys' = keys + 1
    /\ Leave(screen) /\ UNCHANGED <<history, drained>>
(* The next command is read with the same editor. *)
Read ==
    /\ ~reading /\ reading' = TRUE
    /\ StartLine
    /\ historyPosition' = Len(history) /\ cursorRow' = 0 /\ drained' = TRUE /\ crossed' = FALSE
    /\ screen' = Refreshed(Collapse(screen), 0, <<>>, 0)
    /\ UNCHANGED <<history, words, keys>>

Next == TypeKey \/ MoveKey \/ EraseKey \/ KillKey \/ YankKey \/ TransposeKey \/ PasteKey \/ CompleteKey
        \/ HistoryKey \/ SearchKey \/ IgnoredKey \/ ClearKey \/ Submit \/ Interrupt \/ End \/ Read

-----------------------------------------------------------------------------
(* Each key does to the bytes of the line what it means on its characters: the    *)
(* cursor stands between characters, and no character is ever torn (previous-     *)
(* Character, nextCharacter, wordBackward, wordForward, the common prefix of       *)
(* candidates, the normalisation of a paste).                                      *)
EditsCharacters ==
    /\ line = Encode(text) /\ cursor = Len(Encode(SubSeq(text, 1, caret)))
    /\ yank = Encode(clip)
    /\ history \in Seq({Encode(Decode(history[i])) : i \in DOMAIN history})

Row(t, i) == IF i <= Len(t.rows) THEN t.rows[i] ELSE Blank
ShowsRows(clean) == \A i \in 1..Max({Len(screen.rows), Len(clean.rows)}) : Row(screen, i) = Row(clean, i)
(* While the editor waits, the terminal shows the prompt and the line as if they   *)
(* had been written once on an empty screen, nothing above them is touched, and    *)
(* its cursor is where a character typed now would appear; a command that is left  *)
(* stays above the output that follows (refresh, submit). Not so once a tab crossed *)
(* the right margin, which refresh measures as a character and writes as spaces.    *)
ScreenIsTrue ==
    drained /\ ~crossed =>
      \A clean \in {WriteAll(FreshScreen, Prompt \o Decode(line))},
         before \in {WriteAll(FreshScreen, Prompt \o Decode(SubSeq(line, 1, cursor)))} :
        /\ reading => ShowsRows(clean) /\ <<screen.r, screen.c>> =
                        IF before.c = Columns THEN <<before.r + 1, 0>> ELSE <<before.r, before.c>>
        /\ ~reading => /\ \A i \in 1..(Len(clean.rows) - 1) : Row(screen, i) = Row(clean, i)
                       /\ screen.r > Len(clean.rows) /\ Row(screen, screen.r) = Blank
=============================================================================
