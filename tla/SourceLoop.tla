------------------------------ MODULE SourceLoop ------------------------------
(* The loop that executes sources (Recurloop.cpp) while it reads them in chunks  *)
(* (Source.cpp). A job says what the inputs and files are, the size of a chunk,   *)
(* whether there is a source hook and after how many steps it is cancelled. A     *)
(* phrase passes, enters or leaves a dictionary, includes a file, executes a      *)
(* text or a block, looks ahead, or fails.                                        *)
(*                                                                               *)
(* A text is a tuple of bytes; "n" is the newline and "e", "f" are the two bytes *)
(* of one character. Dictionaries are sets of [key, does]; a phrase that does    *)
(* nothing ("data") is not elaboratable.                                         *)
EXTENDS Once, Integers, Sequences, FiniteSets, SequencesExt

CONSTANTS Preview,       \* bytes of an undefined phrase that a failure shows
          Dictionaries,  \* the phrases of each dictionary
          Includes,      \* the file that a path includes
          Macro          \* the text that a phrase executes

-----------------------------------------------------------------------------
(* The source being executed. What is left of a stream is in "in"; "open" until  *)
(* a read has met its end. The arguments that name further inputs are "args".    *)
Stream(path, text) == [str |-> <<>>, offset |-> 0, more |-> TRUE, path |-> path, line |-> 1, position |-> 1,
                       in |-> text, open |-> TRUE, args |-> <<>>]
Text(path, text, line, position) ==
    [str |-> text, offset |-> 0, more |-> FALSE, path |-> path, line |-> line, position |-> position,
     in |-> <<>>, open |-> FALSE, args |-> <<>>]
Bits(c) == Len(c.source.str) - c.source.offset
Rest(c) == SubSeq(c.source.str, c.source.offset + 1, Len(c.source.str))
At(source) == <<source.path, source.line, source.position>>
Fail(c, why, location) == [c EXCEPT !.failure = <<why, location>>]
Failed(c) == c.failure # <<>>

(* Bytes of a stream up to the end of its line, but no more than a chunk. *)
ChunkEnd(s, size) ==
    With(SelectInSeq(s.in, LAMBDA byte : byte = "n"), LAMBDA newline : IF newline = 0 \/ newline > size THEN size ELSE newline)
Filled(s, chunk, open) ==
    [s EXCEPT !.str = @ \o chunk, !.in = SubSeq(@, Len(chunk) + 1, Len(@)), !.open = open, !.more = open \/ s.args # <<>>]
LoadInput(c, slide) ==
    With(ChunkEnd(c.source, c.size), LAMBDA limit :
         [c EXCEPT !.source =
            Filled(IF ~slide \/ @.in = <<>> THEN @ ELSE [@ EXCEPT !.str = Rest(c), !.offset = 0],
                   SubSeq(@.in, 1, IF limit > Len(@.in) THEN Len(@.in) ELSE limit), limit <= Len(@.in))])
NextInput(c) ==
    LET input == Head(c.source.args)
    IN  With([c EXCEPT !.source.args = Tail(@), !.source.path = "", !.source.line = 1, !.source.position = 1,
                       !.source.more = Len(c.source.args) > 1, !.continues = FALSE], LAMBDA next :
             IF input.kind = "lost" THEN Fail(next, "open", <<input.path, 1, 1>>)
             ELSE [next EXCEPT !.source.in = input.text, !.source.open = TRUE, !.continues = input.kind = "terminal",
                               !.source.path = IF input.kind = "file" THEN input.path ELSE ""])
Load(c, slide) ==
    With(IF c.source.open \/ c.source.args = <<>> THEN c ELSE NextInput(c), LAMBDA next :
         IF Failed(next) THEN next ELSE IF next.source.open THEN LoadInput(next, slide) ELSE [next EXCEPT !.source.more = FALSE])

(* Columns of a text; a byte of a character that is cut in two is one column. *)
Width(text) == Len(text) - Cardinality({ i \in 1..Len(text) - 1 : text[i] = "e" /\ text[i + 1] = "f" })
ProgressFault(c, bytes) ==
    LET count == IF bytes > Bits(c) THEN Bits(c) ELSE bytes
        taken == SubSeq(Rest(c), 1, count)
    IN  [c EXCEPT !.source.offset = @ + count, !.source.position = @ + Width(taken),
                  !.source.line = @ + Cardinality({ i \in 1..count : taken[i] = "n" })]
Progress(c, bytes) ==
    LET count == IF bytes > Bits(c) THEN Bits(c) ELSE bytes
        taken == SubSeq(Rest(c), 1, count)
        newline == SelectLastInSeq(taken, LAMBDA byte : byte = "n")
        after == SubSeq(taken, newline + 1, count)
    IN  [c EXCEPT !.source.offset = @ + count,
                  !.source.line = @ + Cardinality({ i \in 1..count : taken[i] = "n" }),
                  !.source.position = (IF newline = 0 THEN @ ELSE 1) + Width(after)]

(* The walk down the dictionary goes on where the buffer ended. It is at a byte   *)
(* of the buffer; where the buffer begins may move while more is loaded.          *)
Elaboratable(dictionary) == { p \in dictionary : p.does # "data" }
Goes(dictionary, key) == \E p \in dictionary : Len(p.key) > Len(key) /\ IsPrefix(key, p.key)
RECURSIVE Descend(_, _, _, _)
Descend(c, dictionary, progress, result) ==
    With(SubSeq(c.source.str, c.source.offset + 1, progress), LAMBDA key :
    With(IF \E p \in Elaboratable(dictionary) : p.key = key THEN [bytes |-> Len(key), found |-> TRUE, more |-> TRUE] ELSE result,
         LAMBDA best :
           IF progress = Len(c.source.str) THEN [result |-> [best EXCEPT !.more = Goes(dictionary, key)], progress |-> progress]
           ELSE IF \E p \in dictionary : IsPrefix(Append(key, c.source.str[progress + 1]), p.key)
                THEN Descend(c, dictionary, progress + 1, best)
           ELSE [result |-> [best EXCEPT !.more = FALSE], progress |-> progress]))
RECURSIVE Walk(_, _, _, _)
Walk(c, dictionary, progress, result) ==
    With(Descend(c, dictionary, progress, result), LAMBDA down :
    With(IF down.result.more /\ c.source.more THEN Load(c, TRUE) ELSE c, LAMBDA loaded :
         IF ~down.result.more \/ ~c.source.more \/ Failed(loaded) THEN [c |-> loaded, result |-> down.result]
         ELSE Walk(loaded, dictionary, down.progress + loaded.source.offset - c.source.offset, down.result)))
Nothing == [bytes |-> 0, found |-> FALSE, more |-> FALSE]
MatchLongest(c, dictionary) ==
    With(Walk(c, dictionary, c.source.offset, Nothing), LAMBDA walked :
         LET key == SubSeq(Rest(walked.c), 1, walked.result.bytes)
         IN  [c |-> IF Failed(walked.c) THEN walked.c ELSE Progress(walked.c, walked.result.bytes),
              phrase |-> { p \in Elaboratable(dictionary) : walked.result.found /\ p.key = key }])
RECURSIVE Probe(_, _)
ProbeFrom(filled, dictionary) ==
    With(Descend(filled, dictionary, filled.source.offset, Nothing).result, LAMBDA result :
    With(IF result.more /\ filled.source.more THEN Load(filled, FALSE) ELSE filled, LAMBDA loaded :
         IF Failed(loaded) \/ Bits(loaded) <= Bits(filled)
         THEN [c |-> loaded, key |-> SubSeq(Rest(filled), 1, result.bytes)]
         ELSE Probe(loaded, dictionary)))
Probe(c, dictionary) ==
    With(IF Bits(c) = 0 /\ c.source.more THEN Load(c, FALSE) ELSE c, LAMBDA filled :
         IF Failed(filled) THEN [c |-> filled, key |-> <<>>] ELSE ProbeFrom(filled, dictionary))

(* Ends of blocks are looked for behind white space. *)
RECURSIVE Ensure(_, _)
Ensure(c, relative) ==
    IF relative >= Bits(c) /\ c.source.more /\ ~Failed(c) THEN Ensure(Load(c, TRUE), relative) ELSE c
RECURSIVE Consume(_, _)
Consume(c, cursor) ==
    With(Ensure(c, cursor), LAMBDA ready :
         IF Failed(ready) \/ cursor >= Bits(ready) THEN [c |-> ready, taken |-> FALSE]
         ELSE IF Rest(ready)[cursor + 1] \in {"n", " "} THEN Consume(ready, cursor + 1)
         ELSE IF Rest(ready)[cursor + 1] = "}" THEN [c |-> Progress(ready, cursor + 1), taken |-> TRUE]
         ELSE [c |-> ready, taken |-> FALSE])

(* An undefined phrase is shown as far as its line, which is skipped. *)
RECURSIVE Show(_), SkipToNextLine(_)
Show(c) ==
    IF c.source.more /\ ~Failed(c) /\ Bits(c) <= Preview /\ ~Contains(Rest(c), "n") THEN Show(Load(c, FALSE)) ELSE c
SkipToNextLine(c) ==
    IF Failed(c) \/ (Bits(c) = 0 /\ ~c.source.more) THEN c
    ELSE IF Bits(c) = 0 THEN SkipToNextLine(Load(c, TRUE))
    ELSE With(SelectInSeq(Rest(c), LAMBDA byte : byte = "n"), LAMBDA newline :
              IF newline # 0 THEN Progress(c, newline) ELSE SkipToNextLine(Progress(c, Bits(c))))
HandleUndefinedPhrase(c) ==
    With(SkipToNextLine(Show(c)), LAMBDA skipped :
         IF Failed(skipped) THEN skipped ELSE Fail(skipped, "undefined", At(c.source)))

Logged(c, what, location) == [c EXCEPT !.log = Append(@, <<what, location, c.scopes>>)]
Hooked(job, c) == job.hooked /\ c.lookup = "root" /\ Rest(c)[1] = "h"
RECURSIVE Step(_, _), ProcessSource(_, _), BlockLoop(_, _, _), Elaborate(_, _, _, _)
ExecuteSource(job, c, text, path) ==
    [ProcessSource(job, [c EXCEPT !.source = Text(path, text, 1, 1)]) EXCEPT !.source = c.source]
ExecuteStream(job, c, path) ==
    With([ProcessSource(job, [c EXCEPT !.source = Stream(path, job.files[path])]) EXCEPT !.source = c.source], LAMBDA done :
         IF Failed(done) THEN done ELSE Logged(done, <<"completed", path>>, <<>>))
ExecuteCurrentBlock(job, c) ==
    [BlockLoop(job, [c EXCEPT !.scopes = @ + 1], c.lookup) EXCEPT !.scopes = c.scopes]
BlockLoop(job, c, lookup) ==
    With(IF c.lookup = lookup THEN Consume(c, 0) ELSE [c |-> c, taken |-> FALSE], LAMBDA closed :
    With(closed.c, LAMBDA next :
         IF Failed(next) \/ closed.taken THEN next
         ELSE IF Bits(next) = 0 /\ ~next.source.more THEN Fail(next, "unterminated", At(next.source))
         ELSE BlockLoop(job, Step(job, next), lookup)))

Target(path) == IF path \in DOMAIN Includes THEN Includes[path] ELSE "lost"
ProbeLongest(c) ==
    With(Probe(c, Dictionaries[c.lookup]), LAMBDA probed : Logged(probed.c, <<"probed", probed.key>>, <<>>))
Elaborate(job, c, phrase, location) ==
    With(Logged(c, phrase.key, location), LAMBDA run :
         CASE phrase.does = "enter" -> [run EXCEPT !.lookup = "inner"]
           [] phrase.does = "leave" -> [run EXCEPT !.lookup = "root"]
           [] phrase.does = "include" -> IF Target(run.source.path) = "lost" THEN Fail(run, "include", <<>>)
                                         ELSE ExecuteStream(job, run, Target(run.source.path))
           [] phrase.does = "text" -> ExecuteSource(job, run, Macro, "text")
           [] phrase.does = "block" -> ExecuteCurrentBlock(job, run)
           [] phrase.does = "probe" -> ProbeLongest(run)
           [] phrase.does = "fail" -> Fail(run, "fail", <<>>)
           [] OTHER -> run)
ElaborateMatched(job, matched, location) ==
    IF Failed(matched.c) THEN matched.c
    ELSE IF matched.phrase = {} THEN HandleUndefinedPhrase(matched.c)
    ELSE Elaborate(job, matched.c, CHOOSE p \in matched.phrase : TRUE, location)
Located(done, source) == IF Failed(done) /\ done.failure[2] = <<>> THEN Fail(done, done.failure[1], At(source)) ELSE done
Step(job, before) ==
    With([before EXCEPT !.steps = @ + 1], LAMBDA c :
         Located(CASE before.steps >= job.steps -> Fail(c, "cancelled", At(c.source))
                   [] before.steps < job.steps /\ Bits(c) = 0 -> IF c.source.more THEN Load(c, TRUE) ELSE c
                   [] before.steps < job.steps /\ Bits(c) > 0 /\ Hooked(job, c) -> Progress(Logged(c, <<"hook">>, At(c.source)), 1)
                   [] OTHER -> ElaborateMatched(job, MatchLongest(c, Dictionaries[c.lookup]), At(c.source)), c.source))
ProcessSource(job, c) ==
    IF Failed(c) \/ (Bits(c) = 0 /\ ~c.source.more) THEN c ELSE ProcessSource(job, Step(job, c))

(* Inputs. At a terminal the loop goes on behind the line that failed. *)
RECURSIVE ExecuteInputs(_, _)
ExecuteInputs(job, c) ==
    With(ProcessSource(job, c), LAMBDA done :
    With(Logged([done EXCEPT !.failure = <<>>], <<"failure", done.failure[1]>>, done.failure[2]), LAMBDA noted :
         IF ~Failed(done) THEN done
         ELSE IF ~done.continues \/ ~done.source.more THEN [noted EXCEPT !.status = 1]
         ELSE ExecuteInputs(job, Load(Progress(noted, Bits(noted)), FALSE))))
Begin(job) ==
    [source |-> [Text("", <<>>, 1, 1) EXCEPT !.more = job.inputs # <<>>, !.args = job.inputs],
     lookup |-> "root", scopes |-> 0, continues |-> FALSE, steps |-> 0, size |-> job.size, log |-> <<>>,
     failure |-> <<>>, status |-> 0]

-----------------------------------------------------------------------------
(* What the inputs mean, read as one text. The pieces of the text say where it    *)
(* comes from. A reader is at a byte of the text.                                 *)
Pieces(job) ==
    [i \in DOMAIN job.inputs |->
       [path |-> job.inputs[i].path, kind |-> job.inputs[i].kind,
        at |-> FoldLeftDomain(LAMBDA n, k : IF k < i THEN n + Len(job.inputs[k].text) ELSE n, 0, job.inputs)]]
Whole(job) == FoldLeft(LAMBDA text, input : text \o input.text, <<>>, job.inputs)
Piece(pieces, at) == CHOOSE i \in DOMAIN pieces : pieces[i].at <= at /\ \A k \in DOMAIN pieces : pieces[k].at <= at => k <= i
PieceEnd(text, pieces, at) ==
    LET i == Piece(pieces, at) IN IF i = Len(pieces) THEN Len(text) ELSE pieces[i + 1].at
Location(text, pieces, at) ==
    LET piece == pieces[Piece(pieces, at)]
        before == SubSeq(text, piece.at + 1, at)
        newline == SelectLastInSeq(before, LAMBDA byte : byte = "n")
    IN  <<piece.path, 1 + Cardinality({ i \in DOMAIN before : before[i] = "n" }),
          1 + Width(SubSeq(before, newline + 1, Len(before)))>>

(* A phrase that the end of an input may cut, and a block that it does cut, are  *)
(* left aside: the loop reads on in the next input before it has placed them.     *)
Cut(text, pieces, dictionary, at) ==
    /\ Piece(pieces, at) < Len(pieces)
    /\ Goes(dictionary, SubSeq(text, at + 1, PieceEnd(text, pieces, at)))
LongestKey(dictionary, rest) ==
    LET keys == { p.key : p \in { q \in Elaboratable(dictionary) : IsPrefix(q.key, rest) } }
    IN  IF keys = {} THEN <<>> ELSE CHOOSE k \in keys : \A l \in keys : Len(l) <= Len(k)
Behind(text, at) == CHOOSE k \in at..Len(text) : /\ \A i \in at + 1..k : text[i] \in {"n", " "}
                                                 /\ k < Len(text) => text[k + 1] \notin {"n", " "}
RECURSIVE Means(_, _, _, _, _), MeansPhrase(_, _, _, _, _)
Noted(m, what, location) == [m EXCEPT !.log = Append(@, <<what, location, m.scopes>>)]
MeansFile(job, m, text, path) == Means(job, [m EXCEPT !.at = 0], text, <<[path |-> path, kind |-> "file", at |-> 0]>>, "")
Within(inner, at) == [inner EXCEPT !.at = at]
MeansPhrase(job, m, text, pieces, phrase) ==
    With(Location(text, pieces, m.at), LAMBDA at :
    With([Noted(m, phrase.key, at) EXCEPT !.at = @ + Len(phrase.key)], LAMBDA run :
    With(Target(at[1]), LAMBDA path :
         CASE phrase.does = "enter" -> [run EXCEPT !.lookup = "inner"]
           [] phrase.does = "leave" -> [run EXCEPT !.lookup = "root"]
           [] phrase.does = "include" ->
                IF path = "lost" THEN [run EXCEPT !.failure = <<"include", at>>]
                ELSE With(Within(MeansFile(job, run, job.files[path], path), run.at), LAMBDA inner :
                          IF inner.failure # <<>> THEN inner ELSE Noted(inner, <<"completed", path>>, <<>>))
           [] phrase.does = "text" -> Within(MeansFile(job, run, Macro, "text"), run.at)
           [] phrase.does = "block" ->
                [Means(job, [run EXCEPT !.scopes = @ + 1], text, pieces, run.lookup) EXCEPT !.scopes = m.scopes]
           [] phrase.does = "probe" ->
                Noted(run, <<"probed", LongestKey(Dictionaries[run.lookup],
                                                  SubSeq(text, run.at + 1, PieceEnd(text, pieces, m.at)))>>, <<>>)
           [] phrase.does = "fail" -> [run EXCEPT !.failure = <<"fail", at>>]
           [] OTHER -> run)))
(* The phrase at the place where the reader is. *)
MeansNext(job, m, text, pieces) ==
    LET rest == SubSeq(text, m.at + 1, Len(text))
        dictionary == Dictionaries[m.lookup]
        key == LongestKey(dictionary, rest)
    IN  IF Hooked(job, [lookup |-> m.lookup, source |-> [str |-> rest, offset |-> 0]])
        THEN [Noted(m, <<"hook">>, Location(text, pieces, m.at)) EXCEPT !.at = @ + 1]
        ELSE IF Cut(text, pieces, dictionary, m.at) THEN [m EXCEPT !.cut = TRUE]
        ELSE IF key = <<>>
             THEN [m EXCEPT !.failure = <<"undefined", Location(text, pieces, m.at)>>,
                            !.cut = /\ Piece(pieces, m.at) < Len(pieces)
                                    /\ ~Contains(SubSeq(text, m.at + 1, PieceEnd(text, pieces, m.at)), "n")]
        ELSE MeansPhrase(job, m, text, pieces, CHOOSE p \in dictionary : p.key = key)
(* Up to the brace that closes a block, or, without one, to the end. *)
Means(job, m, text, pieces, closing) ==
    With(Behind(text, m.at), LAMBDA behind :
         LET lost == m.at = Len(text) /\ pieces # <<>> /\ pieces[Len(pieces)].kind = "lost"
             split == behind >= PieceEnd(text, pieces, m.at) /\ Piece(pieces, m.at) < Len(pieces)
         IN  IF m.failure # <<>> \/ m.cut THEN m
             ELSE IF lost THEN [m EXCEPT !.failure = <<"open", <<pieces[Len(pieces)].path, 1, 1>>>>]
             ELSE IF m.at = Len(text) /\ closing = "" THEN m
             ELSE IF closing # "" /\ split THEN [m EXCEPT !.cut = TRUE]
             ELSE IF closing = m.lookup /\ behind < Len(text) /\ text[behind + 1] = "}" THEN [m EXCEPT !.at = behind + 1]
             ELSE IF m.at = Len(text) THEN [m EXCEPT !.failure = <<"unterminated", Location(text, pieces, m.at)>>]
             ELSE Means(job, MeansNext(job, m, text, pieces), text, pieces, closing))
RECURSIVE MeansInputs(_, _, _, _)
MeansInputs(job, m, text, pieces) ==
    With(Means(job, m, text, pieces, ""), LAMBDA done :
    With({ k \in done.at + 1..Len(text) : text[k] = "n" }, LAMBDA lines :
    With(Noted([done EXCEPT !.failure = <<>>], <<"failure", done.failure[1]>>, done.failure[2]), LAMBDA noted :
         IF done.failure = <<>> \/ done.cut THEN done
         ELSE IF done.failure[1] = "open" \/ pieces[Piece(pieces, done.at)].kind # "terminal" \/ lines = {}
              THEN [noted EXCEPT !.status = 1]
         ELSE MeansInputs(job, [noted EXCEPT !.at = CHOOSE k \in lines : \A l \in lines : k <= l], text, pieces))))
Meaning(job) ==
    MeansInputs(job, [at |-> 0, lookup |-> "root", scopes |-> 0, log |-> <<>>, failure |-> <<>>, cut |-> FALSE, status |-> 0],
                Whole(job), Pieces(job))

(* Chunks do not show, locations are those of the text, a failure is where it    *)
(* happened, what was begun is ended, and a cancelled loop goes no further.      *)
SourceMeans(job) ==
    \A c \in {ExecuteInputs(job, Begin(job))}, m \in {Meaning(job)} :
      \A executed \in {SelectSeq(c.log, LAMBDA entry : entry[1] # <<"failure", "cancelled">>)} :
        \/ m.cut
        \/ executed # c.log /\ IsPrefix(executed, m.log)
        \/ c.log = m.log /\ c.status = m.status /\ c.lookup = m.lookup /\ c.scopes = 0
=============================================================================
