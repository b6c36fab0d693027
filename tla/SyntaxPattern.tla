--------------------------- MODULE SyntaxPattern -----------------------------
(* The matcher of declared syntax (SyntaxPattern.cpp): a pattern is a sequence  *)
(* of items, matched against a text with backtracking; the same walk, observed,  *)
(* tells an editor what may follow a prefix. A text is a sequence of characters, *)
(* a position an index into it. `Phrases` gives the canonical phrase of each      *)
(* registered spelling, `Owned` the patterns of those that have one of their own. *)
(* Left out: block comments, grammars of other dictionaries, the limits on the   *)
(* length of a scan, the depth of nested patterns and the steps of a walk.       *)
EXTENDS Once, Integers, Sequences, SequencesExt, FiniteSetsExt

CONSTANTS Phrases, Owned, Letters, Digits

Ident == Letters \cup Digits
Blank == {" ", "\n"}
Opening == {"(", "{"}
Closed(open) == IF open = "(" THEN ")" ELSE "}"

Available(t, p) == p <= Len(t)
At(t, p, S) == Available(t, p) /\ t[p] \in S
StartsWith(t, p, key) == p + Len(key) - 1 <= Len(t) /\ SubSeq(t, p, p + Len(key) - 1) = key
Boundary(t, p, key) == Last(key) \in Ident => ~At(t, p + Len(key), Ident)

(* The longest registered phrase, which must not end within a word. *)
Phrase(t, p) ==
    LET keys == {key \in DOMAIN Phrases : StartsWith(t, p, key) /\ Boundary(t, p, key)}
    IN IF keys = {} THEN <<>> ELSE CHOOSE key \in keys : \A other \in keys : Len(other) <= Len(key)
NameOf(key) == IF key = <<>> THEN "" ELSE Phrases[key]
SyntaxAt(t, p, canonical) == NameOf(Phrase(t, p)) = canonical

(* The first position from p on that is not in S. *)
SpanOf(t, p, S) == Min({q \in p..(Len(t) + 1) : ~At(t, q, S)})
LineEnd(t, p) == Min({q \in p..(Len(t) + 1) : q > Len(t) \/ t[q] = "\n"})
RECURSIVE SkipLayout(_, _)
SkipLayout(t, p) ==
    With(SpanOf(t, p, Blank), LAMBDA q : IF SyntaxAt(t, q, "//") THEN SkipLayout(t, LineEnd(t, q + 1)) ELSE q)

NoCaptures == [bound |-> [name \in {} |-> <<>>], path |-> <<>>]
Bind(c, name, value) == [c EXCEPT !.bound = [x \in DOMAIN @ \cup {name} |-> IF x = name THEN value ELSE @[x]]]
Trim(value) ==
    LET kept == {i \in DOMAIN value : value[i] \notin Blank}
    IN IF kept = {} THEN <<>> ELSE SubSeq(value, Min(kept), Max(kept))
Slice(n, t, p, q) == IF n.type = "code" THEN SubSeq(t, p, q - 1) ELSE Trim(SubSeq(t, p, q - 1))

(* `seen` collects what an observed walk could have gone on with. *)
Result(end, c, seen) == [end |-> end, at |-> c, seen |-> seen]
Fails(seen) == Result(0, NoCaptures, seen)
Found(r) == r.end > 0
Also(r, seen) == [r EXCEPT !.seen = @ \cup seen]
Plain == [opaque |-> FALSE, observing |-> FALSE]

RECURSIVE Match(_, _, _, _, _), Advance(_, _, _), Stops(_, _, _)

(* The item is passed and the next ones follow; layout is ordinary again.          *)
Go(nodes, t, q, c, m) == Match(Tail(nodes), t, q, c, [m EXCEPT !.opaque = FALSE])

-----------------------------------------------------------------------------
(* Balancing of a captured stretch. A phrase with a pattern of its own is passed   *)
(* as a whole.                                                                     *)
Balance == [closing |-> <<>>, quoted |-> FALSE, escaped |-> FALSE, comment |-> FALSE]
Top(s) == s.closing = <<>> /\ ~s.quoted /\ ~s.comment
Step(ok, p, s) == [ok |-> ok, p |-> p, s |-> s]
PatternEnd(t, key, p) ==
    IF key \notin DOMAIN Owned THEN 0 ELSE Match(Owned[key], t, p + Len(key), NoCaptures, Plain).end
AdvanceOver(t, p, s, key, name, end) ==
    CASE end > p + Len(key) -> Step(TRUE, end, s)
      [] end <= p + Len(key) /\ name \in Opening -> Step(TRUE, p + Len(key), [s EXCEPT !.closing = Append(@, Closed(name))])
      [] end <= p + Len(key) /\ name \in {Closed(o) : o \in Opening} ->
           IF s.closing # <<>> /\ Last(s.closing) = name
           THEN Step(TRUE, p + Len(key), [s EXCEPT !.closing = Front(@)]) ELSE Step(FALSE, p, s)
      [] OTHER ->
           IF key # <<>> THEN Step(TRUE, p + Len(key), [s EXCEPT !.comment = name = "//"])
           ELSE IF t[p] \in Letters THEN Step(TRUE, SpanOf(t, p, Ident), s)
           ELSE Step(TRUE, p + 1, [s EXCEPT !.quoted = t[p] = "'"])
Advance(t, p, s) ==
    CASE s.comment -> Step(TRUE, p + 1, [s EXCEPT !.comment = t[p] # "\n"])
      [] s.quoted -> Step(TRUE, p + 1, [s EXCEPT !.escaped = ~@ /\ t[p] = "\\", !.quoted = s.escaped \/ t[p] # "'"])
      [] OTHER -> With(Phrase(t, p), LAMBDA key : AdvanceOver(t, p, s, key, NameOf(key), PatternEnd(t, key, p)))

Stops(t, p, s) ==
    {<<p, s>>} \cup IF ~Available(t, p) THEN {}
                   ELSE With(Advance(t, p, s), LAMBDA a : IF a.ok THEN Stops(t, a.p, a.s) ELSE {})
FirstStop(t, p, s, Holds(_)) ==
    With({x[1] : x \in {y \in Stops(t, p, s) : Holds(y[2])}}, LAMBDA found : IF found = {} THEN 0 ELSE Min(found))

(* Items that end in one place only; 0: no such item here. *)
Lex(n, t, p) ==
    CASE n.type \in {"id", "qualified-id"} ->
           IF At(t, p, Letters) THEN SpanOf(t, p, IF n.type = "id" THEN Ident ELSE Ident \cup {":", "."}) ELSE 0
      [] n.type = "number" -> LET q == IF At(t, p, {"+", "-"}) THEN p + 1 ELSE p IN IF At(t, q, Digits) THEN SpanOf(t, q, Digits) ELSE 0
      [] n.type = "string" \/ (n.type = "token" /\ At(t, p, {"'"})) ->
           IF At(t, p, {"'"}) THEN FirstStop(t, p + 1, [Balance EXCEPT !.quoted = TRUE], LAMBDA s : ~s.quoted) ELSE 0
      [] n.type = "token" /\ ~At(t, p, {"'"}) ->
           IF ~Available(t, p) THEN 0
           ELSE IF Phrase(t, p) # <<>> THEN p + Len(Phrase(t, p))
           ELSE IF t[p] \in Ident THEN SpanOf(t, p, Ident) ELSE p + 1
      [] n.type = "block" ->
           IF SyntaxAt(t, p, "{") THEN FirstStop(t, p + 1, [Balance EXCEPT !.closing = <<"}">>], Top) ELSE 0
      [] n.type = "rest" -> LineEnd(t, p)
(* A literal is met by every spelling of its phrase, if it is a phrase. *)
LiteralEnd(n, t, p) ==
    IF n.text \in DOMAIN Phrases
    THEN IF SyntaxAt(t, p, Phrases[n.text]) THEN p + Len(Phrase(t, p)) ELSE 0
    ELSE IF StartsWith(t, p, n.text) /\ Boundary(t, p, n.text) THEN p + Len(n.text) ELSE 0

-----------------------------------------------------------------------------
(* The walk. Alternatives start from a copy of the captures.                      *)
Through(inside, nodes, t, m) ==
    IF Found(inside) THEN Also(Go(nodes, t, inside.end, inside.at, m), inside.seen) ELSE inside
TakenOrNot(taken, skipped, m) ==
    IF Found(taken) THEN Also(taken, IF m.observing THEN skipped.seen ELSE {}) ELSE Also(skipped, taken.seen)
MatchOptionalFault(n, nodes, t, p, c, m) ==
    With(Match(n.children, t, p, c, m), LAMBDA inside :
         TakenOrNot(Through(inside, nodes, t, m), Match(Tail(nodes), t, p, inside.at, m), m))
MatchOptional(n, nodes, t, p, c, m) ==
    TakenOrNot(Through(Match(n.children, t, p, c, m), nodes, t, m), Match(Tail(nodes), t, p, c, m), m)
FirstOf(results, fit, m) ==
    Also(IF fit = {} THEN Fails({}) ELSE results[IF m.observing THEN Max(fit) ELSE Min(fit)],
         UNION {results[i].seen : i \in DOMAIN results})
MatchChoice(n, nodes, t, p, c, m) ==
    With([i \in DOMAIN n.alternatives |-> Through(Match(n.alternatives[i], t, p, c, m), nodes, t, m)],
         LAMBDA results : FirstOf(results, {i \in DOMAIN results : Found(results[i])}, m))

(* A capture that is the last item takes the rest of the line; another one the     *)
(* shortest balanced stretch behind which the items that follow match.             *)
Opaque(n) == n.type \in {"raw", "code"}
LineStop(t, x) == x[1] > Len(t) \/ (t[x[1]] = "\n" /\ (Top(x[2]) \/ (x[2].comment /\ x[2].closing = <<>>)))
(* The end of a last capture: where it is, and whether the text is balanced there. *)
LastEnd(t, scan) ==
    With({x \in scan : LineStop(t, x)}, LAMBDA stops :
    With(IF stops # {} THEN Min({x[1] : x \in stops}) ELSE Max({x[1] : x \in scan}), LAMBDA end :
         [end |-> end, balanced |-> \A x \in scan : x[1] = end => x[2].closing = <<>> /\ ~x[2].quoted]))
LastCapture(n, t, p, c) ==
    With(IF Opaque(n) THEN [end |-> LineEnd(t, p), balanced |-> TRUE] ELSE LastEnd(t, Stops(t, p, Balance)), LAMBDA r :
    With(Slice(n, t, p, r.end), LAMBDA value :
         Also(IF ~r.balanced \/ (n.type = "expr" /\ value = <<>>) THEN Fails({}) ELSE Result(r.end, Bind(c, n.text, value), {}),
              IF r.end > Len(t) THEN {<<p, n>>} ELSE {})))
(* Where a capture that is not the last item may end. *)
Ends(n, t, p) ==
    {q \in IF Opaque(n) THEN p..(Len(t) + 1) ELSE {x[1] : x \in {y \in Stops(t, p, Balance) : Top(y[2])}} :
        n.type = "expr" => Slice(n, t, p, q) # <<>>}
ReachesEnd(n, t, p) == Opaque(n) \/ \E x \in Stops(t, p, Balance) : x[1] = Len(t) + 1
Shortest(results, fit, unfinished) ==
    IF fit # {} THEN Also(results[Min(fit)], UNION {results[q].seen : q \in {r \in DOMAIN results : r < Min(fit)}})
    ELSE Fails(UNION {results[q].seen : q \in DOMAIN results} \cup unfinished)
VariableCapture(n, nodes, t, p, c, m) ==
    With([q \in Ends(n, t, p) |-> Match(Tail(nodes), t, q, Bind(c, n.text, Slice(n, t, p, q)), [m EXCEPT !.opaque = Opaque(n)])],
         LAMBDA results : Shortest(results, {q \in DOMAIN results : Found(results[q])},
                                   IF ReachesEnd(n, t, p) THEN {<<p, n>>} ELSE {}))

Expected(n, t, p) ==
    IF n.kind = "literal"
    THEN p <= Len(t) + 1 /\ Len(t) + 1 - p < Len(n.text) /\ SubSeq(n.text, 1, Len(t) + 1 - p) = SubSeq(t, p, Len(t))
    ELSE p = Len(t) + 1 \/ (n.type \in {"id", "qualified-id", "rest"} /\ Lex(n, t, p) = Len(t) + 1)

Skipped(n, t, p, opaque) ==
    IF opaque \/ (n.kind = "capture" /\ Opaque(n)) THEN SpanOf(t, p, Blank) ELSE SkipLayout(t, p)
(* Where a layout item ends, 0: the layout is another. *)
LayoutEnd(n, t, p, q) ==
    CASE n.type = "none" -> IF At(t, p, Blank) THEN 0 ELSE p
      [] n.type = "required" -> IF At(t, p, Blank) THEN SpanOf(t, p, Blank) ELSE 0
      [] n.type = "newline" -> IF At(t, SpanOf(t, p, {" "}), {"\n"}) THEN SpanOf(t, p, {" "}) + 1 ELSE 0
      [] n.type = "ignore" -> q
Simple(n) == n.kind = "capture" /\ n.type \notin {"expr", "raw", "code"}
Text(n, t, p, q) == IF n.type = "rest" THEN Trim(SubSeq(t, p, q - 1)) ELSE SubSeq(t, p, q - 1)
GoIf(e, c, nodes, t, m) == IF e = 0 THEN Fails({}) ELSE Go(nodes, t, e, c, m)
MatchItem(n, nodes, t, q, c, here, m) ==
    CASE n.kind = "literal" -> GoIf(LiteralEnd(n, t, q), here, nodes, t, m)
      [] Simple(n) -> With(Lex(n, t, q), LAMBDA e : GoIf(e, Bind(here, n.text, Text(n, t, q, e)), nodes, t, m))
      [] OTHER -> IF Len(nodes) = 1 THEN LastCapture(n, t, q, here) ELSE VariableCapture(n, nodes, t, q, here, m)
Match(nodes, t, p, c, m) ==
    IF nodes = <<>> THEN Result(p, c, {})
    ELSE With(Head(nodes), LAMBDA n : With(Skipped(n, t, p, m.opaque), LAMBDA q :
         CASE n.kind = "optional" -> MatchOptional(n, nodes, t, p, c, m)
           [] n.kind = "choice" -> MatchChoice(n, nodes, t, p, c, m)
           [] n.kind = "layout" -> GoIf(LayoutEnd(n, t, p, q), c, nodes, t, m)
           [] OTHER -> Also(MatchItem(n, nodes, t, q, c, [c EXCEPT !.path = Append(@, <<q, n>>)], m),
                            IF m.observing /\ Expected(n, t, q) THEN {<<q, n>>} ELSE {})))

MatchPattern(nodes, t) == Match(nodes, t, 1, NoCaptures, Plain)
Finished == [kind |-> "end"]
Expect(nodes, prefix) ==
    With(Match(nodes, prefix, 1, NoCaptures, [Plain EXCEPT !.observing = TRUE]), LAMBDA r :
         r.seen \cup IF Found(r) /\ SkipLayout(prefix, r.end) = Len(prefix) + 1 THEN {<<Len(prefix) + 1, Finished>>} ELSE {})

-----------------------------------------------------------------------------
(* What a pattern means: all the ways to read a text as its items.                 *)
RECURSIVE Readings(_, _, _, _, _)
ItemEnds(n, t, p, last) ==
    CASE n.kind = "literal" -> {LiteralEnd(n, t, p)}
      [] Simple(n) -> {Lex(n, t, p)}
      [] OTHER -> IF last THEN {q \in {LastCapture(n, t, p, NoCaptures).end} : n.type = "expr" => Slice(n, t, p, q) # <<>>}
                  ELSE Ends(n, t, p)
ReadItem(n, rest, t, q, c, here) ==
    UNION {Readings(rest, t, e,
                    CASE n.kind = "literal" -> here
                      [] Simple(n) -> Bind(here, n.text, Text(n, t, q, e))
                      [] OTHER -> Bind(here, n.text, Slice(n, t, q, e)), n.kind = "capture" /\ Opaque(n))
           : e \in ItemEnds(n, t, q, rest = <<>>) \ {0}}
Readings(nodes, t, p, c, opaque) ==
    IF nodes = <<>> THEN {<<p, c>>}
    ELSE With(Head(nodes), LAMBDA n : With(Skipped(n, t, p, opaque), LAMBDA q :
         LET Inside(groups) == UNION {UNION {Readings(Tail(nodes), t, r[1], r[2], FALSE) : r \in Readings(group, t, p, c, opaque)}
                                       : group \in groups}
         IN CASE n.kind = "optional" -> Inside({n.children}) \cup Readings(Tail(nodes), t, p, c, opaque)
              [] n.kind = "choice" -> Inside(ToSet(n.alternatives))
              [] n.kind = "layout" -> UNION {Readings(Tail(nodes), t, e, c, FALSE) : e \in {LayoutEnd(n, t, p, q)} \ {0}}
              [] OTHER -> ReadItem(n, Tail(nodes), t, q, c, [c EXCEPT !.path = Append(@, <<q, n>>)])))

(* Within a group the first way is final: a pattern whose groups hold groups or     *)
(* captures of unknown length has readings the matcher does not find.               *)
RECURSIVE Committed(_)
Committed(nodes) ==
    \E n \in ToSet(nodes) :
       \E group \in IF n.kind = "optional" THEN {n.children} ELSE IF n.kind = "choice" THEN ToSet(n.alternatives) ELSE {} :
          \/ Committed(group)
          \/ \E x \in ToSet(group) : x.kind \in {"optional", "choice"} \/ (x.kind = "capture" /\ x.type \in {"expr", "raw", "code"})

(* What is matched is a reading of the text as the pattern's items, with the         *)
(* captures of that reading and no others; and if there is one, one is found, unless *)
(* a group had several ways (SyntaxPattern.cpp 642-884).                             *)
ReadingIsFound(nodes, t) ==
    \A r \in {MatchPattern(nodes, t)}, all \in {Readings(nodes, t, 1, NoCaptures, FALSE)} :
        IF Found(r) THEN <<r.end, r.at>> \in all ELSE all = {} \/ Committed(nodes)

(* Cut where an item of the matched text begins, the item is offered, unless what     *)
(* stands before it is matched already (SyntaxPattern.cpp 1428-1443).                 *)
CompletionOffers(nodes, t) ==
    \A r \in {MatchPattern(nodes, t)} : Found(r) =>
        \A step \in ToSet(r.at.path) : \A before \in {SubSeq(t, 1, step[1] - 1)} :
            step \in Expect(nodes, before) \/ Found(MatchPattern(nodes, before))
=============================================================================
