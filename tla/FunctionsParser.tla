--------------------------- MODULE FunctionsParser ---------------------------
(* The parser of compiled functions (FunctionsParser.cpp): from the tokens of a *)
(* body to the statements and expressions of FunctionMeaning. Tokens are        *)
(* strings, a line break and ";" are the token "nl". Which tokens are operators,*)
(* statements, primaries and postfixes is data of the lexicon in the code and   *)
(* sets here. Types, casts, function literals, qualified names and what          *)
(* inspection records are left out.                                              *)
EXTENDS Once, Integers, SequencesExt

Precedence == [t \in {"||", "&&", "|", "^", "&", "==", "!=", "<", ">", "<<", ">>", "+", "-", "*", "/", "%"} |->
    CASE t = "||" -> 1 [] t = "&&" -> 2 [] t = "|" -> 3 [] t = "^" -> 4 [] t = "&" -> 5
      [] t \in {"==", "!="} -> 6 [] t \in {"<", ">"} -> 7 [] t \in {"<<", ">>"} -> 8
      [] t \in {"+", "-"} -> 9 [] t \in {"*", "/", "%"} -> 10]
PrefixOperators == {"!", "~", "+", "-", "*", "&"}
Postfixes == {"[", ".", "?", "("}
Primaries == {"(", "{", "if"}
Assignments == {"=", "+="}
Keywords == {"var", "if", "while", "break", "continue", "return", "defer"}
Kind(op) == CASE op = "+" -> "add" [] op = "/" -> "div" [] op = "&&" -> "and" [] op = "||" -> "or" [] OTHER -> op
Number == [t \in {"#0", "#1", "#2", "#3"} |-> CASE t = "#0" -> 0 [] t = "#1" -> 1 [] t = "#2" -> 2 [] t = "#3" -> 3]
Symbols == DOMAIN Precedence \cup PrefixOperators \cup Postfixes \cup Primaries \cup Assignments \cup Keywords
           \cup {"nl", "end", ",", ")", "]", "}", "else"} \cup DOMAIN Number

(* A parser: the tokens, the one it stands at, how many groups it is in, the    *)
(* names of the open blocks, and what it parsed last. A failed parser stands at  *)
(* the end.                                                                      *)
Parser(tokens) == [tokens |-> tokens, i |-> 1, group |-> 0, locals |-> <<{}>>, val |-> "none", failed |-> FALSE]

Current(p) == IF p.i <= Len(p.tokens) THEN p.tokens[p.i] ELSE "end"
Is(p, t) == Current(p) = t
Take(p) == [p EXCEPT !.i = @ + 1]
Fail(p) == [p EXCEPT !.i = Len(p.tokens) + 1, !.failed = TRUE]
Expect(p, t) == IF Is(p, t) THEN Take(p) ELSE Fail(p)
SkipNewlines(p) ==
    [p EXCEPT !.i = CHOOSE j \in p.i .. Len(p.tokens) + 1 :
                       /\ j = Len(p.tokens) + 1 \/ p.tokens[j] # "nl"
                       /\ \A h \in p.i .. j - 1 : p.tokens[h] = "nl"]
(* Inside parentheses and brackets a line break does not end an expression.     *)
Layout(p) == IF p.group = 0 THEN p ELSE SkipNewlines(p)
Enter(p) == SkipNewlines([p EXCEPT !.group = @ + 1])
Exit(p, t) == Expect([SkipNewlines(p) EXCEPT !.group = @ - 1], t)
Result(p, v) == [p EXCEPT !.val = v]

RECURSIVE ExpressionAt(_, _), Climb(_, _), Unary(_), Postfix(_), More(_), Statement(_), Contents(_, _), Arguments(_, _)

ExpressionAt(p, minimum) == Climb(Layout(Unary(p)), minimum)
Operation(p, op, r) == Layout(Result(r, [k |-> Kind(op), a |-> p.val, b |-> r.val]))
ClimbFault(p, minimum) ==
    LET op == Current(p) IN
    IF op \notin DOMAIN Precedence \/ Precedence[op] < minimum THEN p
    ELSE Climb(Operation(p, op, ExpressionAt(SkipNewlines(Take(p)), Precedence[op])), minimum)
Climb(p, minimum) ==
    LET op == Current(p) IN
    IF op \notin DOMAIN Precedence \/ Precedence[op] < minimum THEN p
    ELSE Climb(Operation(p, op, ExpressionAt(SkipNewlines(Take(p)), Precedence[op] + 1)), minimum)
Expression(p) == ExpressionAt(p, 1)

Unary(p) ==
    IF Current(p) \in PrefixOperators
    THEN With(Unary(Take(p)), LAMBDA r : Result(r, [k |-> "unary", op |-> Current(p), a |-> r.val]))
    ELSE Postfix(p)

(* An item of a list ends at a comma, or at a line break alone. *)
NextListItem(p, closing) ==
    With(SkipNewlines(p), LAMBDA q :
         CASE Is(q, closing) -> <<Take(q), FALSE>>
           [] Is(q, ",") -> <<SkipNewlines(Take(q)), TRUE>>
           [] OTHER -> <<IF q.i # p.i THEN q ELSE Fail(q), q.i # p.i>>)
Arguments(p, sofar) ==
    With(Expression(p), LAMBDA r :
    With(NextListItem(r, ")"), LAMBDA next :
         IF next[2] THEN Arguments(next[1], Append(sofar, r.val)) ELSE Result(next[1], Append(sofar, r.val))))
ArgumentList(p) == With(SkipNewlines(p), LAMBDA q : IF Is(q, ")") THEN Result(Take(q), <<>>) ELSE Arguments(q, <<>>))

BlockContents(p) ==
    [Contents(SkipNewlines([p EXCEPT !.locals = Append(@, {})]), <<>>) EXCEPT !.locals = Front(@)]
Contents(p, sofar) ==
    CASE Is(p, "}") -> Result(Take(p), sofar)
      [] Is(p, "end") -> Result(Fail(p), sofar)
      [] OTHER -> With(Statement(p), LAMBDA s : Contents(SkipNewlines(s), Append(sofar, s.val)))
BlockOf(p) == BlockContents(Expect(SkipNewlines(p), "{"))

ConditionalExpression(p) ==
    With(Expression(p), LAMBDA c :
    With(BlockOf(c), LAMBDA yes :
    With(BlockOf(Expect(SkipNewlines(yes), "else")), LAMBDA no :
         Result(no, [k |-> "cond", a |-> c.val, yes |-> yes.val, no |-> no.val]))))

Primary(p) ==
    LET t == Current(p) q == Take(p) IN
    CASE t \in DOMAIN Number -> Result(q, [k |-> "int", n |-> Number[t]])
      [] t = "(" -> Exit(Expression(Enter(q)), ")")
      [] t = "{" -> With(BlockContents(q), LAMBDA r : Result(r, [k |-> "block", body |-> r.val]))
      [] t = "if" -> ConditionalExpression(q)
      [] t \notin Symbols -> Result(q, [k |-> "name", name |-> t])
      [] OTHER -> Fail(p)

(* Postfixes follow on the same line; only a name can be called. *)
Called(q, callee) == With(ArgumentList(q), LAMBDA r : Result(r, callee @@ [args |-> r.val]))
Selected(b, q) ==
    IF Current(q) \in Symbols THEN Fail(q)
    ELSE IF Is(Take(q), "(") THEN Called(Take(Take(q)), [k |-> "method", f |-> Current(q), a |-> b.val])
    ELSE Result(Take(q), [k |-> "member", name |-> Current(q), a |-> b.val])
More(b) ==
    CASE Is(b, "[") -> More(With(Exit(Expression(Enter(Take(b))), "]"), LAMBDA r :
                                 Result(r, [k |-> "index", a |-> b.val, b |-> r.val])))
      [] Is(b, ".") -> More(Selected(b, Take(b)))
      [] Is(b, "?") -> More(Result(Take(b), [k |-> "try", a |-> b.val]))
      [] Is(b, "(") -> IF b.val.k # "name" THEN Fail(b)
                       ELSE More(Called(Take(b), [k |-> "call", f |-> b.val.name]))
      [] OTHER -> b
Postfix(p) == With(Primary(p), LAMBDA first : IF first.failed THEN first ELSE More(first))

Variable(p) ==
    LET name == Current(p)
    IN With(Expression(Expect(Take(p), "=")), LAMBDA r :
            IF name \in Symbols \/ name \in Last(r.locals) THEN Fail(r)
            ELSE Result([r EXCEPT !.locals[Len(r.locals)] = @ \cup {name}], [k |-> "let", name |-> name, e |-> r.val]))

ElseOf(p) ==
    IF ~Is(p, "else") THEN Result(p, <<>>)
    ELSE With(SkipNewlines(Take(p)), LAMBDA after :
              IF Is(after, "if") THEN With(Statement(after), LAMBDA s : Result(s, <<s.val>>)) ELSE BlockOf(after))
ConditionalStatement(p) ==
    With(Expression(p), LAMBDA c :
    With(BlockOf(c), LAMBDA yes :
    With(ElseOf(SkipNewlines(yes)), LAMBDA no :
         Result(no, [k |-> "if", e |-> c.val, yes |-> yes.val, no |-> no.val]))))
Loop(p) ==
    With(Expression(p), LAMBDA c : With(BlockOf(c), LAMBDA b : Result(b, [k |-> "while", e |-> c.val, yes |-> b.val])))

(* What does not begin with a statement's word is an expression, and an         *)
(* assignment if an assignment operator follows; its target is a name here.     *)
Assigned(target) ==
    With(Expression(Take(target)), LAMBDA r :
         IF target.val.k # "name" THEN Fail(r)
         ELSE Result(r, [k |-> IF Is(target, "=") THEN "set" ELSE "add", name |-> target.val.name, e |-> r.val]))
ExpressionStatement(p) ==
    With(Expression(p), LAMBDA target :
         IF Current(target) \in Assignments THEN Assigned(target) ELSE Result(target, [k |-> "expr", e |-> target.val]))

StatementAt(p, q) ==
    LET bare == Is(p, "return") /\ Current(q) \in {"nl", "end", "}"} IN
    CASE Is(p, "var") -> Variable(q)
      [] Is(p, "if") -> ConditionalStatement(q)
      [] Is(p, "while") -> Loop(q)
      [] Current(p) \in {"break", "continue"} \/ bare -> Result(q, [k |-> Current(p)])
      [] Current(p) \in {"return", "defer"} /\ ~bare -> With(Expression(q), LAMBDA r : Result(r, [k |-> Current(p), e |-> r.val]))
      [] OTHER -> ExpressionStatement(p)
Statement(p) == With(SkipNewlines(p), LAMBDA at : StatementAt(at, Take(at)))

RECURSIVE Body(_, _)
Body(p, sofar) ==
    IF Is(p, "end") THEN IF p.failed THEN <<[k |-> "failed"]>> ELSE sofar
    ELSE With(Statement(p), LAMBDA s : Body(SkipNewlines(s), Append(sofar, s.val)))
ParseBody(tokens) == Body(SkipNewlines(Parser(tokens)), <<>>)

-----------------------------------------------------------------------------
(* How a tree is written: the reference. Operators get the parentheses their    *)
(* precedence needs and no more. "narrow" keeps an expression on its line; "wide" *)
(* breaks lines wherever an expression may go on, and separates arguments by a    *)
(* line break alone where that is possible: outside of a "group", in which the    *)
(* argument itself takes the line break (457, 466).                               *)
RECURSIVE Written(_, _, _), WrittenBlock(_, _), WrittenStatement(_, _)
OperatorOf(e) == CASE e.k = "add" -> "+" [] e.k = "div" -> "/" [] e.k = "and" -> "&&" [] e.k = "or" -> "||" [] OTHER -> e.k
Level(e) == IF OperatorOf(e) \in DOMAIN Precedence THEN Precedence[OperatorOf(e)] ELSE IF e.k = "unary" THEN 11 ELSE 12
Break(wide) == IF wide = "narrow" THEN <<>> ELSE <<"nl">>
InGroup(wide) == IF wide = "narrow" THEN wide ELSE "group"
WrittenArguments(args, wide) ==
    <<"(">> \o Break(wide)
    \o FoldLeft(LAMBDA t, i : t \o Written(args[i], 1, wide)
                              \o (IF i = Len(args) THEN <<>> ELSE IF wide = "wide" THEN <<"nl">> ELSE <<",">>),
                <<>>, [i \in DOMAIN args |-> i])
    \o Break(wide) \o <<")">>
Written(e, level, wide) ==
    IF Level(e) < level THEN <<"(">> \o Break(wide) \o Written(e, 1, InGroup(wide)) \o Break(wide) \o <<")">>
    ELSE CASE e.k = "int" -> << CHOOSE t \in DOMAIN Number : Number[t] = e.n >>
           [] e.k = "name" -> <<e.name>>
           [] e.k = "unary" -> <<e.op>> \o Written(e.a, 11, wide)
           [] e.k = "call" -> <<e.f>> \o WrittenArguments(e.args, wide)
           [] e.k = "method" -> Written(e.a, 12, wide) \o <<".", e.f>> \o WrittenArguments(e.args, wide)
           [] e.k = "member" -> Written(e.a, 12, wide) \o <<".", e.name>>
           [] e.k = "index" -> Written(e.a, 12, wide) \o <<"[">> \o Break(wide) \o Written(e.b, 1, InGroup(wide)) \o <<"]">>
           [] e.k = "try" -> Written(e.a, 12, wide) \o <<"?">>
           [] e.k = "block" -> WrittenBlock(e.body, wide)
           [] e.k = "cond" -> <<"if">> \o Written(e.a, 1, wide) \o WrittenBlock(e.yes, wide) \o <<"else">> \o WrittenBlock(e.no, wide)
           [] OTHER -> LET n == Precedence[OperatorOf(e)]
                       IN Written(e.a, n, wide) \o <<OperatorOf(e)>> \o Break(wide) \o Written(e.b, n + 1, wide)
WrittenStatement(s, wide) ==
    CASE s.k = "let" -> <<"var", s.name, "=">> \o Written(s.e, 1, wide)
      [] s.k \in {"set", "add"} -> <<s.name, IF s.k = "set" THEN "=" ELSE "+=">> \o Written(s.e, 1, wide)
      [] s.k = "if" -> <<"if">> \o Written(s.e, 1, wide) \o WrittenBlock(s.yes, wide)
                       \o (IF s.no = <<>> THEN <<>> ELSE Break(wide) \o <<"else">> \o WrittenBlock(s.no, wide))
      [] s.k = "while" -> <<"while">> \o Written(s.e, 1, wide) \o WrittenBlock(s.yes, wide)
      [] s.k \in {"break", "continue"} -> <<s.k>>
      [] s.k \in {"return", "defer"} -> <<s.k>> \o Written(s.e, 1, wide)
      [] s.k = "expr" -> Written(s.e, 1, wide)
WrittenBody(b, wide) == FoldLeft(LAMBDA t, s : t \o WrittenStatement(s, wide) \o <<"nl">>, <<>>, b)
WrittenBlock(b, wide) == <<"{">> \o WrittenBody(b, wide) \o <<"}">>
=============================================================================
