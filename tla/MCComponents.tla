----------------------------- MODULE MCComponents -----------------------------
(* Components that no other process disturbs, side by side: sources and what is    *)
(* written in declared syntax, bodies of functions parsed and compiled by both back *)
(* ends and run with every outcome of the functions they call, the linking of       *)
(* modules, the scopes of runtime values, the targets of a project and the console's *)
(* line editor. `part` says which one a behaviour is of; the variables of the others *)
(* stand still.                                                                     *)
EXTENDS FunctionMeaning, TLC

CONSTANTS MaxCalls, Outcomes, RegisterArguments, MaxArena, MaxDepth, MaxTransactions,
          MaxBytes, MaxKeys

VARIABLES part, body, pc, pending, entered, log,
          code, stack, slots, rax, rcx, arguments,
          blocks, invalid, at, from, values, cells, result,
          request, order, stage,
          arena, frames, calls, env, others, kept,
          line, cursor, yank, history, historyPosition, draft, cursorRow, drained, screen, crossed, reading, words, keys,
          text, caret, clip

native == <<code, stack, slots, rax, rcx, arguments>>
llvm == <<blocks, invalid, at, from, values, cells, result>>
run == <<pc, pending, entered, log>>
targets == <<request, order, stage>>
scopes == <<arena, frames, calls, env, others, kept>>
editor == <<line, cursor, yank, history, historyPosition, draft, cursorRow, drained, screen, crossed, reading, words, keys,
            text, caret, clip>>
vars == <<part, body, run, native, llvm, targets, scopes, editor>>

N == INSTANCE NativeFunction
L == INSTANCE LlvmFunction
P == INSTANCE FunctionsParser

Num(n) == [k |-> "int", n |-> n]
x == [k |-> "name", name |-> "x"]
y == [k |-> "name", name |-> "y"]
F == [k |-> "call", f |-> "f", args |-> <<>>]
G(e) == [k |-> "call", f |-> "g", args |-> <<e>>]
H(a, b) == [k |-> "call", f |-> "h", args |-> <<a, b>>]
Op(k, a, b) == [k |-> k, a |-> a, b |-> b]
Do(e) == [k |-> "expr", e |-> e]
Let(n, e) == [k |-> "let", name |-> n, e |-> e]
Set(k, n, e) == [k |-> k, name |-> n, e |-> e]
Return(e) == [k |-> "return", e |-> e]
Defer(e) == [k |-> "defer", e |-> e]
If(e, yes, no) == [k |-> "if", e |-> e, yes |-> yes, no |-> no]
While(e, yes) == [k |-> "while", e |-> e, yes |-> yes]
Break == [k |-> "break"]
Continue == [k |-> "continue"]
Value(b) == [k |-> "block", body |-> b]
Cond(e, yes, no) == [k |-> "cond", a |-> e, yes |-> yes, no |-> no]
Try(e) == [k |-> "try", a |-> e]

(* Parenthesised operands, prefix operators and postfixes, for the parser alone. *)
Neg(e) == [k |-> "unary", op |-> "-", a |-> e]
Index(a, e) == [k |-> "index", a |-> a, b |-> e]
Operands == { x, Neg(x), Index(x, Op("add", y, Num(1))), Index(F, Neg(Num(0))),
              [k |-> "method", f |-> "g", a |-> x, args |-> <<y, Op("*", Num(2), x)>>] }
Operators == {"||", "&&", "|", "^", "&", "==", "<", "<<", "-", "*"}
Trees == { Op(P!Kind(p), a, b) : p \in Operators, a, b \in Operands }
         \cup { Op(P!Kind(p), Op(P!Kind(q), x, Neg(y)), Op(P!Kind(r), H(x, y), Num(1))) : p, q, r \in Operators }
         \cup { Try(Neg(Op(P!Kind(p), F, Index(Op(P!Kind(p), x, y), x)))) : p \in Operators }
WrittenTrees == { <<Do(t)>> : t \in Trees } \cup { <<Let("x", Neg(H(t, x)))>> : t \in Trees }

(* Calls in every position that evaluates, defers or leaves. *)
Statements ==
    { Defer(G(x)), Return(F), Set("set", "x", Num(3)),
      Set("add", "x", Op("add", F, G(x))),
      Do(H(F, Op("add", G(x), H(x, Num(2))))),
      Set("set", "x", Op("add", x, Value(<<Defer(G(Num(2))), Let("y", F), If(y, <<Return(y)>>, <<>>), Do(y)>>))),
      Set("set", "x", Op("add", F, Op("div", Num(2), x))),
      Do(Op("or", Op("and", x, F), Cond(F, <<Do(x)>>, <<Defer(F), Do(G(x))>>))),
      If(F, <<Defer(F), Return(Op("add", x, F))>>, <<Defer(G(x)), Set("add", "x", Num(1))>>),
      If(F, <<Let("x", F), Set("set", "x", G(x))>>, <<Let("y", x), Do(G(y))>>),
      Return(Try(F)) }
Loops ==
    { While(F, <<Defer(G(x)), If(x, <<Break>>, <<Continue>>), Defer(F)>>),
      While(F, <<Defer(G(x)), If(F, <<Defer(F), Set("set", "x", Num(0)), Continue>>, <<>>), Do(Try(F))>>),
      While(Op("and", x, F), <<While(F, <<Break>>), If(x, <<Break>>, <<Return(x)>>)>>) }
Bodies == { <<Let("x", Num(1)), a, b>> : a \in Statements, b \in Statements \cup Loops }
            \cup { <<Let("x", Num(1)), a, b>> : a \in Loops, b \in { Return(F), Defer(G(x)) } }


-----------------------------------------------------------------------------
(* Declared syntax. "d" and "e" are two spellings of one phrase, "s" a phrase with *)
(* a pattern of its own: raw text up to the next "d".                              *)
Phrases == [key \in {<<"(">>, <<")">>, <<"{">>, <<"}">>, <<"#">>, <<"d">>, <<"e">>, <<"s">>} |->
              CASE key = <<"#">> -> "//" [] key \in {<<"d">>, <<"e">>} -> "do" [] OTHER -> key[1]]
Word(characters) == [kind |-> "literal", text |-> characters]
Capture(name, type) == [kind |-> "capture", text |-> name, type |-> type]
Layout(type) == [kind |-> "layout", type |-> type]
Optional(children) == [kind |-> "optional", children |-> children]
Choice(alternatives) == [kind |-> "choice", alternatives |-> alternatives]
S == INSTANCE SyntaxPattern WITH
       Phrases <- Phrases, Owned <- <<"s">> :> <<Capture("v", "raw"), Word(<<"d">>)>>,
       Letters <- {"a", "d", "e", "s"}, Digits <- {"1"}

Once == Word(<<"d">>)
Items == { Once, Word(<<"a", "a">>), Capture("x", "id"), Capture("x", "expr"), Capture("y", "raw"),
           Capture("y", "block"), Capture("y", "token"), Layout("none") }
Patterns ==
    { <<a, Optional(<<b>>), c>> : a, b, c \in Items }
    \cup { <<a, Choice(<< <<b>>, <<b, c>> >>), Once>> : a, b, c \in { Once, Capture("x", "id"), Capture("x", "expr"), Layout("newline") } }
    \cup { <<Optional(<<a, Optional(<<b>>)>>), Choice(<< <<b, a>>, <<a>> >>), Layout("ignore"), Capture("z", t)>> :
             a, b \in { Once, Capture("x", "id"), Capture("y", "expr") }, t \in {"rest", "string", "number", "code"} }
Texts == { <<"d">>, <<"a", "a", " ", "d">>, <<"a", " ", "d", " ", "a">>, <<"a", "(", "d", ")", "d">>, <<"a", "(", "d", "d">>,
           <<"a", " ", "s", "{", "d", " ", "d">>, <<"{", "d", "}", "d">>, <<"#", "d", "\n", "a", "a", "d">>, <<"a", "\n", "d">>,
           <<"a", "a", "d", "a", "a", " ", "d">>, <<"d", " ", "e", "e", " ", "e", " ", "a">>, <<"d", " ", "d", " ", "d", " ">>,
           <<"a", " ", "'", "d", "'">>, <<"a", "d", " ", "-", "1">> }

-----------------------------------------------------------------------------
V == INSTANCE Values WITH
       Names <- {"x"}, Contents <- {[size |-> 1, what |-> "a"], [size |-> 1, what |-> "b"], [size |-> 2, what |-> "c"]},
       Definitions <- {<<[size |-> 1, what |-> "a"], TRUE>>}

Wanted == {"a", "b", "c", "unknown"}
Requests ==
    { [dependencies |-> [name \in {"a", "b", "c"} |-> CASE name = "a" -> a [] name = "b" -> b [] name = "c" -> c],
       entries |-> entries, requested |-> requested, mode |-> mode] :
        a \in {<<>>} \cup {<<x1>> : x1 \in Wanted} \cup {<<x1, x2>> : x1, x2 \in Wanted},
        b \in {<<>>, <<"a">>, <<"c">>, <<"unknown">>, <<"c", "a">>}, c \in {<<>>, <<"a">>, <<"b">>},
        entries \in {{"a"}}, requested \in {"a"}, mode \in {"run", "prepare", "debug"} }
    \cup { [dependencies |-> [name \in {"a", "b"} |-> <<>>], entries |-> {"a"}, requested |-> requested, mode |-> mode] :
             requested \in {"a", "b", "unknown"}, mode \in {"run", "prepare", "debug"} }
T == INSTANCE Targets

-----------------------------------------------------------------------------
(* "w" is two bytes and two cells, "e" two bytes and one cell. *)
E == INSTANCE LineEditor WITH
       Columns <- 3, TabWidth <- 2, Prompt <- <<">">>, Wide <- {"w"}, Accented <- {"e"}, Typed <- {"a", " ", "e", "w"},
       Pastes <- { <<"cr", "nl", "a">>, <<"esc", "tab">>, <<"nl", "esc", "[">>, <<"cr", "cr", "nl">> },
       Vocabularies <- { {<<"a", "a", "e">>, <<"a", "a", "w">>}, {<<"a", "a", "\\", "e">>, <<"a", "a", "\\", "a">>} },
       MaxHistory <- 2

-----------------------------------------------------------------------------
(* A root that needs "f" and perhaps "g", and other objects that define them. *)
K == INSTANCE Linking WITH Writable <- 100, Executable <- 200, Reach <- 150, Low <- 1000, Capacity <- 24
Section(o, name, count, alignment) ==
    [name |-> name, bare |-> name = "bss", write |-> name # "text", alignment |-> alignment,
     cells |-> [i \in 1..count |-> [tag |-> <<o, name, i>>, value |-> 0]]]
Symbol(name, binding, in, place) == [name |-> <<name>>, binding |-> binding, in |-> in, at |-> place]
Relocation(in, place, kind, symbol, addend) == [in |-> in, at |-> place, kind |-> kind, symbol |-> symbol, addend |-> addend]
Root(kinds, other) ==
    [origin |-> "root", sections |-> <<Section("root", "text", 3, 1), Section("root", "data", 1, 1)>>,
     symbols |-> <<Symbol("main", "global", "text", 1), Symbol("f", "global", "undef", 0), other, Symbol("l", "local", "data", 0)>>,
     relocations |-> <<Relocation("text", 0, kinds[1], 2, 0), Relocation("text", 2, kinds[2], 3, 1),
                       Relocation("data", 0, "abs", 1, 0), Relocation("text", 1, "pc", 4, 0)>>]
Roots == { Root(<<"pc", "got">>, Symbol("g", "global", "undef", 0)), Root(<<"plt", "plt">>, Symbol("g", "weak", "undef", 0)),
           Root(<<"plt", "abs32">>, Symbol("k", "weak", "text", 1)), Root(<<"plt", "pc">>, Symbol("k", "global", "text", 1)) }
Caller(binding, needs, kind) ==
    [origin |-> "F", sections |-> <<Section("F", "text", 2, 2), Section("F", "bss", 1, 2)>>,
     symbols |-> <<Symbol("l", "local", "bss", 0), Symbol("f", binding, "text", 1), Symbol("g", needs, "undef", 0)>>,
     relocations |-> <<Relocation("text", 0, kind, 3, 0), Relocation("text", 1, "abs", 1, 0)>>]
Data(o, binding) ==
    [origin |-> o, sections |-> <<Section(o, "data", 2, 4)>>,
     symbols |-> <<Symbol("g", binding, "data", 1), Symbol("f", "global", "undef", 0)>>,
     relocations |-> <<Relocation("data", 0, "abs", 2, 0)>>]
Single(o, binding, in, place) ==
    [origin |-> o, sections |-> <<Section(o, "text", 1, 1)>>, symbols |-> <<Symbol("g", binding, in, place)>>, relocations |-> <<>>]
Conflict == [origin |-> "C", sections |-> <<[Section("C", "bss", 1, 1) EXCEPT !.name = "text"]>>, symbols |-> <<>>, relocations |-> <<>>]
Resolvers == { <<>>, <<"f">> :> 900 @@ <<"g">> :> 900, <<"f">> :> 90 @@ <<"g">> :> 90 }
Job(root) == [root |-> root, remembered |-> <<>>, provided |-> {}, excluded |-> {}, included |-> <<>>, automatic |-> TRUE,
              internal |-> FALSE, objects |-> <<>>, archives |-> <<>>, start |-> 3, resolver |-> <<>>]
Jobs ==
    UNION { { [Job(root) EXCEPT !.remembered = <<"f">> :> f @@ <<"g">> :> g, !.internal = internal, !.excluded = excluded,
                                !.resolver = resolver, !.automatic = automatic, !.included = included] :
                internal, automatic \in BOOLEAN, excluded \in {{}, {<<"g">>}}, resolver \in Resolvers,
                included \in {<<>>, << <<"g">> >>, << <<"h">>, <<"f">> >>} }
            \cup { [Job(root) EXCEPT !.archives = << <<g, f>>, h >>, !.resolver = resolver] :
                     resolver \in Resolvers, h \in {<<>>, <<Data("H", "weak")>>, <<Single("H", "global", "abs", 60)>>} }
            \cup { [Job(root) EXCEPT !.archives = << <<f>> >>, !.objects = objects] :
                     objects \in {<<g>>, <<g, f>>, <<g, Single("H", "weak", "text", 0)>>, <<g, Single("H", "global", "abs", 60)>>, <<Conflict>>} }
            : root \in Roots, f \in {Caller("global", "global", "pc"), Caller("weak", "weak", "got")},
              g \in {Data("G", "weak"), Single("G", "global", "text", 0), Single("G", "global", "common", 1), Single("G", "global", "abs", 60)} }

-----------------------------------------------------------------------------
(* Inputs of three tokens and a line behind them, files that include and fail.     *)
Phrase(key, does) == [key |-> key, does |-> does]
Common == { Phrase(<<"a">>, "pass"), Phrase(<<"n">>, "pass"), Phrase(<<"}">>, "data") }
Dictionaries ==
    [root |-> Common \cup { Phrase(<<"a", "h", "a">>, "pass"), Phrase(<<"a", "n">>, "data"), Phrase(<<"i">>, "include"), Phrase(<<"x">>, "fail"),
                           Phrase(<<"t">>, "text"), Phrase(<<"{">>, "block"), Phrase(<<">">>, "enter"),
                           Phrase(<<"p">>, "probe"), Phrase(<<"e", "f">>, "pass") },
     inner |-> Common \cup { Phrase(<<"a", "a">>, "pass"), Phrase(<<"<">>, "leave") }]
R == INSTANCE SourceLoop WITH Preview <- 1, Includes <- [main |-> "f", f |-> "g"], Macro <- <<"n", "a", "<">>
Written == { <<"a">>, <<"h">>, <<"n">>, <<"i">>, <<"x">>, <<"t">>, <<"{">>, <<"}">>, <<">">>, <<"<">>, <<"p">>, <<"e", "f">> }
SourceTexts == { a \o b \o c : a, b, c \in Written }
Input(kind, path, written) == [kind |-> kind, path |-> path, text |-> written]
Inputs(written) ==
    { <<Input("terminal", "", written \o <<"n", "a", "n">>)>>,
      <<Input("file", "main", written \o <<"n">>), Input("string", "", <<"a", "<", "n", "x">>)>>,
      <<Input("string", "", written), Input("lost", "none", <<>>)>> }
SourceJobs ==
    { [inputs |-> inputs, size |-> IF inputs[1].kind = "terminal" THEN 9 ELSE 2, hooked |-> inputs[1].kind # "file", steps |-> steps,
       files |-> [f |-> <<"a", "i", "n", "a">>, g |-> <<"n">> \o other]] :
        inputs \in UNION { Inputs(written) : written \in SourceTexts }, steps \in {99, 4}, other \in {<<>>, <<"x">>} }

-----------------------------------------------------------------------------
NativeIdle == code = <<>> /\ stack = <<>> /\ slots = <<>> /\ rax = 0 /\ rcx = 0 /\ arguments = <<>>
LlvmIdle == blocks = <<>> /\ invalid = FALSE /\ at = 0 /\ from = 0 /\ values = <<>> /\ cells = <<>> /\ result = 0
RunIdle == pc = 1 /\ pending = FALSE /\ entered = FALSE
TargetsIdle == request = 0 /\ order = <<>> /\ stage = "none"
ScopesIdle == arena = <<>> /\ frames = <<>> /\ calls = <<>> /\ env = <<>> /\ others = 0 /\ kept = FALSE
EditorIdle ==
    /\ line = <<>> /\ cursor = 0 /\ yank = <<>> /\ history = <<>> /\ historyPosition = 0 /\ draft = <<>>
    /\ cursorRow = 0 /\ drained = FALSE /\ screen = <<>> /\ crossed = FALSE /\ reading = FALSE /\ words = {} /\ keys = 0
    /\ text = <<>> /\ caret = 0 /\ clip = <<>>
RequestIdle == body = <<>> /\ RunIdle /\ NativeIdle /\ LlvmIdle
Compiled ==
    \/ part = "native" /\ body \in Bodies /\ N!Init /\ LlvmIdle /\ TargetsIdle /\ ScopesIdle
    \/ part = "llvm" /\ body \in Bodies /\ L!Init /\ NativeIdle /\ TargetsIdle /\ ScopesIdle
Request ==
    \/ Compiled
    \/ part = "written" /\ body \in WrittenTrees \cup Bodies /\ RunIdle /\ log = <<>> /\ NativeIdle /\ LlvmIdle /\ TargetsIdle /\ ScopesIdle
    \/ part = "pattern" /\ body \in Patterns /\ RunIdle /\ log = <<>> /\ NativeIdle /\ LlvmIdle /\ TargetsIdle /\ ScopesIdle
    \/ part = "linking" /\ body \in Jobs /\ RunIdle /\ log = <<>> /\ NativeIdle /\ LlvmIdle /\ TargetsIdle /\ ScopesIdle
    \/ part = "source" /\ body \in SourceJobs /\ RunIdle /\ log = <<>> /\ NativeIdle /\ LlvmIdle /\ TargetsIdle /\ ScopesIdle
    \/ part = "targets" /\ T!Init /\ RequestIdle /\ ScopesIdle
    \/ part = "values" /\ V!Init /\ RequestIdle /\ log = <<>> /\ TargetsIdle
Init ==
    \/ Request /\ EditorIdle
    \/ part = "editor" /\ E!Init /\ RequestIdle /\ log = <<>> /\ TargetsIdle /\ ScopesIdle
Next ==
    /\ UNCHANGED part
    /\ \/ part = "native" /\ N!Next /\ UNCHANGED <<llvm, targets, scopes, editor>>
       \/ part = "llvm" /\ L!Next /\ UNCHANGED <<native, targets, scopes, editor>>
       \/ part = "targets" /\ T!Next /\ UNCHANGED <<body, pc, pending, entered, native, llvm, scopes, editor>>
       \/ part = "values" /\ V!Next /\ UNCHANGED <<body, run, native, llvm, targets, editor>>
       \/ part = "editor" /\ E!Next /\ UNCHANGED <<body, run, native, llvm, targets, scopes>>
Spec == Init /\ [][Next]_vars

(* The two back ends alone. *)
CompiledSpec == Compiled /\ EditorIdle /\ [][Next]_vars

-----------------------------------------------------------------------------
(* Native code makes the calls and returns the value that the body means, but that    *)
(* an error skips what is deferred, and calls are aligned (FunctionsGenerator.cpp      *)
(* 326-353, 739-910, 1294-1399).                                                      *)
NativeMeans == part = "native" => N!NativeMeans
(* LLVM code does too, and is well-formed (LlvmBackend.cpp 398-603, 814-883).           *)
LlvmMeans == part = "llvm" => L!LlvmMeans
(* "`defer` evaluates cleanup expressions in LIFO order when leaving a compiled       *)
(* function" (docs/language.md 139-140), whichever way it is left.                    *)
DefersRun == (part = "native" => N!DefersRun) /\ (part = "llvm" => L!DefersRun)
(* Whatever is written in the syntax of FunctionsParser is read as what was      *)
(* meant, with the fewest parentheses and with line breaks wherever an           *)
(* expression may go on (FunctionsParser.cpp 158-168, 213-311, 414-793).         *)
ParsesBack ==
    part = "written" => \A wide \in {"narrow", "wide"} : P!ParseBody(P!WrittenBody(body, wide)) = body
(* A text is matched as one of its readings, with the captures of that reading, and  *)
(* the editor is offered each item where it may stand (SyntaxPattern.cpp 642-884,    *)
(* 1428-1443).                                                                       *)
SyntaxMeans == part = "pattern" => \A t \in Texts : S!ReadingIsFound(body, t) /\ S!CompletionOffers(body, t)
(* Targets run after what they need, once, and not behind a failure                  *)
(* (Targets.cpp 134-153).                                                            *)
RunsInOrder == part = "targets" => T!RunsInOrder
(* A lookup finds the value that the scopes of the program mean (Values.cpp 245-326). *)
ScopesMean == part = "values" => V!ScopesMean
(* Every key edits whole characters, and the screen shows the line being edited      *)
(* (LineEditor.cpp 79-395).                                                          *)
EditorMeans == part = "editor" => E!EditsCharacters /\ E!ScreenIsTrue
(* Every reference of what was linked leads to the definition it names, nothing is    *)
(* linked that was not asked for, and a refusal has its reason (Module.cpp 154-206,  *)
(* LanguageState.cpp 712-779, StaticLinker.cpp 28-50, JitLinker.cpp 93-227).          *)
LinkMeans == part = "linking" => K!LinkMeans(body)
(* Sources mean what their texts mean, however they are read (Source.cpp 270-711,    *)
(* Recurloop.cpp 155-460).                                                           *)
SourceMeans == part = "source" => R!SourceMeans(body)
=============================================================================
