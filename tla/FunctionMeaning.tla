--------------------------- MODULE FunctionMeaning ---------------------------
(* What the body of an `fn` means: the reference the two code generators are  *)
(* checked against. A body is a sequence of statements, an expression may     *)
(* hold statements again (value blocks); both are records whose field k names *)
(* the form, as Statement and Expression of FunctionsInternal.hpp do. The     *)
(* functions a body calls are outside of it: what they return, and whether    *)
(* they leave an exception pending, is read from `log`, the calls a run of    *)
(* compiled code made. The meaning is the calls the body makes itself, how it *)
(* ends and with which value; it follows docs/language.md where the back ends *)
(* do not (SkipsDefers). Types are abstracted to one integer of two bits,     *)
(* numbers 2 and 3 standing for -2 and -1.                                    *)
EXTENDS Once, Integers, SequencesExt

Wrap(n) == n % 4
Signed(n) == IF n > 1 THEN n - 4 ELSE n

(* The hardware divides towards zero and cannot divide by 0 or -2 by -1. *)
Divides(a, b) == b # 0 /\ ~(a = 2 /\ b = 3)
AbsoluteOf(n) == IF n < 0 THEN -n ELSE n
Quotient(a, b) ==
    LET q == AbsoluteOf(Signed(a)) \div AbsoluteOf(Signed(b))
    IN Wrap(IF (a > 1) = (b > 1) THEN q ELSE -q)

(* The innermost scope that knows a name. *)
Innermost(scopes, name) ==
    CHOOSE i \in DOMAIN scopes : /\ name \in DOMAIN scopes[i]
                                 /\ \A j \in i + 1 .. Len(scopes) : name \notin DOMAIN scopes[j]
Named(scopes, name) == scopes[Innermost(scopes, name)][name]
Bind(scope, name, value) == [n \in DOMAIN scope \cup {name} |-> IF n = name THEN value ELSE scope[n]]
Declare(scopes, name, value) == [scopes EXCEPT ![Len(scopes)] = Bind(@, name, value)]
NoNames == [n \in {} |-> 0]

(* A run: the scopes and deferred expressions of the open blocks, the calls    *)
(* made, those up to the first error, whether there was one, the value last     *)
(* computed, and "go" or the reason it is leaving.                             *)
Started == [scopes |-> <<>>, defers |-> <<>>, calls |-> <<>>, before |-> <<>>, err |-> FALSE, val |-> 0, how |-> "go"]
Then(s, Op(_)) == IF s.how = "go" THEN Op(s) ELSE s
Leave(s, how, val) == [s EXCEPT !.how = how, !.val = val]
Fail(s) == [Leave(s, "error", 0) EXCEPT !.err = TRUE]

RECURSIVE MeanExpression(_, _, _, _), MeanBlock(_, _, _, _), MeanStatement(_, _, _, _), MeanArguments(_, _, _, _, _),
          MeanStatements(_, _, _, _), MeanDefers(_, _, _), MeanLoop(_, _, _, _)

Call(f, args, s, log) ==
    LET n == Len(s.calls) + 1
        outcome == IF n \in DOMAIN log THEN log[n] ELSE [val |-> 0, err |-> FALSE]
        calls == Append(s.calls, [f |-> f, args |-> args, val |-> outcome.val, err |-> outcome.err])
    IN With([s EXCEPT !.calls = calls, !.before = IF s.err THEN @ ELSE calls, !.val = outcome.val],
            LAMBDA made : IF outcome.err THEN Fail(made) ELSE made)

(* `last` is the order the arguments are evaluated in: last first, or not. *)
MeanArguments(args, s, log, last, sofar) ==
    IF Len(args) = Len(sofar) THEN <<s, sofar>>
    ELSE With(MeanExpression(args[IF last THEN Len(args) - Len(sofar) ELSE Len(sofar) + 1], s, log, last), LAMBDA r :
              IF r.how # "go" THEN <<r, sofar>>
              ELSE MeanArguments(args, r, log, last, IF last THEN <<r.val>> \o sofar ELSE Append(sofar, r.val)))

MeanExpression(e, s, log, last) ==
    LET Mean(x, r) == MeanExpression(x, r, log, last)
        Both(Op(_, _, _)) == Then(Mean(e.a, s), LAMBDA l : Then(Mean(e.b, l), LAMBDA r : Op(l.val, r.val, r)))
        Truth(r) == [r EXCEPT !.val = IF @ = 0 THEN 0 ELSE 1]
    IN CASE e.k = "int"   -> [s EXCEPT !.val = e.n]
         [] e.k = "name"  -> [s EXCEPT !.val = Named(s.scopes, e.name)]
         [] e.k = "call"  -> With(MeanArguments(e.args, s, log, last, <<>>),
                                 LAMBDA r : Then(r[1], LAMBDA q : Call(e.f, r[2], q, log)))
         [] e.k = "add"   -> Both(LAMBDA x, y, r : [r EXCEPT !.val = Wrap(x + y)])
         [] e.k = "div"   -> Both(LAMBDA x, y, r : IF Divides(x, y) THEN [r EXCEPT !.val = Quotient(x, y)]
                                                   ELSE Fail(r))
         [] e.k = "and"   -> Then(Mean(e.a, s), LAMBDA l : IF l.val = 0 THEN l
                                                           ELSE Then(Mean(e.b, l), Truth))
         [] e.k = "or"    -> Then(Mean(e.a, s), LAMBDA l : IF l.val # 0 THEN Truth(l)
                                                           ELSE Then(Mean(e.b, l), Truth))
         [] e.k = "block" -> MeanBlock(e.body, s, log, last)
         [] e.k = "cond"  -> Then(Mean(e.a, s), LAMBDA r : MeanBlock(IF r.val # 0 THEN e.yes ELSE e.no, r, log, last))
         [] e.k = "try"   -> Then(Mean(e.a, s), LAMBDA r : IF r.val = 0 THEN Leave(r, "return", 0) ELSE r)

(* Leaving a block in whatever way, an error included, runs what it deferred,   *)
(* last first; a deferred expression that fails does not stop the others.       *)
MeanDefers(s, log, last) ==
    IF Last(s.defers) = <<>> THEN s
    ELSE With(MeanExpression(Last(Last(s.defers)), [s EXCEPT !.defers[Len(s.defers)] = Front(@), !.how = "go"], log, last),
              LAMBDA r : MeanDefers(IF r.how = "error" THEN r ELSE Leave(r, s.how, s.val), log, last))

MeanStatements(body, s, log, last) ==
    IF body = <<>> \/ s.how # "go" THEN s
    ELSE MeanStatements(Tail(body), MeanStatement(Head(body), s, log, last), log, last)
MeanBlock(body, s, log, last) ==
    LET in == [s EXCEPT !.scopes = Append(@, NoNames), !.defers = Append(@, <<>>)]
    IN [MeanDefers(MeanStatements(body, in, log, last), log, last) EXCEPT !.scopes = Front(@), !.defers = Front(@)]

MeanLoop(stmt, s, log, last) ==
    Then(MeanExpression(stmt.e, s, log, last),
         LAMBDA c : IF c.val = 0 THEN c
                    ELSE With(MeanBlock(stmt.yes, c, log, last), LAMBDA r :
                              CASE r.how = "break" -> [r EXCEPT !.how = "go"]
                                [] r.how \in {"go", "continue"} -> MeanLoop(stmt, [r EXCEPT !.how = "go"], log, last)
                                [] OTHER -> r))

MeanStatement(stmt, s, log, last) ==
    LET After(Op(_)) == Then(MeanExpression(stmt.e, s, log, last), Op)
        Store(r, v) == LET i == Innermost(r.scopes, stmt.name) IN [r EXCEPT !.scopes[i][stmt.name] = v]
    IN CASE stmt.k = "let"      -> After(LAMBDA r : [r EXCEPT !.scopes = Declare(@, stmt.name, r.val)])
         [] stmt.k = "set"      -> After(LAMBDA r : Store(r, r.val))
         [] stmt.k = "add"      -> After(LAMBDA r : Store(r, Wrap(Named(r.scopes, stmt.name) + r.val)))
         [] stmt.k = "if"       -> After(LAMBDA r : MeanBlock(IF r.val # 0 THEN stmt.yes ELSE stmt.no, r, log, last))
         [] stmt.k = "while"    -> MeanLoop(stmt, s, log, last)
         [] stmt.k = "break"    -> Leave(s, "break", s.val)
         [] stmt.k = "continue" -> Leave(s, "continue", s.val)
         [] stmt.k = "return"   -> After(LAMBDA r : Leave(r, "return", r.val))
         [] stmt.k = "defer"    -> [s EXCEPT !.defers[Len(s.defers)] = Append(@, stmt.e)]
         [] stmt.k = "expr"     -> After(LAMBDA r : r)

(* The calls of a body, those up to its first error, and what it returns: 0     *)
(* when it falls off its end or ends with an error, and nothing at all when an  *)
(* exception is pending on entry.                                               *)
Meaning(body, pendingAtEntry, log, last) ==
    IF pendingAtEntry THEN [calls |-> <<>>, before |-> <<>>, val |-> 0, err |-> TRUE]
    ELSE With(MeanBlock(body, Started, log, last), LAMBDA s :
              [calls |-> s.calls, before |-> s.before, val |-> IF s.how = "return" THEN s.val ELSE 0, err |-> s.err])

(* The one departure of both back ends that their properties allow for: a       *)
(* function that leaves with an error skips what is still deferred, so that the *)
(* calls end where the error arises. Without an error nothing is skipped.       *)
SkipsDefers(m) == [calls |-> IF m.err THEN m.before ELSE m.calls, val |-> m.val, err |-> m.err]

=============================================================================
