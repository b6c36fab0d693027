---------------------------- MODULE LlvmFunction -----------------------------
(* The LLVM back end (LlvmBackend.cpp): basic blocks with one terminator each,  *)
(* values that are assigned once, and phi nodes where two ways of computing a    *)
(* value meet; and a machine that runs such a function. LLVM's own verifier,     *)
(* optimizer and code generation are external: a block into which the back end   *)
(* writes behind a terminator is what the verifier rejects, and the machine runs *)
(* the function as it stands.                                                    *)
EXTENDS FunctionMeaning

CONSTANTS MaxCalls, Outcomes   \* as in NativeFunction

VARIABLES body,      \* the statements compiled
          blocks,    \* what the back end made of them
          invalid,   \* it wrote behind a terminator
          at, pc, from,   \* the current block, the instruction in it, the block before
          values,    \* the values computed in this activation
          cells,     \* the local variables
          result, pending, entered, log

NoTerminator == [op |-> "none", v |-> 0, yes |-> 0, no |-> 0]
Block == [code |-> <<>>, term |-> NoTerminator]
Terminated(g) == g.blocks[g.at].term # NoTerminator

(* `at` is the builder's insertion point, `val` the value just built.            *)
Builder == [blocks |-> <<Block>>, at |-> 1, scopes |-> <<NoNames>>, defers |-> <<>>, loops |-> <<>>,
            locals |-> 0, val |-> 0, count |-> 0, invalid |-> FALSE]

Create(g, n) == [g EXCEPT !.blocks = @ \o [i \in 1 .. n |-> Block]]
SetInsertPoint(g, b) == [g EXCEPT !.at = b]
Build(g, op, x, y) ==
    [g EXCEPT !.blocks[g.at].code = Append(@, [op |-> op, x |-> x, y |-> y, v |-> g.count + 1]),
              !.count = @ + 1, !.val = g.count + 1, !.invalid = @ \/ Terminated(g)]
Terminate(g, op, v, yes, no) ==
    [g EXCEPT !.blocks[g.at].term = [op |-> op, v |-> v, yes |-> yes, no |-> no], !.invalid = @ \/ Terminated(g)]
CreateBr(g, b) == Terminate(g, "br", 0, b, b)
CreateCondBr(g, v, yes, no) == Terminate(g, "condbr", v, yes, no)
CreateRet(g, v) == Terminate(g, "ret", v, 0, 0)
DefaultReturn(g) == CreateRet(g, 0)

(* A guard ends its block: on to `ready`, or out by the default return. *)
GuardOn(g, op, x, y) ==
    LET n == Len(g.blocks)
    IN With(Build(Create(g, 2), op, x, y), LAMBDA test :
       With(SetInsertPoint(CreateCondBr(test, test.val, n + 1, n + 2), n + 1), LAMBDA failed :
            SetInsertPoint(DefaultReturn(IF op = "pending" THEN failed ELSE Build(failed, "error", 0, 0)), n + 2)))
PendingGuard(g) == GuardOn(g, "pending", 0, 0)

RECURSIVE Expression(_, _), Generate(_, _), GenerateAll(_, _), GenerateOpen(_, _), Deferred(_, _), Arguments(_, _, _)

Deferred(g, es) == IF es = <<>> THEN g ELSE Deferred(Expression(g, Last(es)), Front(es))
EmitDefers(g, depth) == Deferred(g, SubSeq(g.defers, depth + 1, Len(g.defers)))

GenerateAll(g, source) == IF source = <<>> THEN g ELSE GenerateAll(Generate(g, Head(source)), Tail(source))

(* Statements behind a terminator are not generated, and neither is the end of  *)
(* their block.                                                                  *)
GenerateOpen(g, source) ==
    IF source = <<>> \/ Terminated(g) THEN g ELSE GenerateOpen(Generate(g, Head(source)), Tail(source))
Statements(g, source) ==
    With(GenerateOpen(g, source), LAMBDA r :
         [IF Terminated(r) THEN r ELSE EmitDefers(r, Len(g.defers)) EXCEPT !.defers = g.defers])
Opened(g) == [g EXCEPT !.scopes = Append(@, NoNames)]
Nested(g, source) == [Statements(Opened(g), source) EXCEPT !.scopes = Front(@)]
NestedTo(g, block, source, next) ==
    With(Nested(SetInsertPoint(g, block), source), LAMBDA r : IF Terminated(r) THEN r ELSE CreateBr(r, next))

ExpressionBlock(g, source) ==
    With(Expression(GenerateAll(Opened(g), Front(source)), Last(source).e), LAMBDA r :
         [EmitDefers(r, Len(g.defers)) EXCEPT !.defers = g.defers, !.scopes = Front(@), !.val = r.val])

(* Both ways of computing a value meet in a phi node, which names the blocks     *)
(* they come from: the ones the builder has arrived in, not the ones it began.   *)
Meet(g, end, a, b) ==
    Build(SetInsertPoint(CreateBr(g, end), end), "phi", <<a[1], a[2]>>, <<b[1], b[2]>>)

Truth(g) == Build(g, "truth", g.val, 0)
LogicalFrom(left, n, e, conjunction, Arrived(_)) ==
    With(IF conjunction THEN CreateCondBr(Create(left, 2), left.val, n + 1, n + 2)
         ELSE CreateCondBr(Create(left, 2), left.val, n + 2, n + 1), LAMBDA branch :
    With(Truth(Expression(SetInsertPoint(branch, n + 1), e.b)), LAMBDA right :
         Meet(right, n + 2, <<left.at, left.val>>, <<Arrived(right), right.val>>)))
LogicalFault(g, e, conjunction) ==
    With(Truth(Expression(g, e.a)), LAMBDA left :
         LogicalFrom(left, Len(left.blocks), e, conjunction, LAMBDA right : Len(left.blocks) + 1))
Logical(g, e, conjunction) ==
    With(Truth(Expression(g, e.a)), LAMBDA left :
         LogicalFrom(left, Len(left.blocks), e, conjunction, LAMBDA right : right.at))

ConditionalFrom(c, n, e) ==
    With(ExpressionBlock(SetInsertPoint(CreateCondBr(Create(c, 3), c.val, n + 1, n + 2), n + 1), e.yes), LAMBDA left :
    With(ExpressionBlock(SetInsertPoint(CreateBr(left, n + 3), n + 2), e.no), LAMBDA right :
         Meet(right, n + 3, <<left.at, left.val>>, <<right.at, right.val>>)))
ConditionalExpression(g, e) == With(Expression(g, e.a), LAMBDA c : ConditionalFrom(c, Len(c.blocks), e))

PropagateFrom(r, n) ==
    LET missing == SetInsertPoint(CreateCondBr(Create(r, 2), r.val, n + 2, n + 1), n + 1)
    IN [SetInsertPoint(CreateRet(EmitDefers(missing, 0), 0), n + 2) EXCEPT !.val = r.val]
Propagate(g, e) == With(Expression(g, e.a), LAMBDA r : PropagateFrom(r, Len(r.blocks)))

(* Arguments are built first to last. *)
Arguments(g, args, built) ==
    IF args = <<>> THEN <<g, built>>
    ELSE With(Expression(g, Head(args)), LAMBDA q : Arguments(q, Tail(args), Append(built, q.val)))
CallResolved(g, e) ==
    With(Arguments(g, e.args, <<>>), LAMBDA r :
    With(Build(r[1], "call", e.f, r[2]), LAMBDA called : [PendingGuard(called) EXCEPT !.val = called.val]))

Binary(g, e, op) ==
    With(Expression(g, e.a), LAMBDA l :
    With(Expression(l, e.b), LAMBDA r :
         Build(IF op = "div" THEN GuardOn(r, "unfit", l.val, r.val) ELSE r, op, l.val, r.val)))

Expression(g, e) ==
    CASE e.k = "int"   -> Build(g, "const", e.n, 0)
      [] e.k = "name"  -> Build(g, "load", Named(g.scopes, e.name), 0)
      [] e.k = "call"  -> CallResolved(g, e)
      [] e.k \in {"add", "div"} -> Binary(g, e, e.k)
      [] e.k = "and"   -> Logical(g, e, TRUE)
      [] e.k = "or"    -> Logical(g, e, FALSE)
      [] e.k = "block" -> ExpressionBlock(g, e.body)
      [] e.k = "cond"  -> ConditionalExpression(g, e)
      [] e.k = "try"   -> Propagate(g, e)

Variable(g, stmt) ==
    With(Expression(g, stmt.e), LAMBDA r :
         Build([r EXCEPT !.locals = @ + 1, !.scopes = Declare(@, stmt.name, r.locals + 1)], "store", r.locals + 1, r.val))

AddedTo(right, cell) ==
    With(Build(right, "load", cell, 0), LAMBDA left : Build(left, "add", left.val, right.val))
Assignment(g, stmt) ==
    LET cell == Named(g.scopes, stmt.name)
    IN With(Expression(g, stmt.e), LAMBDA right :
       With(IF stmt.k = "set" THEN right ELSE AddedTo(right, cell), LAMBDA new : Build(new, "store", cell, new.val)))

ConditionalStatement(g, stmt) ==
    LET n == Len(g.blocks)
    IN With(Expression(Create(g, 3), stmt.e), LAMBDA c :
       With(NestedTo(CreateCondBr(c, c.val, n + 1, n + 2), n + 1, stmt.yes, n + 3), LAMBDA yes :
            SetInsertPoint(NestedTo(yes, n + 2, stmt.no, n + 3), n + 3)))

LoopOf(g) == [condition |-> Len(g.blocks) + 1, end |-> Len(g.blocks) + 3, depth |-> Len(g.defers)]
Loop(g, stmt) ==
    LET n == Len(g.blocks)
    IN With(Expression(PendingGuard(SetInsertPoint(CreateBr(Create(g, 3), n + 1), n + 1)), stmt.e), LAMBDA c :
       With([CreateCondBr(c, c.val, n + 2, n + 3) EXCEPT !.loops = Append(@, LoopOf(g))], LAMBDA in :
            SetInsertPoint([NestedTo(in, n + 2, stmt.yes, n + 1) EXCEPT !.loops = Front(@)], n + 3)))

ReturnValue(g, stmt) == With(Expression(g, stmt.e), LAMBDA r : CreateRet(EmitDefers(r, 0), r.val))

Generate(g, stmt) ==
    CASE stmt.k = "let"            -> Variable(g, stmt)
      [] stmt.k \in {"set", "add"} -> Assignment(g, stmt)
      [] stmt.k = "if"             -> ConditionalStatement(g, stmt)
      [] stmt.k = "while"          -> Loop(g, stmt)
      [] stmt.k \in {"break", "continue"} ->
           CreateBr(EmitDefers(g, Last(g.loops).depth),
                    IF stmt.k = "break" THEN Last(g.loops).end ELSE Last(g.loops).condition)
      [] stmt.k = "return"         -> ReturnValue(g, stmt)
      [] stmt.k = "defer"          -> [g EXCEPT !.defers = Append(@, stmt.e)]
      [] stmt.k = "expr"           -> Expression(g, stmt.e)

GenerateFunction(source) ==
    With(Statements(PendingGuard(Builder), source), LAMBDA r : IF Terminated(r) THEN r ELSE DefaultReturn(r))

-----------------------------------------------------------------------------
Init ==
    /\ \E g \in {GenerateFunction(body)} :
       /\ blocks = g.blocks /\ invalid = g.invalid
       /\ values = [i \in 1 .. g.count |-> 0]
       /\ cells = [i \in 1 .. g.locals |-> 3]
    /\ at = 1 /\ pc = 1 /\ from = 0 /\ result = 0 /\ log = <<>>
    /\ pending \in BOOLEAN /\ entered = pending

Running == at # 0
InCode == Running /\ pc <= Len(blocks[at].code)
At(ops) == InCode /\ blocks[at].code[pc].op \in ops
Ins == blocks[at].code[pc]
Assign(v) == values' = [values EXCEPT ![Ins.v] = v]

Compute ==
    /\ At({"const", "load", "add", "div", "truth", "phi", "pending", "unfit"})
    /\ Assign(CASE Ins.op = "const" -> Ins.x
                [] Ins.op = "load" -> cells[Ins.x]
                [] Ins.op = "add" -> Wrap(values[Ins.x] + values[Ins.y])
                [] Ins.op = "div" -> Quotient(values[Ins.x], values[Ins.y])
                [] Ins.op = "truth" -> IF values[Ins.x] = 0 THEN 0 ELSE 1
                [] Ins.op = "phi" -> IF from = Ins.x[1] THEN values[Ins.x[2]] ELSE values[Ins.y[2]]
                [] Ins.op = "pending" -> IF pending THEN 1 ELSE 0
                [] Ins.op = "unfit" -> IF Divides(values[Ins.x], values[Ins.y]) THEN 0 ELSE 1)
    /\ pc' = pc + 1
    /\ UNCHANGED <<at, from, cells, result, pending, log>>

StoreCell ==
    /\ At({"store"})
    /\ cells' = [cells EXCEPT ![Ins.x] = values[Ins.y]]
    /\ pc' = pc + 1
    /\ UNCHANGED <<at, from, values, result, pending, log>>

CallFunction ==
    /\ At({"call"})
    /\ \E v \in (IF Len(log) < MaxCalls THEN Outcomes ELSE {0}), err \in (IF Len(log) < MaxCalls THEN BOOLEAN ELSE {FALSE}) :
         /\ Assign(v)
         /\ pending' = err
         /\ log' = Append(log, [f |-> Ins.x, val |-> v, err |-> err, args |-> [i \in DOMAIN Ins.y |-> values[Ins.y[i]]]])
    /\ pc' = pc + 1
    /\ UNCHANGED <<at, from, cells, result>>

RaiseError ==
    /\ At({"error"})
    /\ pending' = TRUE
    /\ pc' = pc + 1
    /\ UNCHANGED <<at, from, values, cells, result, log>>

EndBlock ==
    /\ Running /\ ~InCode
    /\ LET t == blocks[at].term IN
       /\ at' = CASE t.op = "ret" -> 0 [] t.op = "br" -> t.yes
                  [] t.op = "condbr" -> IF values[t.v] # 0 THEN t.yes ELSE t.no
       /\ result' = IF t.op = "ret" /\ t.v # 0 THEN values[t.v] ELSE 0
    /\ from' = at /\ pc' = 1
    /\ UNCHANGED <<values, cells, pending, log>>

Next ==
    /\ Compute \/ StoreCell \/ CallFunction \/ RaiseError \/ EndBlock
    /\ UNCHANGED <<body, blocks, invalid, entered>>

Returned == ~Running

-----------------------------------------------------------------------------
(* What the LLVM back end builds is what the function means, and is a function   *)
(* the verifier accepts: every reachable block ends in one terminator, and every  *)
(* phi names the block it is entered from (LlvmBackend.cpp 398-577, 814-883). An   *)
(* error skips what is deferred (SkipsDefers).                                    *)
LlvmMeans ==
    /\ ~invalid
    /\ Running => blocks[at].term # NoTerminator
    /\ At({"phi"}) => from \in {Ins.x[1], Ins.y[1]}
    /\ Returned => [calls |-> log, val |-> result, err |-> pending] = SkipsDefers(Meaning(body, entered, log, FALSE))

(* Every way out of the function, an error included, runs what is deferred.       *)
DefersRun == Returned => log = Meaning(body, entered, log, FALSE).calls
=============================================================================
