--------------------------- MODULE NativeFunction ----------------------------
(* The native code generator (FunctionsGenerator.cpp) and the machine that     *)
(* runs its code. The generator is a fold over the statements of a body that   *)
(* appends instructions and patches jumps; its state is the record Generator.  *)
(* An instruction of the model stands for the few machine instructions between *)
(* two that touch rsp, a slot of the frame or the flow of control. `stack` is  *)
(* what the code pushed below its frame, so that its length is how far rsp is  *)
(* from the aligned frame, in units of 8 bytes.                                *)
EXTENDS FunctionMeaning

CONSTANTS RegisterArguments,   \* arguments passed in registers; the rest goes on the stack
          MaxCalls,            \* calls a run makes before every further one returns 0
          Outcomes             \* what such a call can return

VARIABLES body,      \* the statements compiled
          code,      \* what the generator made of them
          pc, stack, slots, rax, rcx, arguments, pending,
          entered,   \* whether an exception was pending when the function was entered
          log        \* the calls made, with their outcomes

Instruction(op, n, to, f) == [op |-> op, n |-> n, to |-> to, f |-> f]

(* breaks, returns: positions whose target is not known yet.                   *)
Generator == [code |-> <<>>, scopes |-> <<>>, defers |-> <<>>, loops |-> <<>>, returns |-> {},
              frame |-> 0, returnSlot |-> 0, depth |-> 0]

Emit(g, op, n) == [g EXCEPT !.code = Append(@, Instruction(op, n, 0, ""))]
Jump(g, op) == Emit(g, op, 0)
JumpTo(g, op, to) == [g EXCEPT !.code = Append(@, Instruction(op, 0, to, ""))]
Here(g) == Len(g.code) + 1
Patch(g, at, to) == [g EXCEPT !.code[at].to = to]
PatchAll(g, positions, to) == [g EXCEPT !.code = [i \in DOMAIN @ |-> IF i \in positions THEN [@[i] EXCEPT !.to = to] ELSE @[i]]]

Allocate(g) == [g EXCEPT !.frame = @ + 1]     \* the new slot is the frame's last
Push(g) == [Emit(g, "push", 0) EXCEPT !.depth = @ + 1]
Pop(g, op) == [Emit(g, op, 0) EXCEPT !.depth = @ - 1]
Leaving(g) == [Jump(g, "jmp") EXCEPT !.returns = @ \cup {Here(g)}]
ReturnJump(g) == Leaving(Emit(g, "imm", 0))

(* A jump over code that is not emitted yet, patched to the place behind it, and *)
(* the two ways of a condition.                                                  *)
Over(g, op, Emitted(_)) == With(Emitted(Jump(g, op)), LAMBDA out : Patch(out, Here(g), Here(out)))
Either(g, op, Yes(_), No(_)) ==
    With(Jump(Yes(Jump(g, op)), "jmp"), LAMBDA end :
         With(No(Patch(end, Here(g), Here(end))), LAMBDA out : Patch(out, Len(end.code), Here(out))))

(* Calls of the runtime are padded when an odd number of temporaries is pushed. *)
RuntimeCall(g, op, n) ==
    IF g.depth % 2 = 0 THEN Emit(g, op, n)
    ELSE Emit(Emit(Emit(g, "pad", 0), op, n), "drop", 1)
PendingGuard(g) ==
    With(Allocate(g), LAMBDA a :
         Emit(Over(RuntimeCall(Emit(a, "store", a.frame), "pending", 0), "jz", ReturnJump), "load", a.frame))
ArithmeticError(g, n) == ReturnJump(RuntimeCall(g, "error", n))

DivisionOperation(g) ==
    Emit(Over(Over(g, "jnzRight", LAMBDA zero : ArithmeticError(zero, 1)),
              "jfits", LAMBDA wide : ArithmeticError(wide, 2)), "div", 0)

RECURSIVE Expression(_, _), Generate(_, _), GenerateAll(_, _), Deferred(_, _), Evaluated(_, _, _), Pushed(_, _, _), Loaded(_, _, _)

(* Every way out of a block emits the deferred expressions above `depth` again. *)
Deferred(g, es) == IF es = <<>> THEN g ELSE Deferred(Expression(g, Last(es)), Front(es))
EmitDefers(g, depth) == Deferred(g, SubSeq(g.defers, depth + 1, Len(g.defers)))

(* Each statement is generated before the next one is looked at.                *)
GenerateAll(g, source) ==
    IF source = <<>> THEN g
    ELSE CHOOSE out \in {GenerateAll(next, Tail(source)) : next \in {Generate(g, Head(source))}} : TRUE

Closed(out, defers) == [out EXCEPT !.defers = defers, !.scopes = Front(@)]
Opened(g) == [g EXCEPT !.scopes = Append(@, NoNames)]
Statements(g, source) == Closed(EmitDefers(GenerateAll(Opened(g), source), Len(g.defers)), g.defers)

(* The value in rax outlives the deferred expressions in a slot. *)
EmitDefersAround(g, slot, depth) == Emit(EmitDefers(Emit(g, "store", slot), depth), "load", slot)
ExpressionBlock(g, source) ==
    With(Expression(GenerateAll(Opened(g), Front(source)), Last(source).e), LAMBDA r :
         Closed(IF Len(r.defers) = Len(g.defers) THEN r
                ELSE EmitDefersAround(Allocate(r), r.frame + 1, Len(g.defers)), g.defers))

BinaryOperands(g, e) == Pop(Expression(Push(Expression(g, e.a)), e.b), "popLeft")

EmitLogical(g, e, conjunction) ==
    Either(Expression(g, e.a), IF conjunction THEN "jz" ELSE "jnz",
           LAMBDA both : Emit(Expression(both, e.b), "truth", 0),
           LAMBDA decided : Emit(decided, "imm", IF conjunction THEN 0 ELSE 1))

(* Arguments are evaluated last first into slots of their own; those that do    *)
(* not fit the registers are pushed last first, below a padding if needed.      *)
Evaluated(g, args, at) ==
    IF args = <<>> THEN g
    ELSE Evaluated(Emit(Expression(g, Last(args)), "store", at + Len(args)), Front(args), at)
Pushed(g, slot, n) == IF n = 0 THEN g ELSE Pushed([Emit(g, "pushSlot", slot) EXCEPT !.depth = @ + 1], slot - 1, n - 1)
Loaded(g, slot, n) == IF n = 0 THEN g ELSE Loaded(Emit(g, "argument", slot), slot + 1, n - 1)
Moved(g, op, n, depth) == [Emit(g, op, n) EXCEPT !.depth = @ + depth]
CallPadded(g, e, frame, onStack, padding) ==
    With(Loaded(Pushed(IF padding THEN Moved(g, "pad", 0, 1) ELSE g, frame + Len(e.args), onStack),
                frame + 1, Len(e.args) - onStack), LAMBDA loaded :
    With([loaded EXCEPT !.code = Append(@, Instruction("call", onStack, 0, e.f))], LAMBDA called :
    With(IF onStack = 0 THEN called ELSE Moved(called, "drop", onStack, -onStack), LAMBDA dropped :
         PendingGuard(IF padding THEN Moved(dropped, "drop", 1, -1) ELSE dropped))))
OnStack(n) == IF n > RegisterArguments THEN n - RegisterArguments ELSE 0
CallResolved(g, e) ==
    With(Evaluated([g EXCEPT !.frame = @ + Len(e.args)], e.args, g.frame), LAMBDA evaluated :
         CallPadded(evaluated, e, g.frame, OnStack(Len(e.args)), (evaluated.depth + OnStack(Len(e.args))) % 2 = 1))

Conditional(g, e) ==
    Either(Expression(g, e.a), "jz", LAMBDA yes : ExpressionBlock(yes, e.yes), LAMBDA no : ExpressionBlock(no, e.no))

Propagate(g, e) == Over(Expression(g, e.a), "jnz", LAMBDA null : ReturnJump(EmitDefers(null, 0)))

Expression(g, e) ==
    CASE e.k = "int"   -> Emit(g, "imm", e.n)
      [] e.k = "name"  -> Emit(g, "load", Named(g.scopes, e.name))
      [] e.k = "call"  -> CallResolved(g, e)
      [] e.k = "add"   -> Emit(BinaryOperands(g, e), "add", 0)
      [] e.k = "div"   -> DivisionOperation(BinaryOperands(g, e))
      [] e.k = "and"   -> EmitLogical(g, e, TRUE)
      [] e.k = "or"    -> EmitLogical(g, e, FALSE)
      [] e.k = "block" -> ExpressionBlock(g, e.body)
      [] e.k = "cond"  -> Conditional(g, e)
      [] e.k = "try"   -> Propagate(g, e)

GenerateVariable(g, stmt) ==
    With(Allocate(Expression(g, stmt.e)), LAMBDA a :
         Emit([a EXCEPT !.scopes = Declare(@, stmt.name, a.frame)], "store", a.frame))

(* The address of the target is pushed first; the target is read after the value. *)
GenerateAssignment(g, stmt) ==
    Emit(Pop(Expression(Push(Emit(g, "imm", Named(g.scopes, stmt.name))), stmt.e), "popLeft"),
         IF stmt.k = "set" THEN "move" ELSE "moveAdd", 0)

GenerateConditional(g, stmt) ==
    Either(Expression(g, stmt.e), "jz", LAMBDA yes : Statements(yes, stmt.yes), LAMBDA no : Statements(no, stmt.no))

LoopOf(g) == [begin |-> Here(g), breaks |-> {}, depth |-> Len(g.defers)]
GenerateLoop(g, stmt) ==
    With(Jump(Expression(PendingGuard(g), stmt.e), "jz"), LAMBDA end :
    With(JumpTo(Statements([end EXCEPT !.loops = Append(@, LoopOf(g))], stmt.yes), "jmp", Here(g)), LAMBDA again :
         [PatchAll(again, Last(again.loops).breaks \cup {Len(end.code)}, Here(again)) EXCEPT !.loops = Front(@)]))

GenerateBreak(g) ==
    With(Jump(EmitDefers(g, Last(g.loops).depth), "jmp"), LAMBDA j :
         [j EXCEPT !.loops[Len(j.loops)].breaks = @ \cup {Len(j.code)}])
GenerateContinue(g) == JumpTo(EmitDefers(g, Last(g.loops).depth), "jmp", Last(g.loops).begin)

GenerateReturnFault(g, stmt) == Leaving(EmitDefers(Expression(g, stmt.e), 0))
(* One slot keeps the value of every return over the deferred expressions. *)
GenerateReturn(g, stmt) ==
    With(Expression(g, stmt.e), LAMBDA r :
    With(IF r.returnSlot = 0 THEN [Allocate(r) EXCEPT !.returnSlot = r.frame + 1] ELSE r, LAMBDA a :
         Leaving(IF r.defers = <<>> THEN r ELSE EmitDefersAround(a, a.returnSlot, 0))))

Generate(g, stmt) ==
    CASE stmt.k = "let"            -> GenerateVariable(g, stmt)
      [] stmt.k \in {"set", "add"} -> GenerateAssignment(g, stmt)
      [] stmt.k = "if"             -> GenerateConditional(g, stmt)
      [] stmt.k = "while"          -> GenerateLoop(g, stmt)
      [] stmt.k = "break"          -> GenerateBreak(g)
      [] stmt.k = "continue"       -> GenerateContinue(g)
      [] stmt.k = "return"         -> GenerateReturn(g, stmt)
      [] stmt.k = "defer"          -> [g EXCEPT !.defers = Append(@, stmt.e)]
      [] stmt.k = "expr"           -> Expression(g, stmt.e)

GenerateModule(source) ==
    With(Emit(EmitDefers(GenerateAll(PendingGuard(Opened(Generator)), source), 0), "imm", 0),
         LAMBDA out : Emit(PatchAll(out, out.returns, Here(out)), "leave", out.frame).code)

-----------------------------------------------------------------------------
(* The machine. `slots` starts as whatever the stack held: 3 in the model.      *)
Init ==
    /\ code = GenerateModule(body)
    /\ pc = 1 /\ stack = <<>> /\ rax = 0 /\ rcx = 0 /\ arguments = <<>> /\ log = <<>>
    /\ slots = [i \in 1 .. code[Len(code)].n |-> 3]
    /\ pending \in BOOLEAN /\ entered = pending

At(ops) == pc <= Len(code) /\ code[pc].op \in ops
Top == Last(stack)
Calls == {"call", "pending", "error"}

Move ==
    /\ At({"imm", "load", "store", "truth"})
    /\ LET i == code[pc] IN
       /\ rax' = CASE i.op = "imm" -> i.n [] i.op = "load" -> slots[i.n]
                   [] i.op = "store" -> rax [] i.op = "truth" -> IF rax = 0 THEN 0 ELSE 1
       /\ slots' = IF i.op = "store" THEN [slots EXCEPT ![i.n] = rax] ELSE slots
    /\ pc' = pc + 1
    /\ UNCHANGED <<stack, rcx, arguments, pending, log>>

(* "popLeft" moves the right operand to rcx and pops the left one into rax. *)
Stack ==
    /\ At({"push", "pushSlot", "pad", "drop", "popLeft"})
    /\ LET i == code[pc] IN
       /\ stack' = CASE i.op = "push" -> Append(stack, rax) [] i.op = "pad" -> Append(stack, 0)
                     [] i.op = "pushSlot" -> Append(stack, slots[i.n])
                     [] i.op = "drop" -> SubSeq(stack, 1, Len(stack) - i.n) [] i.op = "popLeft" -> Front(stack)
       /\ rax' = IF i.op = "popLeft" THEN Top ELSE rax
       /\ rcx' = IF i.op = "popLeft" THEN rax ELSE rcx
    /\ pc' = pc + 1
    /\ UNCHANGED <<slots, arguments, pending, log>>

(* A "move" stores rcx to the slot whose address is in rax. *)
Operate ==
    /\ At({"add", "div", "move", "moveAdd"})
    /\ LET i == code[pc] IN
       /\ rax' = CASE i.op = "add" -> Wrap(rax + rcx) [] i.op = "div" -> Quotient(rax, rcx) [] OTHER -> rax
       /\ slots' = CASE i.op = "move" -> [slots EXCEPT ![rax] = rcx]
                     [] i.op = "moveAdd" -> [slots EXCEPT ![rax] = Wrap(@ + rcx)] [] OTHER -> slots
    /\ pc' = pc + 1
    /\ UNCHANGED <<stack, rcx, arguments, pending, log>>

Branch ==
    /\ At({"jmp", "jz", "jnz", "jnzRight", "jfits"})
    /\ LET i == code[pc]
           taken == CASE i.op = "jmp" -> TRUE [] i.op = "jz" -> rax = 0 [] i.op = "jnz" -> rax # 0
                      [] i.op = "jnzRight" -> rcx # 0 [] i.op = "jfits" -> Divides(rax, rcx)
       IN pc' = IF taken THEN i.to ELSE pc + 1
    /\ UNCHANGED <<stack, slots, rax, rcx, arguments, pending, log>>

LoadArgument ==
    /\ At({"argument"})
    /\ arguments' = Append(arguments, slots[code[pc].n])
    /\ pc' = pc + 1
    /\ UNCHANGED <<stack, slots, rax, rcx, pending, log>>

(* A callee takes its stack arguments from the top; rcx does not survive it.    *)
CallFunction ==
    /\ At({"call"})
    /\ \E v \in (IF Len(log) < MaxCalls THEN Outcomes ELSE {0}), err \in (IF Len(log) < MaxCalls THEN BOOLEAN ELSE {FALSE}) :
         /\ rax' = v
         /\ pending' = err
         /\ log' = Append(log, [f |-> code[pc].f, val |-> v, err |-> err,
                                args |-> arguments \o Reverse(SubSeq(stack, Len(stack) - code[pc].n + 1, Len(stack)))])
    /\ rcx' = 3 /\ arguments' = <<>>
    /\ pc' = pc + 1
    /\ UNCHANGED <<stack, slots>>

RuntimeStep ==
    /\ At({"pending", "error"})
    /\ rax' = IF code[pc].op = "pending" /\ ~pending THEN 0 ELSE 1
    /\ pending' = (pending \/ code[pc].op = "error")
    /\ rcx' = 3
    /\ pc' = pc + 1
    /\ UNCHANGED <<stack, slots, arguments, log>>

Next ==
    /\ \/ Move \/ Stack \/ Operate \/ Branch \/ LoadArgument \/ CallFunction \/ RuntimeStep
    /\ UNCHANGED <<body, code, entered>>

Returned == At({"leave"})

-----------------------------------------------------------------------------
(* What the native code does is what the function means: it makes the same     *)
(* calls with the same arguments, runs every deferred expression once on every  *)
(* way out but an error (SkipsDefers), and returns the same value or error; and   *)
(* every call is made with rsp aligned to 16 bytes, which rests on the            *)
(* generator's count of temporaries                                               *)
(* (FunctionsGenerator.cpp 326-353, 739-1075, 1294-1399).                         *)
NativeMeans ==
    /\ At(Calls) => Len(stack) % 2 = 0
    /\ Returned => [calls |-> log, val |-> rax, err |-> pending] = SkipsDefers(Meaning(body, entered, log, TRUE))

(* Every way out of the function, an error included, runs what is deferred.       *)
DefersRun == Returned => log = Meaning(body, entered, log, TRUE).calls
=============================================================================
