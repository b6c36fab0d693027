------------------------------- MODULE Values --------------------------------
(* Runtime values in lexical scopes (context/Values.cpp). Scopes, their          *)
(* bindings and the marker of the active scope are items of the append-only      *)
(* arena of the lexicon; leaving a scope gives its memory back when nothing else *)
(* was allocated behind it. An address is a position in the arena. Definitions   *)
(* of other phrases and transactions come from the program the scopes are in; a  *)
(* transaction rolls back to a watermark and may take open scopes with it.       *)
EXTENDS Integers, Sequences, FiniteSets, SequencesExt

CONSTANTS Names,
          Contents,     \* [size, what]
          Definitions,  \* what a variable is defined with: <<content, mutable>>
          MaxArena, MaxDepth, MaxTransactions   \* bounds of the model

VARIABLES arena,     \* items in the order of allocation
          frames,    \* the process-local frames of pushScope
          calls,     \* what is open: scopes and transactions with their watermarks
          env,       \* what the program means: its scopes, innermost last
          others,    \* what it means: how many phrases it has defined
          kept       \* whether anything was ever allocated outside of the active scope

vars == <<arena, frames, calls, env, others, kept>>

Scope(parent) == [kind |-> "scope", parent |-> parent]
Marker(scope) == [kind |-> "marker", scope |-> scope]
Binding(scope, name, content, mutable) ==
    [kind |-> "binding", scope |-> scope, name |-> name, content |-> content, mutable |-> mutable]
Phrase == [kind |-> "phrase"]

(* The latest item of a key hides the earlier ones. *)
Latest(S) == IF S = {} THEN 0 ELSE CHOOSE i \in S : \A j \in S : j <= i
MarkerAt(a) == Latest({i \in DOMAIN a : a[i].kind = "marker"})
ActiveScope(a) == a[MarkerAt(a)].scope
Exact(a, scope, name) ==
    Latest({i \in DOMAIN a : a[i].kind = "binding" /\ a[i].scope = scope /\ a[i].name = name})
(* The scopes from the active one outwards; 0 is behind the global one. *)
Chain(a) ==
    LET from[scope \in 0..Len(a)] == IF scope = 0 THEN <<>> ELSE <<scope>> \o from[a[scope].parent]
    IN from[ActiveScope(a)]
FindScope(a, name) ==
    LET holding == SelectSeq(Chain(a), LAMBDA scope : Exact(a, scope, name) # 0)
    IN IF holding = <<>> THEN 0 ELSE Head(holding)

Init ==
    /\ arena = <<Scope(0), Marker(1)>> /\ frames = <<>> /\ calls = <<>>
    /\ env = <<[x \in {} |-> 0]>> /\ others = 0 /\ kept = FALSE

-----------------------------------------------------------------------------
PushScope ==
    /\ Len(arena) + 2 <= MaxArena /\ Len(calls) < MaxDepth /\ Len(frames) < MaxDepth
    /\ arena' = arena \o <<Scope(ActiveScope(arena)), Marker(Len(arena) + 1)>>
    /\ frames' = Append(frames, [checkpoint |-> Len(arena), scope |-> Len(arena) + 1, marker |-> Len(arena) + 2])
    /\ calls' = Append(calls, [kind |-> "scope"])
    /\ env' = Append(env, [x \in {} |-> 0])
    /\ UNCHANGED <<others, kept>>

(* Nothing behind the frame's watermark but the frame's own items and what is in  *)
(* its scope.                                                                     *)
OwnsTailFault(frame, scope) ==
    \A i \in (frame.checkpoint + 1)..Len(arena) :
        i \in {frame.scope, frame.marker} \/ arena[i].kind = "binding"
OwnsTail(frame, scope) ==
    \A i \in (frame.checkpoint + 1)..Len(arena) :
        i \in {frame.scope, frame.marker} \/ (arena[i].kind = "binding" /\ arena[i].scope = scope)
(* Frames of scopes that a transaction has taken are dropped first. *)
Known(scope) ==
    LET known == {k \in DOMAIN frames : frames[k].scope = scope}
    IN IF known = {} THEN <<>> ELSE SubSeq(frames, 1, Latest(known))
PopScope ==
    /\ calls # <<>> /\ Last(calls).kind = "scope"
    /\ LET scope == ActiveScope(arena) parent == arena[scope].parent known == Known(scope) IN
       /\ parent # 0
       /\ frames' = IF known = <<>> THEN <<>> ELSE Front(known)
       /\ arena' = IF known = <<>> THEN Append(arena, Marker(parent))
                   ELSE IF OwnsTail(Last(known), scope) THEN SubSeq(arena, 1, Last(known).checkpoint)
                   ELSE [arena EXCEPT ![MarkerAt(arena)].scope = parent]
    /\ calls' = Front(calls) /\ env' = Front(env)
    /\ UNCHANGED <<others, kept>>

(* `moved`: the variables that got a new item since the transaction began, which   *)
(* the rollback takes back; the others were written in place.                       *)
Define(name, content, mutable) ==
    /\ Len(arena) < MaxArena
    /\ Exact(arena, ActiveScope(arena), name) = 0
    /\ arena' = Append(arena, Binding(ActiveScope(arena), name, content, mutable))
    /\ env' = [env EXCEPT ![Len(env)] = [x \in DOMAIN @ \cup {name} |-> IF x = name THEN [content |-> content, mutable |-> mutable] ELSE @[x]]]
    /\ UNCHANGED <<frames, calls, others, kept>>

Assign(name, content) ==
    LET scope == FindScope(arena, name)
        item == Exact(arena, scope, name)
        level == CHOOSE k \in DOMAIN env : name \in DOMAIN env[k] /\ \A l \in (k + 1)..Len(env) : name \notin DOMAIN env[l]
        resized == arena[item].content.size # content.size
        Written(e) == [e EXCEPT ![level][name].content = content]
    IN /\ scope # 0 /\ arena[item].mutable
       /\ resized => Len(arena) < MaxArena
       /\ arena' = IF resized THEN Append(arena, Binding(scope, name, content, TRUE))
                   ELSE [arena EXCEPT ![item].content = content]
       /\ env' = Written(env)
       /\ calls' = [k \in DOMAIN calls |->
                      IF calls[k].kind = "scope" THEN calls[k]
                      ELSE IF resized THEN [calls[k] EXCEPT !.moved = @ \cup {<<level, name, Len(arena) + 1>>}]
                      ELSE IF level <= Len(calls[k].env) /\ name \in DOMAIN calls[k].env[level] /\ ~\E x \in calls[k].moved : x[1] = level /\ x[2] = name
                           THEN [calls[k] EXCEPT !.env = Written(@)] ELSE calls[k]]
       /\ kept' = (kept \/ (resized /\ level < Len(env)))
       /\ UNCHANGED <<frames, others>>

DefinePhrase ==
    /\ Len(arena) < MaxArena
    /\ arena' = Append(arena, Phrase) /\ others' = others + 1 /\ kept' = TRUE
    /\ UNCHANGED <<frames, calls, env>>

(* LexiconTransaction: what the program was at the watermark, and the watermark. *)
Begin ==
    /\ Len(calls) < MaxDepth
    /\ Cardinality({k \in DOMAIN calls : calls[k].kind = "transaction"}) < MaxTransactions
    /\ calls' = Append(calls, [kind |-> "transaction", at |-> Len(arena), env |-> env, others |-> others, moved |-> {}])
    /\ UNCHANGED <<arena, frames, env, others, kept>>
Commit ==
    /\ calls # <<>> /\ Last(calls).kind = "transaction"
    /\ calls' = Front(calls)
    /\ UNCHANGED <<arena, frames, env, others, kept>>
Rollback ==
    \E k \in DOMAIN calls :
       /\ calls[k].kind = "transaction" /\ \A l \in (k + 1)..Len(calls) : calls[l].kind = "scope"
       /\ arena' = SubSeq(arena, 1, calls[k].at)
       /\ env' = calls[k].env /\ others' = calls[k].others
       /\ calls' = [l \in 1..(k - 1) |-> IF calls[l].kind = "scope" THEN calls[l]
                                        ELSE [calls[l] EXCEPT !.moved = {x \in @ : x[3] <= calls[k].at}]]
       /\ UNCHANGED <<frames, kept>>

Next ==
    \/ PushScope \/ PopScope \/ DefinePhrase \/ Begin \/ Commit \/ Rollback
    \/ \E name \in Names, content \in Contents : Assign(name, content)
    \/ \E name \in Names, new \in Definitions : Define(name, new[1], new[2])
Spec == Init /\ [][Next]_vars

-----------------------------------------------------------------------------
(* However scopes, definitions, assignments and rolled-back transactions            *)
(* interleave, a lookup finds the value the program means in the scope it means,     *)
(* every phrase defined meanwhile is still there, and outside of every scope the      *)
(* memory is back unless something was allocated for an outer one                     *)
(* (Values.cpp 245-326).                                                     *)
ScopesMean ==
    LET chain == Chain(arena)
        Bound(scope) == {name \in Names : Exact(arena, scope, name) # 0}
    IN /\ Len(chain) = Len(env)
       /\ \A k \in DOMAIN env :
            LET scope == chain[Len(chain) + 1 - k] IN
            /\ Bound(scope) = DOMAIN env[k]
            /\ \A name \in Bound(scope) :
                 LET item == arena[Exact(arena, scope, name)] IN env[k][name] = [content |-> item.content, mutable |-> item.mutable]
       /\ Cardinality({i \in DOMAIN arena : arena[i].kind = "phrase"}) = others
       /\ (calls = <<>> /\ ~kept /\ DOMAIN env[1] = {}) => Len(arena) = 2
=============================================================================
