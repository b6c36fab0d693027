------------------------------ MODULE Targets --------------------------------
(* Project targets (Targets.cpp) and `debugTarget` of a session: the graph of    *)
(* what is asked for is validated first, then the commands run one after the     *)
(* other within one request. A command is only what becomes of it: it succeeds,  *)
(* leaves a nonzero status or throws.                                            *)
EXTENDS Integers, Sequences, TLC, SequencesExt

CONSTANTS Requests   \* [dependencies: [name -> Seq(name)], entries, requested, mode]

VARIABLES request,
          order,     \* the targets in the order they will run
          log,       \* the commands begun, with their outcomes
          stage      \* "asked", "running", "answered" or "refused"

vars == <<request, order, log, stage>>

-----------------------------------------------------------------------------
(* `visited` is 1 while a target is entered and 2 behind it; the first unknown   *)
(* name and the first target entered twice end the visit.                        *)
RECURSIVE Visit(_, _, _)
VisitFault(g, v, name) ==
    IF ~v.valid \/ name \in DOMAIN v.visited THEN v
    ELSE IF name \notin DOMAIN g THEN [v EXCEPT !.valid = FALSE]
    ELSE LET inside == FoldLeft(LAMBDA w, x : Visit(g, w, x), [v EXCEPT !.visited = (name :> 1) @@ @], g[name])
         IN [inside EXCEPT !.visited[name] = 2, !.order = Append(@, name)]
Visit(g, v, name) ==
    IF ~v.valid \/ (name \in DOMAIN v.visited /\ v.visited[name] = 2) THEN v
    ELSE IF name \notin DOMAIN g \/ name \in DOMAIN v.visited THEN [v EXCEPT !.valid = FALSE]
    ELSE LET inside == FoldLeft(LAMBDA w, x : Visit(g, w, x), [v EXCEPT !.visited = (name :> 1) @@ @], g[name])
         IN IF inside.valid THEN [inside EXCEPT !.visited[name] = 2, !.order = Append(@, name)] ELSE inside

(* "run", "prepare": only the dependencies, to describe the debug entry then;    *)
(* "debug": the same, and the debugger is started on the entry.                   *)
DependenciesOnly == request.mode # "run"
Init ==
    /\ request \in Requests
    /\ order = <<>> /\ log = <<>> /\ stage = "asked"

Validate ==
    /\ stage = "asked"
    /\ LET g == request.dependencies
           known == request.requested \in DOMAIN g /\ (DependenciesOnly => request.requested \in request.entries)
           v == Visit(g, [visited |-> << >>, order |-> <<>>, valid |-> TRUE], request.requested)
       IN IF known /\ v.valid
          THEN stage' = "running" /\ order' = SelectSeq(v.order, LAMBDA name : ~(DependenciesOnly /\ name = request.requested))
          ELSE stage' = "refused" /\ UNCHANGED order
    /\ UNCHANGED <<request, log>>

ExecuteCommand ==
    /\ stage = "running" /\ order # <<>>
    /\ \E outcome \in {"done", "status", "throws"} :
         /\ log' = Append(log, <<Head(order), outcome>>)
         /\ stage' = IF outcome = "done" THEN "running" ELSE "refused"
    /\ order' = Tail(order)
    /\ UNCHANGED request
Answer ==
    /\ stage = "running" /\ order = <<>>
    /\ log' = IF request.mode = "debug" THEN Append(log, <<"debugger", "done">>) ELSE log
    /\ stage' = "answered"
    /\ UNCHANGED <<request, order>>

Next == Validate \/ ExecuteCommand \/ Answer
Spec == Init /\ [][Next]_vars

-----------------------------------------------------------------------------
(* A command runs only when all that it needs has succeeded before it, nothing     *)
(* runs twice or behind a failure, an unknown or cyclic dependency anywhere in     *)
(* reach stops everything before the first command, and an answer means that all   *)
(* of it was done (Targets.cpp 134-153, Session.cpp 620-644).                      *)
Reach(g, name) ==
    LET from[S \in SUBSET (DOMAIN g \cup UNION {ToSet(g[x]) : x \in DOMAIN g})] ==
          LET more == S \cup UNION {ToSet(g[x]) : x \in S \cap DOMAIN g} IN IF more = S THEN S ELSE from[more]
    IN from[{name}]
Needs(name) == UNION {Reach(request.dependencies, x) : x \in ToSet(request.dependencies[name])}
RunsInOrder ==
    LET g == request.dependencies
        wanted == Reach(g, request.requested)
        sound == wanted \subseteq DOMAIN g /\ \A x \in wanted : x \notin Needs(x)
        due == IF DependenciesOnly THEN wanted \ {request.requested} ELSE wanted
        Done(i) == {log[j][1] : j \in {k \in 1..i : log[k][2] = "done"}}
    IN log # <<>> \/ stage = "answered" =>
       /\ sound
       /\ \A i \in DOMAIN log : /\ log[i][1] \in (IF log[i][1] = "debugger" THEN {"debugger"} ELSE due) \ Done(i - 1)
                                /\ i > 1 => log[i - 1][2] = "done"
                                /\ (IF log[i][1] = "debugger" THEN due ELSE Needs(log[i][1])) \subseteq Done(i - 1)
       /\ stage = "answered" => due \subseteq Done(Len(log))
=============================================================================
