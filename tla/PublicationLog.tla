--------------------------- MODULE PublicationLog ---------------------------
(***************************************************************************)
(* What a Project promises to the clients of its runtime, with no mention  *)
(* of locks, requests or prepared snapshots: one log of published          *)
(* generations, each newer than the one before it, and for every client a  *)
(* view that only ever moves to a generation of the log.                   *)
(***************************************************************************)
EXTENDS Integers, Sequences

CONSTANTS Sessions,    \* the clients of the project
          Contents,    \* the portable language states a generation can hold
          NoGeneration \* the view of a client that has not attached yet

VARIABLES log,  \* every published generation, oldest first; the last is current
          view  \* the generation each client is attached to

logVars == <<log, view>>

Generation == [id : Nat, content : Contents]

Newest(generations) == generations[Len(generations)]

LogTypeOK ==
    /\ log \in Seq(Generation)
    /\ log # <<>>
    /\ view \in [Sessions -> Generation \cup {NoGeneration}]

LogInit ==
    /\ log = <<log[1]>>
    /\ log[1] \in Generation
    /\ view = [s \in Sessions |-> NoGeneration]

(* A publication appends a generation newer than the current one. *)
Publish ==
    LET g == Newest(log') IN
    /\ g \in Generation
    /\ g.id > Newest(log).id
    /\ log' = Append(log, g)
    /\ UNCHANGED view

(* A client adopts a generation that has been published. *)
Adopt(s, i) ==
    /\ view' = [view EXCEPT ![s] = log[i]]
    /\ UNCHANGED log

LogNext ==
    \/ Publish
    \/ \E s \in Sessions, i \in DOMAIN log : Adopt(s, i)

LogSpec == LogInit /\ [][LogNext]_logVars
=============================================================================
