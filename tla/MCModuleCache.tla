---------------------------- MODULE MCModuleCache ----------------------------
(* Small instances of ModuleCache. *)
EXTENDS ModuleCache, TLC

CONSTANTS b1, b2, root, mid, leaf, lib

Always(includes) == [c \in Contents |-> includes]

Includes(tree) == tree @@ [f \in Sources |-> Always(<<>>)]

Calm == [includes |-> Includes(root :> Always(<<leaf>>)), declaresFirst |-> {}, builders |-> {b1},
         files |-> {root, leaf}, contents |-> {1, 2}, edits |-> 2, images |-> 6,
         quiet |-> TRUE, replaces |-> TRUE, crashes |-> FALSE, writesFail |-> FALSE]

(* root includes mid, which imports lib, and then leaf. *)
Siblings == [Calm EXCEPT !.includes = Includes(root :> Always(<<mid, leaf>>) @@ mid :> Always(<<lib>>)),
                         !.files = Files, !.edits = 2, !.images = 9]

(* root includes mid, which declares before it includes leaf. *)
Chain == [Calm EXCEPT !.includes = Includes(root :> Always(<<mid>>) @@ mid :> Always(<<leaf>>)),
                      !.declaresFirst = {mid}, !.files = Sources, !.edits = 2, !.images = 6, !.crashes = TRUE]

(* Two processes build root, which declares before it includes leaf. *)
Shared == [Calm EXCEPT !.declaresFirst = {root}, !.builders = {b1, b2}, !.edits = 1,
                       !.writesFail = TRUE, !.crashes = TRUE]

(* root and the library it imports are edited in place while they are built. *)
InPlace == [Calm EXCEPT !.includes = Includes(root :> Always(<<lib>>)), !.declaresFirst = {root},
                        !.files = {root, lib}, !.contents = {1, 2, 3}, !.edits = 2,
                        !.quiet = FALSE, !.replaces = FALSE, !.writesFail = TRUE]

Builds == {Siblings, Chain, Shared, InPlace}

(* Content 2 of root no longer includes mid, which leaf was built after. *)
Shrinking == {[Calm EXCEPT !.includes = Includes(root :> (1 :> <<mid, leaf>> @@ 2 :> <<leaf>> @@ 3 :> <<leaf>>)),
                           !.files = Sources, !.images = 9]}

(* An included file is edited in place while its parent is built. *)
Edited == {[Calm EXCEPT !.quiet = FALSE, !.replaces = FALSE]}

(* root is replaced by a rename between its opening and its stamp. *)
Replaced == {[Calm EXCEPT !.includes = Includes(<<>>), !.files = {root}, !.quiet = FALSE]}

(* The image of an included file cannot be written, that of its child can. *)
FailedWrites == {[Calm EXCEPT !.includes = Includes(root :> Always(<<mid>>) @@ mid :> Always(<<leaf>>)),
                              !.files = Sources, !.images = 9, !.writesFail = TRUE]}
=============================================================================
