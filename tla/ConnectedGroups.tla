---------------------------- MODULE ConnectedGroups ----------------------------
(***************************************************************************)
(* The groups a client program knows itself to be in (clientNet.c): a list *)
(* and a count, which nothing but the program itself ever looks at.        *)
(***************************************************************************)
EXTENDS Integers, Sequences

(* Bug variant: m_numOfGroups is left alone.                               *)
BugNotCounted(program, g) == [program EXCEPT !.groups = Append(@, g)]

(* addGroup.                                                               *)
AddGroup(program, g) ==
    [program EXCEPT !.numOfGroups = @ + 1, !.groups = Append(@, g)]

(* removegroupFromClientsList looks for the group between the begin of the *)
(* list and the begin of the list, and removes what is there: the first.   *)
(* The count stays.                                                        *)
RemoveGroup(groups) == IF groups = << >> THEN << >> ELSE Tail(groups)
=============================================================================
