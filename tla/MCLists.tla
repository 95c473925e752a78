------------------------------ MODULE MCLists ------------------------------
(* Constants of the run "lists": one category of the table, a category     *)
(* only API clients use, and a name Categorize does not know.              *)
EXTENDS Lists

MCCategories == <<"Produce">>
MCCategorize == [n \in ItemNames |-> IF n = "pear" THEN "Produce" ELSE "Other"]

(* Items and notes share no state but the cookie and the requests in       *)
(* flight: a behaviour is followed as long as it has rows of one kind.     *)
OneKind == nextItem = 1 \/ nextNote = 1

HandlerSymmetry == Permutations(Handlers)
=============================================================================
