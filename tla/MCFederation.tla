--------------------------- MODULE MCFederation ---------------------------
(***************************************************************************)
(* Instances of Federation for TLC: one row in each of two tables, of one   *)
(* agent or of one each.                                                    *)
(***************************************************************************)
EXTENDS Federation, TLC

CONSTANTS r0, r1, r2, cpu, mem, a1, a2

MCRowTable == r0 :> cpu @@ r1 :> cpu @@ r2 :> mem
MCRowAgent == r0 :> a1 @@ r1 :> a1 @@ r2 :> a1
MCRowTime  == r0 :> 3 @@ r1 :> 2 @@ r2 :> 3

Term(t, op, value) == [on |-> t, op |-> op, value |-> value]

(* r1 in the buffer, next to a file of its table, or to a row that is buffered too. *)
MCStarts == {<<{r1}, {r0, r2}>>, <<{r0, r1}, {r2}>>}

(* Two tables, and a term that r1 just satisfies; with terms about the second that cut the fetch of r1;
   one table and another one in a subquery; a table with the name of a CTE. *)
Join(mode) == [mode |-> mode, named |-> <<cpu, mem>>, hidden |-> {},
                where |-> {Term(cpu, "gt", 1)}]
Cut(mode) == [Join(mode) EXCEPT !.where = {Term(mem, "ge", 3), Term(cpu, "le", 3)}]
Nested(mode) == [mode |-> mode, named |-> <<mem>>, hidden |-> {cpu}, where |-> {}]
Shadowed(mode) == [mode |-> mode, named |-> << >>, hidden |-> {cpu}, where |-> {}]
MCRequests == {Join("history"), Join("all"), Join("buffer"), Cut("all"), Nested("buffer"), Nested("all"),
                Shadowed("all")}

SlotSymmetry == Permutations(Slots)
=============================================================================
