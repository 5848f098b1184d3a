--------------------------- MODULE MCAgentIngest ---------------------------
(***************************************************************************)
(* Instances of AgentIngest for TLC.  Requests never put two batches of    *)
(* one table in one window, as WriteHandler groups rows by both.           *)
(***************************************************************************)
EXTENDS AgentIngest, TLC

CONSTANTS b1, b2, b3, b4, t1, t2

(* Three batches of one table: two in window 0, b2 earlier than b1, and one
   in window 10. *)
OneTable == b1 :> t1 @@ b2 :> t1 @@ b3 :> t1
Times == b1 :> 5 @@ b2 :> 3 @@ b3 :> 12

(* b3 alone in a second table. *)
TwoTables == b1 :> t1 @@ b2 :> t1 @@ b3 :> t2
SameWindow == b1 :> 5 @@ b2 :> 3 @@ b3 :> 5

(* Requests: each batch alone, or b1 and b3 together. *)
Singles == {{b1}, {b2}, {b3}}
WithPair == {{b1}, {b2}, {b3}, {b1, b3}}
PairThenOne == {{b1, b3}, {b2}}

(* ... and a row that cannot be written, in the later window. *)
TimesOfFour == Times @@ b4 :> 14
TableOfFour == OneTable @@ b4 :> t1
PairThenTwo == PairThenOne \cup {{b4}}

HandlerSymmetry == Permutations(Handlers)
=============================================================================
