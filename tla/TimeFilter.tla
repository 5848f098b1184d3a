----------------------------- MODULE TimeFilter -----------------------------
(***************************************************************************)
(* The time range that a federated query sends to the agents with its       *)
(* fetches: extract_time_range and engine_time_range.                       *)
(*                                                                         *)
(* A WHERE clause is the set of the terms that AND joins at its top.  A     *)
(* term that compares a column `time` with an integer literal is a record   *)
(* [op, value]; every other term (OR, NOT, parentheses, another column, a   *)
(* reversed comparison, a float) is one no bound is taken from, with op     *)
(* "other".  Merging the bounds of the two sides of every AND gives the     *)
(* greatest lower and the least upper one of the terms.                     *)
(***************************************************************************)
EXTENDS Integers

CONSTANTS MinTime, MaxTime  \* i64::MIN and i64::MAX

ASSUME TimeAssumption == MinTime \in Int /\ MaxTime \in Int /\ MinTime <= MaxTime

Times == MinTime .. MaxTime

Terms == [op : {"lt", "le", "gt", "ge", "other"}, value : Times]

(* i64's saturating_add(1) and saturating_sub(1) *)
SaturatingNext(v) == IF v = MaxTime THEN v ELSE v + 1
SaturatingPrev(v) == IF v = MinTime THEN v ELSE v - 1

(* Mutant: the bound of an exclusive comparison is moved the wrong way. *)
LowerBoundTight(term) == IF term.op = "gt" THEN term.value + 2 ELSE term.value

LowerBound(term) ==
    IF term.op = "gt" THEN SaturatingNext(term.value) ELSE term.value

UpperBound(term) ==
    IF term.op = "lt" THEN SaturatingPrev(term.value) ELSE term.value

Lower(terms) == {LowerBound(term) : term \in {x \in terms : x.op \in {"gt", "ge"}}}
Upper(terms) == {UpperBound(term) : term \in {x \in terms : x.op \in {"lt", "le"}}}

(* The greatest of the lower bounds is above the least of the upper ones. *)
Inverted(terms) == \E s \in Lower(terms), e \in Upper(terms) : s > e

(* The rows the agent sends for that range; it sends all for an inverted one. *)
InRange(time, terms) ==
    \/ Inverted(terms)
    \/ /\ \A s \in Lower(terms) : time >= s
       /\ \A e \in Upper(terms) : time <= e

(* What DataFusion decides about a term with a comparison. *)
Holds(time, term) ==
    CASE term.op = "lt" -> time < term.value
      [] term.op = "le" -> time <= term.value
      [] term.op = "gt" -> time > term.value
      [] term.op = "ge" -> time >= term.value
      [] term.op = "other" -> TRUE

Satisfies(time, terms) == \A term \in terms : Holds(time, term)
=============================================================================
