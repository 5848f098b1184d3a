----------------------------- MODULE RowCustody -----------------------------
(***************************************************************************)
(* What a keeper of rows promises, without files: the agent promises it to *)
(* a client about each batch, the server to an agent about each upload.    *)
(* It acknowledges only what it holds, and what it holds it goes on        *)
(* holding.  The ways in which a keeper may break that promise note in     *)
(* lost what they concern; nothing else may take a row out of its custody. *)
(***************************************************************************)
CONSTANT Items

VARIABLES
    held,    \* what the keeper has, or delivered to the next one
    lost,    \* what it has given up, or may acknowledge without holding
    acked    \* what it has acknowledged: the sender keeps no other copy

vars == <<held, lost, acked>>

Init == held = {} /\ lost = {} /\ acked = {}

(* It takes new items, and acknowledges some that it holds. *)
Keep(new, told) ==
    /\ held' = held \cup new
    /\ told \subseteq held' \cup lost
    /\ acked' = acked \cup told
    /\ UNCHANGED lost

(* It gives items up, and may find or still have others, of those as well. *)
Lose(gone, found) ==
    /\ held' = (held \ gone) \cup found
    /\ lost' = lost \cup gone
    /\ UNCHANGED acked

Next == \E S, T \in SUBSET Items : Keep(S, T) \/ Lose(S, T)

Spec == Init /\ [][Next]_vars
=============================================================================
