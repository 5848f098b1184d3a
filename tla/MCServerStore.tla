--------------------------- MODULE MCServerStore ---------------------------
(* A small server for TLC: two tables; uploads u1, u2 and u3 are for table cpu,
   and u4, for table mem, may or may not have the name of u1's file. *)
EXTENDS ServerStore, TLC

CONSTANTS u1, u2, u3, u4, cpu, mem, h1, h2, Shared

MCHandlersOne == {h1}
MCHandlersTwo == {h1, h2}

(* The uploads of the runs. *)
MCUploadsOneTable == {u1, u2, u3}
MCUploadsTwoTables == {u1, u2, u4}

MCTableOf == [u \in Uploads |-> IF u = u4 THEN mem ELSE cpu]

(* A name is that of the upload that has it. *)
MCNameOf == [u \in Uploads |-> IF u = u4 /\ Shared THEN u1 ELSE u]

Symmetry == Permutations(Handlers)
=============================================================================
