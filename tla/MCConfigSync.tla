--------------------------- MODULE MCConfigSync ----------------------------
(* A small instance for TLC: two settings, put one at a time, one of them also
   with a value that cannot be read, and one field of one table.  One configuration
   has a version the server is past when it is put, and one a version ahead of it. *)
EXTENDS ConfigSync

CONSTANTS memory, window, old, new, garbled, host, cpu, k1, k2

MCLocal == [x \in Settings |-> old]

MCConfigs == {[x \in {y} |-> new] : y \in Settings} \cup {[x \in {memory} |-> garbled]}

MCVersionIn ==
    [c \in {[x \in {window} |-> new], [x \in {memory} |-> garbled]} |->
        IF window \in DOMAIN c THEN 1 ELSE 3]

MCTableOf == [f \in Fields |-> cpu]
=============================================================================
