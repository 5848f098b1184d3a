------------------------- MODULE MCSchemaEvolution -------------------------
(***************************************************************************)
(* Instances of SchemaEvolution for TLC: tags host and data-center, fields  *)
(* a and b, two windows.                                                   *)
(***************************************************************************)
EXTENDS SchemaEvolution, TLC

MCTypeOf == "x" :> "String" @@ "" :> "String" @@ "f" :> "F64" @@ "big" :> "U64"

MCColumnName == [n \in Names |-> IF n = "data-center" THEN "data_center" ELSE n]

Line(w, tags, fields) == [window |-> w, time |-> w, tags |-> tags, fields |-> fields]

host == <<"host", "x">>
nobody == <<"host", "">>
center == <<"data-center", "x">>
a == <<"a", "f">>
b == <<"b", "f">>

A == Line(1, <<host>>, <<a>>)
AB == Line(1, <<host, center>>, <<a, b>>)

(* The first three have one layout, the third in two windows and with an empty tag,
   on two rows that differ only in their fields;
   then another layout, with a name of the same column and a value of another type
   that may not be one to write, and two layouts in one request. *)
MCRequests ==
    {<<A>>, <<AB>>,
     <<Line(1, << >>, <<a, b>>), Line(2, <<nobody>>, <<a>>), Line(2, <<nobody>>, <<a, b>>)>>,
     <<Line(1, <<<<"data_center", "x">>>>, <<<<"b", "big">>>>)>>,
     <<A, Line(2, <<host, center>>, <<a, b>>)>>}
=============================================================================
