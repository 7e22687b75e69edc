------------------------------- MODULE MCZebra -------------------------------
(***************************************************************************)
(* One connected, one static and one IS-IS route for the prefix, all of    *)
(* instance 0; the redistribution client asks for IS-IS.                   *)
(***************************************************************************)
EXTENDS ZebraRib

MCDistance ==
    [t \in Types |-> CASE t = "connect" -> 0 [] t = "static" -> 1 [] t = "isis" -> 115]

MCInstance == [t \in Types |-> 0]

=============================================================================
