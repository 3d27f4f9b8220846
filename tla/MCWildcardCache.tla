--------------------------- MODULE MCWildcardCache ---------------------------
(* WildcardCache with as many informers as kinds.                          *)
EXTENDS WildcardCache

MCListKind == [k \in Kind |-> <<"List", k>>]

=============================================================================
