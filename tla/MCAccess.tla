------------------------------ MODULE MCAccess ------------------------------
(***************************************************************************)
(* Access with two tokens, ids of two characters, and settings that are    *)
(* unset, a built-in in a schema, and a policy of the operator's.          *)
(***************************************************************************)
EXTENDS Access

MCTokens      == {"right", "wrong"}
MCPrincipalOf == [t \in MCTokens |-> IF t = "right" THEN <<97, 48>> ELSE <<102, 57>>]
MCHarborNames == {<< >>, <<"main", "quack_nop_authorization">>, <<"policy">>}
MCQuackNames  == {<< >>, <<"policy">>}
=============================================================================
