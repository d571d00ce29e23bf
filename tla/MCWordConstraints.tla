------------------------- MODULE MCWordConstraints -------------------------
(* Words that are prefixes of each other, or share one.                    *)
EXTENDS WordConstraints

SmallWords == {<<>>, <<"a">>, <<"b", "a">>, <<"a", "b", "b">>}

=============================================================================
