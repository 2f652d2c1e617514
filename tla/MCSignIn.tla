------------------------------ MODULE MCSignIn ------------------------------
(* Two Google accounts and two addresses, one of which a release may drop. *)
EXTENDS SignIn

CONSTANTS ann, bob, x, y

MCSubject == {ann, bob}
MCEmail == {x, y}
MCAllowLists == {{x}, {x, y}}
MCKnown == {<<>>, [s \in {ann} |-> x], [s \in {ann, bob} |-> IF s = ann THEN x ELSE y]}
=============================================================================
