-------------------------- MODULE MCCustomerErasure --------------------------
EXTENDS CustomerErasure, TLC

CONSTANTS a, b, x, y, z, m1, m2, t1

\* The customer to erase holds two addresses; one mail was filed, one waits.
HomeAtFirst == x :> a @@ y :> a @@ z :> b
SenderOf == m1 :> x @@ m2 :> y
FiledIn == m1 :> t1 @@ m2 :> NoTicket
AskedMerges == {<<a, b>>}

\* Passes are interchangeable.
MCSymmetry == Permutations(Passes)
=============================================================================
