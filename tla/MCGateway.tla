----------------------------- MODULE MCGateway ------------------------------
EXTENDS Gateway, TLC

CONSTANTS r1, r2, r3, c1, c2, c3

\* Two requests of one conversation and one of another.
MCScope == r1 :> "s1" @@ r2 :> "s1" @@ r3 :> "s2"

\* A chat and two that continue it in the same way.
MCAsk == c1 :> <<"a">> @@ c2 :> <<"a", "b">> @@ c3 :> <<"a", "b">>
MCEndpoints == <<"x", "y">>
=============================================================================
