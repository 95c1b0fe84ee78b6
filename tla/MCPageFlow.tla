----------------------------- MODULE MCPageFlow -----------------------------
EXTENDS PageFlow
CONSTANTS s1, s2
MCSettings == {s1, s2}

\* No mode at all, and what is left after modes were added and default ones deleted.
MCSaved ==
    LET Saying(faces) == [ i \in DOMAIN faces |->
                             [dataPos |-> i, default |-> faces[i][1], setting |-> faces[i][2]] ]
    IN  { Saying(faces) : faces \in UNION { [1..n -> BOOLEAN \X MCSettings] : n \in 0..2 } }
=============================================================================
