----------------------------- MODULE MCSeekBar -----------------------------
EXTENDS ArcSeekBar

\* A finger around both ends of the bar, the gap between them and the angles at
\* which atan2 wraps; the top of the bar is like the rest of it.
MCDegrees == { 15 * k - 10 : k \in (-11..12) \ (-8..-3) }

\* 8 and 6 are in the wrong order.
MCMins == {0, 8}
MCMaxs == {6, 16}

\* The default of the code, which is outside all of them.
MCStarts == {30}

\* In force between some limits only, and an empty one.
MCRanges == {<<4, 0>>, <<5, 5>>}
MCValues == {10, 20}
MCRefusals == {{}, {7, 16}}
=============================================================================
