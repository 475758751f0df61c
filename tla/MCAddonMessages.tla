--------------------------- MODULE MCAddonMessages ---------------------------
EXTENDS AddonMessages

\* Below, at and above one and two links of two characters.
ShortAndLong == {<<"a">>, <<"b", "c">>, <<"d", "e", "f">>,
                 <<"g", "h", "i", "j">>, <<"k", "l", "m", "n", "o">>}
=============================================================================
