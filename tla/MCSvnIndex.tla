------------------------------ MODULE MCSvnIndex -----------------------------
EXTENDS SvnIndex
\* Two directories, or files, each with room for one entry.
TwoByOne == {<<>>, <<"a">>, <<"a", "x">>, <<"b">>, <<"b", "x">>}
=============================================================================
