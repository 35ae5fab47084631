---------------------------- MODULE MCLineTransport ----------------------------
EXTENDS LineTransport

\* A line and a fragment; an empty line before a character of two octets; half a
\* character in a line; LOOP behind another line; a line, and one too long to hold.
MCPayloads == {<<"x", CR, LF, "y">>, <<LF, Lead, Tail2, LF>>, <<"x", Lead, LF>>,
               <<"y", LF, "L", LF>>, <<"y", LF, "x", "x", "x">>}
MCControlBodies == {<<"1", "2", CR, LF>>}
=============================================================================
