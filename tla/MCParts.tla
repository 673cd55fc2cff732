------------------------------- MODULE MCParts -------------------------------
\* A small instance of every part.
EXTENDS Parts

MCAims     == {10, 30}
MCGaps     == {1, 6}
MCBytes    == {120, 254, 1}
MCOffsets  == {-70000, -12000, -9901, -9900, -1, 0, 1, 9900, 9901, 12000, 60000}
MCWindows  == {<<4, 3>>, <<2, 2>>}
MCUnsized  == <<0, 0>>
MCNames    == {1, 2}
=============================================================================
