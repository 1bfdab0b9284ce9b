--------------------------- MODULE MCSampleTable ---------------------------
(* A small instance of SampleTable for TLC.                                 *)
EXTENDS SampleTable

\* A negative temperature, the smallest positive one, and one of which the
\* average with either lies between two hundredths.
MCValues == {-150, 1, 74}
=============================================================================
