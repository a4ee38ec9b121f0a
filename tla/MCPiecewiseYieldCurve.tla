----------------------- MODULE MCPiecewiseYieldCurve -----------------------
(* Three evaluation dates around a holiday, and helpers that expire. *)
EXTENDS PiecewiseYieldCurve

Dates == 1 .. 3

\* The second date is a holiday: settlement from it is as from the third.
Settlement == [d \in Dates |-> IF d = 1 THEN 2 ELSE 4]

\* Two dates for fixed helpers, the first of them passed in time; or two
\* tenors, or a tenor and a date that come to coincide.
Maturities == [h \in Helper |-> IF h = "short" THEN 3 ELSE 5]
=============================================================================
