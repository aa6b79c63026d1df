------------------------------ MODULE MCRunJob ------------------------------
\* Model checking of RunJob: reports that are empty, that need two batches, and
\* that overlap with each other and repeat an event.
EXTENDS RunJob

CONSTANTS e1, e2

MCReports == {<<>>, <<e1, e2>>, <<e2, e2>>}
=============================================================================
