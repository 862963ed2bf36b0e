----------------------------- MODULE MCJournal -----------------------------
EXTENDS Journal, FiniteSetsExt

MCByteLen == [d \in OverlayData |-> IF d = "big" THEN 3 ELSE 2]
MCHash == [d \in OverlayData |-> IF d = "big" THEN "hbig" ELSE "hsmall"]
MCLower == [s \in Mac \cup Bmc |-> s]

\* Bound: from a state in which three of the four parts have moved the search goes
\* no further.  Every two parts are explored together, with every value of both.
MCTwoParts ==
    LET moved == << ~ConfigLogInit, ~AuditInit, ~ApprovalsInit, ~EnrollmentsInit >>
    IN  Quantify(1..4, LAMBDA i : moved[i]) <= 2
=============================================================================
