---------------------------- MODULE AppendOnlyLog ----------------------------
(***************************************************************************)
(* What the journal promises its readers: a log that starts empty and only *)
(* ever grows, one record at a time, at the end.                           *)
(***************************************************************************)
EXTENDS Naturals, Sequences

CONSTANT Record
VARIABLE log

Init == log = <<>>

Append1 ==
    /\ Len(log') = Len(log) + 1
    /\ log'[Len(log) + 1] \in Record
    /\ \A i \in 1..Len(log) : log'[i] = log[i]

Spec == Init /\ [][Append1]_log
=============================================================================
