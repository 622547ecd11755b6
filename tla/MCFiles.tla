------------------------------- MODULE MCFiles -------------------------------
(***************************************************************************)
(* Paths in their parts (Files): two paths of one host, of which the       *)
(* second provider cannot change modes; two calls at once, each of two     *)
(* pieces, and two changes from outside, a file that appears and goes      *)
(* between two steps of a write; and chains of as many links as are        *)
(* followed, of one more, and of two.                                      *)
(***************************************************************************)
EXTENDS Files

CONSTANTS x, y, A, B

TwoPaths == {x, y}
OneHost == [w \in TwoPaths |-> {A, B}]
MostCaps == [p \in {A, B} |-> IF p = A THEN Operations ELSE Operations \ {"chmod"}]
AllOps == Operations

(* No link of a chain names a directory, every one does, or every third.   *)
OneDir == [k \in 0 .. MaxChain |-> 1]
ThreeForms == {OneDir, [k \in 0 .. MaxChain |-> 1 + (k % 2)],
               [k \in 0 .. MaxChain |-> 1 + (((k + 2) \div 3) % 2)]}

(* The parts are apart: what a behaviour is not about starts in one way.   *)
NoPath == routing = [w \in Paths |-> NewPath(A, FALSE)]
NoFile == kind = "winrm" /\ fs[0] = R!None
NoLink == length = 0 /\ last = "file" /\ dirs = OneDir /\ backend = "winrm" /\ op = "stat"

Apart ==
    \/ part = "path" /\ NoFile /\ NoLink
    \/ part = "file" /\ NoPath /\ NoLink
    \/ part = "link" /\ NoPath /\ NoFile

ApartInit == RunInit /\ Apart

RunApart == ApartInit /\ [][RunNext]_all
=============================================================================
