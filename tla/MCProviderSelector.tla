------------------------- MODULE MCProviderSelector -------------------------
(* Two providers, of which the second can spawn.  One thread runs twice, so  *)
(* that its second operation meets the declines of its first; the other makes *)
(* one operation of any kind at any time.                                     *)
EXTENDS ProviderSelector

CONSTANTS t1, t2

TwoThreads == {t1, t2}
SecondSpawns == {2}
RunsAndAll == [t \in TwoThreads |-> IF t = t1 THEN {"run"} ELSE Kinds]
TwiceAndOnce == [t \in TwoThreads |-> IF t = t1 THEN 2 ELSE 1]
=============================================================================
