--------------------------- MODULE MCSerialConsole ---------------------------
(***************************************************************************)
(* The consoles (Consoles) on a small instance: of the serial console, one *)
(* thread makes every operation of the host and the other closes the host  *)
(* or its executor, or runs, at any moment; two threads use the console of *)
(* a guest, and two a port.                                                *)
(***************************************************************************)
EXTENDS Consoles

CONSTANTS t1, t2

Two == {t1, t2}
UsesAndCloses == [t \in Two |->
    IF t = t1 THEN {"connect", "run", "spawn", "type", "closeSession", "closeHost"}
              ELSE {"run", "closeHost", "closeExecutor"}]
ThreeAndTwo == [t \in Two |-> IF t = t1 THEN 3 ELSE 2]
=============================================================================
