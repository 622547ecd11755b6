-------------------------------- MODULE Links --------------------------------
(***************************************************************************)
(* How the backends that are asked for one entry at a time follow links:   *)
(* `WinRMPathBackend` (transports/winrm/_path.py) and `ContainerPathBackend`*)
(* (transports/container/_path.py).  Each hop is a request for one entry,  *)
(* and the next place is worked out here from the text of the link.        *)
(*                                                                         *)
(* A place is a directory and a name.  The link of name k says name k + 1, *)
(* in a directory it names, or in its own.                                 *)
(***************************************************************************)
EXTENDS Integers

CONSTANTS Hops,        \* how many links each of them follows
          MaxChain,    \* bound: links of a chain
          Forms        \* bound: the directories that the names may be in

Backends == {"winrm", "archive"}
Ops == {"stat", "scandir", "open"}
Dirs == {1, 2}

(* What is taken for granted of the constants. *)
LinksAssumption == Hops \in Nat /\ MaxChain \in Nat /\ Forms \subseteq [0 .. MaxChain -> Dirs]

VARIABLES length,      \* links before the end of the chain
          last,        \* what is at its end
          dirs,        \* the directory that each name is in
          backend, op,
          place,       \* the entry that is asked for
          hops,        \* how many links may still be followed
          result

fixed == <<length, last, dirs, backend, op>>
vars == <<fixed, place, hops, result>>

(* A link names a directory when the next name is in another.              *)
Names(k) == dirs[k + 1] # dirs[k]
IsLink(p) == p[2] < length /\ p[1] = dirs[p[2]]

(* What is there; a loop is a chain longer than any that is followed.      *)
Entry(p) ==
    IF IsLink(p) THEN "link"
    ELSE IF p[2] = length /\ p[1] = dirs[length] THEN last ELSE "missing"

Init ==
    /\ length \in 0 .. MaxChain /\ last \in {"file", "dir", "missing"}
    /\ dirs \in {f \in Forms: f[0] = 1}
    /\ backend \in Backends /\ op \in Ops
    /\ backend = "winrm" => op # "open"      \* opened by the system, which follows by itself
    /\ place = <<1, 0>> /\ hops = Hops /\ result = "none"

-----------------------------------------------------------------------------
(* The next place: a relative target is in the link's own directory.       *)
RelativeToFirst(p) ==      \* Mutant: in that of the path which was asked for.
    IF Names(p[2]) THEN <<dirs[p[2] + 1], p[2] + 1>> ELSE <<1, p[2] + 1>>
Destination(p) ==
    IF Names(p[2]) THEN <<dirs[p[2] + 1], p[2] + 1>> ELSE <<p[1], p[2] + 1>>

(* `_stat_following` counts what it asks for, the others the links.        *)
CountsEntries == backend = "archive" /\ op = "stat"

SpentAsking ==      \* Mutant: the first entry is counted as well.
    IF CountsEntries THEN hops <= 1 ELSE Entry(place) = "link" /\ hops <= 0
Spent ==
    IF CountsEntries THEN place[2] > 0 /\ hops <= 0 ELSE Entry(place) = "link" /\ hops <= 0

Follow ==
    /\ result = "none" /\ ~Spent /\ Entry(place) = "link"
    /\ place' = Destination(place)
    /\ hops' = IF CountsEntries /\ place[2] = 0 THEN hops ELSE hops - 1
    /\ UNCHANGED <<fixed, result>>

TooMany ==
    /\ result = "none" /\ Spent
    /\ result' = "loop"
    /\ UNCHANGED <<fixed, place, hops>>

(* The entry itself.  A listing wants a directory, a reader wants none.    *)
Answer ==
    /\ result = "none" /\ ~Spent /\ Entry(place) # "link"
    /\ result' = CASE Entry(place) = "missing" -> "missing"
                   [] op = "scandir" /\ Entry(place) = "file" -> "notdir"
                   [] op = "open" /\ Entry(place) = "dir" -> "isdir"
                   [] OTHER -> Entry(place)
    /\ UNCHANGED <<fixed, place, hops>>

Next == Follow \/ TooMany \/ Answer

Spec == Init /\ [][Next]_vars

-----------------------------------------------------------------------------
(* Every operation of both follows the same chains to the same end: as far *)
(* as the end of the chain and no further, however the links are written,  *)
(* and a chain is too long for one of them when it is for all.             *)
SameEnd ==
    result # "none" =>
        /\ result = "loop" <=> length > Hops
        /\ result = "missing" <=> (length <= Hops /\ last = "missing")
        /\ result \in {"file", "dir"} => result = last
=============================================================================
