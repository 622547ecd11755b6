-------------------------------- MODULE Files --------------------------------
(***************************************************************************)
(* What a caller has of remote paths, taken together: which provider each  *)
(* operation goes to (CompositePath), how a backend that moves whole files *)
(* writes one (RemoteFiles), and how a backend that is asked for one entry *)
(* at a time follows links (Links).  A backend knows nothing of the path   *)
(* that dispatched to it, so a behaviour is one of the three: its part     *)
(* says which.                                                             *)
(***************************************************************************)
EXTENDS CompositePath

CONSTANTS FileKinds, Callers, Parts, MaxOutside,  \* RemoteFiles's
          Hops, MaxChain, Forms                   \* Links's

VARIABLES part, kind, fs, call, late, handles, outside, landed, overtaken, unclean, orphaned,
          length, last, dirs, backend, op, place, hops, result

files == <<kind, fs, call, late, handles, outside, landed, overtaken, unclean, orphaned>>
links == <<length, last, dirs, backend, op, place, hops, result>>
all == <<part, vars, files, links>>

R == INSTANCE RemoteFiles WITH Kinds <- FileKinds, Calls <- Callers
L == INSTANCE Links

ASSUME FilesAssumption == R!FilesAssumption /\ L!LinksAssumption

RunInit == part \in {"path", "file", "link"} /\ Init /\ R!Init /\ L!Init

RunNext ==
    /\ UNCHANGED part
    /\ \/ part = "path" /\ Next /\ UNCHANGED <<files, links>>
       \/ part = "file" /\ R!Next /\ UNCHANGED <<vars, links>>
       \/ part = "link" /\ L!Next /\ UNCHANGED <<vars, files>>

Run == RunInit /\ [][RunNext]_all

(* What is written is written whole, and said to be so when it is, and     *)
(* nothing of it is left behind (RemoteFiles).                             *)
WrittenWhole == R!TypeOK /\ R!WholeTarget /\ R!Honest /\ R!Tidy

(* What others put at the path is spared (RemoteFiles).                    *)
Spares == R!Spares

(* Every operation follows the same links to the same end (Links).         *)
SameEnd == L!SameEnd
=============================================================================
