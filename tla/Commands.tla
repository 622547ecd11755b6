------------------------------- MODULE Commands -------------------------------
(***************************************************************************)
(* What a command does on hosts.  A deploy in its two halves: what is      *)
(* shipped (Closure) and how it is installed (Deploy).  And one command on *)
(* several hosts at once (FanOut).  A behaviour is one of the three: its   *)
(* part says which.                                                        *)
(***************************************************************************)
EXTENDS Deploy

CONSTANTS Dists, Extras, Plain, Root, Never, Graphs, Heres, Haves,    \* Closure's
          Hosts, Parallel, Statuses, Failures, MaxAsks, MaxCuts            \* FanOut's

VARIABLES part,
          requires, here, have, pending, seen, found,                     \* Closure
          named, source, wants, phase, code, asks, asking, asked,         \* FanOut
          printing, told, screen, interrupt, exit, prompts, answers, ended, lost

closure == <<requires, here, have, pending, seen, found>>
hosts == <<named, source, wants, phase, code, asks, asking, asked, printing, told, screen,
           interrupt, exit, prompts, answers, ended, lost>>
all == <<part, vars, closure, hosts>>

C == INSTANCE Closure
N == INSTANCE FanOut

ASSUME CommandsAssumption == C!ClosureAssumption /\ N!FanOutAssumption

RunInit == part \in {"install", "closure", "hosts"} /\ Init /\ C!Init /\ N!Init

RunNext ==
    /\ UNCHANGED part
    /\ \/ part = "install" /\ Next /\ UNCHANGED <<closure, hosts>>
       \/ part = "closure" /\ C!Next /\ UNCHANGED <<vars, hosts>>
       \/ part = "hosts" /\ N!Next /\ UNCHANGED <<vars, closure>>

Run == RunInit /\ [][RunNext]_all

(* What is shipped is what is needed and missing (Closure).                *)
ShipsNeeded == C!TypeOK /\ C!ShipsNeeded

(* A command on several hosts asks for one password, tells each host's     *)
(* output apart and its failures, and exits as the worst of them (FanOut). *)
FannedOut == N!FannedOut
=============================================================================
