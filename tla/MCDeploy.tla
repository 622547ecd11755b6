------------------------------- MODULE MCDeploy -------------------------------
(***************************************************************************)
(* What a command does on hosts (Commands): the closure of every graph of  *)
(* three distributions in which one has up to two requirements and the     *)
(* others one each; deploys of two programs; and one command on up to      *)
(* three hosts, two at a time.                                             *)
(***************************************************************************)
EXTENDS Commands, FiniteSetsExt

Contexts == {{"plain"}, {"x"}}
Declarable == [name: {"b", "c"}, extras: {{}, {"x"}}, when: Contexts]
               \cup [name: {"a", "pip"}, extras: {{}}, when: {{"plain"}}]
AtMost(n) == UNION {kSubset(k, Declarable): k \in 0 .. n}
AllGraphs == {[d \in Dists |-> IF d = "a" THEN ra ELSE IF d = "b" THEN rb ELSE IF d = "c" THEN rc ELSE {}]:
                 ra \in AtMost(2), rb \in AtMost(1), rc \in AtMost(1)}

NoInstall == target = None /\ previous = None
NoClosure ==
    /\ requires = [d \in Dists |-> {}] /\ here = Dists /\ have = {}
    /\ pending = {<<Root, {}>>}
NoHosts == named = Hosts /\ source = "given" /\ wants = {}

(* Hosts are alike: the first few are named, of these the first few call   *)
(* for the password, and without such it is all one where it comes from.   *)
First(n) == {h \in Hosts: h <= n}
Alike ==
    \E n \in Hosts:
        /\ named = First(n)
        /\ \/ wants = {} /\ source = "given"
           \/ \E m \in 1 .. n: wants = First(m) /\ source \in {"terminal", "none"}

(* The parts are apart: what a behaviour is not about starts in one way.   *)
Apart ==
    \/ part = "install" /\ NoClosure /\ NoHosts
    \/ part = "closure" /\ NoInstall /\ NoHosts
    \/ part = "hosts" /\ NoInstall /\ NoClosure /\ Alike

ApartInit == Apart /\ RunInit

RunApart == ApartInit /\ [][RunNext]_all
=============================================================================
