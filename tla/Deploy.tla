-------------------------------- MODULE Deploy --------------------------------
(***************************************************************************)
(* `deploy` (deploy/__init__.py) and the steps it runs on the target       *)
(* (deploy/_install.py): a zipapp is renamed over the old one, a tree is   *)
(* unpacked beside the old one and swapped in.  Every step is a command or *)
(* a write on another machine: it may fail without effect, with all of it, *)
(* or in between, and the deploy may be interrupted after it.  Deploys of  *)
(* one path follow each other; another program may put a directory or a    *)
(* file of its own there, or remove what is there.                         *)
(***************************************************************************)
EXTENDS Integers

CONSTANTS Modes,        \* of "pyz" and "dir"
          Digests,      \* what may be deployed, numbers from 1
          MaxDeploys,   \* bound: deploys
          MaxOutside    \* bound: changes made by the other program

ASSUME DeployAssumption ==
    /\ Modes \subseteq {"pyz", "dir"} /\ Digests \subseteq Nat \ {0}
    /\ MaxDeploys \in Nat /\ MaxOutside \in Nat

(* What is at a path.  A tree carries its marker: the digest it names, 0   *)
(* when it cannot be read, -1 when there is none.                          *)
None == [type |-> "none"]
Foreign == [type |-> "foreign"]                    \* a directory of others
ForeignFile == [type |-> "alien"]
Others == {Foreign, ForeignFile}
File(d, whole, runs) == [type |-> "file", of |-> d, whole |-> whole, runs |-> runs]
Tree(d, whole, mark) == [type |-> "tree", of |-> d, whole |-> whole, mark |-> mark]
Exists(e) == e.type # "none"
IsDir(e) == e.type \in {"foreign", "tree"}
Marked(e) == e.type = "tree" /\ e.mark # -1

VARIABLES target,    \* `target`
          digest,    \* `target.digest` beside it: as a mark
          incoming,  \* `target.new`
          previous,  \* `target.old`
          staging,   \* `target.incoming.tar`: whole, partly there or not
          deploy,    \* the deploy under way, then how it ended
          deploys,   \* how many were begun
          outside    \* how often the other program changed the target

(* History, which no guard reads. *)
VARIABLES good,      \* the last tree deployed and not removed by others (0: none)
          torn,      \* a zipapp was renamed and its digest not written after it
          meddled    \* the other program changed the target since a deploy began

entries == <<target, digest, incoming, previous, staging>>
history == <<good, torn, meddled>>
vars == <<entries, deploy, deploys, outside, history>>

NoDeploy == [mode |-> "dir", of |-> 0, force |-> FALSE, at |-> "none"]
Over == {"none", "verified", "written", "refused", "failed"}

Init ==
    /\ target \in Others \cup {None} /\ previous \in Others \cup {None}
    /\ digest = -1 /\ incoming = None /\ staging = "none"
    /\ deploy = NoDeploy /\ deploys = 0 /\ outside = 0
    /\ good = 0 /\ torn = FALSE /\ meddled = FALSE

-----------------------------------------------------------------------------
At(pc) == deploy.at = pc
Goes(pc) == deploy' = [deploy EXCEPT !.at = pc]

Begin(mode, d, force) ==
    /\ deploy.at \in Over /\ deploys < MaxDeploys
    /\ deploy' = [mode |-> mode, of |-> d, force |-> force,
                  at |-> IF mode = "dir" THEN "restore" ELSE "compare"]
    /\ deploys' = deploys + 1 /\ meddled' = FALSE
    /\ UNCHANGED <<entries, outside, good, torn>>

(* `current_digest`: an unreadable marker is none. *)
Marker == IF deploy.mode = "pyz" THEN digest ELSE IF Marked(target) THEN target.mark ELSE -1
CurrentIfAny == ~deploy.force /\ Marker > 0          \* Mutant: whatever it names.
Current == ~deploy.force /\ Marker = deploy.of

Compare ==
    /\ At("compare")
    /\ \/ Current /\ Goes("verified")
       \/ ~Current /\ Goes("refuse")
       \/ ~deploy.force /\ Goes("refuse")        \* it could not be read
    /\ UNCHANGED <<entries, deploys, outside, history>>

(* `refuse_foreign`, which `force` does not override. *)
RefusesUnforced == ~deploy.force /\ Exists(target) /\ Marker = -1   \* Mutant: it does.
Refuses == Exists(target) /\ Marker = -1

Refuse ==
    /\ At("refuse")
    /\ IF Refuses THEN Goes("refused")
       ELSE Goes(IF deploy.mode = "pyz" THEN "new" ELSE "stage") \/ Goes("failed")
    /\ UNCHANGED <<entries, deploys, outside, history>>

(* A step on the target: `Effect` is what it does, `Part` what a part of   *)
(* it does.                                                                *)
Steps(pc, Effect, Part, next) ==
    /\ At(pc)
    /\ \/ Effect /\ Goes(next)
       \/ (Effect \/ Part \/ UNCHANGED entries) /\ Goes("failed")
    /\ UNCHANGED <<deploys, outside, meddled>>
    /\ UNCHANGED <<good, torn>>

-----------------------------------------------------------------------------
(* One zipapp: written beside the target, renamed over it, then its marker *)
(* is written.                                                             *)
PutNew(e) == incoming' = e /\ UNCHANGED <<target, digest, previous, staging>>
WriteNew ==
    Steps("new", PutNew(File(deploy.of, TRUE, FALSE)), PutNew(File(deploy.of, FALSE, FALSE)), "chmod")
Chmod == Steps("chmod", PutNew([incoming EXCEPT !.runs = TRUE]), FALSE, "rename")

(* `mv -f` of a file: over a file, into a directory. *)
RenamedFile ==
    /\ target' = (IF IsDir(target) THEN target ELSE incoming) /\ incoming' = None
    /\ UNCHANGED <<digest, previous, staging>>
Rename ==
    /\ At("rename")
    /\ \/ RenamedFile /\ Goes("mark") /\ UNCHANGED torn
       \/ RenamedFile /\ Goes("failed") /\ torn' = TRUE
       \/ UNCHANGED <<entries, torn>> /\ Goes("failed")
    /\ UNCHANGED <<deploys, outside, good, meddled>>

PutMark(d) == digest' = d /\ UNCHANGED <<target, incoming, previous, staging>>
Mark ==
    /\ At("mark")
    /\ \/ PutMark(deploy.of) /\ Goes("written") /\ torn' = FALSE
       \/ PutMark(deploy.of) /\ Goes("failed") /\ torn' = FALSE
       \/ PutMark(0) /\ Goes("failed") /\ torn' = TRUE
       \/ UNCHANGED entries /\ Goes("failed") /\ torn' = TRUE
    /\ UNCHANGED <<deploys, outside, good, meddled>>

-----------------------------------------------------------------------------
(* A tree.  What an interrupted deploy had put aside is put back first.    *)
Restores == ~Exists(target) /\ Marked(previous)

PutBack == target' = previous /\ previous' = None /\ UNCHANGED <<digest, incoming, staging>>
Restore ==
    \/ Restores /\ Steps("restore", PutBack, FALSE, "compare")
    \/ /\ ~Restores /\ At("restore")
       /\ Goes("compare") \/ Goes("failed")
       /\ UNCHANGED <<entries, deploys, outside, history>>

Staged(how) == staging' = how /\ UNCHANGED <<target, digest, incoming, previous>>
Stage == Steps("stage", Staged("whole"), Staged("part"), "clear")

(* `rm -rf`, which removes the marker sooner or later. *)
Removed(e) ==
    IF e.type = "tree" THEN {Tree(e.of, FALSE, mark): mark \in {-1, e.mark}} ELSE {e}

Clear == Steps("clear", PutNew(None), \E e \in Removed(incoming): PutNew(e), "mkdir")
Mkdir == Steps("mkdir", PutNew(Tree(deploy.of, FALSE, -1)), FALSE, "unpack")
Unpack == Steps("unpack", PutNew(Tree(deploy.of, TRUE, -1)), FALSE, "label")

LabelLost == Steps("label", UNCHANGED entries, FALSE, "look")   \* Mutant: the marker is left out.
Label == Steps("label", PutNew([incoming EXCEPT !.mark = deploy.of]),
               PutNew([incoming EXCEPT !.mark = 0]), "look")

(* `_exists(host, target)` again, and the old tree is put aside. *)
Look ==
    /\ At("look")
    /\ \/ Goes(IF Exists(target) THEN "drop" ELSE "swap")
       \/ Goes("failed")
    /\ UNCHANGED <<entries, deploys, outside, history>>

PutOld(e) == previous' = e /\ UNCHANGED <<target, digest, incoming, staging>>
Drop == Steps("drop", PutOld(None), \E e \in Removed(previous): PutOld(e), "aside")

(* Mutant: the old tree is removed and not put aside. *)
AsideGone ==
    Steps("aside", target' = None /\ UNCHANGED <<digest, incoming, previous, staging>>, FALSE, "swap")
Aside ==
    Steps("aside", /\ target' = None
                   /\ previous' = (IF IsDir(previous) THEN previous ELSE target)
                   /\ UNCHANGED <<digest, incoming, staging>>, FALSE, "swap")

(* `mv` of a directory: into one that is there, never over a file. *)
Swapped ==
    /\ Exists(target) => IsDir(target)
    /\ target' = (IF Exists(target) THEN target ELSE incoming) /\ incoming' = None
    /\ UNCHANGED <<digest, previous, staging>>
Swap ==
    /\ At("swap")
    /\ \/ Swapped /\ (Goes("clean") \/ Goes("failed"))
       \/ UNCHANGED entries /\ Goes("failed")
    /\ good' = IF target' # target THEN deploy.of ELSE good
    /\ UNCHANGED <<deploys, outside, torn, meddled>>

Cleaned(e, tar) == previous' = e /\ staging' = tar /\ UNCHANGED <<target, digest, incoming>>
Clean == Steps("clean", Cleaned(None, "none"),
               (\E e \in Removed(previous): Cleaned(e, staging)) \/ Cleaned(None, "part"), "written")

(* The deploying process goes away between two steps. *)
Interrupt ==
    /\ deploy.at \notin Over /\ Goes("failed")
    /\ torn' = (torn \/ At("mark"))
    /\ UNCHANGED <<entries, deploys, outside, good, meddled>>

-----------------------------------------------------------------------------
Outside ==
    /\ outside < MaxOutside /\ outside' = outside + 1
    /\ \E e \in Others \cup {None}: e # target /\ target' = e
    /\ good' = 0 /\ meddled' = TRUE
    /\ UNCHANGED <<digest, incoming, previous, staging, deploy, deploys, torn>>

Step ==
    \/ Compare \/ Refuse \/ WriteNew \/ Chmod \/ Rename \/ Mark
    \/ Restore \/ Stage \/ Clear \/ Mkdir \/ Unpack \/ Label \/ Look
    \/ Drop \/ Aside \/ Swap \/ Clean

Next ==
    \/ Step \/ Interrupt \/ Outside
    \/ \E mode \in Modes, d \in Digests, force \in BOOLEAN: Begin(mode, d, force)

Spec == Init /\ [][Next]_vars

-----------------------------------------------------------------------------
(* Properties. *)

(* Every variable keeps its kind. *)
TypeOK ==
    /\ {target.type, previous.type} \subseteq {"none", "foreign", "alien", "file", "tree"}
    /\ incoming.type \in {"none", "file", "tree"}
    /\ digest \in Digests \cup {0, -1} /\ staging \in {"none", "part", "whole"}
    /\ deploys \in 0 .. MaxDeploys /\ outside \in 0 .. MaxOutside
    /\ good \in Digests \cup {0}
    /\ torn \in BOOLEAN /\ meddled \in BOOLEAN

(* Whoever runs the program meets all of it or nothing, whatever step was  *)
(* interrupted: a zipapp at the target is whole and may be run, a tree is  *)
(* whole and named by its marker.                                          *)
HeldWhole ==
    outside = 0 =>
        /\ target.type = "file" => target.whole /\ target.runs
        /\ target.type = "tree" => target.whole /\ target.mark = target.of

(* A deploy that reports a digest leaves that program at the target, new   *)
(* or as it was ("when `path` already holds a deploy with the same digest  *)
(* nothing is written").  For a zipapp this takes the marker beside it at  *)
(* its word, which is wrong after a deploy was interrupted between the     *)
(* rename and the marker, or when the target was changed under it.  For a  *)
(* tree, what was left of `.old` by an interrupted removal may be put back *)
(* when another program has removed the target.                            *)
Holds(d) == target.type \in {"file", "tree"} /\ target.of = d /\ target.whole
Reported ==
    At("written") \/ At("verified") =>
        \/ Holds(deploy.of) \/ meddled
        \/ deploy.mode = "pyz" /\ (torn \/ outside > 0)
        \/ target.type = "tree" /\ target.of = deploy.of /\ outside > 0

(* "When `path` already holds a deploy with the same digest nothing is     *)
(* written", as it is documented: what a deploy reports is at the target,  *)
(* without the exceptions above.                                           *)
ReportedHolds == At("written") \/ At("verified") => Holds(deploy.of)

(* "A `path` that exists but was not written by a deploy is never          *)
(* replaced, `force` or not", unless it came there as the deploy was under *)
(* way.  This is not so of a file where the marker of a zipapp is left:    *)
(* the marker is taken at its word, and a zipapp is renamed over the file. *)
ForeignSpared ==
    target \in Others /\ outside' = outside /\ ~meddled =>
        \/ target' = target
        \/ target = ForeignFile /\ At("rename") /\ digest # -1

(* "An interrupted deploy leaves the last good tree at `.old`; it is put   *)
(* back first": from the first tree on there is always a good one, at the  *)
(* target or put aside, and put aside only while the target is empty.      *)
GoodKept ==
    good # 0 /\ outside = 0 =>
        \/ target.type = "tree" /\ target.whole
        \/ ~Exists(target) /\ previous.type = "tree" /\ previous.whole /\ previous.mark = previous.of
        \/ target.type = "file"

(* What is at the target can be run or there is a good tree to put back,   *)
(* whatever step of a deploy was interrupted.                              *)
HeldGood == TypeOK /\ HeldWhole /\ GoodKept

(* A deploy refuses what others put there, never what a deploy has: except *)
(* for a zipapp whose first deploy was interrupted before its marker, and  *)
(* one of the other mode.                                                  *)
RefusesOthers ==
    At("refuse") /\ deploy'.at = "refused" =>
        \/ target \in Others
        \/ deploy.mode = "pyz" /\ torn
        \/ target.type = "file" /\ deploy.mode = "dir"
        \/ target.type = "tree" /\ deploy.mode = "pyz"

(* What a deploy answers is so, and what it refuses to touch stays.        *)
Answers == [][Reported' /\ ForeignSpared /\ RefusesOthers]_vars
=============================================================================
