---------------------------- MODULE DeployProofs ----------------------------
(***************************************************************************)
(* What Deploy promises for any digests, however many deploys there are,   *)
(* wherever they are interrupted, and whatever else happens at the path;   *)
(* and the other parts of Commands: that what is shipped is what is needed *)
(* for any graph of dependencies, and what a command on any number of      *)
(* hosts tells of them.                                                    *)
(***************************************************************************)
EXTENDS Commands, SequenceTheorems, TLAPS

Marks == Digests \cup {0, -1}
Files == [type: {"file"}, of: Digests, whole: BOOLEAN, runs: BOOLEAN]
Trees == [type: {"tree"}, of: Digests, whole: BOOLEAN, mark: Marks]
Entries == {None} \cup Others \cup Files \cup Trees

FileSteps == {"new", "chmod", "rename", "mark"}
TreeSteps == {"restore", "stage", "clear", "mkdir", "unpack", "label", "look",
              "drop", "aside", "swap", "clean"}

Places == FileSteps \cup TreeSteps \cup {"compare", "refuse"} \cup Over
Deploys == [mode: {"pyz", "dir"}, of: Digests \cup {0}, force: BOOLEAN, at: Places]

(* Every entry is one, and a step is one of its own mode of deploy.        *)
Typed ==
    /\ target \in Entries /\ previous \in Entries /\ incoming \in Entries \ Others
    /\ digest \in Marks /\ staging \in {"none", "part", "whole"}
    /\ deploy \in Deploys
    /\ deploy.at \notin {"none", "failed"} => deploy.of \in Digests
    /\ deploy.at \in FileSteps => deploy.mode = "pyz"
    /\ deploy.at \in TreeSteps => deploy.mode = "dir"
    /\ deploys \in 0 .. MaxDeploys /\ outside \in 0 .. MaxOutside
    /\ good \in Digests \cup {0} /\ torn \in BOOLEAN /\ meddled \in BOOLEAN

IsFile(e) == e.type = "file"
IsTree(e) == e.type = "tree"

(* What is beside the target is as far as the deploy has come. *)
Beside ==
    /\ At("chmod") => incoming = File(deploy.of, TRUE, FALSE)
    /\ At("rename") => incoming = File(deploy.of, TRUE, TRUE)
    /\ At("unpack") => incoming = Tree(deploy.of, FALSE, -1)
    /\ At("label") => incoming = Tree(deploy.of, TRUE, -1)
    /\ deploy.at \in {"look", "drop", "aside", "swap"} => incoming = Tree(deploy.of, TRUE, deploy.of)
    /\ At("aside") => previous = None

(* A marker names its own tree or nothing; one that is at the target has   *)
(* it, and a file there may be run.                                        *)
Named ==
    /\ IsTree(target) => target.mark \in {0, target.of}
    /\ IsTree(previous) => previous.mark \in {-1, 0, previous.of}
    /\ IsFile(target) => target.whole /\ target.runs /\ (digest = -1 => torn \/ At("mark"))

(* Unless others have changed the target, a deploy replaces what it found. *)
Found ==
    /\ ~meddled =>
           /\ deploy.at \in {"stage", "clear", "mkdir", "unpack", "label", "look"} =>
                  target.type \in {"none", "tree"}
           /\ deploy.at \in {"drop", "aside"} => IsTree(target)
           /\ At("swap") => ~Exists(target)
           /\ deploy.at \in {"new", "chmod", "rename"} => digest # -1 \/ ~Exists(target)
           /\ At("clean") => IsTree(target) /\ target.of = deploy.of /\ target.whole
    /\ outside = 0 /\ deploy.at \in {"new", "chmod", "rename"} => ~IsDir(target)

(* When nobody else was there, a tree at the target is whole, what may be  *)
(* put back is, and a file is the one its marker names.                    *)
Alone ==
    outside = 0 =>
        /\ ~meddled
        /\ IsTree(target) => target.whole /\ target.mark = target.of
        /\ ~Exists(target) /\ Marked(previous) => previous.whole /\ previous.mark = previous.of
        /\ good # 0 => \/ IsFile(target) \/ IsTree(target)
                       \/ ~Exists(target) /\ Marked(previous)
        /\ digest # -1 => IsFile(target)
        /\ ~torn /\ IsFile(target) /\ ~At("mark") => digest = target.of
        /\ At("mark") => IsFile(target) /\ target.of = deploy.of

Inv == Typed /\ Beside /\ Named /\ Found /\ Alone /\ Reported

(* The entries, told apart by their type. *)
LEMMA NoneIs ==
  /\ None \in Entries \ Others /\ None.type = "none"
  /\ Foreign \in Entries /\ Foreign.type = "foreign" /\ Foreign \in Others
  /\ ForeignFile \in Entries /\ ForeignFile.type = "alien" /\ ForeignFile \in Others
  BY DEF None, Foreign, ForeignFile, Others, Entries

LEMMA FileIs ==
  ASSUME NEW d \in Digests, NEW w \in BOOLEAN, NEW r \in BOOLEAN
  PROVE  /\ File(d, w, r) \in Entries \ Others /\ IsFile(File(d, w, r))
         /\ File(d, w, r).of = d /\ File(d, w, r).whole = w /\ File(d, w, r).runs = r
  BY DEF File, Files, Entries, Foreign, ForeignFile, Others, IsFile

LEMMA TreeIs ==
  ASSUME NEW d \in Digests, NEW w \in BOOLEAN, NEW m \in Marks
  PROVE  /\ Tree(d, w, m) \in Entries \ Others /\ IsTree(Tree(d, w, m))
         /\ Tree(d, w, m).of = d /\ Tree(d, w, m).whole = w /\ Tree(d, w, m).mark = m
  BY DEF Tree, Trees, Entries, Foreign, ForeignFile, Others, IsTree

LEMMA FileRuns ==
  ASSUME NEW d \in Digests
  PROVE  [File(d, TRUE, FALSE) EXCEPT !.runs = TRUE] = File(d, TRUE, TRUE)
<1> DEFINE e == [File(d, TRUE, FALSE) EXCEPT !.runs = TRUE]
<1>1. File(d, TRUE, FALSE) \in Files
  BY DEF File, Files
<1>2. e \in Files /\ e.of = d /\ e.whole = TRUE /\ e.runs = TRUE
  <2>1. /\ File(d, TRUE, FALSE).of = d /\ File(d, TRUE, FALSE).whole = TRUE
    BY DEF File
  <2> QED
    BY <1>1, <2>1 DEF Files
<1>3. \A g \in Files: g.of = d /\ g.whole = TRUE /\ g.runs = TRUE => g = File(d, TRUE, TRUE)
  BY DEF File, Files
<1> HIDE DEF e
<1>4. e = File(d, TRUE, TRUE)
  BY <1>2, <1>3
<1> QED
  BY <1>4 DEF e

LEMMA TreeLabelled ==
  ASSUME NEW d \in Digests, NEW m \in Marks
  PROVE  [Tree(d, TRUE, -1) EXCEPT !.mark = m] = Tree(d, TRUE, m)
<1> DEFINE e == [Tree(d, TRUE, -1) EXCEPT !.mark = m]
<1>1. Tree(d, TRUE, -1) \in Trees
  BY DEF Tree, Trees, Marks
<1>2. e \in Trees /\ e.of = d /\ e.whole = TRUE /\ e.mark = m
  <2>1. Tree(d, TRUE, -1).of = d /\ Tree(d, TRUE, -1).whole = TRUE
    BY DEF Tree
  <2> QED
    BY <1>1, <2>1 DEF Trees
<1>3. \A g \in Trees: g.of = d /\ g.whole = TRUE /\ g.mark = m => g = Tree(d, TRUE, m)
  BY DEF Tree, Trees
<1> HIDE DEF e
<1>4. e = Tree(d, TRUE, m)
  BY <1>2, <1>3
<1> QED
  BY <1>4 DEF e

LEMMA EntryTypes ==
  ASSUME NEW e \in Entries
  PROVE  /\ e.type \in {"none", "foreign", "alien", "file", "tree"}
         /\ e.type = "none" <=> e = None
         /\ e.type = "foreign" <=> e = Foreign
         /\ e.type = "alien" <=> e = ForeignFile
         /\ e \in Others <=> e.type \in {"foreign", "alien"}
         /\ e.type = "file" => e.of \in Digests /\ e.whole \in BOOLEAN /\ e.runs \in BOOLEAN
         /\ e.type = "tree" => e.of \in Digests /\ e.whole \in BOOLEAN /\ e.mark \in Marks
  BY DEF Entries, Files, Trees, None, Foreign, ForeignFile, Others

LEMMA Begins == Init => Inv
<1> SUFFICES ASSUME Init PROVE Inv
  OBVIOUS
<1> USE DEF Init, NoDeploy, At, Over
<1>1. Typed
  <2>1. target \in Entries /\ previous \in Entries /\ incoming \in Entries \ Others
    BY NoneIs DEF Others
  <2>2. deploy \in Deploys /\ deploy.at = "none"
    BY DEF Deploys, Places
  <2>3. /\ digest \in Marks /\ staging \in {"none", "part", "whole"}
        /\ good \in Digests \cup {0} /\ torn \in BOOLEAN /\ meddled \in BOOLEAN
    BY DEF Marks
  <2>4. deploys \in 0 .. MaxDeploys /\ outside \in 0 .. MaxOutside
    BY DeployAssumption
  <2> QED
    BY <2>1, <2>2, <2>3, <2>4 DEF Typed, FileSteps, TreeSteps
<1>2. Beside /\ Found /\ Reported
  BY DEF Beside, Found, Reported
<1>3. Named /\ Alone
  BY NoneIs DEF Named, Alone, IsFile, IsTree, Marked, Exists, Others
<1> QED
  BY <1>1, <1>2, <1>3 DEF Inv

-----------------------------------------------------------------------------
(* A step changes where the deploy is and nothing else of it. *)
LEMMA GoesOn ==
  ASSUME Typed, NEW pc \in Places, Goes(pc)
  PROVE  /\ deploy' \in Deploys /\ deploy'.at = pc
         /\ deploy'.mode = deploy.mode /\ deploy'.of = deploy.of /\ deploy'.force = deploy.force
  BY DEF Typed, Goes, Deploys

(* A deploy that has failed promises nothing but what is at the target. *)
LEMMA FailedIs ==
  ASSUME deploy'.at = "failed"
  PROVE  Beside' /\ Found' /\ Reported'
  BY DEF Beside, Found, Reported, At

(* What a deploy does beside the target leaves what was promised of it. *)
LEMMA QuietIs ==
  ASSUME Inv, UNCHANGED <<target, digest, previous, good, torn, outside>>,
         meddled' \in {meddled, FALSE}, deploy.at # "mark", deploy'.at # "mark"
  PROVE  Named' /\ Alone'
<1>1. Named'
  BY DEF Inv, Named, IsTree, IsFile, At
<1>2. Alone'
  BY DEF Inv, Alone, IsTree, IsFile, At, Exists, Marked
<1> QED
  BY <1>1, <1>2

LEMMA BeginStep ==
  ASSUME Inv, NEW mode \in Modes, NEW d \in Digests, NEW force \in BOOLEAN, Begin(mode, d, force)
  PROVE  Inv'
<1>1. /\ deploy' \in Deploys /\ deploy'.of = d /\ deploy'.mode = mode
      /\ deploy'.at = IF mode = "dir" THEN "restore" ELSE "compare"
  BY DeployAssumption DEF Begin, Deploys, Places, TreeSteps
<1>2. deploy.at # "mark"
  BY DEF Begin, Over
<1>3. /\ UNCHANGED <<target, digest, incoming, previous, staging, outside, good, torn>>
      /\ meddled' = FALSE
  BY DEF Begin, entries
<1>4. deploys' \in 0 .. MaxDeploys
  BY DeployAssumption DEF Begin, Inv, Typed
<1>5. Typed'
  BY <1>1, <1>3, <1>4 DEF Inv, Typed, FileSteps, TreeSteps
<1>6. Named' /\ Alone'
  BY <1>1, <1>2, <1>3, QuietIs
<1>7. Beside' /\ Found' /\ Reported'
  BY <1>1 DEF Beside, Found, Reported, At
<1> QED
  BY <1>5, <1>6, <1>7 DEF Inv

(* A step of a deploy leaves every variable of its kind. *)
LEMMA StaysTyped ==
  ASSUME Typed, deploy.at \notin Over, NEW pc \in Places, Goes(pc),
         pc \in FileSteps => deploy.mode = "pyz", pc \in TreeSteps => deploy.mode = "dir",
         target' \in Entries, previous' \in Entries, incoming' \in Entries \ Others,
         digest' \in Marks, staging' \in {"none", "part", "whole"},
         good' \in Digests \cup {0}, torn' \in BOOLEAN, UNCHANGED <<deploys, outside, meddled>>
  PROVE  Typed'
<1>1. /\ deploy' \in Deploys /\ deploy'.at = pc
      /\ deploy'.mode = deploy.mode /\ deploy'.of = deploy.of
  BY GoesOn
<1>2. deploy.of \in Digests
  BY DEF Typed, Over
<1> QED
  BY <1>1, <1>2 DEF Typed

(* The steps that only touch what is beside the target. *)
Preparing == {"new", "chmod", "compare", "refuse", "stage", "clear", "mkdir", "unpack", "label", "look"}

LEMMA PreparingStep ==
  ASSUME Inv, deploy.at \in Preparing, NEW pc \in Places, Goes(pc), pc # "mark",
         pc \in FileSteps => deploy.mode = "pyz", pc \in TreeSteps => deploy.mode = "dir",
         incoming' \in Entries \ Others, staging' \in {"none", "part", "whole"},
         UNCHANGED <<target, digest, previous, good, torn, deploys, outside, meddled>>
  PROVE  /\ Typed' /\ Named' /\ Alone'
         /\ pc = "failed" => Inv'
<1>1. Typed'
  BY StaysTyped DEF Inv, Typed, Preparing, Over
<1>2. deploy'.at = pc
  BY GoesOn DEF Inv
<1>3. Named' /\ Alone'
  BY <1>2, QuietIs DEF Inv, Typed, Preparing
<1> QED
  BY <1>1, <1>2, <1>3, FailedIs DEF Inv

LEMMA CompareStep == ASSUME Inv, Compare PROVE Inv'
<1>1. /\ deploy.at = "compare" /\ UNCHANGED <<target, digest, incoming, previous, staging>>
      /\ UNCHANGED <<good, torn, deploys, outside, meddled>>
  BY DEF Compare, At, entries, history
<1>2. PICK pc \in {"verified", "refuse"}: Goes(pc) /\ (pc = "verified" => Current)
  BY DEF Compare
<1>3. Typed' /\ Named' /\ Alone'
  BY <1>1, <1>2, PreparingStep DEF Inv, Typed, Preparing, Places, Over, FileSteps, TreeSteps
<1>4. deploy'.at = pc /\ deploy'.of = deploy.of /\ deploy'.mode = deploy.mode
  BY <1>2, GoesOn DEF Inv, Places, Over
<1>5. Beside' /\ Found'
  BY <1>4 DEF Beside, Found, At
<1>6. CASE pc = "refuse"
  BY <1>3, <1>4, <1>5, <1>6 DEF Inv, Reported, At
<1>7. CASE pc = "verified"
  <2>1. Marker = deploy.of /\ deploy.of \in Digests /\ Marker # -1
    BY <1>1, <1>2, <1>7, DeployAssumption DEF Current, Inv, Typed
  <2>2. ASSUME deploy.mode = "pyz" PROVE Reported'
    <3>1. \/ torn \/ outside > 0
          \/ IsFile(target) /\ target.of = deploy.of /\ target.whole
      BY <1>1, <2>1, <2>2 DEF Marker, Inv, Typed, Alone, Named, At
    <3> QED
      BY <1>1, <1>4, <2>2, <3>1 DEF Reported, Holds, IsFile
  <2>3. ASSUME deploy.mode # "pyz" PROVE Reported'
    <3>1. IsTree(target) /\ target.mark = deploy.of /\ deploy.of # 0
      BY <2>1, <2>3, DeployAssumption DEF Marker, Marked, IsTree
    <3>2. target.of = deploy.of /\ (outside > 0 \/ target.whole)
      BY <3>1 DEF Inv, Named, Alone, Typed
    <3> QED
      BY <1>1, <1>4, <3>1, <3>2 DEF Reported, Holds, IsTree
  <2> QED
    BY <1>3, <1>5, <2>2, <2>3 DEF Inv
<1> QED
  BY <1>2, <1>6, <1>7

LEMMA RefuseStep == ASSUME Inv, Refuse PROVE Inv'
<1>1. /\ deploy.at = "refuse" /\ UNCHANGED <<target, digest, incoming, previous, staging>>
      /\ UNCHANGED <<good, torn, deploys, outside, meddled>>
  BY DEF Refuse, At, entries, history
<1>2. PICK pc \in {"refused", "failed", "new", "stage"}:
          /\ Goes(pc)
          /\ pc = "new" => deploy.mode = "pyz" /\ ~Refuses
          /\ pc = "stage" => deploy.mode = "dir" /\ ~Refuses
  BY DEF Refuse, Inv, Typed, Deploys
<1>3. Typed' /\ Named' /\ Alone' /\ (pc = "failed" => Inv')
  BY <1>1, <1>2, PreparingStep DEF Inv, Typed, Preparing, Places, Over, FileSteps, TreeSteps
<1>4. deploy'.at = pc
  BY <1>2, GoesOn DEF Inv, Places, Over, FileSteps, TreeSteps
<1>5. pc = "stage" => target.type \in {"none", "tree"}
  <2>1. target.type \in {"none", "foreign", "alien", "file", "tree"}
    BY EntryTypes DEF Inv, Typed
  <2> QED
    BY <1>2, <2>1 DEF Refuses, Marker, Marked, Exists
<1>6. pc = "new" /\ outside = 0 => ~IsDir(target)
  BY <1>2 DEF Refuses, Marker, Exists, IsDir, Inv, Alone, IsFile
<1>7. pc = "new" => digest # -1 \/ ~Exists(target)
  BY <1>2 DEF Refuses, Marker
<1>8. Beside' /\ Found' /\ Reported'
  BY <1>1, <1>4, <1>5, <1>6, <1>7 DEF Beside, Found, Reported, At, IsDir, Exists, IsTree
<1> QED
  BY <1>3, <1>8 DEF Inv

-----------------------------------------------------------------------------
LEMMA WriteNewStep == ASSUME Inv, WriteNew PROVE Inv'
<1>1. /\ deploy.at = "new" /\ deploy.of \in Digests /\ deploy.mode = "pyz"
      /\ UNCHANGED <<target, digest, previous, staging>>
      /\ UNCHANGED <<good, torn, deploys, outside, meddled>>
  BY DEF WriteNew, Steps, PutNew, At, entries, Inv, Typed, FileSteps
<1>2. /\ incoming' \in {incoming, File(deploy.of, TRUE, FALSE), File(deploy.of, FALSE, FALSE)}
      /\ \/ Goes("chmod") /\ incoming' = File(deploy.of, TRUE, FALSE)
         \/ Goes("failed")
  BY DEF WriteNew, Steps, PutNew, entries
<1>3. incoming' \in Entries \ Others
  BY <1>1, <1>2, FileIs DEF Inv, Typed
<1>4. PICK pc \in {"chmod", "failed"}:
          Goes(pc) /\ (pc = "chmod" => incoming' = File(deploy.of, TRUE, FALSE))
  BY <1>2
<1>5. Typed' /\ Named' /\ Alone' /\ (pc = "failed" => Inv')
  BY <1>1, <1>3, <1>4, PreparingStep DEF Inv, Typed, Preparing, Places, Over, FileSteps, TreeSteps
<1>6. deploy'.at = pc /\ deploy'.of = deploy.of
  BY <1>4, GoesOn DEF Inv, Places, Over, FileSteps
<1>7. pc = "chmod" => Beside' /\ Found' /\ Reported'
  BY <1>1, <1>4, <1>6 DEF Inv, Beside, Found, Reported, At, IsDir
<1> QED
  BY <1>5, <1>7 DEF Inv

LEMMA ChmodStep == ASSUME Inv, Chmod PROVE Inv'
<1>1. /\ deploy.at = "chmod" /\ deploy.of \in Digests /\ deploy.mode = "pyz"
      /\ incoming = File(deploy.of, TRUE, FALSE)
      /\ UNCHANGED <<target, digest, previous, staging>>
      /\ UNCHANGED <<good, torn, deploys, outside, meddled>>
  BY DEF Chmod, Steps, PutNew, At, entries, Inv, Typed, FileSteps, Beside
<1>2. [incoming EXCEPT !.runs = TRUE] = File(deploy.of, TRUE, TRUE)
  BY <1>1, FileRuns
<1>3. PICK pc \in {"rename", "failed"}:
          /\ Goes(pc) /\ (pc = "rename" => incoming' = File(deploy.of, TRUE, TRUE))
          /\ incoming' \in {incoming, File(deploy.of, TRUE, TRUE)}
  BY <1>2 DEF Chmod, Steps, PutNew, entries
<1>4. incoming' \in Entries \ Others
  BY <1>1, <1>3, FileIs DEF Inv, Typed
<1>5. Typed' /\ Named' /\ Alone' /\ (pc = "failed" => Inv')
  BY <1>1, <1>3, <1>4, PreparingStep DEF Inv, Typed, Preparing, Places, Over, FileSteps, TreeSteps
<1>6. deploy'.at = pc /\ deploy'.of = deploy.of
  BY <1>3, GoesOn DEF Inv, Places, Over, FileSteps
<1>7. pc = "rename" => Beside' /\ Found' /\ Reported'
  BY <1>1, <1>3, <1>6 DEF Inv, Beside, Found, Reported, At, IsDir
<1> QED
  BY <1>5, <1>7 DEF Inv

(* Renamed over what was there, which was no directory unless others put   *)
(* one there.                                                              *)
LEMMA RenameStep == ASSUME Inv, Rename PROVE Inv'
<1>1. /\ deploy.at = "rename" /\ deploy.of \in Digests /\ deploy.mode = "pyz"
      /\ incoming = File(deploy.of, TRUE, TRUE)
      /\ UNCHANGED <<digest, previous, staging>> /\ UNCHANGED <<good, deploys, outside, meddled>>
  BY DEF Rename, RenamedFile, At, entries, Inv, Typed, FileSteps, Beside
<1>2. PICK pc \in {"mark", "failed"}:
          /\ Goes(pc)
          /\ \/ RenamedFile /\ (IF pc = "mark" THEN torn' = torn ELSE torn' = TRUE)
             \/ UNCHANGED <<target, incoming, torn>> /\ pc = "failed"
  BY DEF Rename, entries
<1>3. /\ target' \in {target, File(deploy.of, TRUE, TRUE)} /\ incoming' \in {incoming, None}
      /\ torn' \in {torn, TRUE}
  BY <1>1, <1>2 DEF RenamedFile
<1>4. Typed'
  <2>1. target' \in Entries /\ incoming' \in Entries \ Others
    BY <1>1, <1>3, FileIs, NoneIs DEF Inv, Typed
  <2>2. torn' \in BOOLEAN
    BY <1>3 DEF Inv, Typed
  <2> QED
    BY <1>1, <1>2, <2>1, <2>2, StaysTyped DEF Inv, Typed, Places, Over, FileSteps, TreeSteps
<1>5. deploy'.at = pc /\ deploy'.of = deploy.of /\ deploy'.mode = deploy.mode
  BY <1>2, GoesOn DEF Inv, Places, Over, FileSteps
<1>6. Beside' /\ Found' /\ Reported'
  BY <1>2, <1>5 DEF Beside, Found, Reported, At
<1>7. ASSUME RenamedFile PROVE Named' /\ Alone'
  <2>1. CASE IsDir(target)
    <3>1. target' = target /\ outside # 0 /\ outside' # 0
      BY <1>1, <1>7, <2>1 DEF RenamedFile, Inv, Found
    <3> QED
      BY <1>1, <1>3, <1>5, <3>1, <2>1 DEF Inv, Named, Alone, IsDir, IsFile, IsTree, At
  <2>2. CASE ~IsDir(target)
    <3>1. IsFile(target') /\ target'.of = deploy.of /\ target'.whole /\ target'.runs
      BY <1>1, <1>7, <2>2, FileIs DEF RenamedFile
    <3>2. incoming # None
      BY <1>1, FileIs, NoneIs DEF IsFile
    <3>3. pc = "mark" \/ torn'
      BY <1>2, <1>7, <3>2 DEF RenamedFile
    <3> QED
      BY <1>1, <1>3, <1>5, <3>1, <3>3 DEF Inv, Named, Alone, IsFile, IsTree, At, Exists
  <2> QED
    BY <2>1, <2>2
<1>8. ASSUME UNCHANGED <<target, incoming, torn>>, pc = "failed" PROVE Named' /\ Alone'
  BY <1>1, <1>5, <1>8, QuietIs
<1> QED
  BY <1>2, <1>4, <1>6, <1>7, <1>8 DEF Inv

(* The marker written after the rename; cut short, it names nothing.       *)
LEMMA MarkStep == ASSUME Inv, Mark PROVE Inv'
<1>1. /\ deploy.at = "mark" /\ deploy.of \in Digests /\ deploy.mode = "pyz"
      /\ UNCHANGED <<target, incoming, previous, staging>>
      /\ UNCHANGED <<good, deploys, outside, meddled>>
  BY DEF Mark, PutMark, At, entries, Inv, Typed, FileSteps
<1>2. PICK pc \in {"written", "failed"}:
          /\ Goes(pc)
          /\ \/ digest' = deploy.of /\ torn' = FALSE
             \/ digest' \in {0, digest} /\ torn' = TRUE /\ pc = "failed"
  BY DEF Mark, PutMark, entries
<1>3. digest' \in Marks /\ torn' \in BOOLEAN
  BY <1>1, <1>2 DEF Inv, Typed, Marks
<1>4. Typed'
  BY <1>1, <1>2, <1>3, StaysTyped DEF Inv, Typed, Places, Over, FileSteps, TreeSteps
<1>5. deploy'.at = pc /\ deploy'.of = deploy.of /\ deploy'.mode = deploy.mode
  BY <1>2, GoesOn DEF Inv, Places, Over
<1>6. Beside' /\ Found'
  BY <1>2, <1>5 DEF Beside, Found, At
<1>7. Named'
  BY <1>1, <1>2, <1>5, DeployAssumption DEF Inv, Named, IsTree, IsFile, At
<1>8. Alone'
  BY <1>1, <1>2, <1>5, DeployAssumption DEF Inv, Alone, IsTree, IsFile, At, Exists, Marked
<1>9. outside = 0 => Holds(deploy.of)
  BY <1>1 DEF Inv, Alone, Named, IsFile, At, Holds
<1>10. Reported'
  BY <1>1, <1>2, <1>5, <1>9 DEF Reported, At, Holds, Inv, Typed
<1> QED
  BY <1>4, <1>6, <1>7, <1>8, <1>10 DEF Inv

-----------------------------------------------------------------------------
(* Only a tree with a marker is put back, where nothing is.                *)
LEMMA RestoreStep == ASSUME Inv, Restore PROVE Inv'
<1>1. /\ deploy.at = "restore" /\ deploy.of \in Digests /\ deploy.mode = "dir"
      /\ UNCHANGED <<digest, incoming, staging>> /\ UNCHANGED <<good, torn, deploys, outside, meddled>>
  BY DEF Restore, Steps, PutBack, At, entries, history, Inv, Typed, TreeSteps
<1>2. PICK pc \in {"compare", "failed"}: Goes(pc)
  BY DEF Restore, Steps
<1>3. \/ UNCHANGED <<target, previous>>
      \/ Restores /\ target' = previous /\ previous' = None
  BY DEF Restore, Steps, PutBack, entries
<1>4. target' \in Entries /\ previous' \in Entries
  BY <1>3, NoneIs DEF Inv, Typed
<1>5. Typed'
  BY <1>1, <1>2, <1>4, StaysTyped DEF Inv, Typed, Places, Over, FileSteps, TreeSteps
<1>6. deploy'.at = pc
  BY <1>2, GoesOn DEF Inv, Places, Over
<1>7. Beside' /\ Found' /\ Reported'
  BY <1>6 DEF Beside, Found, Reported, At
<1>8. ASSUME UNCHANGED <<target, previous>> PROVE Named' /\ Alone'
  BY <1>1, <1>6, <1>8, QuietIs
<1>9. ASSUME Restores, target' = previous, previous' = None PROVE Named' /\ Alone'
  <2>1. /\ IsTree(target') /\ target'.mark \in {0, target'.of} /\ ~IsFile(target') /\ ~IsFile(target)
    BY <1>9 DEF Restores, Marked, IsTree, IsFile, Exists, Inv, Named
  <2>2. Named'
    BY <1>9, <2>1, NoneIs DEF Named, IsTree
  <2>3. Alone'
    BY <1>1, <1>6, <1>9, <2>1 DEF Inv, Alone, Restores, Exists, IsTree, IsFile, At
  <2> QED
    BY <2>2, <2>3
<1> QED
  BY <1>3, <1>5, <1>7, <1>8, <1>9 DEF Inv

LEMMA StageStep == ASSUME Inv, Stage PROVE Inv'
<1>1. /\ deploy.at = "stage" /\ deploy.mode = "dir" /\ UNCHANGED <<target, digest, incoming, previous>>
      /\ UNCHANGED <<good, torn, deploys, outside, meddled>>
  BY DEF Stage, Steps, Staged, At, entries, Inv, Typed, TreeSteps
<1>2. PICK pc \in {"clear", "failed"}: Goes(pc)
  BY DEF Stage, Steps
<1>3. staging' \in {"none", "part", "whole"}
  BY DEF Stage, Steps, Staged, entries, Inv, Typed
<1>4. Typed' /\ Named' /\ Alone' /\ (pc = "failed" => Inv')
  BY <1>1, <1>2, <1>3, PreparingStep DEF Inv, Typed, Preparing, Places, Over, FileSteps, TreeSteps
<1>5. deploy'.at = pc
  BY <1>2, GoesOn DEF Inv, Places, Over, TreeSteps
<1>6. pc = "clear" => Beside' /\ Found' /\ Reported'
  BY <1>1, <1>5 DEF Inv, Beside, Found, Reported, At, IsDir
<1> QED
  BY <1>4, <1>6 DEF Inv

(* `rm -rf` leaves an entry, less whole and less marked. *)
LEMMA RemovedIs ==
  ASSUME NEW e \in Entries, NEW f \in Removed(e)
  PROVE  /\ f \in Entries /\ f.type = e.type /\ (e \notin Others => f \notin Others)
         /\ IsTree(e) => f.mark \in {-1, e.mark} /\ f.of = e.of
<1>1. CASE IsTree(e)
  <2>1. e.of \in Digests /\ e.mark \in Marks /\ -1 \in Marks
    BY <1>1, EntryTypes DEF IsTree, Marks
  <2>2. PICK m \in {-1, e.mark}: f = Tree(e.of, FALSE, m)
    BY <1>1 DEF Removed, IsTree
  <2>3. m \in Marks /\ FALSE \in BOOLEAN
    BY <2>1, <2>2
  <2>4. \A w \in BOOLEAN: /\ Tree(e.of, w, m) \in Entries \ Others /\ IsTree(Tree(e.of, w, m))
                           /\ Tree(e.of, w, m).of = e.of /\ Tree(e.of, w, m).mark = m
    BY <2>1, <2>3, TreeIs
  <2> QED
    BY <1>1, <2>2, <2>4 DEF IsTree
<1>2. CASE ~IsTree(e)
  BY <1>2 DEF Removed, IsTree
<1> QED
  BY <1>1, <1>2

LEMMA ClearStep == ASSUME Inv, Clear PROVE Inv'
<1>1. /\ deploy.at = "clear" /\ deploy.mode = "dir" /\ UNCHANGED <<target, digest, staging, previous>>
      /\ UNCHANGED <<good, torn, deploys, outside, meddled>>
  BY DEF Clear, Steps, PutNew, At, entries, Inv, Typed, TreeSteps
<1>2. PICK pc \in {"mkdir", "failed"}: Goes(pc)
  BY DEF Clear, Steps
<1>3. incoming' \in {incoming, None} \cup Removed(incoming)
  BY DEF Clear, Steps, PutNew, entries
<1>4. incoming' \in Entries \ Others
  BY <1>3, RemovedIs, NoneIs DEF Inv, Typed
<1>5. Typed' /\ Named' /\ Alone' /\ (pc = "failed" => Inv')
  BY <1>1, <1>2, <1>4, PreparingStep DEF Inv, Typed, Preparing, Places, Over, FileSteps, TreeSteps
<1>6. deploy'.at = pc
  BY <1>2, GoesOn DEF Inv, Places, Over, TreeSteps
<1>7. pc = "mkdir" => Beside' /\ Found' /\ Reported'
  BY <1>1, <1>6 DEF Inv, Beside, Found, Reported, At, IsDir
<1> QED
  BY <1>5, <1>7 DEF Inv

LEMMA MkdirStep == ASSUME Inv, Mkdir PROVE Inv'
<1>1. /\ deploy.at = "mkdir" /\ deploy.mode = "dir" /\ deploy.of \in Digests
      /\ UNCHANGED <<target, digest, staging, previous>>
      /\ UNCHANGED <<good, torn, deploys, outside, meddled>>
  BY DEF Mkdir, Steps, PutNew, At, entries, Inv, Typed, TreeSteps
<1>2. PICK pc \in {"unpack", "failed"}:
          /\ Goes(pc) /\ (pc = "unpack" => incoming' = Tree(deploy.of, FALSE, -1))
          /\ incoming' \in {incoming, Tree(deploy.of, FALSE, -1)}
  BY DEF Mkdir, Steps, PutNew, entries
<1>3. incoming' \in Entries \ Others
  <2>1. -1 \in Marks
    BY DEF Marks
  <2>2. \A w \in BOOLEAN: Tree(deploy.of, w, -1) \in Entries \ Others
    BY <1>1, <2>1, TreeIs
  <2> QED
    BY <1>2, <2>2 DEF Inv, Typed
<1>4. Typed' /\ Named' /\ Alone' /\ (pc = "failed" => Inv')
  BY <1>1, <1>2, <1>3, PreparingStep DEF Inv, Typed, Preparing, Places, Over, FileSteps, TreeSteps
<1>5. deploy'.at = pc /\ deploy'.of = deploy.of
  BY <1>2, GoesOn DEF Inv, Places, Over, TreeSteps
<1>6. pc = "unpack" => Beside' /\ Found' /\ Reported'
  BY <1>1, <1>2, <1>5 DEF Inv, Beside, Found, Reported, At, IsDir
<1> QED
  BY <1>4, <1>6 DEF Inv

LEMMA UnpackStep == ASSUME Inv, Unpack PROVE Inv'
<1>1. /\ deploy.at = "unpack" /\ deploy.mode = "dir" /\ deploy.of \in Digests
      /\ UNCHANGED <<target, digest, staging, previous>>
      /\ UNCHANGED <<good, torn, deploys, outside, meddled>>
  BY DEF Unpack, Steps, PutNew, At, entries, Inv, Typed, TreeSteps
<1>2. PICK pc \in {"label", "failed"}:
          /\ Goes(pc) /\ (pc = "label" => incoming' = Tree(deploy.of, TRUE, -1))
          /\ incoming' \in {incoming, Tree(deploy.of, TRUE, -1)}
  BY DEF Unpack, Steps, PutNew, entries
<1>3. incoming' \in Entries \ Others
  <2>1. -1 \in Marks
    BY DEF Marks
  <2>2. \A w \in BOOLEAN: Tree(deploy.of, w, -1) \in Entries \ Others
    BY <1>1, <2>1, TreeIs
  <2> QED
    BY <1>2, <2>2 DEF Inv, Typed
<1>4. Typed' /\ Named' /\ Alone' /\ (pc = "failed" => Inv')
  BY <1>1, <1>2, <1>3, PreparingStep DEF Inv, Typed, Preparing, Places, Over, FileSteps, TreeSteps
<1>5. deploy'.at = pc /\ deploy'.of = deploy.of
  BY <1>2, GoesOn DEF Inv, Places, Over, TreeSteps
<1>6. pc = "label" => Beside' /\ Found' /\ Reported'
  BY <1>1, <1>2, <1>5 DEF Inv, Beside, Found, Reported, At, IsDir
<1> QED
  BY <1>4, <1>6 DEF Inv

(* The marker is written last: the tree it names is whole. *)
LEMMA LabelStep == ASSUME Inv, Label PROVE Inv'
<1>1. /\ deploy.at = "label" /\ deploy.mode = "dir" /\ deploy.of \in Digests
      /\ incoming = Tree(deploy.of, TRUE, -1)
      /\ UNCHANGED <<target, digest, staging, previous>>
      /\ UNCHANGED <<good, torn, deploys, outside, meddled>>
  BY DEF Label, Steps, PutNew, At, entries, Inv, Typed, TreeSteps, Beside
<1>2. \A m \in Marks: [incoming EXCEPT !.mark = m] = Tree(deploy.of, TRUE, m)
  BY <1>1, TreeLabelled
<1>3. deploy.of \in Marks /\ 0 \in Marks
  BY <1>1 DEF Marks
<1>4. PICK pc \in {"look", "failed"}:
          /\ Goes(pc) /\ (pc = "look" => incoming' = Tree(deploy.of, TRUE, deploy.of))
          /\ incoming' \in {incoming, Tree(deploy.of, TRUE, deploy.of), Tree(deploy.of, TRUE, 0)}
  BY <1>2, <1>3 DEF Label, Steps, PutNew, entries
<1>5. incoming' \in Entries \ Others
  <2>1. \A m \in Marks: Tree(deploy.of, TRUE, m) \in Entries \ Others
    BY <1>1, TreeIs
  <2> QED
    BY <1>3, <1>4, <2>1 DEF Inv, Typed
<1>6. Typed' /\ Named' /\ Alone' /\ (pc = "failed" => Inv')
  BY <1>1, <1>4, <1>5, PreparingStep DEF Inv, Typed, Preparing, Places, Over, FileSteps, TreeSteps
<1>7. deploy'.at = pc /\ deploy'.of = deploy.of
  BY <1>4, GoesOn DEF Inv, Places, Over, TreeSteps
<1>8. pc = "look" => Beside' /\ Found' /\ Reported'
  BY <1>1, <1>4, <1>7 DEF Inv, Beside, Found, Reported, At, IsDir
<1> QED
  BY <1>6, <1>8 DEF Inv

LEMMA LookStep == ASSUME Inv, Look PROVE Inv'
<1>1. /\ deploy.at = "look" /\ deploy.mode = "dir"
      /\ UNCHANGED <<target, digest, incoming, staging, previous>>
      /\ UNCHANGED <<good, torn, deploys, outside, meddled>>
  BY DEF Look, At, entries, history, Inv, Typed, TreeSteps
<1>2. PICK pc \in {"drop", "swap", "failed"}:
          /\ Goes(pc)
          /\ pc = "drop" => Exists(target)
          /\ pc = "swap" => ~Exists(target)
  BY DEF Look
<1>3. Typed' /\ Named' /\ Alone' /\ (pc = "failed" => Inv')
  BY <1>1, <1>2, PreparingStep DEF Inv, Typed, Preparing, Places, Over, FileSteps, TreeSteps
<1>4. deploy'.at = pc /\ deploy'.of = deploy.of
  BY <1>2, GoesOn DEF Inv, Places, Over, TreeSteps
<1>5. pc # "failed" => Beside' /\ Found' /\ Reported'
  BY <1>1, <1>2, <1>4 DEF Inv, Beside, Found, Reported, At, IsDir, IsTree, Exists
<1> QED
  BY <1>3, <1>5 DEF Inv

-----------------------------------------------------------------------------
(* What is left of the tree that was put aside earlier is removed; what is *)
(* at the target is not touched.                                           *)
LEMMA DropStep == ASSUME Inv, Drop PROVE Inv'
<1>1. /\ deploy.at = "drop" /\ deploy.mode = "dir" /\ UNCHANGED <<target, digest, incoming, staging>>
      /\ UNCHANGED <<good, torn, deploys, outside, meddled>>
  BY DEF Drop, Steps, PutOld, At, entries, Inv, Typed, TreeSteps
<1>2. PICK pc \in {"aside", "failed"}: Goes(pc) /\ (pc = "aside" => previous' = None)
  BY DEF Drop, Steps, PutOld
<1>3. previous' \in {previous, None} \cup Removed(previous)
  BY DEF Drop, Steps, PutOld, entries
<1>4. /\ previous' \in Entries
      /\ IsTree(previous') => IsTree(previous) /\ previous'.mark \in {-1, previous.mark}
                              /\ previous'.of = previous.of
  BY <1>3, RemovedIs, NoneIs DEF Inv, Typed, IsTree
<1>5. Typed'
  BY <1>1, <1>2, <1>4, StaysTyped DEF Inv, Typed, Places, Over, FileSteps, TreeSteps
<1>6. deploy'.at = pc /\ deploy'.of = deploy.of
  BY <1>2, GoesOn DEF Inv, Places, Over, TreeSteps
<1>7. Beside' /\ Found' /\ Reported'
  BY <1>1, <1>2, <1>6 DEF Inv, Beside, Found, Reported, At, IsTree
<1>8. Named'
  BY <1>1, <1>4, <1>6 DEF Inv, Named, IsTree, IsFile, At
<1>9. outside = 0 => IsTree(target)
  BY <1>1 DEF Inv, Found, Alone
<1>10. Alone'
  BY <1>1, <1>6, <1>9 DEF Inv, Alone, IsTree, IsFile, At, Exists
<1> QED
  BY <1>5, <1>7, <1>8, <1>10 DEF Inv

(* The old tree is put aside: as whole as it was, with its marker. *)
LEMMA AsideStep == ASSUME Inv, Aside PROVE Inv'
<1>1. /\ deploy.at = "aside" /\ deploy.mode = "dir" /\ previous = None
      /\ UNCHANGED <<digest, incoming, staging>> /\ UNCHANGED <<good, torn, deploys, outside, meddled>>
  BY DEF Aside, Steps, At, entries, Inv, Typed, TreeSteps, Beside
<1>2. ~IsDir(previous)
  BY <1>1, NoneIs DEF IsDir
<1>3. PICK pc \in {"swap", "failed"}:
          /\ Goes(pc)
          /\ \/ target' = None /\ previous' = target
             \/ pc = "failed" /\ UNCHANGED <<target, previous>>
  BY <1>2 DEF Aside, Steps, entries
<1>4. target' \in Entries /\ previous' \in Entries
  BY <1>3, NoneIs DEF Inv, Typed
<1>5. Typed'
  BY <1>1, <1>3, <1>4, StaysTyped DEF Inv, Typed, Places, Over, FileSteps, TreeSteps
<1>6. deploy'.at = pc /\ deploy'.of = deploy.of
  BY <1>3, GoesOn DEF Inv, Places, Over, TreeSteps
<1>7. Beside' /\ Found' /\ Reported'
  BY <1>1, <1>3, <1>6, NoneIs DEF Inv, Beside, Found, Reported, At, Exists
<1>8. ASSUME UNCHANGED <<target, previous>> PROVE Named' /\ Alone'
  BY <1>1, <1>6, <1>8, QuietIs
<1>9. ASSUME target' = None, previous' = target PROVE Named' /\ Alone'
  <2>1. target'.type = "none"
    BY <1>9, NoneIs
  <2>2. Named'
    BY <1>9, <2>1 DEF Inv, Named, IsTree, IsFile
  <2>3. outside = 0 => IsTree(target) /\ target.whole /\ target.mark = target.of /\ target.of # -1
    <3>1. IsTree(target) => target.of # -1
      BY EntryTypes, DeployAssumption DEF Inv, Typed, IsTree
    <3> QED
      BY <1>1, <3>1 DEF Inv, Found, Alone
  <2>4. Alone'
    BY <1>1, <1>6, <1>9, <2>1, <2>3 DEF Inv, Alone, IsTree, IsFile, At, Exists, Marked
  <2> QED
    BY <2>2, <2>4
<1> QED
  BY <1>3, <1>5, <1>7, <1>8, <1>9 DEF Inv

(* The new tree is moved where nothing is; into what others put there.     *)
LEMMA SwapStep == ASSUME Inv, Swap PROVE Inv'
<1>1. /\ deploy.at = "swap" /\ deploy.mode = "dir" /\ deploy.of \in Digests
      /\ incoming = Tree(deploy.of, TRUE, deploy.of)
      /\ UNCHANGED <<digest, previous, staging>> /\ UNCHANGED <<torn, deploys, outside, meddled>>
  BY DEF Swap, Swapped, At, entries, Inv, Typed, TreeSteps, Beside
<1>2. PICK pc \in {"clean", "failed"}:
          Goes(pc) /\ (Swapped \/ (pc = "failed" /\ UNCHANGED <<target, incoming>>))
  BY DEF Swap, entries
<1>3. /\ incoming \in Entries \ Others /\ IsTree(incoming)
      /\ incoming.of = deploy.of /\ incoming.whole /\ incoming.mark = deploy.of
  <2>1. deploy.of \in Marks
    BY <1>1 DEF Marks
  <2>2. \A w \in BOOLEAN:
            LET t == Tree(deploy.of, w, deploy.of)
            IN  /\ t \in Entries \ Others /\ IsTree(t)
                /\ t.of = deploy.of /\ t.whole = w /\ t.mark = deploy.of
    BY <1>1, <2>1, TreeIs
  <2> QED
    BY <1>1, <2>2
<1>4. target' \in {target, incoming} /\ incoming' \in {incoming, None} /\ good' \in {good, deploy.of}
  BY <1>2 DEF Swap, Swapped
<1>5. Typed'
  <2>1. target' \in Entries /\ incoming' \in Entries \ Others /\ good' \in Digests \cup {0}
    BY <1>1, <1>3, <1>4, NoneIs DEF Inv, Typed
  <2> QED
    BY <1>1, <1>2, <2>1, StaysTyped DEF Inv, Typed, Places, Over, FileSteps, TreeSteps
<1>6. deploy'.at = pc /\ deploy'.of = deploy.of
  BY <1>2, GoesOn DEF Inv, Places, Over, TreeSteps
<1>7. ~meddled /\ Swapped => target' = incoming
  BY <1>1 DEF Swapped, Inv, Found, At
<1>8. Beside' /\ Found' /\ Reported'
  BY <1>1, <1>2, <1>3, <1>6, <1>7 DEF Beside, Found, Reported, At
<1>9. ASSUME target' = target PROVE Named' /\ Alone'
  <2>1. good' = good
    BY <1>9 DEF Swap
  <2> QED
    BY <1>1, <1>6, <1>9, <2>1, QuietIs
<1>10. ASSUME target' = incoming PROVE Named' /\ Alone'
  <2>1. Named'
    BY <1>1, <1>3, <1>6, <1>10 DEF Inv, Named, IsTree, IsFile, At
  <2>2. outside = 0 => ~Exists(target)
    BY <1>1 DEF Inv, Found, Alone, At
  <2>3. Alone'
    BY <1>1, <1>3, <1>6, <1>10, <2>2 DEF Inv, Alone, IsTree, IsFile, At, Exists
  <2> QED
    BY <2>1, <2>3
<1> QED
  BY <1>4, <1>5, <1>8, <1>9, <1>10 DEF Inv

LEMMA CleanStep == ASSUME Inv, Clean PROVE Inv'
<1>1. /\ deploy.at = "clean" /\ deploy.mode = "dir" /\ UNCHANGED <<target, digest, incoming>>
      /\ UNCHANGED <<good, torn, deploys, outside, meddled>>
  BY DEF Clean, Steps, Cleaned, At, entries, Inv, Typed, TreeSteps
<1>2. PICK pc \in {"written", "failed"}: Goes(pc)
  BY DEF Clean, Steps
<1>3. /\ previous' \in {previous, None} \cup Removed(previous)
      /\ staging' \in {staging, "none", "part"}
  BY DEF Clean, Steps, Cleaned, entries
<1>4. /\ previous' \in Entries
      /\ IsTree(previous') => IsTree(previous) /\ previous'.mark \in {-1, previous.mark}
                              /\ previous'.of = previous.of
  BY <1>3, RemovedIs, NoneIs DEF Inv, Typed, IsTree
<1>5. Typed'
  BY <1>1, <1>2, <1>3, <1>4, StaysTyped DEF Inv, Typed, Places, Over, FileSteps, TreeSteps
<1>6. deploy'.at = pc /\ deploy'.of = deploy.of
  BY <1>2, GoesOn DEF Inv, Places, Over, TreeSteps
<1>7. Beside' /\ Found' /\ Reported'
  BY <1>1, <1>6 DEF Inv, Beside, Found, Reported, At, IsTree, Holds
<1>8. Named'
  BY <1>1, <1>4, <1>6 DEF Inv, Named, IsTree, IsFile, At
<1>9. outside = 0 => IsTree(target)
  BY <1>1 DEF Inv, Found, Alone, At
<1>10. Alone'
  BY <1>1, <1>6, <1>9 DEF Inv, Alone, IsTree, IsFile, At, Exists
<1> QED
  BY <1>5, <1>7, <1>8, <1>10 DEF Inv

-----------------------------------------------------------------------------
LEMMA InterruptStep == ASSUME Inv, Interrupt PROVE Inv'
<1>1. /\ deploy.at \notin Over /\ Goes("failed") /\ torn' = (torn \/ At("mark"))
      /\ UNCHANGED <<target, digest, incoming, previous, staging>>
      /\ UNCHANGED <<good, deploys, outside, meddled>>
  BY DEF Interrupt, entries
<1>2. torn' \in BOOLEAN
  BY <1>1 DEF Inv, Typed, At
<1>3. Typed'
  BY <1>1, <1>2, StaysTyped DEF Inv, Typed, Places, Over, FileSteps, TreeSteps
<1>4. deploy'.at = "failed"
  BY <1>1, GoesOn DEF Inv, Places, Over
<1>5. Named'
  BY <1>1, <1>4 DEF Inv, Named, IsTree, IsFile, At
<1>6. Alone'
  BY <1>1, <1>4 DEF Inv, Alone, IsTree, IsFile, At, Exists, Marked
<1> QED
  BY <1>3, <1>4, <1>5, <1>6, FailedIs DEF Inv

(* The other program promises nothing, and is counted. *)
LEMMA OutsideStep == ASSUME Inv, Outside PROVE Inv'
<1>1. /\ outside' \in 0 .. MaxOutside /\ outside' # 0
  BY DeployAssumption DEF Outside, Inv, Typed
<1>2. /\ target' \in Others \cup {None} /\ good' = 0 /\ meddled' = TRUE
      /\ UNCHANGED <<digest, incoming, previous, staging, deploy, deploys, torn>>
  BY DEF Outside
<1>3. target' \in Entries /\ ~IsTree(target') /\ ~IsFile(target')
  BY <1>2, NoneIs DEF IsTree, IsFile, Others
<1>4. Typed'
  BY <1>1, <1>2, <1>3 DEF Inv, Typed
<1>5. Beside' /\ Found' /\ Reported'
  BY <1>1, <1>2 DEF Inv, Beside, Found, Reported, At
<1>6. Named' /\ Alone'
  BY <1>1, <1>2, <1>3 DEF Inv, Named, Alone, IsTree
<1> QED
  BY <1>4, <1>5, <1>6 DEF Inv

LEMMA GoesOnSafely == Inv /\ [Next]_vars => Inv'
<1> SUFFICES ASSUME Inv, [Next]_vars PROVE Inv'
  OBVIOUS
<1>1. CASE Step
  BY <1>1, CompareStep, RefuseStep, WriteNewStep, ChmodStep, RenameStep, MarkStep, RestoreStep,
     StageStep, ClearStep, MkdirStep, UnpackStep, LabelStep, LookStep, DropStep, AsideStep,
     SwapStep, CleanStep DEF Step
<1>2. CASE \E mode \in Modes, d \in Digests, force \in BOOLEAN: Begin(mode, d, force)
  BY <1>2, BeginStep
<1>3. CASE UNCHANGED vars
  <2>1. /\ UNCHANGED <<target, digest, incoming, previous, staging, deploy, deploys, outside>>
        /\ UNCHANGED <<good, torn, meddled>>
    BY <1>3 DEF vars, entries, history
  <2>2. Typed'
    BY <2>1 DEF Inv, Typed
  <2>3. Beside' /\ Named'
    BY <2>1 DEF Inv, Beside, Named, At, IsFile, IsTree
  <2>4. Found' /\ Reported'
    BY <2>1 DEF Inv, Found, Reported, At, Holds, Exists, IsDir, IsTree
  <2>5. Alone'
    BY <2>1 DEF Inv, Alone, At, Exists, Marked, IsFile, IsTree
  <2> QED
    BY <2>2, <2>3, <2>4, <2>5 DEF Inv
<1> QED
  BY <1>1, <1>2, <1>3, InterruptStep, OutsideStep DEF Next

LEMMA AlwaysInv == Spec => []Inv
  BY Begins, GoesOnSafely, PTL DEF Spec

LEMMA InvHolds == Inv => HeldGood
<1> SUFFICES ASSUME Inv PROVE HeldGood
  OBVIOUS
<1>1. TypeOK
  <2>1. /\ target.type \in {"none", "foreign", "alien", "file", "tree"}
        /\ previous.type \in {"none", "foreign", "alien", "file", "tree"}
        /\ incoming.type \in {"none", "file", "tree"}
    BY EntryTypes DEF Inv, Typed
  <2> QED
    BY <2>1 DEF Inv, Typed, TypeOK, Marks
<1>2. HeldWhole
  BY DEF Inv, Named, Alone, HeldWhole, IsFile, IsTree
<1>3. GoodKept
  BY DEF Inv, Alone, GoodKept, IsFile, IsTree, Marked, Exists
<1> QED
  BY <1>1, <1>2, <1>3 DEF HeldGood

(* However many deploys there are and wherever they are interrupted: the   *)
(* program at the target is whole and can be run, or a good tree is put    *)
(* aside that the next deploy puts back.                                   *)
THEOREM TargetIsHeld == Spec => []HeldGood
  BY AlwaysInv, InvHolds, PTL

-----------------------------------------------------------------------------
(* Only renames change the target, and each was made sure of. *)
LEMMA Spared == ASSUME Inv, Next PROVE ForeignSpared
<1> SUFFICES ASSUME target \in Others, outside' = outside, ~meddled
             PROVE  target' = target \/ (target = ForeignFile /\ At("rename") /\ digest # -1)
  BY DEF ForeignSpared
<1>1. /\ Exists(target) /\ ~IsTree(target)
      /\ IsDir(target) \/ target = ForeignFile
  BY NoneIs DEF Others, Exists, IsDir, IsTree
<1>2. CASE Rename
  <2>1. At("rename") /\ digest # -1
    BY <1>1, <1>2 DEF Rename, At, Inv, Found
  <2>2. IsDir(target) => target' = target
    BY <1>2 DEF Rename, RenamedFile, entries
  <2> QED
    BY <1>1, <2>1, <2>2
<1>3. CASE Restore
  BY <1>1, <1>3 DEF Restore, Restores, Steps, entries
<1>4. CASE Aside
  BY <1>1, <1>4 DEF Aside, Steps, At, Inv, Found
<1>5. CASE Swap
  BY <1>1, <1>5 DEF Swap, Swapped, entries
<1>6. CASE Outside
  BY <1>6 DEF Outside, Inv, Typed
<1>7. CASE Compare \/ Refuse \/ Look \/ Interrupt
  BY <1>7 DEF Compare, Refuse, Look, Interrupt, entries
<1>8. CASE WriteNew \/ Chmod \/ Clear \/ Mkdir \/ Unpack \/ Label
  BY <1>8 DEF WriteNew, Chmod, Clear, Mkdir, Unpack, Label, Steps, PutNew, entries
<1>9. CASE Mark \/ Stage \/ Drop \/ Clean
  BY <1>9 DEF Mark, PutMark, Stage, Staged, Drop, PutOld, Clean, Cleaned, Steps, entries
<1>10. CASE \E mode \in Modes, d \in Digests, force \in BOOLEAN: Begin(mode, d, force)
  BY <1>10 DEF Begin, entries
<1> QED
  BY <1>2, <1>3, <1>4, <1>5, <1>6, <1>7, <1>8, <1>9, <1>10 DEF Next, Step

LEMMA RefusedOthers == ASSUME Inv, Next PROVE RefusesOthers
<1> SUFFICES ASSUME deploy.at = "refuse", deploy'.at = "refused" PROVE RefusesOthers
  BY DEF RefusesOthers, At
<1>1. Refuse \/ Interrupt \/ Outside \/ deploy' = deploy
  BY DEF Next, Step, Compare, WriteNew, Chmod, Rename, Mark, Restore, Stage, Clear, Mkdir, Unpack,
         Label, Look, Drop, Aside, Swap, Clean, Steps, At, Begin, Over
<1>2. ~Interrupt /\ ~Outside
  BY GoesOn DEF Interrupt, Outside, Inv, Places, Over
<1>3. Refuses
  BY <1>1, <1>2, GoesOn DEF Refuse, Inv, Places, Over, FileSteps, TreeSteps
<1>4. target \in Others \/ IsFile(target) \/ IsTree(target)
  BY <1>3, EntryTypes DEF Refuses, Exists, Inv, Typed, IsFile, IsTree
<1>5. deploy.mode \in {"pyz", "dir"}
  BY DEF Inv, Typed, Deploys
<1>6. IsTree(target) => target.mark # -1
  BY EntryTypes, DeployAssumption DEF Inv, Typed, Named, IsTree
<1>7. IsTree(target) => deploy.mode = "pyz"
  BY <1>3, <1>5, <1>6 DEF Refuses, Marker, Marked, IsTree
<1>8. IsFile(target) /\ deploy.mode = "pyz" => torn
  BY <1>3 DEF Refuses, Marker, Inv, Named, At
<1> QED
  BY <1>4, <1>5, <1>7, <1>8 DEF RefusesOthers, IsTree, IsFile

(* What a deploy reports is at the target, what others put there stays but *)
(* for a file by the marker of a zipapp, and a deploy refuses nothing a    *)
(* deploy has put there, for any digests: with the exceptions the          *)
(* properties state.                                                       *)
THEOREM DeployAnswers == Spec => Answers
<1>1. Inv /\ Inv' /\ [Next]_vars => [Reported' /\ ForeignSpared /\ RefusesOthers]_vars
  BY Spared, RefusedOthers DEF Inv
<1> QED
  BY <1>1, AlwaysInv, PTL DEF Spec, Answers

-----------------------------------------------------------------------------
(* Closure: which distributions are shipped.                               *)

(* A name is needed by something that was looked at.                       *)
NeededBy(name) ==
    \E s \in seen: \E r \in requires[s[1]]: C!Needs(s[1], s[2], r) /\ r.name = name

(* Nothing is looked at or waits that is not needed.                       *)
Wanted == \A s \in seen \cup pending: s[1] = Root \/ NeededBy(s[1])

(* What is here and was looked at is in the closure, and nothing else is.  *)
FoundSeen ==
    /\ \A name \in found: name \in here \ Never /\ \E s \in seen: s[1] = name
    /\ \A s \in seen: s[1] \notin Never /\ (s[1] \in here => s[1] \in found)

(* What something needs was looked at or waits.                            *)
Followed ==
    \A s \in seen: \A r \in requires[s[1]]:
        C!Needs(s[1], s[2], r) /\ r.name \notin Never =>
            <<r.name, r.extras>> \in seen \cup pending

ClosureInv == C!TypeOK /\ Wanted /\ FoundSeen /\ Followed

LEMMA RequirementFields ==
  ASSUME C!TypeOK, NEW name \in Dists, NEW r \in requires[name]
  PROVE  /\ r.name \in Dists /\ r.extras \in SUBSET Extras
         /\ r.when \in SUBSET (Extras \cup {Plain})
  BY DEF C!TypeOK, C!Requirement

LEMMA PairMade ==
  ASSUME NEW s \in Dists \X SUBSET Extras
  PROVE  s[1] \in Dists /\ s[2] \in SUBSET Extras /\ s = <<s[1], s[2]>>
  OBVIOUS

(* A requirement counts as `requirements` evaluates it just when it is     *)
(* needed, of a distribution that is here.                                 *)
LEMMA CountsIsNeeds ==
  ASSUME C!TypeOK, NEW name \in here, NEW wanted \in SUBSET Extras, NEW r \in requires[name]
  PROVE  C!Counts(r, wanted) <=> C!Needs(name, wanted, r)
  BY DEF C!Counts, C!Needs

LEMMA ClosureStart == C!ClosureAssumption /\ C!Init => ClosureInv
<1> SUFFICES ASSUME C!ClosureAssumption, C!Init PROVE ClosureInv
  OBVIOUS
<1>1. PICK extras \in SUBSET Extras: pending = {<<Root, extras>>}
  BY DEF C!Init
<1>2. seen = {} /\ found = {} /\ requires \in Graphs /\ here \in Heres /\ have \in Haves
  BY DEF C!Init
<1>3. C!TypeOK
  BY <1>1, <1>2 DEF C!ClosureAssumption, C!TypeOK
<1>4. Wanted
  BY <1>1, <1>2 DEF Wanted
<1>5. FoundSeen /\ Followed
  BY <1>2 DEF FoundSeen, Followed
<1> QED
  BY <1>3, <1>4, <1>5 DEF ClosureInv

LEMMA LookTyped ==
  ASSUME C!TypeOK, NEW name \in Dists, NEW wanted \in SUBSET Extras, C!Look(name, wanted)
  PROVE  C!TypeOK'
<1>1. C!Declared(name, wanted) \subseteq Dists \X SUBSET Extras
  BY RequirementFields DEF C!Declared
<1>2. requires' = requires /\ here' = here /\ have' = have
  BY DEF C!Look
<1>3. CASE C!Skips(name, wanted)
  <2>1. pending' = pending \ {<<name, wanted>>} /\ seen' = seen /\ found' = found
    BY <1>3 DEF C!Look
  <2> QED
    BY <1>2, <2>1 DEF C!TypeOK
<1>4. CASE ~C!Skips(name, wanted)
  <2>1. seen' = seen \cup {<<name, wanted>>} /\ found' \subseteq found \cup {name}
        /\ pending' \subseteq pending \cup C!Declared(name, wanted)
    BY <1>4 DEF C!Look
  <2> QED
    BY <1>1, <1>2, <2>1 DEF C!TypeOK
<1> QED
  BY <1>3, <1>4

LEMMA LookSkips ==
  ASSUME ClosureInv, NEW name \in Dists, NEW wanted \in SUBSET Extras,
         C!Look(name, wanted), C!Skips(name, wanted)
  PROVE  Wanted' /\ FoundSeen' /\ Followed'
<1>1. /\ requires' = requires /\ here' = here /\ have' = have
      /\ pending' = pending \ {<<name, wanted>>} /\ seen' = seen /\ found' = found
  BY DEF C!Look
<1>2. C!TypeOK /\ Wanted /\ FoundSeen /\ Followed
  BY DEF ClosureInv
<1>3. \A n: NeededBy(n)' <=> NeededBy(n)
  BY <1>1 DEF NeededBy, C!Needs
<1>4. Wanted'
  BY <1>1, <1>2, <1>3 DEF Wanted
<1>5. FoundSeen'
  BY <1>1, <1>2 DEF FoundSeen
<1>6. ASSUME NEW s \in seen, NEW r \in requires[s[1]], C!Needs(s[1], s[2], r), r.name \notin Never
      PROVE  <<r.name, r.extras>> \in seen \cup pending'
  <2>1. <<r.name, r.extras>> \in seen \cup pending
    BY <1>2, <1>6 DEF Followed
  <2>2. CASE <<r.name, r.extras>> = <<name, wanted>>
    <3>1. r.name = name
      BY <2>2
    <3> QED
      BY <1>6, <2>2, <3>1 DEF C!Skips
  <2> QED
    BY <1>1, <2>1, <2>2
<1>7. Followed'
  BY <1>1, <1>6 DEF Followed, C!Needs
<1> QED
  BY <1>4, <1>5, <1>7

LEMMA LookGoes ==
  ASSUME ClosureInv, NEW name \in Dists, NEW wanted \in SUBSET Extras,
         C!Look(name, wanted), ~C!Skips(name, wanted)
  PROVE  Wanted' /\ FoundSeen' /\ Followed'
<1> DEFINE key == <<name, wanted>>
<1> DEFINE declared == IF name \in here THEN C!Declared(name, wanted) ELSE {}
<1>1. /\ requires' = requires /\ here' = here /\ have' = have
      /\ seen' = seen \cup {key} /\ key \in pending
  BY DEF C!Look
<1>2. pending' = (pending \ {key}) \cup declared
  BY DEF C!Look
<1>3. found' = IF name \in here THEN found \cup {name} ELSE found
  BY DEF C!Look
<1>4. key \notin seen /\ name \notin Never /\ key[1] = name /\ key[2] = wanted
  BY DEF C!Skips
<1>5. C!TypeOK /\ Wanted /\ FoundSeen /\ Followed
  BY DEF ClosureInv
<1>6. name \in here => \A r \in requires[name]: C!Counts(r, wanted) <=> C!Needs(name, wanted, r)
  BY <1>5, CountsIsNeeds
<1>7. \A d \in declared: \E r \in requires[name]:
          C!Needs(name, wanted, r) /\ r.name = d[1]
  BY <1>6 DEF C!Declared
<1>8. \A r \in requires[name]: C!Needs(name, wanted, r) => <<r.name, r.extras>> \in declared
  BY <1>6 DEF C!Declared, C!Needs
<1> HIDE DEF key, declared
<1>9. Wanted'
  <2>1. ASSUME NEW n, NeededBy(n) PROVE NeededBy(n)'
    BY <1>1, <2>1 DEF NeededBy, C!Needs
  <2>2. ASSUME NEW s \in (seen \cup pending)', s[1] # Root PROVE NeededBy(s[1])'
    <3>1. CASE s \in declared
      <4>1. PICK r \in requires[name]: C!Needs(name, wanted, r) /\ r.name = s[1]
        BY <1>7, <3>1
      <4>2. key \in seen' /\ r \in requires'[key[1]] /\ C!Needs(key[1], key[2], r)'
        BY <1>1, <1>4, <4>1 DEF C!Needs
      <4> QED
        BY <4>1, <4>2 DEF NeededBy
    <3>2. CASE s \in seen \cup pending
      BY <1>5, <2>1, <2>2, <3>2 DEF Wanted
    <3> QED
      BY <1>1, <1>2, <2>2, <3>1, <3>2
  <2> QED
    BY <2>2 DEF Wanted
<1>10. FoundSeen'
  BY <1>1, <1>3, <1>4, <1>5 DEF FoundSeen
<1>11. Followed'
  <2>1. ASSUME NEW s \in seen', NEW r \in requires[s[1]],
               C!Needs(s[1], s[2], r), r.name \notin Never
        PROVE  <<r.name, r.extras>> \in seen' \cup pending'
    <3>1. CASE s = key
      BY <1>2, <1>4, <1>8, <2>1, <3>1
    <3>2. CASE s \in seen
      <4>1. <<r.name, r.extras>> \in seen \cup pending
        BY <1>5, <2>1, <3>2 DEF Followed
      <4> QED
        BY <1>1, <1>2, <4>1
    <3> QED
      BY <1>1, <2>1, <3>1, <3>2
  <2> QED
    BY <1>1, <2>1 DEF Followed, C!Needs
<1> QED
  BY <1>9, <1>10, <1>11

LEMMA ClosureSteps == ClosureInv /\ [C!Next]_C!vars => ClosureInv'
<1> SUFFICES ASSUME ClosureInv, [C!Next]_C!vars PROVE ClosureInv'
  OBVIOUS
<1>1. CASE UNCHANGED C!vars
  BY <1>1 DEF C!vars, ClosureInv, C!TypeOK, Wanted, NeededBy, C!Needs, FoundSeen, Followed
<1>2. ASSUME NEW name \in Dists, NEW wanted \in SUBSET Extras, C!Look(name, wanted)
      PROVE  ClosureInv'
  <2>1. C!TypeOK'
    BY <1>2, LookTyped DEF ClosureInv
  <2>2. Wanted' /\ FoundSeen' /\ Followed'
    BY <1>2, LookSkips, LookGoes
  <2> QED
    BY <2>1, <2>2 DEF ClosureInv
<1> QED
  BY <1>1, <1>2 DEF C!Next

LEMMA ClosureShips == ClosureInv => C!TypeOK /\ C!ShipsNeeded
<1> SUFFICES ASSUME ClosureInv PROVE C!ShipsNeeded
  BY DEF ClosureInv
<1>1. C!TypeOK /\ Wanted /\ FoundSeen /\ Followed
  BY DEF ClosureInv
<1>2. ASSUME NEW name \in C!Shipped \ {Root}
      PROVE  \E s \in seen: \E r \in requires[s[1]]: C!Needs(s[1], s[2], r) /\ r.name = name
  <2>1. PICK s \in seen: s[1] = name
    BY <1>1, <1>2 DEF C!Shipped, FoundSeen
  <2> QED
    BY <1>1, <1>2, <2>1 DEF Wanted, NeededBy
<1>3. C!Shipped \subseteq here \ (Never \cup have)
  BY <1>1 DEF C!Shipped, FoundSeen
<1>4. ASSUME pending = {}, NEW s \in seen, NEW r \in requires[s[1]],
             C!Needs(s[1], s[2], r), r.name \notin Never
      PROVE  /\ <<r.name, r.extras>> \in seen
             /\ r.name \in here => r.name \in C!Shipped \cup have
  <2>1. <<r.name, r.extras>> \in seen
    BY <1>1, <1>4 DEF Followed
  <2>2. r.name \in here => r.name \in found
    <3>1. <<r.name, r.extras>>[1] = r.name
      OBVIOUS
    <3> QED
      BY <1>1, <2>1, <3>1 DEF FoundSeen
  <2> QED
    BY <2>1, <2>2 DEF C!Shipped
<1> QED
  BY <1>2, <1>3, <1>4 DEF C!ShipsNeeded

(* Whatever the distributions and what they declare, cycles and extras     *)
(* included: all that is needed and here is shipped or on the target, and  *)
(* nothing else is.                                                        *)
THEOREM NeededIsShipped == Run => []ShipsNeeded
<1>1. RunInit => ClosureInv
  BY ClosureStart, CommandsAssumption DEF RunInit, CommandsAssumption
<1>2. ClosureInv /\ [RunNext]_all => ClosureInv'
  <2> SUFFICES ASSUME ClosureInv, [RunNext]_all PROVE ClosureInv'
    OBVIOUS
  <2>1. [C!Next]_(C!vars)
    BY DEF RunNext, all, closure, C!vars
  <2> QED
    BY <2>1, ClosureSteps
<1>3. ClosureInv => ShipsNeeded
  BY ClosureShips DEF ShipsNeeded
<1> QED
  BY <1>1, <1>2, <1>3, PTL DEF Run

-----------------------------------------------------------------------------
(* FanOut: one command on several hosts.                                   *)

Phases == {"waiting", "connect", "call", "prompt", "answered", "work", "close", "worked",
           "failed", "done", "cut"}
Lines == {"stdout", "stderr", "status"}

HostsTyped ==
    /\ named \subseteq Hosts /\ source \in {"given", "terminal", "none"}
    /\ phase \in [Hosts -> Phases] /\ code \in [Hosts -> Int] /\ asks \in [Hosts -> Nat]
    /\ asking \in Hosts \cup {N!Nobody} /\ asked \in BOOLEAN
    /\ printing \in Hosts \cup {N!Nobody} /\ told \in [Hosts -> Nat]
    /\ screen \in Seq(Hosts \X Lines) /\ exit \subseteq Int
    /\ prompts \in Nat /\ answers \in Nat /\ ended \subseteq Hosts /\ lost \subseteq ended
    /\ interrupt \in {"none", "raised", "cancelled"}

(* Whoever asks, or was answered, holds the prompt's lock; the user is     *)
(* asked while somebody does, and was answered once it is known.           *)
PasswordKept ==
    /\ \A h \in Hosts:
        /\ phase[h] \in {"prompt", "answered"} => asking = h
        /\ phase[h] = "prompt" => ~asked /\ prompts = 1
        /\ phase[h] = "answered" => asked
        /\ phase[h] \in {"waiting", "connect", "work"} /\ asks[h] > 0 => asked
    /\ (\A h \in Hosts: phase[h] # "prompt") => prompts = 0
    /\ asked => answers = 1
    /\ ~asked => answers = 0

(* What a host has come to by its phase.                                   *)
ResultsKept ==
    \A h \in Hosts:
        /\ phase[h] \in {"close", "worked"} => h \in ended \ lost
        /\ phase[h] = "failed" => h \notin ended \ lost
        /\ phase[h] \notin {"close", "worked", "failed", "done", "cut"} => h \notin ended
        /\ h \in lost => code[h] \in Failures /\ phase[h] \in {"failed", "done", "cut"}

(* What a host is to tell when it has come to its end.                     *)
Listed(output, status) ==
    (IF output THEN <<"stdout", "stderr">> ELSE <<>>) \o (IF status THEN <<"status">> ELSE <<>>)
Report(h) == Listed(h \in ended \ lost, N!Several /\ code[h] # 0)

(* A host's records stand after the p-th, in the order of its report; and  *)
(* at the end of the screen while it writes.                               *)
Block(h, p) ==
    /\ p + told[h] <= Len(screen)
    /\ \A i \in 1 .. Len(screen): screen[i][1] = h <=> p < i /\ i <= p + told[h]
    /\ \A m \in 1 .. told[h]: screen[p + m] = <<h, Report(h)[m]>>
    /\ printing = h => p + told[h] = Len(screen)

ScreenKept ==
    /\ printing # N!Nobody => phase[printing] \in {"failed", "worked"}
    /\ \A h \in Hosts:
        /\ told[h] > 0 => phase[h] \in {"done", "cut"} \/ printing = h
        /\ phase[h] = "done" => told[h] = Len(Report(h))
        /\ told[h] <= Len(Report(h))
        /\ \E p \in Nat: Block(h, p)

(* Only a host that was cut, or the thread that waits for several, tells   *)
(* of an interrupt; without one the command ends when every host is done.  *)
ExitKept ==
    /\ interrupt # "none" => N!Several \/ \E h \in named: phase[h] = "cut"
    /\ \A e \in exit:
        \/ e = 130 /\ interrupt = "cancelled"
        \/ /\ \A h \in named: phase[h] = "done"
           /\ e \in {code[h]: h \in named}
           /\ \A h \in named: N!Least(code[h], e)

HostsInv == HostsTyped /\ PasswordKept /\ ResultsKept /\ ScreenKept /\ ExitKept

LEMMA FanIsAssumed == N!FanOutAssumption
  BY CommandsAssumption DEF CommandsAssumption

LEMMA ListedIs ==
  ASSUME NEW output \in BOOLEAN, NEW status \in BOOLEAN
  PROVE  /\ Listed(output, status) \in Seq(Lines)
         /\ Listed(output, status) =
                IF output THEN IF status THEN <<"stdout", "stderr", "status">>
                               ELSE <<"stdout", "stderr">>
                ELSE IF status THEN <<"status">> ELSE <<>>
<1>1. \A s \in Seq(Lines): s \o <<>> = s /\ <<>> \o s = s
  OBVIOUS
<1>2. /\ <<"stdout", "stderr">> \in Seq(Lines) /\ <<"status">> \in Seq(Lines)
      /\ <<"stdout", "stderr", "status">> \in Seq(Lines) /\ <<>> \in Seq(Lines)
  BY DEF Lines
<1>3. <<"stdout", "stderr">> \o <<"status">> = <<"stdout", "stderr", "status">>
  <2>1. <<"stdout", "stderr">> \o <<"status">> \in Seq(Lines)
    BY <1>2
  <2>2. Len(<<"stdout", "stderr">> \o <<"status">>) = 3
    BY <1>2
  <2>3. \A i \in 1 .. 3: (<<"stdout", "stderr">> \o <<"status">>)[i]
                           = <<"stdout", "stderr", "status">>[i]
    BY <1>2
  <2>4. Len(<<"stdout", "stderr", "status">>) = 3
        /\ <<"stdout", "stderr", "status">> \in Seq(Lines)
    BY <1>2
  <2> QED
    BY <2>1, <2>2, <2>3, <2>4, SeqEqual
<1> QED
  BY <1>1, <1>2, <1>3 DEF Listed

LEMMA ReportIs == ASSUME NEW h PROVE Report(h) \in Seq(Lines)
<1>1. (h \in ended \ lost) \in BOOLEAN /\ (N!Several /\ code[h] # 0) \in BOOLEAN
  OBVIOUS
<1> QED
  BY <1>1, ListedIs DEF Report

LEMMA RecordsAreReport ==
  ASSUME ResultsKept, NEW h \in Hosts, phase[h] \in {"failed", "worked"}
  PROVE  N!Records(h) = Report(h)
  BY DEF N!Records, Report, Listed, ResultsKept, N!In

LEMMA HostsStart == N!FanOutAssumption /\ N!Init => HostsInv
<1> SUFFICES ASSUME N!FanOutAssumption, N!Init PROVE HostsInv
  OBVIOUS
<1>1. HostsTyped
  <2>1. /\ named \subseteq Hosts /\ source \in {"given", "terminal", "none"}
        /\ asking = N!Nobody /\ asked = FALSE /\ printing = N!Nobody /\ screen = <<>> /\ exit = {}
        /\ interrupt = "none" /\ prompts = 0 /\ answers = 0 /\ ended = {} /\ lost = {}
    BY DEF N!Init
  <2>2. /\ phase \in [Hosts -> Phases] /\ code \in [Hosts -> Int] /\ asks \in [Hosts -> Nat]
        /\ told \in [Hosts -> Nat]
    BY DEF N!Init, Phases
  <2>3. screen \in Seq(Hosts \X Lines)
    BY <2>1
  <2> QED
    BY <2>1, <2>2, <2>3 DEF HostsTyped
<1>2. PasswordKept /\ ResultsKept /\ ExitKept
  BY DEF N!Init, PasswordKept, ResultsKept, ExitKept
<1>3. ScreenKept
  <2>1. \A h \in Hosts: Block(h, 0)
    BY DEF N!Init, Block, N!FanOutAssumption, N!Nobody
  <2>2. \A h \in Hosts: Report(h) \in Seq(Lines)
    BY ReportIs
  <2> QED
    BY <2>1, <2>2 DEF N!Init, ScreenKept, N!Nobody
<1> QED
  BY <1>1, <1>2, <1>3 DEF HostsInv

(* A host that takes a step was not done: the command has not ended, or it *)
(* was interrupted.                                                        *)
LEMMA ExitSpared ==
  ASSUME HostsInv, NEW h \in named, phase[h] \notin {"done", "cut"}, NEW p,
         phase' = [phase EXCEPT ![h] = p], UNCHANGED <<named, exit, interrupt>>
  PROVE  ExitKept'
<1>1. ExitKept /\ \A g \in named: g \in Hosts
  BY DEF HostsInv, HostsTyped
<1>2. \A g \in named: phase[g] = "cut" => phase'[g] = "cut"
  BY <1>1 DEF HostsInv, HostsTyped
<1>3. interrupt' # "none" => N!Several' \/ \E g \in named': phase'[g] = "cut"
  BY <1>1, <1>2 DEF ExitKept, N!Several
<1>4. \A e \in exit: e = 130 /\ interrupt = "cancelled"
  BY <1>1 DEF ExitKept
<1> QED
  BY <1>3, <1>4 DEF ExitKept

(* The screen of a step that writes nothing, and changes the report of no  *)
(* host that has written.                                                  *)
LEMMA ScreenSpared ==
  ASSUME HostsInv, NEW g \in named, phase[g] \notin {"failed", "worked", "done", "cut"},
         NEW p \in Phases \ {"done"},
         phase' = [phase EXCEPT ![g] = p], UNCHANGED <<named, printing, told, screen>>,
         code' \in [Hosts -> Int],
         \A h \in Hosts \ {g}: code'[h] = code[h] /\ (h \in ended' \ lost' <=> h \in ended \ lost)
  PROVE  ScreenKept'
<1>1. HostsTyped /\ ScreenKept
  BY DEF HostsInv
<1>2. UNCHANGED <<printing, told, screen>> /\ g \in Hosts
  BY <1>1 DEF HostsTyped
<1>3. printing # g /\ told[g] = 0
  <2>1. printing = g => phase[g] \in {"failed", "worked"}
    BY <1>1, <1>2, FanIsAssumed DEF N!FanOutAssumption, ScreenKept, N!Nobody
  <2> QED
    BY <1>1, <1>2, <2>1 DEF ScreenKept, HostsTyped
<1>4. \A h \in Hosts \ {g}: Report(h)' = Report(h)
  BY DEF Report, N!Several
<1>5. phase' \in [Hosts -> Phases] /\ phase'[g] = p /\ \A h \in Hosts \ {g}: phase'[h] = phase[h]
  BY <1>1, <1>2 DEF HostsTyped
<1>6. printing' # N!Nobody => phase'[printing'] \in {"failed", "worked"}
  BY <1>1, <1>2, <1>3, <1>5 DEF ScreenKept, HostsTyped
<1>7. ASSUME NEW h \in Hosts
      PROVE  /\ told'[h] > 0 => phase'[h] \in {"done", "cut"} \/ printing' = h
             /\ phase'[h] = "done" => told'[h] = Len(Report(h)')
             /\ told'[h] <= Len(Report(h)')
             /\ \E q \in Nat: Block(h, q)'
  <2>1. CASE h = g
    <3>1. PICK q \in Nat: Block(g, q)
      BY <1>1, <1>2 DEF ScreenKept
    <3>2. Block(g, q)'
      BY <1>2, <1>3, <3>1 DEF Block
    <3>3. Report(g)' \in Seq(Lines)
      <4>1. (g \in ended \ lost)' \in BOOLEAN /\ (N!Several /\ code[g] # 0)' \in BOOLEAN
        OBVIOUS
      <4> QED
        BY <4>1, ListedIs DEF Report
    <3> QED
      BY <1>2, <1>3, <1>5, <2>1, <3>2, <3>3
  <2>2. CASE h # g
    <3>1. PICK q \in Nat: Block(h, q)
      BY <1>1 DEF ScreenKept
    <3>2. Block(h, q)'
      BY <1>2, <1>4, <2>2, <3>1 DEF Block
    <3> QED
      BY <1>1, <1>2, <1>4, <1>5, <2>2, <3>2 DEF ScreenKept
  <2> QED
    BY <2>1, <2>2
<1> QED
  BY <1>6, <1>7 DEF ScreenKept

(* A step that leaves the screen and the results as they are: nobody takes *)
(* the password's part in it but by what it says.                          *)
LEMMA BeginKept ==
  ASSUME HostsInv, NEW h \in named, N!Begin(h)
  PROVE  HostsInv'
<1>1. /\ HostsTyped /\ PasswordKept /\ ResultsKept /\ h \in Hosts
      /\ phase[h] = "waiting" /\ phase' = [phase EXCEPT ![h] = "connect"]
      /\ UNCHANGED <<N!given, code, N!password, N!report, N!history>>
  BY DEF HostsInv, HostsTyped, N!Begin, N!In, N!To
<1>2. ScreenKept'
  BY <1>1, ScreenSpared DEF Phases, N!given, N!history, HostsTyped, N!report
<1>3. HostsTyped'
  BY <1>1 DEF HostsTyped, Phases, N!given, N!password, N!report, N!history
<1>4. PasswordKept'
  BY <1>1 DEF HostsTyped, PasswordKept, Phases, N!given, N!password, N!report, N!history
<1>5. ResultsKept'
  BY <1>1 DEF HostsTyped, ResultsKept, Phases, N!given, N!password, N!report, N!history
<1>6. ExitKept'
  BY <1>1, ExitSpared DEF N!given, N!report
<1> QED
  BY <1>2, <1>3, <1>4, <1>5, <1>6 DEF HostsInv

LEMMA CallKept ==
  ASSUME HostsInv, NEW h \in named, N!Call(h)
  PROVE  HostsInv'
<1>1. /\ HostsTyped /\ PasswordKept /\ ResultsKept /\ h \in Hosts
      /\ phase[h] = "connect" /\ phase' = [phase EXCEPT ![h] = "call"]
      /\ asks' = [asks EXCEPT ![h] = @ + 1]
      /\ UNCHANGED <<N!given, code, asking, asked, N!report, N!history>>
  BY DEF HostsInv, HostsTyped, N!Call, N!In, N!To
<1>2. ScreenKept'
  <2>1. code' \in [Hosts -> Int] /\ \A g \in Hosts \ {h}: code'[g] = code[g]
    BY <1>1 DEF HostsTyped, N!given
  <2> QED
    BY <1>1, <2>1, ScreenSpared DEF Phases, N!given, N!history, N!report
<1>3. HostsTyped'
  BY <1>1 DEF HostsTyped, Phases, N!given, N!password, N!report, N!history
<1>4. PasswordKept'
  BY <1>1 DEF HostsTyped, PasswordKept, Phases, N!given, N!password, N!report, N!history
<1>5. ResultsKept'
  BY <1>1 DEF HostsTyped, ResultsKept, Phases, N!given, N!password, N!report, N!history
<1>6. ExitKept'
  BY <1>1, ExitSpared DEF N!given, N!report
<1> QED
  BY <1>2, <1>3, <1>4, <1>5, <1>6 DEF HostsInv

LEMMA AnswerKept ==
  ASSUME HostsInv, NEW h \in named, N!Answer(h)
  PROVE  HostsInv'
<1>1. /\ HostsTyped /\ PasswordKept /\ ResultsKept /\ h \in Hosts
      /\ phase[h] = "prompt" /\ phase' = [phase EXCEPT ![h] = "answered"]
      /\ asked' = TRUE /\ answers' = answers + 1 /\ prompts' = 0
      /\ UNCHANGED <<N!given, code, asks, asking, N!report, ended, lost>>
  BY DEF HostsInv, HostsTyped, N!Answer, N!In, N!To
<1>2. ScreenKept'
  <2>1. code' \in [Hosts -> Int] /\ \A g \in Hosts \ {h}: code'[g] = code[g]
    BY <1>1 DEF HostsTyped, N!given
  <2> QED
    BY <1>1, <2>1, ScreenSpared DEF Phases, N!given, N!history, N!report
<1>3. HostsTyped'
  BY <1>1 DEF HostsTyped, Phases, N!given, N!password, N!report, N!history
<1>4. PasswordKept'
  BY <1>1 DEF HostsTyped, PasswordKept, Phases, N!given, N!password, N!report, N!history
<1>5. ResultsKept'
  BY <1>1 DEF HostsTyped, ResultsKept, Phases, N!given, N!password, N!report, N!history
<1>6. ExitKept'
  BY <1>1, ExitSpared DEF N!given, N!report
<1> QED
  BY <1>2, <1>3, <1>4, <1>5, <1>6 DEF HostsInv

LEMMA AnsweredKept ==
  ASSUME HostsInv, NEW h \in named, N!Answered(h)
  PROVE  HostsInv'
<1>1. /\ HostsTyped /\ PasswordKept /\ ResultsKept /\ h \in Hosts
      /\ phase[h] = "answered" /\ phase' = [phase EXCEPT ![h] = "connect"]
      /\ asking' = N!Nobody
      /\ UNCHANGED <<N!given, code, asks, asked, N!report, N!history>>
  BY DEF HostsInv, HostsTyped, N!Answered, N!In, N!To
<1>2. ScreenKept'
  <2>1. code' \in [Hosts -> Int] /\ \A g \in Hosts \ {h}: code'[g] = code[g]
    BY <1>1 DEF HostsTyped, N!given
  <2> QED
    BY <1>1, <2>1, ScreenSpared DEF Phases, N!given, N!history, N!report
<1>3. HostsTyped'
  BY <1>1 DEF HostsTyped, Phases, N!given, N!password, N!report, N!history
<1>4. PasswordKept'
  BY <1>1 DEF HostsTyped, PasswordKept, Phases, N!given, N!password, N!report, N!history
<1>5. ResultsKept'
  BY <1>1 DEF HostsTyped, ResultsKept, Phases, N!given, N!password, N!report, N!history
<1>6. ExitKept'
  BY <1>1, ExitSpared DEF N!given, N!report
<1> QED
  BY <1>2, <1>3, <1>4, <1>5, <1>6 DEF HostsInv

LEMMA ConnectedKept ==
  ASSUME HostsInv, NEW h \in named, N!Connected(h)
  PROVE  HostsInv'
<1>1. /\ HostsTyped /\ PasswordKept /\ ResultsKept /\ h \in Hosts
      /\ phase[h] = "connect" /\ phase' = [phase EXCEPT ![h] = "work"]
      /\ UNCHANGED <<N!given, code, N!password, N!report, N!history>>
  BY DEF HostsInv, HostsTyped, N!Connected, N!In, N!To
<1>2. ScreenKept'
  <2>1. code' \in [Hosts -> Int] /\ \A g \in Hosts \ {h}: code'[g] = code[g]
    BY <1>1 DEF HostsTyped, N!given
  <2> QED
    BY <1>1, <2>1, ScreenSpared DEF Phases, N!given, N!history, N!report
<1>3. HostsTyped'
  BY <1>1 DEF HostsTyped, Phases, N!given, N!password, N!report, N!history
<1>4. PasswordKept'
  BY <1>1 DEF HostsTyped, PasswordKept, Phases, N!given, N!password, N!report, N!history
<1>5. ResultsKept'
  BY <1>1 DEF HostsTyped, ResultsKept, Phases, N!given, N!password, N!report, N!history
<1>6. ExitKept'
  BY <1>1, ExitSpared DEF N!given, N!report
<1> QED
  BY <1>2, <1>3, <1>4, <1>5, <1>6 DEF HostsInv

LEMMA NoTerminalKept ==
  ASSUME HostsInv, NEW h \in named, N!NoTerminal(h)
  PROVE  HostsInv'
<1>1. /\ HostsTyped /\ PasswordKept /\ ResultsKept /\ h \in Hosts
      /\ phase[h] = "call" /\ phase' = [phase EXCEPT ![h] = "failed"]
      /\ code' = [code EXCEPT ![h] = 126]
      /\ UNCHANGED <<N!given, N!password, N!report, N!history>>
  BY DEF HostsInv, HostsTyped, N!NoTerminal, N!In, N!To, N!Fails
<1>2. ScreenKept'
  <2>1. code' \in [Hosts -> Int] /\ \A g \in Hosts \ {h}: code'[g] = code[g]
    BY <1>1 DEF HostsTyped
  <2> QED
    BY <1>1, <2>1, ScreenSpared DEF Phases, N!given, N!history, N!report
<1>3. HostsTyped'
  BY <1>1 DEF HostsTyped, Phases, N!given, N!password, N!report, N!history
<1>4. PasswordKept'
  BY <1>1 DEF HostsTyped, PasswordKept, Phases, N!given, N!password, N!report, N!history
<1>5. ResultsKept'
  BY <1>1 DEF HostsTyped, ResultsKept, Phases, N!given, N!password, N!report, N!history
<1>6. ExitKept'
  BY <1>1, ExitSpared DEF N!given, N!report
<1> QED
  BY <1>2, <1>3, <1>4, <1>5, <1>6 DEF HostsInv

LEMMA NoAnswerKept ==
  ASSUME HostsInv, NEW h \in named, N!NoAnswer(h)
  PROVE  HostsInv'
<1>1. /\ HostsTyped /\ PasswordKept /\ ResultsKept /\ h \in Hosts
      /\ phase[h] = "prompt" /\ phase' = [phase EXCEPT ![h] = "failed"]
      /\ code' = [code EXCEPT ![h] = 1]
      /\ asking' = N!Nobody /\ prompts' = 0
      /\ UNCHANGED <<N!given, asks, asked, N!report, answers, ended, lost>>
  BY DEF HostsInv, HostsTyped, N!NoAnswer, N!In, N!To, N!Fails
<1>2. ScreenKept'
  <2>1. code' \in [Hosts -> Int] /\ \A g \in Hosts \ {h}: code'[g] = code[g]
    BY <1>1 DEF HostsTyped
  <2> QED
    BY <1>1, <2>1, ScreenSpared DEF Phases, N!given, N!history, N!report
<1>3. HostsTyped'
  BY <1>1 DEF HostsTyped, Phases, N!given, N!password, N!report, N!history
<1>4. PasswordKept'
  BY <1>1 DEF HostsTyped, PasswordKept, Phases, N!given, N!password, N!report, N!history
<1>5. ResultsKept'
  BY <1>1 DEF HostsTyped, ResultsKept, Phases, N!given, N!password, N!report, N!history
<1>6. ExitKept'
  BY <1>1, ExitSpared DEF N!given, N!report
<1> QED
  BY <1>2, <1>3, <1>4, <1>5, <1>6 DEF HostsInv

LEMMA RefusedKept ==
  ASSUME HostsInv, NEW h \in named, N!Refused(h)
  PROVE  HostsInv'
<1>0. PICK status \in Failures: N!Fails(h, status)
  BY DEF N!Refused
<1>1. /\ HostsTyped /\ PasswordKept /\ ResultsKept /\ h \in Hosts
      /\ phase[h] \in {"connect", "work"} /\ phase' = [phase EXCEPT ![h] = "failed"]
      /\ code' = [code EXCEPT ![h] = status] /\ status \in Int
      /\ UNCHANGED <<N!given, N!password, N!report, N!history>>
  <2>1. status \in Int
    BY FanIsAssumed DEF N!FanOutAssumption
  <2>2. h \in Hosts
    BY DEF HostsInv, HostsTyped
  <2> QED
    BY <1>0, <2>1, <2>2 DEF HostsInv, N!Refused, N!In, N!To, N!Fails
<1>2. ScreenKept'
  BY <1>1, ScreenSpared DEF Phases, N!given, N!history, HostsTyped, N!report
<1>3. HostsTyped'
  BY <1>1 DEF HostsTyped, Phases, N!given, N!password, N!report, N!history
<1>4. PasswordKept'
  BY <1>1 DEF HostsTyped, PasswordKept, Phases, N!given, N!password, N!report, N!history
<1>5. ResultsKept'
  BY <1>1 DEF HostsTyped, ResultsKept, Phases, N!given, N!password, N!report, N!history
<1>6. ExitKept'
  BY <1>1, ExitSpared DEF N!given, N!report
<1> QED
  BY <1>2, <1>3, <1>4, <1>5, <1>6 DEF HostsInv

LEMMA WorkKept ==
  ASSUME HostsInv, NEW h \in named, N!Work(h)
  PROVE  HostsInv'
<1>0. PICK status \in Statuses: code' = [code EXCEPT ![h] = status]
  BY DEF N!Work
<1>1. /\ HostsTyped /\ PasswordKept /\ ResultsKept /\ h \in Hosts
      /\ phase[h] = "work" /\ phase' = [phase EXCEPT ![h] = "close"]
      /\ code' = [code EXCEPT ![h] = status] /\ status \in Int
      /\ ended' = ended \cup {h}
      /\ UNCHANGED <<N!given, N!password, N!report, prompts, answers, lost>>
  BY <1>0, FanIsAssumed DEF N!FanOutAssumption, HostsInv, HostsTyped, N!Work, N!In, N!To
<1>2. ScreenKept'
  BY <1>1, ScreenSpared DEF Phases, N!given, N!history, HostsTyped, N!report
<1>3. HostsTyped'
  BY <1>1 DEF HostsTyped, Phases, N!given, N!password, N!report, N!history
<1>4. PasswordKept'
  BY <1>1 DEF HostsTyped, PasswordKept, Phases, N!given, N!password, N!report, N!history
<1>5. ResultsKept'
  BY <1>1 DEF HostsTyped, ResultsKept, Phases, N!given, N!password, N!report, N!history
<1>6. ExitKept'
  BY <1>1, ExitSpared DEF N!given, N!report
<1> QED
  BY <1>2, <1>3, <1>4, <1>5, <1>6 DEF HostsInv

LEMMA CloseKept ==
  ASSUME HostsInv, NEW h \in named, N!Close(h)
  PROVE  HostsInv'
<1>1. /\ HostsTyped /\ PasswordKept /\ ResultsKept /\ h \in Hosts /\ phase[h] = "close"
      /\ UNCHANGED <<N!given, N!password, N!report, prompts, answers, ended>>
  BY DEF HostsInv, HostsTyped, N!Close, N!In
<1>2. PICK p \in {"worked", "failed"}:
        /\ phase' = [phase EXCEPT ![h] = p]
        /\ p = "worked" => UNCHANGED <<code, lost>>
        /\ p = "failed" => /\ \E status \in Failures: code' = [code EXCEPT ![h] = status]
                           /\ lost' = lost \cup {h}
  BY DEF N!Close, N!To, N!Fails
<1>3. code' \in [Hosts -> Int] /\ \A g \in Hosts \ {h}: code'[g] = code[g]
  BY <1>1, <1>2, FanIsAssumed DEF HostsTyped, N!FanOutAssumption
<1>4. lost' \in {lost, lost \cup {h}}
  BY <1>2
<1>5. ScreenKept'
  BY <1>1, <1>2, <1>3, <1>4, ScreenSpared DEF Phases, N!given, HostsTyped, N!report
<1>6. HostsTyped'
  BY <1>1, <1>2, <1>3, <1>4 DEF HostsTyped, ResultsKept, Phases, N!given, N!password, N!report
<1>7. PasswordKept'
  BY <1>1, <1>2 DEF HostsTyped, PasswordKept, Phases, N!given, N!password, N!report
<1>8. ResultsKept'
  BY <1>1, <1>2, <1>3 DEF HostsTyped, ResultsKept, Phases, N!given, N!password, N!report
<1>9. ExitKept'
  BY <1>1, <1>2, ExitSpared DEF N!given, N!report
<1> QED
  BY <1>5, <1>6, <1>7, <1>8, <1>9 DEF HostsInv

LEMMA PromptKept ==
  ASSUME HostsInv, NEW h \in named, N!Prompt(h)
  PROVE  HostsInv'
<1>1. /\ HostsTyped /\ PasswordKept /\ ResultsKept /\ h \in Hosts /\ phase[h] = "call"
      /\ asking = N!Nobody /\ asking' = h
      /\ phase' = [phase EXCEPT ![h] = IF asked THEN "answered" ELSE "prompt"]
      /\ prompts' = prompts + (IF asked THEN 0 ELSE 1)
      /\ UNCHANGED <<N!given, code, asks, asked, N!report, answers, ended, lost>>
  BY DEF HostsInv, HostsTyped, N!Prompt, N!AfterLock, N!In, N!To
<1>2. ScreenKept'
  BY <1>1, ScreenSpared DEF Phases, N!given, HostsTyped, N!report
<1>3. HostsTyped'
  BY <1>1 DEF HostsTyped, Phases, N!given, N!report
<1>4. \A g \in Hosts: phase[g] \notin {"prompt", "answered"}
  BY <1>1, FanIsAssumed DEF N!FanOutAssumption, PasswordKept, N!Nobody
<1>5. prompts = 0
  BY <1>1, <1>4 DEF PasswordKept
<1>6. PasswordKept'
  BY <1>1, <1>4, <1>5 DEF HostsTyped, PasswordKept, Phases, N!given, N!report
<1>7. ResultsKept'
  BY <1>1 DEF HostsTyped, ResultsKept, Phases, N!given, N!report
<1>8. ExitKept'
  BY <1>1, ExitSpared DEF N!given, N!report
<1> QED
  BY <1>2, <1>3, <1>6, <1>7, <1>8 DEF HostsInv

(* The report of a host, under the lock of the output.                     *)
LEMMA TakeKept ==
  ASSUME HostsInv, NEW h \in named, N!Take(h)
  PROVE  HostsInv'
<1>1. /\ HostsTyped /\ PasswordKept /\ ResultsKept /\ ScreenKept /\ ExitKept /\ h \in Hosts
      /\ phase[h] \in {"failed", "worked"} /\ printing = N!Nobody /\ printing' = h
      /\ UNCHANGED <<N!given, phase, code, N!password, told, screen, interrupt, exit, N!history>>
  BY DEF HostsInv, HostsTyped, N!Take
<1>2. \A g \in Hosts: Report(g)' = Report(g)
  BY <1>1 DEF Report, N!Several, N!given, N!history
<1>3. told[h] = 0
  BY <1>1, FanIsAssumed DEF N!FanOutAssumption, ScreenKept, HostsTyped, N!Nobody
<1>4. ASSUME NEW g \in Hosts PROVE \E p \in Nat: Block(g, p)'
  <2>1. PICK p \in Nat: Block(g, p)
    BY <1>1 DEF ScreenKept
  <2>2. CASE g = h
    <3>1. Len(screen) \in Nat
      BY <1>1 DEF HostsTyped
    <3>2. Block(g, Len(screen))'
      BY <1>1, <1>2, <1>3, <2>1, <2>2, <3>1 DEF Block
    <3> QED
      BY <3>1, <3>2
  <2>3. CASE g # h
    BY <1>1, <1>2, <2>1, <2>3 DEF Block
  <2> QED
    BY <2>2, <2>3
<1>5. ScreenKept'
  <2>1. \A g \in Hosts: g # N!Nobody
    BY FanIsAssumed DEF N!FanOutAssumption, N!Nobody
  <2>2. \A g \in Hosts: told[g] > 0 => phase[g] \in {"done", "cut"}
    BY <1>1, <2>1 DEF ScreenKept
  <2>3. \A g \in Hosts: /\ phase[g] = "done" => told[g] = Len(Report(g))
                         /\ told[g] <= Len(Report(g))
    BY <1>1 DEF ScreenKept
  <2> QED
    BY <1>1, <1>2, <1>4, <2>2, <2>3 DEF ScreenKept
<1>6. HostsTyped'
  BY <1>1 DEF HostsTyped, N!given, N!password, N!history
<1>7. PasswordKept' /\ ResultsKept'
  BY <1>1 DEF PasswordKept, ResultsKept, N!password, N!history
<1>8. ExitKept'
  BY <1>1 DEF ExitKept, N!Several, N!given
<1> QED
  BY <1>5, <1>6, <1>7, <1>8 DEF HostsInv

LEMMA WriteKept ==
  ASSUME HostsInv, NEW h \in named, N!Write(h)
  PROVE  HostsInv'
<1>1. /\ HostsTyped /\ PasswordKept /\ ResultsKept /\ ScreenKept /\ ExitKept /\ h \in Hosts
      /\ printing = h /\ N!Due(h)
      /\ screen' = Append(screen, <<h, N!Records(h)[told[h] + 1]>>)
      /\ told' = [told EXCEPT ![h] = @ + 1]
      /\ UNCHANGED <<N!given, phase, code, N!password, printing, interrupt, exit, N!history>>
  BY DEF HostsInv, HostsTyped, N!Write
<1>2. phase[h] \in {"failed", "worked"}
  BY <1>1, FanIsAssumed DEF N!FanOutAssumption, ScreenKept, N!Nobody
<1>3. N!Records(h) = Report(h) /\ Report(h) \in Seq(Lines)
  BY <1>1, <1>2, RecordsAreReport, ReportIs
<1>4. told[h] \in Nat /\ told[h] < Len(Report(h))
  BY <1>1, <1>3 DEF N!Due, HostsTyped
<1> DEFINE line == Report(h)[told[h] + 1]
<1>5. line \in Lines
  BY <1>3, <1>4
<1>6. screen' = Append(screen, <<h, line>>)
  BY <1>1, <1>3
<1> HIDE DEF line
<1>7. /\ Len(screen) \in Nat /\ Len(screen') = Len(screen) + 1
      /\ screen'[Len(screen) + 1] = <<h, line>>
      /\ \A i \in 1 .. Len(screen): screen'[i] = screen[i]
      /\ screen' \in Seq(Hosts \X Lines)
  BY <1>1, <1>5, <1>6 DEF HostsTyped
<1>8. \A g \in Hosts: Report(g)' = Report(g)
  BY <1>1 DEF Report, N!Several, N!given, N!history
<1>9. /\ told' \in [Hosts -> Nat] /\ told'[h] = told[h] + 1
      /\ \A g \in Hosts \ {h}: told'[g] = told[g]
  BY <1>1 DEF HostsTyped
<1>10. ASSUME NEW g \in Hosts PROVE \E p \in Nat: Block(g, p)'
  <2>1. PICK p \in Nat: Block(g, p)
    BY <1>1 DEF ScreenKept
  <2>2. told[g] \in Nat
    BY <1>1 DEF HostsTyped
  <2>3. p + told[g] <= Len(screen) /\ (g = h => p + told[g] = Len(screen))
    BY <1>1, <2>1 DEF Block
  <2>4. p + told'[g] <= Len(screen')
    BY <1>7, <1>9, <2>2, <2>3
  <2>5. ASSUME NEW i \in 1 .. Len(screen')
        PROVE  screen'[i][1] = g <=> p < i /\ i <= p + told'[g]
    <3>1. CASE i \in 1 .. Len(screen)
      <4>1. screen[i][1] = g <=> p < i /\ i <= p + told[g]
        BY <2>1, <3>1 DEF Block
      <4>2. screen'[i] = screen[i]
        BY <1>7, <3>1
      <4>3. i \in Nat /\ i <= Len(screen) /\ Len(screen) \in Nat
        BY <1>7, <3>1
      <4>4. CASE g = h
        BY <1>9, <2>2, <2>3, <4>1, <4>2, <4>3, <4>4
      <4>5. CASE g # h
        BY <1>9, <4>1, <4>2, <4>5
      <4> QED
        BY <4>4, <4>5
    <3>2. CASE i = Len(screen) + 1
      <4>1. screen'[i][1] = h
        BY <1>7, <3>2
      <4> QED
        BY <1>7, <1>9, <2>2, <2>3, <3>2, <4>1
    <3> QED
      BY <1>7, <3>1, <3>2
  <2>6. ASSUME NEW m \in 1 .. told'[g] PROVE screen'[p + m] = <<g, Report(g)[m]>>
    <3>1. CASE m \in 1 .. told[g]
      <4>1. screen[p + m] = <<g, Report(g)[m]>>
        BY <2>1, <3>1 DEF Block
      <4>2. p + m \in 1 .. Len(screen)
        BY <1>7, <2>2, <2>3, <3>1
      <4> QED
        BY <1>7, <4>1, <4>2
    <3>2. CASE m \notin 1 .. told[g]
      <4>1. g = h /\ m = told[g] + 1 /\ p + m = Len(screen) + 1
        BY <1>9, <2>2, <2>3, <3>2
      <4> QED
        BY <1>7, <4>1 DEF line
    <3> QED
      BY <3>1, <3>2
  <2>7. printing' = g => p + told'[g] = Len(screen')
    BY <1>1, <1>7, <1>9, <2>2, <2>3
  <2>8. Block(g, p)'
    BY <1>8, <2>4, <2>5, <2>6, <2>7 DEF Block
  <2> QED
    BY <2>8
<1>11. ASSUME NEW g \in Hosts
       PROVE  /\ told'[g] > 0 => phase'[g] \in {"done", "cut"} \/ printing' = g
              /\ phase'[g] = "done" => told'[g] = Len(Report(g)')
              /\ told'[g] <= Len(Report(g)')
  <2>1. CASE g = h
    BY <1>1, <1>2, <1>3, <1>4, <1>8, <1>9, <2>1
  <2>2. CASE g # h
    BY <1>1, <1>8, <1>9, <2>2 DEF ScreenKept
  <2> QED
    BY <2>1, <2>2
<1>12. ScreenKept'
  BY <1>1, <1>2, <1>10, <1>11 DEF ScreenKept
<1>13. HostsTyped'
  BY <1>1, <1>7, <1>9 DEF HostsTyped, N!given, N!password, N!history
<1>14. PasswordKept' /\ ResultsKept'
  BY <1>1 DEF PasswordKept, ResultsKept, N!password, N!history
<1>15. ExitKept'
  BY <1>1 DEF ExitKept, N!Several, N!given
<1> QED
  BY <1>12, <1>13, <1>14, <1>15 DEF HostsInv

LEMMA LeaveKept ==
  ASSUME HostsInv, NEW h \in named, N!Leave(h)
  PROVE  HostsInv'
<1>1. /\ HostsTyped /\ PasswordKept /\ ResultsKept /\ ScreenKept /\ ExitKept /\ h \in Hosts
      /\ printing = h /\ ~N!Due(h) /\ printing' = N!Nobody /\ phase' = [phase EXCEPT ![h] = "done"]
      /\ UNCHANGED <<N!given, code, N!password, told, screen, interrupt, exit, N!history>>
  BY DEF HostsInv, HostsTyped, N!Leave, N!To
<1>2. phase[h] \in {"failed", "worked"} /\ h # N!Nobody
  BY <1>1, FanIsAssumed DEF N!FanOutAssumption, ScreenKept, N!Nobody
<1>3. ExitKept'
  BY <1>1, <1>2, ExitSpared DEF N!given
<1>4. \A g \in Hosts: Report(g)' = Report(g)
  BY <1>1 DEF Report, N!Several, N!given, N!history
<1>5. told[h] = Len(Report(h))
  <2>1. told[h] \in Nat /\ told[h] <= Len(Report(h)) /\ Len(Report(h)) \in Nat
    BY <1>1, ReportIs DEF ScreenKept, HostsTyped
  <2>2. ~(told[h] < Len(Report(h)))
    BY <1>1, <1>2, RecordsAreReport DEF N!Due
  <2> QED
    BY <2>1, <2>2
<1>6. /\ phase' \in [Hosts -> Phases] /\ phase'[h] = "done"
      /\ \A g \in Hosts \ {h}: phase'[g] = phase[g]
  BY <1>1 DEF HostsTyped, Phases
<1>7. ASSUME NEW g \in Hosts PROVE \E p \in Nat: Block(g, p)'
  <2>1. PICK p \in Nat: Block(g, p)
    BY <1>1 DEF ScreenKept
  <2>2. printing' # g
    BY <1>1, FanIsAssumed DEF N!FanOutAssumption, N!Nobody
  <2>3. Block(g, p)'
    BY <1>1, <1>4, <2>1, <2>2 DEF Block
  <2> QED
    BY <2>3
<1>8. ScreenKept'
  <2>1. ASSUME NEW g \in Hosts
        PROVE  /\ told'[g] > 0 => phase'[g] \in {"done", "cut"} \/ printing' = g
               /\ phase'[g] = "done" => told'[g] = Len(Report(g)')
               /\ told'[g] <= Len(Report(g)')
    <3>1. CASE g = h
      BY <1>1, <1>4, <1>5, <1>6, <3>1 DEF ScreenKept
    <3>2. CASE g # h
      BY <1>1, <1>4, <1>6, <3>2 DEF ScreenKept
    <3> QED
      BY <3>1, <3>2
  <2> QED
    BY <1>1, <1>7, <2>1 DEF ScreenKept
<1>9. HostsTyped'
  BY <1>1, <1>6 DEF HostsTyped, N!given, N!password, N!history
<1>10. PasswordKept'
  BY <1>1, <1>2, <1>6 DEF PasswordKept, N!password, N!history
<1>11. ResultsKept'
  BY <1>1, <1>2, <1>6 DEF ResultsKept, N!history
<1> QED
  BY <1>3, <1>8, <1>9, <1>10, <1>11 DEF HostsInv

(* A host that is interrupted lets go of the locks; what it has written    *)
(* stays, and it writes no more.                                           *)
LEMMA InterruptedKept ==
  ASSUME HostsInv, NEW h \in named, N!Interrupted(h)
  PROVE  HostsInv'
<1>1. /\ HostsTyped /\ PasswordKept /\ ResultsKept /\ ScreenKept /\ ExitKept /\ h \in Hosts
      /\ phase[h] \notin {"waiting", "done", "cut"} /\ phase' = [phase EXCEPT ![h] = "cut"]
      /\ asking' = (IF asking = h THEN N!Nobody ELSE asking)
      /\ printing' = (IF printing = h THEN N!Nobody ELSE printing)
      /\ prompts' = (IF phase[h] = "prompt" THEN 0 ELSE prompts)
      /\ interrupt' \in {"raised", interrupt} /\ interrupt' # "none"
      /\ UNCHANGED <<N!given, code, asks, asked, told, screen, exit, answers, ended, lost>>
  BY DEF HostsInv, HostsTyped, N!Interrupted, N!Running, N!In, N!To
<1>2. /\ phase' \in [Hosts -> Phases] /\ phase'[h] = "cut"
      /\ \A g \in Hosts \ {h}: phase'[g] = phase[g]
  BY <1>1 DEF HostsTyped, Phases
<1>3. HostsTyped'
  BY <1>1, <1>2 DEF HostsTyped, N!given
<1>4. PasswordKept'
  <2>1. \A g \in Hosts \ {h}: phase[g] \in {"prompt", "answered"} => asking' = g
    BY <1>1 DEF PasswordKept
  <2>2. \A g \in Hosts \ {h}: phase[g] = "prompt" => prompts' = 1
    BY <1>1 DEF PasswordKept
  <2>3. (\A g \in Hosts: phase'[g] # "prompt") => prompts' = 0
    <3>1. CASE phase[h] = "prompt"
      BY <1>1, <3>1
    <3>2. CASE phase[h] # "prompt"
      BY <1>1, <1>2, <3>2 DEF PasswordKept
    <3> QED
      BY <3>1, <3>2
  <2> QED
    BY <1>1, <1>2, <2>1, <2>2, <2>3 DEF PasswordKept
<1>5. ResultsKept'
  BY <1>1, <1>2 DEF ResultsKept
<1>6. \A g \in Hosts: Report(g)' = Report(g)
  BY <1>1 DEF Report, N!Several, N!given
<1>7. ScreenKept'
  <2>1. printing' # N!Nobody => printing' = printing /\ printing # h
    BY <1>1
  <2>2. printing' # N!Nobody => phase'[printing'] \in {"failed", "worked"}
    BY <1>1, <1>2, <2>1 DEF ScreenKept, HostsTyped
  <2>3. ASSUME NEW g \in Hosts
        PROVE  /\ told'[g] > 0 => phase'[g] \in {"done", "cut"} \/ printing' = g
               /\ phase'[g] = "done" => told'[g] = Len(Report(g)')
               /\ told'[g] <= Len(Report(g)')
    <3>1. CASE g = h
      BY <1>1, <1>2, <1>6, <3>1 DEF ScreenKept
    <3>2. CASE g # h
      BY <1>1, <1>2, <1>6, <3>2 DEF ScreenKept
    <3> QED
      BY <3>1, <3>2
  <2>4. ASSUME NEW g \in Hosts PROVE \E p \in Nat: Block(g, p)'
    <3>1. PICK p \in Nat: Block(g, p)
      BY <1>1 DEF ScreenKept
    <3>2. printing' = g => printing = g
      BY <1>1, FanIsAssumed DEF N!FanOutAssumption, N!Nobody
    <3>3. Block(g, p)'
      BY <1>1, <1>6, <3>1, <3>2 DEF Block
    <3> QED
      BY <3>3
  <2> QED
    BY <2>2, <2>3, <2>4 DEF ScreenKept
<1>8. ExitKept'
  <2>1. \E g \in named': phase'[g] = "cut"
    BY <1>1, <1>2 DEF N!given
  <2>2. \A e \in exit: e = 130 /\ interrupt = "cancelled"
    BY <1>1 DEF ExitKept
  <2>3. \A e \in exit': e = 130 /\ interrupt' = "cancelled"
    <3>1. interrupt = "cancelled" => interrupt' = "cancelled"
      BY DEF N!Interrupted
    <3> QED
      BY <1>1, <2>2, <3>1
  <2> QED
    BY <2>1, <2>3 DEF ExitKept
<1> QED
  BY <1>3, <1>4, <1>5, <1>7, <1>8 DEF HostsInv

(* What a step that touches no host keeps.                                 *)
LEMMA HostsSpared ==
  ASSUME HostsInv,
         UNCHANGED <<N!given, phase, code, N!password, printing, told, screen, N!history>>
  PROVE  PasswordKept' /\ ResultsKept' /\ ScreenKept'
<1>1. HostsTyped /\ PasswordKept /\ ResultsKept /\ ScreenKept
  BY DEF HostsInv
<1>2. PasswordKept' /\ ResultsKept'
  BY <1>1 DEF PasswordKept, ResultsKept, N!password, N!history
<1>3. \A h \in Hosts: Report(h)' = Report(h)
  BY DEF Report, N!Several, N!given, N!history
<1>4. ASSUME NEW h \in Hosts, NEW p \in Nat, Block(h, p) PROVE Block(h, p)'
  BY <1>3, <1>4 DEF Block
<1>5. ScreenKept'
  BY <1>1, <1>3, <1>4 DEF ScreenKept
<1> QED
  BY <1>2, <1>5

LEMMA CancelledKept ==
  ASSUME HostsInv, N!Cancelled
  PROVE  HostsInv'
<1>1. /\ HostsTyped /\ ExitKept /\ exit = {} /\ interrupt' = "cancelled"
      /\ N!Several \/ interrupt = "raised"
      /\ UNCHANGED <<N!given, phase, code, N!password, printing, told, screen, exit, N!history>>
  BY DEF HostsInv, N!Cancelled
<1>2. HostsTyped'
  BY <1>1 DEF HostsTyped, N!given, N!password, N!history
<1>3. ExitKept'
  BY <1>1 DEF ExitKept, N!Several, N!given
<1> QED
  BY <1>1, <1>2, <1>3, HostsSpared DEF HostsInv

LEMMA ExitStep ==
  ASSUME HostsInv, N!Exit
  PROVE  HostsInv'
<1>1. /\ HostsTyped /\ ExitKept
      /\ UNCHANGED <<N!given, phase, code, N!password, printing, told, screen, interrupt, N!history>>
  BY DEF HostsInv, N!Exit
<1>2. PICK c: /\ exit' = {c}
              /\ \/ /\ \A h \in named: phase[h] = "done"
                    /\ c \in N!Worst({code[h]: h \in named})
                 \/ c = 130 /\ interrupt = "cancelled"
  BY DEF N!Exit, N!In
<1>3. CASE c = 130 /\ interrupt = "cancelled"
  <2>1. HostsTyped'
    BY <1>1, <1>2, <1>3 DEF HostsTyped, N!given, N!password, N!history
  <2>2. ExitKept'
    BY <1>1, <1>2, <1>3 DEF ExitKept, N!Several, N!given
  <2> QED
    BY <1>1, <2>1, <2>2, HostsSpared DEF HostsInv
<1>4. CASE (\A h \in named: phase[h] = "done") /\ c \in N!Worst({code[h]: h \in named})
  <2>1. c \in {code[h]: h \in named} /\ \A h \in named: N!Least(code[h], c)
    BY <1>4 DEF N!Worst
  <2>2. c \in Int
    BY <1>1, <2>1 DEF HostsTyped
  <2>3. HostsTyped'
    BY <1>1, <1>2, <2>2 DEF HostsTyped, N!given, N!password, N!history
  <2>4. \A h \in named': phase'[h] = "done"
    BY <1>1, <1>4 DEF N!given
  <2>5. c \in {code[h]: h \in named}' /\ \A h \in named': N!Least(code'[h], c)
    BY <1>1, <2>1 DEF N!given, N!Least, N!Rank
  <2>6. interrupt' # "none" => N!Several' \/ \E h \in named': phase'[h] = "cut"
    BY <1>1 DEF ExitKept, N!Several, N!given
  <2>7. ExitKept'
    BY <1>1, <1>2, <2>4, <2>5, <2>6 DEF ExitKept, N!Least, N!Rank
  <2> QED
    BY <1>1, <2>3, <2>7, HostsSpared DEF HostsInv
<1> QED
  BY <1>2, <1>3, <1>4

LEMMA HostsSteps == HostsInv /\ [N!Next]_N!vars => HostsInv'
<1> SUFFICES ASSUME HostsInv, [N!Next]_N!vars PROVE HostsInv'
  OBVIOUS
<1>1. CASE UNCHANGED N!vars
  <2>1. UNCHANGED <<N!given, phase, code, N!password, N!report, N!history>>
    BY <1>1 DEF N!vars
  <2>2. HostsTyped'
    BY <2>1 DEF HostsInv, HostsTyped, N!given, N!password, N!report, N!history
  <2>3. ExitKept'
    BY <2>1 DEF HostsInv, ExitKept, N!Several, N!given, N!report
  <2> QED
    BY <2>1, <2>2, <2>3, HostsSpared DEF HostsInv, N!report
<1>2. ASSUME NEW h \in named, N!Step(h) PROVE HostsInv'
  BY <1>2, BeginKept, CallKept, NoTerminalKept, PromptKept, AnswerKept, NoAnswerKept,
     AnsweredKept, ConnectedKept, RefusedKept, WorkKept, CloseKept, TakeKept, WriteKept,
     LeaveKept, InterruptedKept DEF N!Step
<1>3. CASE N!Exit
  BY <1>3, ExitStep
<1>4. CASE N!Cancelled
  BY <1>4, CancelledKept
<1> QED
  BY <1>1, <1>2, <1>3, <1>4 DEF N!Next

(* No two of a report's records are the same.                              *)
LEMMA ReportOnce ==
  ASSUME NEW h, NEW m \in 1 .. Len(Report(h)), NEW n \in 1 .. Len(Report(h)),
         Report(h)[m] = Report(h)[n]
  PROVE  m = n
<1>1. (h \in ended \ lost) \in BOOLEAN /\ (N!Several /\ code[h] # 0) \in BOOLEAN
  OBVIOUS
<1> DEFINE output == h \in ended \ lost
           status == N!Several /\ code[h] # 0
<1>2. Report(h) = IF output THEN IF status THEN <<"stdout", "stderr", "status">>
                                 ELSE <<"stdout", "stderr">>
                  ELSE IF status THEN <<"status">> ELSE <<>>
  BY <1>1, ListedIs DEF Report
<1> HIDE DEF output, status
<1> QED
  BY <1>2

LEMMA ReportHas ==
  ASSUME NEW h
  PROVE  /\ (\E m \in 1 .. Len(Report(h)): Report(h)[m] = "stdout") <=> h \in ended \ lost
         /\ (\E m \in 1 .. Len(Report(h)): Report(h)[m] = "stderr") <=> h \in ended \ lost
         /\ (\E m \in 1 .. Len(Report(h)): Report(h)[m] = "status") <=> N!Several /\ code[h] # 0
<1>1. (h \in ended \ lost) \in BOOLEAN /\ (N!Several /\ code[h] # 0) \in BOOLEAN
  OBVIOUS
<1> DEFINE output == h \in ended \ lost
           status == N!Several /\ code[h] # 0
<1>2. Report(h) = IF output THEN IF status THEN <<"stdout", "stderr", "status">>
                                 ELSE <<"stdout", "stderr">>
                  ELSE IF status THEN <<"status">> ELSE <<>>
  BY <1>1, ListedIs DEF Report
<1>3. output \in BOOLEAN /\ status \in BOOLEAN
  OBVIOUS
<1> HIDE DEF output, status
<1>4. /\ (\E m \in 1 .. Len(Report(h)): Report(h)[m] = "stdout") <=> output
      /\ (\E m \in 1 .. Len(Report(h)): Report(h)[m] = "stderr") <=> output
      /\ (\E m \in 1 .. Len(Report(h)): Report(h)[m] = "status") <=> status
  BY <1>2, <1>3
<1> QED
  BY <1>4 DEF output, status

LEMMA RecordsStandWhole == HostsInv => N!RecordsWhole
<1> SUFFICES ASSUME HostsInv PROVE N!RecordsWhole
  OBVIOUS
<1>1. HostsTyped /\ ScreenKept /\ ResultsKept
  BY DEF HostsInv
<1>2. \A i \in 1 .. Len(screen): screen[i] \in Hosts \X Lines
  BY <1>1 DEF HostsTyped
<1>3. ASSUME NEW i \in 1 .. Len(screen), NEW j \in 1 .. Len(screen), NEW k \in 1 .. Len(screen),
             i < j /\ j < k /\ screen[i][1] = screen[k][1]
      PROVE  screen[j][1] = screen[i][1]
  <2>1. screen[i][1] \in Hosts
    BY <1>2
  <2>2. PICK p \in Nat: Block(screen[i][1], p)
    BY <1>1, <2>1 DEF ScreenKept
  <2>3. told[screen[i][1]] \in Nat
    BY <1>1, <2>1 DEF HostsTyped
  <2>4. p < i /\ k <= p + told[screen[i][1]]
    BY <1>3, <2>2 DEF Block
  <2>5. p < j /\ j <= p + told[screen[i][1]]
    BY <1>3, <2>3, <2>4
  <2> QED
    BY <2>2, <2>5 DEF Block
<1>4. ASSUME NEW i \in 1 .. Len(screen), NEW j \in 1 .. Len(screen), screen[i] = screen[j]
      PROVE  i = j
  <2>1. PICK h \in Hosts: screen[i][1] = h /\ screen[j][1] = h
    BY <1>2, <1>4
  <2>2. PICK p \in Nat: Block(h, p)
    BY <1>1 DEF ScreenKept
  <2>3. told[h] \in Nat /\ told[h] <= Len(Report(h)) /\ Len(Report(h)) \in Nat
    BY <1>1, ReportIs DEF ScreenKept, HostsTyped
  <2>4. i - p \in 1 .. told[h] /\ j - p \in 1 .. told[h]
    <3>1. p < i /\ i <= p + told[h] /\ p < j /\ j <= p + told[h]
      BY <2>1, <2>2 DEF Block
    <3> QED
      BY <2>3, <3>1
  <2>5. /\ screen[p + (i - p)] = <<h, Report(h)[i - p]>>
        /\ screen[p + (j - p)] = <<h, Report(h)[j - p]>>
    BY <2>2, <2>4 DEF Block
  <2>6. p + (i - p) = i /\ p + (j - p) = j
    OBVIOUS
  <2>7. Report(h)[i - p] = Report(h)[j - p]
    BY <1>4, <2>5, <2>6
  <2>8. i - p = j - p
    BY <2>3, <2>4, <2>7, ReportOnce
  <2> QED
    BY <2>8
<1>5. ASSUME NEW h \in named, N!In(h, "done")
      PROVE  /\ \A what: N!Told(h, what) <=> \E m \in 1 .. Len(Report(h)): Report(h)[m] = what
             /\ h \in lost => code[h] \in Failures
  <2>1. h \in Hosts /\ told[h] = Len(Report(h)) /\ Len(Report(h)) \in Nat
    BY <1>1, <1>5, ReportIs DEF ScreenKept, HostsTyped, N!In
  <2>2. PICK p \in Nat: Block(h, p)
    BY <1>1, <2>1 DEF ScreenKept
  <2>3. ASSUME NEW what, NEW i \in 1 .. Len(screen), screen[i] = <<h, what>>
        PROVE  \E m \in 1 .. Len(Report(h)): Report(h)[m] = what
    <3>1. screen[i][1] = h
      BY <2>3
    <3>2. i - p \in 1 .. told[h]
      BY <2>1, <2>2, <3>1 DEF Block
    <3>3. screen[p + (i - p)] = <<h, Report(h)[i - p]>> /\ p + (i - p) = i
      BY <2>2, <3>2 DEF Block
    <3>4. Report(h)[i - p] = what
      BY <2>3, <3>3
    <3> QED
      BY <2>1, <3>2, <3>4
  <2>4. ASSUME NEW what, NEW m \in 1 .. Len(Report(h)), Report(h)[m] = what
        PROVE  \E i \in 1 .. Len(screen): screen[i] = <<h, what>>
    <3>1. screen[p + m] = <<h, what>>
      BY <2>1, <2>2, <2>4 DEF Block
    <3>2. p + m \in 1 .. Len(screen)
      <4>1. Len(screen) \in Nat /\ p + told[h] <= Len(screen)
        BY <1>1, <2>2 DEF Block, HostsTyped
      <4> QED
        BY <2>1, <4>1
    <3> QED
      BY <3>1, <3>2
  <2>5. h \in lost => code[h] \in Failures
    BY <1>1, <2>1 DEF ResultsKept
  <2> QED
    BY <2>3, <2>4, <2>5 DEF N!Told
<1>6. ASSUME NEW h \in named, N!In(h, "done")
      PROVE  /\ N!Told(h, "stdout") <=> h \in ended \ lost
             /\ N!Told(h, "stderr") <=> h \in ended \ lost
             /\ N!Told(h, "status") <=> N!Several /\ code[h] # 0
             /\ h \in lost => code[h] \in Failures
  BY <1>5, <1>6, ReportHas
<1> QED
  BY <1>3, <1>4, <1>6 DEF N!RecordsWhole

LEMMA PasswordAskedOnce == HostsInv => N!AskedOnce
<1> SUFFICES ASSUME HostsInv PROVE N!AskedOnce
  OBVIOUS
<1>1. HostsTyped /\ PasswordKept
  BY DEF HostsInv
<1>2. prompts <= 1 /\ answers <= 1
  BY <1>1 DEF PasswordKept, HostsTyped
<1>3. \A g, h \in named: N!In(g, "prompt") /\ N!In(h, "prompt") => g = h
  BY <1>1 DEF PasswordKept, HostsTyped, N!In
<1>4. \A h \in named: N!In(h, "work") /\ asks[h] > 0 => answers = 1
  BY <1>1 DEF PasswordKept, HostsTyped, N!In
<1> QED
  BY <1>2, <1>3, <1>4 DEF N!AskedOnce

LEMMA ExitsAsWorst == HostsInv => N!ExitIsWorst
<1> SUFFICES ASSUME HostsInv, NEW e \in exit
             PROVE  LET codes == {code[h]: h \in named}
                    IN  \/ /\ e = 130
                           /\ N!Several \/ \E h \in named: N!In(h, "cut") \/ code[h] = 130
                        \/ /\ \A h \in named: N!In(h, "done")
                           /\ e \in codes /\ 130 \notin codes
                           /\ codes \cap {125, 126, 127} # {} => e \in {125, 126, 127}
                           /\ e = 0 => codes = {0}
  BY DEF N!ExitIsWorst
<1> DEFINE codes == {code[h]: h \in named}
<1>1. HostsTyped /\ ExitKept
  BY DEF HostsInv
<1>2. CASE e = 130 /\ interrupt = "cancelled"
  BY <1>1, <1>2 DEF ExitKept, N!In
<1>3. CASE /\ \A h \in named: phase[h] = "done"
           /\ e \in codes
           /\ \A d \in codes: N!Least(d, e)
  <2>1. codes \subseteq Int
    BY <1>1 DEF HostsTyped
  <2>2. \A d \in codes: /\ d = 130 => e = 130
                        /\ d \in {125, 126, 127} => e = 130 \/ e \in {125, 126, 127}
                        /\ e = 0 => d = 0
    BY <1>3, <2>1 DEF N!Least, N!Rank
  <2>3. 130 \in codes => \E h \in named: code[h] = 130
    OBVIOUS
  <2> QED
    BY <1>3, <2>2, <2>3 DEF N!In
<1> QED
  BY <1>1, <1>2, <1>3 DEF ExitKept

LEMMA HostsFannedOut == HostsInv => N!FannedOut
  BY RecordsStandWhole, PasswordAskedOnce, ExitsAsWorst DEF N!FannedOut

(* However many hosts there are and run at once: the screen holds each     *)
(* one's records together and once, one of them at a time asks for the     *)
(* password and it is answered once, and the command exits as the worst.   *)
THEOREM HostsAreFannedOut == Run => []FannedOut
<1>1. RunInit => HostsInv
  BY HostsStart, FanIsAssumed DEF RunInit
<1>2. HostsInv /\ [RunNext]_all => HostsInv'
  <2> SUFFICES ASSUME HostsInv, [RunNext]_all PROVE HostsInv'
    OBVIOUS
  <2>1. [N!Next]_(N!vars)
    BY DEF RunNext, all, hosts, N!vars, N!given, N!password, N!report, N!history
  <2> QED
    BY <2>1, HostsSteps
<1>3. HostsInv => FannedOut
  BY HostsFannedOut DEF FannedOut
<1> QED
  BY <1>1, <1>2, <1>3, PTL DEF Run
=============================================================================
