----------------------------- MODULE RemoteFiles -----------------------------
(***************************************************************************)
(* The whole-file backends of the paths: `WinRMPathBackend` (PowerShell    *)
(* scripts), `ContainerPathBackend` (the engine's archive API) and         *)
(* `QGAPathBackend` (the guest agent's file commands and its helper).      *)
(* Several calls read and write one path while another program changes it. *)
(* What is sent may be done, refused, done with its answer lost, or done   *)
(* after the caller has given up.                                          *)
(***************************************************************************)
EXTENDS Integers, Sequences, FiniteSets

CONSTANTS Kinds,       \* of "winrm", "archive" and "qga"
          Calls,       \* the calls, which are numbers from 1
          Parts,       \* how many pieces a value is sent in
          MaxOutside   \* bound: changes made by the other program

(* What is taken for granted of the constants. *)
FilesAssumption ==
    /\ Kinds \subseteq {"winrm", "archive", "qga"}
    /\ Calls \subseteq Nat \ {0} /\ Parts \in Nat \ {0} /\ MaxOutside \in Nat

Target == 0                    \* the path; the temporary of call n is n
Names == Calls \cup {Target}
Other == -1                    \* the other program, as a writer

(* An entry: a file has the pieces it holds (0: missing), who made it, and *)
(* its owner.                                                              *)
None == [type |-> "none"]
Dir == [type |-> "dir"]
File(pieces, by, owner) == [type |-> "file", pieces |-> pieces, by |-> by, owner |-> owner]
Whole(w) == [i \in 1 .. Parts |-> w]
Empty == Whole(0)
IsFile(e) == e.type = "file"

VARIABLES kind,        \* which backend the path has
          fs,          \* the entry under each name
          call,        \* what each call is doing
          late,        \* what was sent and may be done yet
          handles,     \* the open handles of the guest agent, by their call
          outside      \* how often the other program changed the path

(* History, which no guard reads. *)
VARIABLES landed,      \* the calls whose whole value was at the path
          overtaken,   \* the calls since whose look at the path it was changed
          unclean,     \* what a call may leave behind, and why it may
          orphaned     \* the calls whose handle nobody was told of

world == <<fs, late, handles>>
history == <<landed, overtaken, unclean, orphaned>>
vars == <<kind, world, call, outside, history>>

Idle == [op |-> "none", at |-> "idle", part |-> 1, ino |-> 0, inherit |-> "root", got |-> Empty,
         end |-> "none"]

Init ==
    /\ kind \in Kinds
    /\ fs \in [Names -> {None, Dir, File(Whole(Other), Other, "app")}]
    /\ \A n \in Calls: fs[n] = None
    /\ call = [n \in Calls |-> Idle]
    /\ late = {} /\ handles = {} /\ outside = 0
    /\ landed = {} /\ overtaken = {} /\ unclean = {} /\ orphaned = {}

-----------------------------------------------------------------------------
(* The requests, each done as one step at the far end.  A result that is   *)
(* not "ok" is the error that the script or the engine answers.            *)
Fine(f) == [fs |-> f, result |-> "ok"]
Err == [fs |-> fs, result |-> "error"]

(* `FileMode.CreateNew`, and `FileMode.Append`, which makes what is not    *)
(* there.                                                                  *)
CreateTemporary(n) == IF fs[n] = None THEN Fine([fs EXCEPT ![n] = File(Empty, n, "root")]) ELSE Err
AppendPiece(n, i) ==
    LET e == IF fs[n] = None THEN File(Empty, n, "root") ELSE fs[n]
    IN  Fine([fs EXCEPT ![n] = [e EXCEPT !.pieces[i] = n]])

(* The last script of a write moves the temporary over the path.  Replace  *)
(* keeps the owner of what it replaces.                                    *)
Replaced(n) == Fine([fs EXCEPT ![Target] = [fs[n] EXCEPT !.owner = fs[Target].owner], ![n] = None])
Renamed(n) == Fine([fs EXCEPT ![Target] = fs[n], ![n] = None])

ReplaceAlways(n) ==     \* Mutant: an exclusive write commits as another does.
    IF fs[n] = None THEN Err
    ELSE CASE IsFile(fs[Target]) -> Replaced(n)
           [] fs[Target] = None -> Renamed(n)
           [] OTHER -> Err
Commit(n) ==
    IF fs[n] = None THEN Err
    ELSE CASE IsFile(fs[Target]) /\ call[n].op = "write" -> Replaced(n)
           [] fs[Target] = None -> Renamed(n)
           [] OTHER -> Err

Unlink(n) == Fine([fs EXCEPT ![n] = None])

(* `put_archive`: the engine's untar replaces whatever is there.  What it  *)
(* extracts is there before all of it is.                                  *)
Put(n) == Fine([fs EXCEPT ![Target] = File(Empty, n, call[n].inherit)])
Extract(n) ==
    IF IsFile(fs[Target]) /\ fs[Target].by = n
    THEN Fine([fs EXCEPT ![Target].pieces = Whole(n)]) ELSE Fine(fs)

(* `guest-file-open` for writing truncates; a handle goes on meaning the   *)
(* file that was opened.                                                   *)
OpenFor(n, name) ==
    CASE fs[name] = None -> Fine([fs EXCEPT ![name] = File(Empty, n, "root")])
      [] IsFile(fs[name]) -> Fine([fs EXCEPT ![name].pieces = Empty])
      [] OTHER -> Err
WritePiece(n, name, i) ==
    IF IsFile(fs[name]) /\ fs[name].by = call[n].ino
    THEN Fine([fs EXCEPT ![name].pieces[i] = n]) ELSE Fine(fs)

(* `mv -T -n`, which says nothing of whether it moved, and the `stat` of   *)
(* the temporary that tells.                                               *)
MoveNoReplace(n) ==
    IF fs[Target] = None /\ fs[n] # None THEN Renamed(n) ELSE Fine(fs)
StatTemporary(n) == IF fs[n] = None THEN Fine(fs) ELSE Err

-----------------------------------------------------------------------------
At(n, pc) == call[n].at = pc
Goes(n, pc) == call' = [call EXCEPT ![n].at = pc]
Ends(n, how) == call' = [call EXCEPT ![n].at = "ended", ![n].end = how]

(* A change of the path overtakes the calls that have looked at it, those  *)
(* included whose request is still to be done.                             *)
Looked(n) ==
    \/ call[n].at \in {"put", "extract", "write"}
    \/ call[n].at = "ranges" /\ call[n].part > 1
    \/ \E r \in late: r.n = n
Overtakes(who) ==
    overtaken' = IF fs'[Target] = fs[Target] THEN overtaken
                 ELSE overtaken \cup {n \in Calls \ {who}: Looked(n)}
Lands == landed' = landed \cup
             {n \in Calls: IsFile(fs'[Target]) /\ fs'[Target].pieces = Whole(n)}

(* A request of call n: it goes to `next` when it was done, to `fail` when *)
(* it was not, or when nobody knows.  `request` may be done after that.    *)
Sends(n, effect, request, next, fail) ==
    \/ /\ effect.result = "ok" /\ fs' = effect.fs
       /\ next
       /\ UNCHANGED <<late, unclean>>
    \/ /\ fs' = effect.fs /\ fail
       /\ UNCHANGED <<late, unclean>>
    \/ /\ UNCHANGED fs /\ fail
       /\ late' = late \cup {request}
       /\ unclean' = unclean \cup {<<n, "temporary">>}
    \/ /\ UNCHANGED <<fs, late>> /\ fail
       /\ unclean' = IF request.do = "unlink" THEN unclean \cup {<<n, "temporary">>} ELSE unclean

Request(n, do, part) == [n |-> n, do |-> do, part |-> part]

Effect(r) ==
    CASE r.do = "create" -> CreateTemporary(r.n)
      [] r.do = "append" -> AppendPiece(r.n, r.part)
      [] r.do = "commit" -> Commit(r.n)
      [] r.do = "unlink" -> Unlink(r.n)
      [] r.do = "put" -> Put(r.n)
      [] r.do = "extract" -> Extract(r.n)
      [] r.do = "open" -> OpenFor(r.n, IF call[r.n].op = "create" THEN r.n ELSE Target)
      [] r.do = "write" -> WritePiece(r.n, IF call[r.n].op = "create" THEN r.n ELSE Target, r.part)
      [] r.do = "move" -> MoveNoReplace(r.n)
      [] r.do = "check" -> StatTemporary(r.n)

Asks(n, do, next, fail) ==
    Sends(n, Effect(Request(n, do, call[n].part)), Request(n, do, call[n].part), next, fail)

FirstStep(op) ==
    CASE kind = "winrm" -> "create"
      [] kind = "archive" -> IF op = "create" THEN "stat" ELSE "inherit"
      [] kind = "qga" -> "open"

Begin(n, op) ==
    /\ At(n, "idle")
    /\ op = "ranges" => kind = "winrm"
    /\ op = "read" => kind # "qga"
    /\ call' = [call EXCEPT ![n] =
           [Idle EXCEPT !.op = op, !.at = IF op \in {"read", "ranges"} THEN op ELSE FirstStep(op)]]
    /\ UNCHANGED <<kind, world, outside, history>>

NextPieceShort(n, pc) ==    \* Mutant: the last piece is not waited for.
    call' = [call EXCEPT ![n].at = IF call[n].part >= Parts - 1 THEN pc ELSE @,
                         ![n].part = IF @ = Parts THEN @ ELSE @ + 1]
NextPieceBeyond(n, pc) ==   \* Mutant: it counts one too many.
    call' = [call EXCEPT ![n].at = IF call[n].part > Parts THEN pc ELSE @,
                         ![n].part = IF @ > Parts THEN @ ELSE @ + 1]
NextPiece(n, pc) ==
    call' = [call EXCEPT ![n].at = IF call[n].part = Parts THEN pc ELSE @,
                         ![n].part = IF @ = Parts THEN @ ELSE @ + 1]

(* WinRM: a new temporary, its pieces, and the script that commits.  What  *)
(* fails leaves by way of `unlink`, whose own failure is then the error.   *)
SkipsUnlink(n) == Ends(n, "failed")      \* Mutant: no `except`.
Aborts(n) == Goes(n, "unlink")

WinRMWrite(n) ==
    /\ kind = "winrm"
    /\ \/ At(n, "create") /\ Asks(n, "create", Goes(n, "append"), Aborts(n))
       \/ At(n, "append") /\ Asks(n, "append", NextPiece(n, "commit"), Aborts(n))
       \/ At(n, "commit") /\ Asks(n, "commit", Ends(n, "done"), Aborts(n))
       \/ At(n, "unlink") /\ Asks(n, "unlink", Ends(n, "failed"), Ends(n, "failed"))
    /\ Overtakes(n) /\ Lands
    /\ UNCHANGED <<kind, handles, orphaned, outside>>

(* The archive API: an exclusive write looks first and then puts; another  *)
(* takes the mode and owner of what it replaces, and refuses a directory.  *)
Stat(n) ==
    /\ kind = "archive" /\ At(n, "stat")
    /\ \/ fs[Target] = None /\ Goes(n, "put")
       \/ Ends(n, "failed")
    /\ UNCHANGED <<kind, world, outside, history>>

DefaultOwner(e) == "root"      \* Mutant: the header is not filled in.
InheritedOwner(e) == IF IsFile(e) THEN e.owner ELSE "root"
RefusesNothing(e) == FALSE     \* Mutant: a directory is replaced.
Refused(e) == e = Dir

Inherit(n) ==
    /\ kind = "archive" /\ At(n, "inherit")
    /\ \/ /\ ~Refused(fs[Target])
          /\ call' = [call EXCEPT ![n].at = "put", ![n].inherit = InheritedOwner(fs[Target])]
       \/ Ends(n, "failed")
    /\ UNCHANGED <<kind, world, outside, history>>

ArchivePut(n) ==
    /\ kind = "archive"
    /\ \/ At(n, "put") /\ Asks(n, "put", Goes(n, "extract"), Ends(n, "failed"))
       \/ At(n, "extract") /\ Asks(n, "extract", Ends(n, "done"), Ends(n, "failed"))
    /\ Overtakes(n) /\ Lands
    /\ UNCHANGED <<kind, handles, orphaned, outside>>

(* The guest agent: in place, through a handle that is closed whatever     *)
(* happened; exclusively, into a temporary that the helper renames.        *)
HandleName(n) == IF call[n].op = "create" THEN n ELSE Target

Opens(n, told) ==
    /\ handles' = handles \cup {n}
    /\ orphaned' = IF told THEN orphaned ELSE orphaned \cup {n}

GuestOpen(n) ==
    /\ kind = "qga" /\ At(n, "open")
    /\ Asks(n, "open",
            call' = [call EXCEPT ![n].at = "write", ![n].ino = fs'[HandleName(n)].by],
            IF call[n].op = "create" THEN Aborts(n) ELSE Ends(n, "failed"))
    /\ LET effect == OpenFor(n, HandleName(n))
       IN  \/ call'[n].at = "write" /\ Opens(n, TRUE)
           \/ /\ call'[n].at # "write"      \* The answer is lost, and the handle with it.
              /\ effect.result = "ok" /\ fs' = effect.fs /\ late' = late
              /\ Opens(n, FALSE)
           \/ call'[n].at # "write" /\ fs' = fs /\ UNCHANGED <<handles, orphaned>>
    /\ Overtakes(n) /\ Lands
    /\ UNCHANGED <<kind, outside>>

GuestWrite(n) ==
    /\ kind = "qga" /\ At(n, "write")
    /\ Asks(n, "write", NextPiece(n, "close"), call' = [call EXCEPT ![n].at = "close", ![n].end = "failed"])
    /\ Overtakes(n) /\ Lands
    /\ UNCHANGED <<kind, handles, orphaned, outside>>

ForgetsHandle(n) == FALSE      \* Mutant: it is not closed after an error.
Closes(n) == TRUE

GuestClose(n) ==
    /\ kind = "qga" /\ At(n, "close")
    /\ \E closed \in BOOLEAN:
       /\ handles' = (IF closed /\ (call[n].end = "none" \/ Closes(n)) THEN handles \ {n} ELSE handles)
       /\ unclean' = (IF closed THEN unclean ELSE unclean \cup {<<n, "handle">>})
       /\ IF closed /\ call[n].end = "none"
          THEN IF call[n].op = "write" THEN Ends(n, "done") ELSE Goes(n, "move")
          ELSE IF call[n].op = "write" THEN Ends(n, "failed") ELSE Aborts(n)
    /\ UNCHANGED <<kind, fs, late, outside, landed, overtaken, orphaned>>

GuestMove(n) ==
    /\ kind = "qga"
    /\ \/ At(n, "move") /\ Asks(n, "move", Goes(n, "check"), Aborts(n))
       \/ At(n, "check") /\ Asks(n, "check", Ends(n, "done"), Aborts(n))
       \/ At(n, "unlink") /\ Asks(n, "unlink", Ends(n, "failed"), Ends(n, "failed"))
    /\ Overtakes(n) /\ Lands
    /\ UNCHANGED <<kind, handles, orphaned, outside>>

-----------------------------------------------------------------------------
(* Reading: WinRM reads the rest of a file in one script, and a bounded    *)
(* read in a script per range; the engine streams what it found.  (The     *)
(* guest agent's reads are in GuestAgent.)                                 *)
Got(n, pieces) == call' = [call EXCEPT ![n].at = "ended", ![n].end = "done", ![n].got = pieces]

ReadAll(n) ==
    /\ At(n, "read")
    /\ \/ IsFile(fs[Target]) /\ Got(n, fs[Target].pieces)
       \/ Ends(n, "failed")
    /\ UNCHANGED <<kind, world, outside, history>>

ReadPiece(n) ==
    /\ At(n, "ranges")
    /\ \/ /\ IsFile(fs[Target])
          /\ LET pieces == [call[n].got EXCEPT ![call[n].part] = fs[Target].pieces[call[n].part]]
             IN  IF call[n].part = Parts THEN Got(n, pieces)
                 ELSE call' = [call EXCEPT ![n].got = pieces, ![n].part = @ + 1]
       \/ Ends(n, "failed")
    /\ UNCHANGED <<kind, world, outside, history>>

-----------------------------------------------------------------------------
(* What was given up is done after all.                                    *)
Late ==
    \E r \in late:
        /\ late' = late \ {r}
        /\ fs' = Effect(r).fs
        /\ IF r.do = "open" /\ Effect(r).result = "ok" THEN Opens(r.n, FALSE)
                                                       ELSE UNCHANGED <<handles, orphaned>>
        /\ Overtakes(r.n) /\ Lands
        /\ UNCHANGED <<kind, call, outside, unclean>>

Outside ==
    /\ outside < MaxOutside /\ outside' = outside + 1
    /\ \E e \in {None, Dir, File(Whole(Other), Other, "app")}: e # fs[Target] /\ fs' = [fs EXCEPT ![Target] = e]
    /\ Overtakes(Other)
    /\ UNCHANGED <<kind, late, handles, call, landed, unclean, orphaned>>

Step(n) ==
    \/ WinRMWrite(n) \/ Stat(n) \/ Inherit(n) \/ ArchivePut(n)
    \/ GuestOpen(n) \/ GuestWrite(n) \/ GuestClose(n) \/ GuestMove(n)
    \/ ReadAll(n) \/ ReadPiece(n)

Next ==
    \/ \E n \in Calls: Step(n) \/ \E op \in {"write", "create", "read", "ranges"}: Begin(n, op)
    \/ Late \/ Outside

Spec == Init /\ [][Next]_vars

-----------------------------------------------------------------------------
(* Properties. *)

(* Every variable keeps its kind; a temporary is a file.                   *)
TypeOK ==
    /\ kind \in Kinds /\ outside \in 0 .. MaxOutside
    /\ \A name \in Names: fs[name].type \in {"none", "file"} \/ (name = Target /\ fs[name] = Dir)
    /\ handles \subseteq Calls /\ landed \subseteq Calls /\ overtaken \subseteq Calls
    /\ orphaned \subseteq Calls
    /\ \A r \in late: r.n \in Calls /\ r.part \in 1 .. Parts

WholeValue(pieces) == \E w \in Calls \cup {Other}: pieces = Whole(w)

(* What is staged in a temporary is at the path as a whole or not at all,  *)
(* whatever fails and however late it is done: so for every WinRM write    *)
(* and every exclusive write through the guest's helper.  One script reads *)
(* one writer's value; ranges may not, when they are overtaken.            *)
StagedOnly == kind = "winrm" \/ (kind = "qga" /\ \A n \in Calls: call[n].op # "write")
WholeTarget ==
    /\ StagedOnly /\ IsFile(fs[Target]) => WholeValue(fs[Target].pieces)
    /\ \A n \in Calls:
           /\ kind = "winrm" /\ call[n].op \in {"read", "ranges"}
           /\ call[n].end = "done" /\ n \notin overtaken
           => WholeValue(call[n].got)

(* A write never takes the place of a directory, and an exclusive one of   *)
(* nothing at all; a write keeps the owner of the file it replaces.  The   *)
(* archive API alone looks first and writes then, and may be overtaken.    *)
Replaces(n) == fs'[Target] # fs[Target] /\ IsFile(fs'[Target]) /\ fs'[Target].by = n
                  /\ (fs[Target] = None \/ fs[Target] = Dir \/ fs[Target].by # n)
Spared(n) ==
    /\ fs[Target] # Dir
    /\ call[n].op = "create" => fs[Target] = None
    /\ IsFile(fs[Target]) => fs'[Target].owner = fs[Target].owner
SparesThem ==
    \A n \in Calls: Replaces(n) /\ n \notin overtaken /\ outside' = outside => Spared(n)
Spares == [][SparesThem]_vars

(* A write that reported success put its whole value at the path, unless   *)
(* another changed the path as it was being written.                       *)
Honest ==
    \A n \in Calls: call[n].end = "done" /\ call[n].op \in {"write", "create"} =>
        n \in landed \/ n \in overtaken

(* A call that is over has left no temporary and no open handle, except    *)
(* that one request of its own may be done late, that the removal or the   *)
(* close itself failed, or that the guest opened a file and its answer was *)
(* lost, so that nobody was told which handle to close.                    *)
Tidy ==
    \A n \in Calls: At(n, "ended") =>
        /\ fs[n] # None => <<n, "temporary">> \in unclean
        /\ n \in handles => <<n, "handle">> \in unclean \/ n \in orphaned
=============================================================================
