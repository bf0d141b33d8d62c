----------------------------- MODULE OutputFile -----------------------------
(***************************************************************************)
(* Where replays are saved (output.c, and rsDirectoryCreate of util.c):    *)
(* the name formatted from the time, the directories above it, made where  *)
(* they are missing, and the file, which may exist already.  Recorders     *)
(* save at the same time while others use the same directories.            *)
(***************************************************************************)
EXTENDS Naturals, SequencesExt

CONSTANTS
    Recorders, \* processes that save
    Seconds,   \* local times
    Formats,   \* values of outputFile: the path it gives in each second, as the names
               \* between the slashes
    NoName,    \* the empty name, before the first slash of an absolute path
    MaxSaves   \* bound on the saves

ASSUME FormatAssumption ==
    \A f \in Formats : \A t \in Seconds : f[t] \in Seq(STRING) \ {<<>>, <<NoName>>}
ASSUME NameAssumption == NoName \in STRING
ASSUME BoundAssumption == MaxSaves \in Nat

VARIABLES
    outputFile, \* the format
    now,      \* the local time, which may be set
    entry,    \* what is at the place of each directory
    content,  \* the saves that have written to a file since it was last emptied
    saves,    \* history: the second and the path of each save
    told,     \* history: the saves outputCommand was run for
    pc,       \* where each recorder is
    current,  \* its save
    slash,    \* the slashes its calls of directoryCreate hold
    nul,      \* the slashes that are terminators in its copy of the path
    excused   \* history: a directory was removed or a call refused since its save began

world == <<outputFile, now, entry, content>>
history == <<saves, told>>
vars == <<world, history, pc, current, slash, nul, excused>>

Paths == {outputFile[t] : t \in Seconds}
\* The directories above a path, from the working directory or the root on.
Above(p) == {SubSeq(p, 1, n) : n \in 0..(Len(p) - 1)}
Roots == {<<>>, <<NoName>>}
Directories == (UNION {Above(p) : p \in Paths}) \ Roots

Init ==
    /\ outputFile \in Formats /\ now \in Seconds
    /\ entry = [d \in Directories |-> "none"]
    /\ content = [p \in Paths |-> {}]
    /\ saves = <<>> /\ told = {}
    /\ pc = [r \in Recorders |-> "idle"] /\ current = [r \in Recorders |-> 0]
    /\ slash = [r \in Recorders |-> <<>>] /\ nul = [r \in Recorders |-> {}]
    /\ excused = [r \in Recorders |-> FALSE]

Goto(r, label) == pc' = [pc EXCEPT ![r] = label]
Path(r) == saves[current[r]].path

-----------------------------------------------------------------------------
(* The file system, and those who use it too.                              *)

Is(d, kind) == IF d \in Roots THEN kind = "dir" ELSE entry[d] = kind
Parent(d) == Front(d)

\* A directory or a file is made in the way of the recorders.
OthersMake ==
    \E d \in Directories, kind \in {"dir", "file"} :
        /\ Is(d, "none") /\ Is(Parent(d), "dir")
        /\ entry' = [entry EXCEPT ![d] = kind]
    /\ UNCHANGED <<outputFile, now, content, history, pc, current, slash, nul, excused>>

\* A file or an empty directory is removed.
OthersRemove ==
    \E d \in Directories :
        /\ ~ Is(d, "none")
        /\ \A e \in Directories : d \in Above(e) => Is(e, "none")
        /\ \A p \in Paths : d \in Above(p) => content[p] = {}
        /\ entry' = [entry EXCEPT ![d] = "none"]
        /\ excused' = [r \in Recorders |-> pc[r] # "idle"]
    /\ UNCHANGED <<outputFile, now, content, history, pc, current, slash, nul>>

\* Time passes, the clock is set or summer time ends.
Clock ==
    /\ now' \in Seconds \ {now}
    /\ UNCHANGED <<outputFile, entry, content, history, pc, current, slash, nul, excused>>

-----------------------------------------------------------------------------
(* rsOutputCreate                                                          *)

NameOfHour(t) == outputFile[CHOOSE u \in Seconds : TRUE]  \* mutant: the name has no seconds
NameOf(t) == outputFile[t]

Begin(r) ==
    /\ pc[r] = "idle"
    /\ Len(saves) < MaxSaves
    /\ saves' = Append(saves, [second |-> now, path |-> NameOf(now)])
    /\ current' = [current EXCEPT ![r] = Len(saves')]
    /\ excused' = [excused EXCEPT ![r] = FALSE]
    /\ Goto(r, "call")
    /\ UNCHANGED <<world, told, slash, nul>>

\* The string in the recorder's copy, up to the first terminator.
Visible(r) ==
    LET p == Path(r) IN SubSeq(p, 1, Min({k - 1 : k \in nul[r]} \cup {Len(p)}))

Kept(r) == nul                      \* mutant: the slash is not put back
Restored(r) == [nul EXCEPT ![r] = @ \ {Last(slash[r])}]

\* The last slash is cut.
CallCut(r) ==
    /\ pc[r] = "call"
    /\ LET n == Len(Visible(r)) IN
        /\ n > 1
        /\ slash' = [slash EXCEPT ![r] = Append(@, n)]
        /\ nul' = [nul EXCEPT ![r] = @ \cup {n}]
    /\ Goto(r, "mkdir")
    /\ UNCHANGED <<world, history, current, excused>>

\* What follows the return of a call of directoryCreate with these callers left.
After(callers) == IF callers = <<>> THEN "open" ELSE "again"

CallNoSlash(r) ==
    /\ pc[r] = "call"
    /\ Len(Visible(r)) = 1
    /\ Goto(r, After(slash[r]))
    /\ UNCHANGED <<world, history, current, slash, nul, excused>>

Return(r) ==
    /\ slash' = [slash EXCEPT ![r] = Front(@)]
    /\ nul' = Restored(r)
    /\ Goto(r, After(slash'[r]))

\* An error is passed on by every caller.
ReturnError(r) ==
    /\ slash' = [slash EXCEPT ![r] = <<>>]
    /\ nul' = [nul EXCEPT ![r] = {}]
    /\ Goto(r, "failed")

\* What mkdir says of a path: ENOENT if a directory above it is missing, and for
\* the empty string, which is no path to the root; EEXIST; or it may be made.
Missing(d) ==
    \/ d = <<NoName>>
    \/ (\E a \in Above(d) : Is(a, "none")) /\ \A a \in Above(d) : ~ Is(a, "file")
Exists(d) == d # <<NoName>> /\ ~ Is(d, "none")
Free(d) == d # <<NoName>> /\ Is(d, "none") /\ Is(Parent(d), "dir")

Mkdir(r) ==
    /\ pc[r] \in {"mkdir", "again"}
    /\ Free(Visible(r))
    /\ entry' = [entry EXCEPT ![Visible(r)] = "dir"]
    /\ Return(r)
    /\ UNCHANGED <<outputFile, now, content, history, current, excused>>

\* EEXIST says nothing of what exists.
ReturnExists(r) == Return(r)

MkdirExists(r) ==
    /\ pc[r] \in {"mkdir", "again"}
    /\ Exists(Visible(r))
    /\ ReturnExists(r)
    /\ UNCHANGED <<world, history, current, excused>>

MkdirParents(r) ==
    /\ pc[r] = "mkdir"
    /\ Missing(Visible(r))
    /\ Goto(r, "call")
    /\ UNCHANGED <<world, history, current, slash, nul, excused>>

\* The parent is missing although its creation has succeeded.
MkdirMissing(r) ==
    /\ pc[r] = "again"
    /\ Missing(Visible(r))
    /\ ReturnError(r)
    /\ UNCHANGED <<world, history, current, excused>>

\* Permission, space, or a file in the place of the parent.
MkdirRefused(r) ==
    /\ pc[r] \in {"mkdir", "again"}
    /\ ~ Missing(Visible(r)) /\ ~ Exists(Visible(r))
    /\ ReturnError(r)
    /\ excused' = [excused EXCEPT ![r] = TRUE]
    /\ UNCHANGED <<world, history, current>>

\* avio_open: a file that exists is emptied.
Open(r) ==
    /\ pc[r] = "open"
    /\ Is(Parent(Path(r)), "dir")
    /\ content' = [content EXCEPT ![Path(r)] = {current[r]}]
    /\ Goto(r, "write")
    /\ UNCHANGED <<outputFile, now, entry, history, current, slash, nul, excused>>

\* HOME, memory, the format or the file cannot be had.
CreateFailed(r) ==
    /\ pc[r] = "open" \/ (pc[r] = "call" /\ slash[r] = <<>>)
    /\ Goto(r, "failed")
    /\ excused' = [excused EXCEPT ![r] = TRUE]
    /\ UNCHANGED <<world, history, current, slash, nul>>

-----------------------------------------------------------------------------
(* rsOutputOpen, rsOutputWrite, rsOutputClose and rsOutputDestroy          *)

\* The header or a packet; the file is the one that was opened.
Write(r) ==
    /\ pc[r] = "write"
    /\ content' = [content EXCEPT ![Path(r)] = @ \cup {current[r]}]
    /\ UNCHANGED <<outputFile, now, entry, history, pc, current, slash, nul, excused>>

\* The trailer, and the end of the file.
Close(r) ==
    /\ pc[r] = "write"
    /\ content' = [content EXCEPT ![Path(r)] = @ \cup {current[r]}]
    /\ Goto(r, "command")
    /\ UNCHANGED <<outputFile, now, entry, history, current, slash, nul, excused>>

Command(r) ==
    /\ pc[r] = "command"
    /\ told' = told \cup {current[r]}
    /\ Goto(r, "destroy")
    /\ UNCHANGED <<world, saves, current, slash, nul, excused>>

\* The file stays as it is; what was buffered is a last Write.
WriteFailed(r) ==
    /\ pc[r] = "write"
    /\ Goto(r, "destroy")
    /\ UNCHANGED <<world, history, current, slash, nul, excused>>

Destroy(r) ==
    /\ pc[r] \in {"failed", "destroy"}
    /\ Goto(r, "idle")
    /\ current' = [current EXCEPT ![r] = 0]
    /\ UNCHANGED <<world, history, slash, nul, excused>>

-----------------------------------------------------------------------------
Save(r) ==
    \/ Begin(r) \/ CallCut(r) \/ CallNoSlash(r)
    \/ Mkdir(r) \/ MkdirExists(r) \/ MkdirParents(r) \/ MkdirMissing(r) \/ MkdirRefused(r)
    \/ Open(r) \/ CreateFailed(r)
    \/ Write(r) \/ Close(r) \/ Command(r) \/ WriteFailed(r) \/ Destroy(r)

Next == OthersMake \/ OthersRemove \/ Clock \/ \E r \in Recorders : Save(r)

Spec == Init /\ [][Next]_vars

-----------------------------------------------------------------------------
\* Every variable has a value of its type, the directories form a tree, and the
\* terminators in a recorder's copy are the slashes its calls hold.
TypeOK ==
    /\ outputFile \in Formats /\ now \in Seconds
    /\ entry \in [Directories -> {"none", "dir", "file"}]
    /\ \A d \in Directories : Is(d, "none") \/ \A a \in Above(d) : Is(a, "dir")
    /\ content \in [Paths -> SUBSET (1..Len(saves))]
    /\ saves \in Seq([second : Seconds, path : Paths]) /\ Len(saves) <= MaxSaves
    /\ told \subseteq 1..Len(saves)
    /\ pc \in [Recorders -> {"idle", "call", "mkdir", "again", "open", "write", "command", "destroy", "failed"}]
    /\ current \in [Recorders -> 0..Len(saves)]
    /\ \A r \in Recorders :
        /\ pc[r] = "idle" <=> current[r] = 0
        /\ nul[r] = Range(slash[r])
        /\ \A k \in 2..Len(slash[r]) : slash[r][k] < slash[r][k - 1]
        /\ pc[r] \notin {"call", "mkdir", "again"} => slash[r] = <<>>
    /\ excused \in [Recorders -> BOOLEAN]

\* When rsDirectoryCreate has succeeded there is something at the place of the file's
\* directory, however others made and removed directories, unless a removal came
\* after the save began.  And it fails only if a call was refused, or a directory
\* removed under it: not because others made the same ones first (util.c:27-56).  This
\* is of files below the root: one right in it has the empty name for its directory,
\* which mkdir does not make (util.c:40), so that its save fails with nothing refused.
DirectoriesMade ==
    \A r \in Recorders : ~ excused[r] =>
        /\ pc[r] # "failed"
        /\ pc[r] = "open" => ~ Is(Parent(Path(r)), "none")

\* A file the command was run for holds that replay, whole and alone, unless another
\* save was begun in the same second of local time (output.c:46-54, 71, 148).
ReplaysKept ==
    \A s \in told :
        \/ content[saves[s].path] = {s}
        \/ \E t \in 1..Len(saves) : t # s /\ saves[t].second = saves[s].second
=============================================================================
