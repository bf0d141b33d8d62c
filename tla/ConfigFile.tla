----------------------------- MODULE ConfigFile -----------------------------
(***************************************************************************)
(* Reading the configuration (config.c): the defaults, then the global     *)
(* file, then the user's.  A file is split and trimmed in its own buffer,  *)
(* by writing terminators into it; the module keeps that buffer and every  *)
(* write, and compares the outcome with what the lines of the file say.    *)
(***************************************************************************)
EXTENDS Naturals, Sequences, FiniteSetsExt

CONSTANTS
    GlobalFiles, LocalFiles, \* contents the files may have, as sequences of characters
    Missing,   \* a file that cannot be opened
    Keys,      \* the string options that exist
    Bad,       \* values no option accepts
    Default    \* the value of an option no file sets

NL == "newline"
SP == "space"
HASH == "#"
EQ == "="
NUL == "0"

\* A terminator ends a file's contents for the C library, so none is within them.
ASSUME FilesAssumption ==
    /\ \A file \in GlobalFiles \cup LocalFiles : file \in Seq(STRING \ {NUL})
    /\ Missing \notin GlobalFiles \cup LocalFiles
ASSUME KeysAssumption == Keys # {}

VARIABLES
    home,      \* HOME is set
    global, local, \* the files
    pc,        \* the file being read
    buf,       \* its contents; index 0 is the byte before them
    next,      \* where strtok continues, 0 when it is through
    settings,  \* the options
    before     \* history: a character before the buffer was read

vars == <<home, global, local, pc, buf, next, settings, before>>

Loaded(file) == [i \in 0..(Len(file) + 1) |->
    IF i = 0 THEN "byte" ELSE IF i > Len(file) THEN NUL ELSE file[i]]

Init ==
    /\ home \in BOOLEAN
    /\ global \in GlobalFiles \cup {Missing} /\ local \in LocalFiles \cup {Missing}
    /\ pc = "global" /\ buf = Loaded(<<>>) /\ next = 0
    /\ settings = [k \in Keys |-> Default]
    /\ before = FALSE

-----------------------------------------------------------------------------
(* Strings in the buffer                                                   *)

FirstFrom(b, i, chars) == Min({j \in DOMAIN b : j >= i /\ b[j] \in chars})
EndOf(b, i) == FirstFrom(b, i, {NUL})
String(b, i) == [j \in 1..(EndOf(b, i) - i) |-> b[i + j - 1]]
Ended(b, i) == [b EXCEPT ![i] = NUL]

Space == {SP, NL}
StartOf(b, i) == Min({j \in DOMAIN b : j >= i /\ b[j] \notin Space})

\* mutant: the space at the end is looked for from the first one
LastOfWord(b, i) == FirstFrom(b, StartOf(b, i), {NUL} \cup Space) - 1

\* The search for the end of a string runs backwards and is not stopped by its
\* start: an empty string's is before it.
LastOf(b, i) == Max({j \in DOMAIN b : j < EndOf(b, StartOf(b, i)) /\ b[j] \notin Space})

\* configTrim: the buffer it leaves.  The string begins at StartOf.
Trimmed(b, i) == Ended(b, LastOf(b, i) + 1)
ReadsBefore(b, i) == LastOf(b, i) = 0

-----------------------------------------------------------------------------
(* Reading a file                                                          *)

Begin(file) ==
    IF file = Missing THEN buf' = Loaded(<<>>) /\ next' = 0
    ELSE buf' = Loaded(file) /\ next' = 1

\* The start of the recorder fails, for what a line says, or stops for want of memory
\* or because a file that can be opened cannot be read.
End(place) ==
    /\ pc' = place /\ settings' = [k \in Keys |-> NUL]
    /\ UNCHANGED <<buf, next>>
Error == End("failed")
Stop == End("stopped")

OpenGlobal ==
    /\ pc = "global"
    /\ \/ Begin(global) /\ pc' = "read global" /\ UNCHANGED settings
       \/ global # Missing /\ Stop
    /\ UNCHANGED <<home, global, local, before>>

\* strtok: the start of the next line, 0 if there is none, and its end.
LineStart == IF next = 0 THEN 0
             ELSE LET j == Min({k \in DOMAIN buf : k >= next /\ buf[k] # NL})
                  IN  IF buf[j] = NUL THEN 0 ELSE j
LineEnd == FirstFrom(buf, LineStart, {NL, NUL})

\* One pass of the loop: cut the line and its comment, trim, skip it if nothing is
\* left, cut it at the first equals sign, trim both parts and set the option, for
\* which its value is copied.
ReadLine ==
    /\ pc \in {"read global", "read local"} /\ LineStart # 0
    /\ LET line   == Ended(buf, LineEnd)
           code   == Ended(line, FirstFrom(line, LineStart, {HASH, NUL}))
           at     == StartOf(code, LineStart)
           text   == Trimmed(code, LineStart)
           eq     == FirstFrom(text, at, {EQ, NUL})
           split  == Ended(text, eq)
           keyed  == Trimmed(split, at)
           valued == Trimmed(keyed, eq + 1)
           key    == String(keyed, at)
           value  == String(valued, StartOf(keyed, eq + 1))
           Read(b) == buf' = b /\ next' = (IF buf[LineEnd] = NUL THEN 0 ELSE LineEnd + 1) /\ UNCHANGED pc
       IN \/ /\ text[at] = NUL
             /\ Read(text) /\ UNCHANGED settings
             /\ before' = (before \/ ReadsBefore(code, LineStart))
          \/ /\ text[at] # NUL /\ text[eq] = NUL
             /\ Error /\ UNCHANGED before
          \/ /\ text[at] # NUL /\ text[eq] = EQ
             /\ IF key \in Keys /\ value \notin Bad
                THEN (Read(valued) /\ settings' = [settings EXCEPT ![key] = value]) \/ Stop
                ELSE Error
             /\ before' = (before \/ ReadsBefore(split, at))
    /\ UNCHANGED <<home, global, local>>

\* Without memory there is not even the path of the user's file.
OpenLocal ==
    /\ pc = "read global" /\ LineStart = 0
    /\ \/ home /\ Begin(local) /\ pc' = "read local" /\ UNCHANGED settings
       \/ home /\ Stop
       \/ ~ home /\ Error
    /\ UNCHANGED <<home, global, local, before>>

Finish ==
    /\ pc = "read local" /\ LineStart = 0
    /\ pc' = "started"
    /\ UNCHANGED <<home, global, local, buf, next, settings, before>>

Next == OpenGlobal \/ ReadLine \/ OpenLocal \/ Finish

Spec == Init /\ [][Next]_vars

-----------------------------------------------------------------------------
(* What the files say                                                      *)

Part(s, i, j) == SubSeq(s, i, j)
Stripped(s) ==
    LET solid == {i \in DOMAIN s : s[i] # SP}
    IN  IF solid = {} THEN <<>> ELSE Part(s, Min(solid), Max(solid))
Upto(s, c) == Part(s, 1, Min({i \in DOMAIN s : s[i] = c} \cup {Len(s) + 1}) - 1)

\* The lines of a file by the places of their ends, and what is left of a line
\* without its comment and what surrounds the rest.
Ends(file) == {i \in DOMAIN file : file[i] = NL} \cup {Len(file) + 1}
Line(file, e) == Part(file, Max({0} \cup {i \in Ends(file) : i < e}) + 1, e - 1)
Statement(file, e) == Stripped(Upto(Line(file, e), HASH))
Statements(file) == {e \in Ends(file) : Statement(file, e) # <<>>}

\* A statement sets an option that exists to a value it accepts.
KeyOf(s) == Stripped(Upto(s, EQ))
ValueOf(s) == Stripped(Part(s, Len(Upto(s, EQ)) + 2, Len(s)))
IsGood(s) == Len(Upto(s, EQ)) < Len(s) /\ KeyOf(s) \in Keys /\ ValueOf(s) \notin Bad

\* The last of some statements that set an option counts.
Set(options, file, statements) ==
    [k \in Keys |->
        LET setting == {e \in statements : KeyOf(Statement(file, e)) = k}
        IN  IF setting = {} THEN options[k] ELSE ValueOf(Statement(file, Max(setting)))]

\* In place of the options when the recorder must not start.
Refused == <<>>

Said(options, file) ==
    IF file = Missing \/ options = Refused THEN options
    ELSE IF \E e \in Statements(file) : ~ IsGood(Statement(file, e)) THEN Refused
    ELSE Set(options, file, Statements(file))

Meaning ==
    LET first == Said([k \in Keys |-> Default], global)
    IN  IF home THEN Said(first, local) ELSE Refused

\* The first line of a file has nothing before a comment, an equals sign or its end.
BeginsEmpty(file) ==
    LET First(i, c) == Min({j \in i..Len(file) : file[j] # c} \cup {Len(file) + 1})
        solid == First(First(1, NL), SP)
    IN  solid > Len(file) \/ file[solid] \in {NL, HASH, EQ}

-----------------------------------------------------------------------------
(* Properties                                                              *)

\* However the lines are cut and trimmed in place, the recorder starts with the
\* options the two files say, the user's file overwriting the global one
\* (README.md, Configuration), and does not start if a line is not an assignment of
\* a good value, or with part of what they say after a file or a value could not be
\* read or copied.  The byte before a file's contents is read only if the file
\* begins with a comment or a blank line, as sys/replay-sorcery.conf does.
AsWritten ==
    /\ pc = "started" => settings = Meaning
    /\ pc = "failed" => Meaning = Refused
    /\ before => \E file \in {global, local} \ {Missing} : BeginsEmpty(file)
=============================================================================
