------------------------------ MODULE FileStore ------------------------------
(***************************************************************************)
(* copy, move and append of the file systems (a local disk, S3, FTP) and   *)
(* the job that uploads a file later.  A call is the sequence of its steps *)
(* on the stores; each may fail, or be done while its answer is lost, and  *)
(* the process may die between any two.  Calls overlap.  The stores are    *)
(* external: S3 replaces an object at once, the others write byte by byte. *)
(***************************************************************************)
EXTENDS Sequences

CONSTANTS
    FileCalls,  \* calls under way; each also names its temporary file
    FileName,   \* of the files there are
    NewName,    \* another name
    NoFile

ASSUME FileAssumption == FileCalls \cap {FileName, NewName} = {} /\ FileName # NewName

VARIABLES
    files,    \* files[p]: the content at a place, or NoFile
    asked,    \* asked[c]: the call, or NoFile
    todo,     \* todo[c]: the steps it has left
    outcome,  \* outcome[c]: idle, running, done or failed
    ftpOpen,  \* the client of the FTP store is connected
    had,      \* history: the content at its source when c was called
    crossed   \* history: calls one of whose places somebody else has touched since

storeVars == <<files, asked, todo, outcome, ftpOpen, had, crossed>>

Stores == {"local", "s3", "ftp"}
FileNames == {FileName, NewName}
Temp(c) == <<"temp", c>>
Places == (Stores \X FileNames) \cup ({"temp", "ftp"} \X FileCalls)

(* Whose content it is, and the calls that have appended to it.             *)
Content(p, calls) == [of |-> p, plus |-> calls]
Torn == Content(<<"nowhere", NoFile>>, {})  \* the file was created, its content is not yet complete

FilesInit ==
    /\ files = [p \in Places |-> IF p[2] = FileName THEN Content(p, {}) ELSE NoFile]
    /\ asked = [c \in FileCalls |-> NoFile]
    /\ todo = [c \in FileCalls |-> <<>>]
    /\ outcome = [c \in FileCalls |-> "idle"]
    /\ ftpOpen = TRUE
    /\ had = [c \in FileCalls |-> NoFile]
    /\ crossed = {}

-----------------------------------------------------------------------------
(* The steps of a call.                                                     *)
Do(what, from, to) == <<[do |-> what, from |-> from, to |-> to]>>

(* Whether the source exists is asked beforehand too; a step that needs it  *)
(* fails without it.  FTP goes to the directory of the destination and      *)
(* keeps the name of the local file.                                        *)
Landing(from, to) == IF to[1] = "ftp" THEN <<"ftp", from[2]>> ELSE to

UploadLocal(from, to) == Do("open", from, to) \o Do("fill", from, to)
UploadS3(from, to) == Do("put", from, to)
UploadFtp(from, to) == Do("enter", to, to) \o UploadLocal(from, Landing(from, to))

Upload(from, to) == CASE to[1] = "local" -> UploadLocal(from, to)
                      [] to[1] = "s3" -> UploadS3(from, to)
                      [] to[1] = "ftp" -> UploadFtp(from, to)

Download(c, from) ==
    Do("open", Temp(c), Temp(c))
    \o (IF from[1] = "ftp" THEN Do("enter", from, from) ELSE <<>>)
    \o Do("fill", from, Temp(c))

RmTemp(c) == Do("remove", Temp(c), Temp(c))

(* toFs: the caller names the file system of the destination.               *)
LocalCopy(from, to, toFs) ==
    IF toFs THEN Upload(from, to) ELSE UploadLocal(from, to)
LocalMove(from, to, toFs) ==
    IF toFs THEN Upload(from, to) \o Do("remove", from, from) ELSE Do("rename", from, to)

S3Copy(c, from, to, toFs) ==
    IF toFs THEN Download(c, from) \o Upload(Temp(c), to) ELSE Do("put", from, to)
S3Move(c, from, to, toFs) == S3Copy(c, from, to, toFs) \o Do("remove", from, from)

FtpCopy(c, from, to, toFs) ==
    Download(c, from) \o (IF toFs THEN Upload(Temp(c), to) ELSE UploadLocal(Temp(c), to)) \o RmTemp(c)
FtpMove(c, from, to, toFs) ==
    IF toFs THEN Download(c, from) \o Upload(Temp(c), to) \o Do("remove", from, from) \o RmTemp(c)
            ELSE Do("rename", from, to)

(* The local disk takes the path as it is, the full one.  S3 downloads,     *)
(* appends and uploads again; FTP asks for the size and then replaces the   *)
(* file.                                                                    *)
AppendTo(c, from) ==
    CASE from[1] = "local" -> Do("append", from, from)
      [] from[1] = "s3" -> Download(c, from) \o Do("append", Temp(c), Temp(c)) \o UploadS3(Temp(c), from)
      [] from[1] = "ftp" -> Do("find", from, from) \o Do("enter", from, from) \o Do("replace", from, from)

Copy(c, r) == CASE r.from[1] = "local" -> LocalCopy(r.from, r.to, r.toFs)
                [] r.from[1] = "s3" -> S3Copy(c, r.from, r.to, r.toFs)
                [] r.from[1] = "ftp" -> FtpCopy(c, r.from, r.to, r.toFs)
Move(c, r) == CASE r.from[1] = "local" -> LocalMove(r.from, r.to, r.toFs)
                [] r.from[1] = "s3" -> S3Move(c, r.from, r.to, r.toFs)
                [] r.from[1] = "ftp" -> FtpMove(c, r.from, r.to, r.toFs)

(* rm of FTP awaits neither of its two commands: they disconnect the client.*)
Rm(from) == Do(IF from[1] = "ftp" THEN "disconnect" ELSE "remove", from, from)

Progress(r) == Do("progress", r.from, r.from)

(* execute() of the upload job, with and without DeleteAfterUpload.         *)
Job(c, r) == Progress(r) \o Copy(c, r) \o (IF r.kind = "job, delete" THEN Rm(r.from) ELSE <<>>) \o Progress(r)

StepsOf(c, r) == CASE r.kind = "copy" -> Copy(c, r)
                   [] r.kind = "move" -> Move(c, r)
                   [] r.kind = "append" -> AppendTo(c, r.from)
                   [] r.kind \in {"job", "job, delete"} -> Job(c, r)

IsJob(r) == r.kind \in {"job", "job, delete"}

-----------------------------------------------------------------------------
(* Between stores a file keeps its name; in a store it gets a new one.  The *)
(* job is for a file that a form has left in the local store.               *)
Asks == {r \in [kind : {"copy", "move", "append", "job", "job, delete"}, toFs : BOOLEAN,
                from : Stores \X {FileName}, to : Stores \X FileNames] :
           /\ r.kind = "append" => r.from = r.to /\ ~r.toFs
           /\ r.kind \in {"copy", "move"} => (r.to[2] = NewName <=> r.from[1] = r.to[1])
           /\ IsJob(r) => r.from[1] = "local" /\ r.to[1] # "local" /\ r.to[2] = FileName
           /\ r.from[1] # r.to[1] => r.toFs}

ASSUME NoFileAssumption == NoFile \notin Asks

LandsAt(c, r) == CASE ~r.toFs -> r.to
                   [] r.toFs /\ r.from[1] = "local" -> Landing(r.from, r.to)
                   [] r.toFs /\ r.from[1] # "local" -> Landing(Temp(c), r.to)
Touches(c, r) == {r.from, r.to, LandsAt(c, r)}

Running(c) == outcome[c] = "running"
Meets(c, r) == {d \in FileCalls \ {c} : asked[d] # NoFile /\ Touches(d, asked[d]) \cap Touches(c, r) # {}}

(* What an ended call left is the caller's; only one that may still go on   *)
(* can disturb c.                                                           *)
MayGoOn(d) == Running(d) \/ (outcome[d] = "failed" /\ IsJob(asked[d]))
CrossedBy(c, r) ==
    crossed \cup Meets(c, r) \cup {d \in {c} : \E e \in Meets(c, r) : MayGoOn(e)}

Invoke(c, r) ==
    /\ outcome[c] = "idle"
    /\ outcome' = [outcome EXCEPT ![c] = "running"]
    /\ asked' = [asked EXCEPT ![c] = r]
    /\ todo' = [todo EXCEPT ![c] = StepsOf(c, r)]
    /\ had' = [had EXCEPT ![c] = files[r.from]]
    /\ crossed' = CrossedBy(c, r)
    /\ UNCHANGED <<files, ftpOpen>>

Step(c) == Head(todo[c])
OnFtp(c) == Running(c) /\ "ftp" \in {Step(c).from[1], Step(c).to[1]} /\ Step(c).do # "progress"

There(p) == files[p] # NoFile
Put(p, content) == [files EXCEPT ![p] = content]

(* What a step makes of the files.                                          *)
Possible(s) ==
    \/ s.do \in {"enter", "progress", "remove", "append", "replace", "disconnect"}
    \/ s.do = "open" /\ s.to[1] = "temp"
    \/ There(s.from)

After(c, s) ==
    CASE s.do \in {"find", "enter", "progress", "disconnect"} -> files
      [] s.do = "open" -> Put(s.to, Torn)
      [] s.do \in {"fill", "put"} -> Put(s.to, files[s.from])
      [] s.do = "rename" -> [Put(s.to, files[s.from]) EXCEPT ![s.from] = NoFile]
      [] s.do = "remove" -> Put(s.from, NoFile)
      [] s.do = "replace" \/ (s.do = "append" /\ ~There(s.to)) -> Put(s.to, Content(Temp(c), {c}))
      [] s.do = "append" /\ files[s.to] = Torn -> files
      [] s.do = "append" /\ files[s.to] \notin {NoFile, Torn} ->
           Put(s.to, [files[s.to] EXCEPT !.plus = @ \cup {c}])

Proceeds(c) ==
    /\ Running(c) /\ Possible(Step(c))
    /\ OnFtp(c) => ftpOpen
    /\ files' = After(c, Step(c))
    /\ ftpOpen' = (ftpOpen /\ Step(c).do # "disconnect")
    /\ todo' = [todo EXCEPT ![c] = Tail(@)]
    /\ outcome' = [outcome EXCEPT ![c] = IF Len(todo[c]) = 1 THEN "done" ELSE "running"]
    /\ UNCHANGED <<asked, had, crossed>>

(* The finally blocks of FTP; a failing step there is the end of the call.  *)
Finally(c) ==
    IF asked[c].from[1] = "ftp" /\ There(Temp(c)) THEN After(c, RmTemp(c)[1]) ELSE files

(* Mutant: the failure is only logged, and the call goes on.                *)
FailureLogged(c) ==
    /\ Running(c)
    /\ todo' = [todo EXCEPT ![c] = Tail(@)]
    /\ outcome' = [outcome EXCEPT ![c] = IF Len(todo[c]) = 1 THEN "done" ELSE "running"]
    /\ UNCHANGED <<files, asked, ftpOpen, had, crossed>>

Fails(c) ==
    /\ Running(c)
    /\ files' = Finally(c)
    /\ outcome' = [outcome EXCEPT ![c] = "failed"]
    /\ todo' = [todo EXCEPT ![c] = <<>>]
    /\ UNCHANGED <<asked, ftpOpen, had, crossed>>

(* The service has done what it was asked and its answer does not arrive.   *)
AnswerLost(c) ==
    /\ Running(c) /\ Possible(Step(c))
    /\ Step(c).do \in {"put", "fill", "rename", "remove", "replace"}
    /\ "local" \notin {Step(c).from[1], Step(c).to[1]}
    /\ OnFtp(c) => ftpOpen
    /\ files' = After(c, Step(c))
    /\ outcome' = [outcome EXCEPT ![c] = "failed"]
    /\ todo' = [todo EXCEPT ![c] = <<>>]
    /\ UNCHANGED <<asked, ftpOpen, had, crossed>>

(* A command while another one runs: the client closes its connection.      *)
Collide ==
    /\ ftpOpen
    /\ \E c, d \in FileCalls : c # d /\ OnFtp(c) /\ OnFtp(d)
    /\ ftpOpen' = FALSE
    /\ UNCHANGED <<files, asked, todo, outcome, had, crossed>>

(* The cleanup timer of the temporary file system.                          *)
TempExpires(c) ==
    /\ Running(c) /\ There(Temp(c))
    /\ files' = Put(Temp(c), NoFile)
    /\ crossed' = crossed \cup {d \in {c} : asked[c].kind = "append"}
    /\ UNCHANGED <<asked, todo, outcome, ftpOpen, had>>

Crash ==
    /\ \E c \in FileCalls : Running(c)
    /\ outcome' = [c \in FileCalls |-> IF Running(c) THEN "failed" ELSE outcome[c]]
    /\ todo' = [c \in FileCalls |-> <<>>]
    /\ ftpOpen' = TRUE
    /\ UNCHANGED <<files, asked, had, crossed>>

(* The queue delivers the job of a consumer that failed or died again.      *)
Redelivered(c) ==
    /\ outcome[c] = "failed" /\ IsJob(asked[c])
    /\ outcome' = [outcome EXCEPT ![c] = "running"]
    /\ todo' = [todo EXCEPT ![c] = StepsOf(c, asked[c])]
    /\ crossed' = CrossedBy(c, asked[c]) \cup {d \in {c} : Meets(c, asked[c]) # {}}
    /\ UNCHANGED <<files, asked, ftpOpen, had>>

FilesNext ==
    \/ \E c \in FileCalls, r \in Asks : Invoke(c, r)
    \/ \E c \in FileCalls : Proceeds(c) \/ Fails(c) \/ AnswerLost(c) \/ TempExpires(c) \/ Redelivered(c)
    \/ Collide \/ Crash

FilesSpec == FilesInit /\ [][FilesNext]_storeVars

-----------------------------------------------------------------------------
FilesTypeOK ==
    /\ DOMAIN files = Places
    /\ \A c \in FileCalls :
         /\ outcome[c] \in {"idle", "running", "done", "failed"}
         /\ Running(c) <=> todo[c] # <<>>
    /\ ftpOpen \in BOOLEAN /\ crossed \subseteq FileCalls

(* A call that shares no place with another never loses a file: at every    *)
(* moment, whatever failed, expired, was lost or done again and wherever    *)
(* the process dies, the content its source had is complete at the source   *)
(* or where the call puts it; once it is done it is there, and a copied     *)
(* file is at both places.  Not so for append on FTP, which replaces the    *)
(* file, and for a move onto itself by way of a file system, which removes  *)
(* what it has just written.                                                *)
NothingLost ==
    \A c \in FileCalls : asked[c] # NoFile /\ c \notin crossed /\ had[c] \notin {NoFile, Torn} =>
        LET r == asked[c]
            there == LandsAt(c, r)
            appended == [had[c] EXCEPT !.plus = @ \cup {c}]
        IN IF r.kind = "append"
           THEN r.from[1] # "ftp" =>
                  /\ files[r.from] \in {had[c], appended}
                  /\ outcome[c] = "done" => files[r.from] = appended
           ELSE /\ had[c] \in {files[r.from], files[there]}
                /\ outcome[c] = "done" => files[there] = had[c]
                /\ outcome[c] = "done" /\ r.kind \in {"copy", "job"} => files[r.from] = had[c]
==============================================================================
