------------------------------- MODULE Download -----------------------------
(***************************************************************************)
(* GET /assets/{id}/download: the gates of the route, the Range header     *)
(* (parse_range_header of service/portal/download.py) and the lazy body    *)
(* (_file_iterator of service/api/routes_assets.py).  The file is looked   *)
(* at three times, when it is checked, measured and opened, and the        *)
(* pipeline that owns it may replace, cut, remove or lock it in between.   *)
(* A client may lose its connection and resume with a Range header.        *)
(*                                                                         *)
(* One asset.  A byte is the pair of the file it comes from (an inode) and *)
(* its offset.                                                             *)
(***************************************************************************)
EXTENDS Integers, Sequences

CONSTANTS
  Clients,     \* the clients that download the asset
  Asks,        \* the Range headers they may send, a subset of Headers
  Sizes,       \* the sizes a file may have
  Chunk,       \* _STREAM_CHUNK
  MaxChanges,  \* a bound on the changes of the file
  MaxResumes   \* a bound on the resumptions of a client

\* A header that names no single byte range (another unit, several ranges, no
\* number) is "bad".  The length of a suffix may be zero or below.
Headers ==
  [form : {"none", "bad"}]
    \cup [form : {"between"}, first : Nat, last : Int]
    \cup [form : {"from"}, first : Nat]
    \cup [form : {"suffix"}, length : Int]

ASSUME AsksAssumption == Asks \subseteq Headers
ASSUME SizesAssumption == Sizes \subseteq Nat /\ Sizes # {}
ASSUME ChunkAssumption == Chunk \in Nat \ {0}
ASSUME BoundsAssumption == MaxChanges \in Nat /\ MaxResumes \in Nat

Inodes == 0..MaxChanges
NoFile == -1

PCs == {"new", "check", "stat", "open", "read", "done", "broken", "gone"}
Statuses == {"none", "full", "partial", "refused", "missing", "unsatisfiable", "raised"}

VARIABLES
  name,      \* the inode fs_path names, or NoFile
  size,      \* size[i]: the size of inode i
  readable,  \* the service may open the file
  changes,   \* the number of changes of the file
  pc,        \* pc[c]: the next step of c's request, or how it ended
  ask,       \* ask[c]: the Range header of the request
  status,    \* status[c]: the answer
  stat,      \* stat[c]: file_size
  start,     \* start[c]: the first byte of the interval
  remaining, \* remaining[c]: the bytes still to send
  fd,        \* fd[c]: the inode the iterator has open
  pos,       \* pos[c]: its file position
  got,       \* got[c]: the bytes c has received, over all its requests
  base,      \* base[c]: how many of them before this request
  resumes,   \* resumes[c]: how often c has resumed
  asOf       \* asOf[c]: the number of changes when c's file was measured

fileVars == <<name, size, readable, changes>>
reqVars  == <<pc, ask, status, stat, start, remaining, fd, pos, got, base, resumes, asOf>>
vars == <<fileVars, reqVars>>

TypeOK ==
  /\ name \in Inodes \cup {NoFile}
  /\ size \in [Inodes -> Nat]
  /\ readable \in BOOLEAN
  /\ changes \in 0..MaxChanges
  /\ pc \in [Clients -> PCs]
  /\ ask \in [Clients -> Headers]
  /\ status \in [Clients -> Statuses]
  /\ stat \in [Clients -> Nat]
  /\ start \in [Clients -> Nat]
  /\ remaining \in [Clients -> Nat]
  /\ fd \in [Clients -> Inodes \cup {NoFile}]
  /\ pos \in [Clients -> Nat]
  /\ got \in [Clients -> Seq(Inodes \X Nat)]
  /\ base \in [Clients -> Nat]
  /\ resumes \in [Clients -> 0..MaxResumes]
  /\ asOf \in [Clients -> 0..MaxChanges]

Init ==
  /\ name \in {0, NoFile}
  /\ size \in {[i \in Inodes |-> s] : s \in Sizes}
  /\ readable \in BOOLEAN
  /\ changes = 0
  /\ pc = [c \in Clients |-> "new"]
  /\ ask \in [Clients -> Asks]
  /\ status = [c \in Clients |-> "none"]
  /\ stat = [c \in Clients |-> 0]
  /\ start = [c \in Clients |-> 0]
  /\ remaining = [c \in Clients |-> 0]
  /\ fd = [c \in Clients |-> NoFile]
  /\ pos = [c \in Clients |-> 0]
  /\ got = [c \in Clients |-> <<>>]
  /\ base = [c \in Clients |-> 0]
  /\ resumes = [c \in Clients |-> 0]
  /\ asOf = [c \in Clients |-> 0]

-----------------------------------------------------------------------------
(* parse_range_header.                                                     *)

Least(a, b) == IF a <= b THEN a ELSE b

\* The interval as the header states it, before any check.
First(h, n) ==
  CASE h.form = "suffix" -> IF n >= h.length THEN n - h.length ELSE 0
    [] h.form \in {"between", "from"} -> h.first
    [] OTHER -> 0

Last(h, n) == IF h.form = "between" THEN h.last ELSE n - 1

\* Mutant: the start may be the size of the file.
AcceptedAtEnd(h, n) ==
  /\ h.form # "bad"
  /\ h.form = "suffix" => h.length > 0
  /\ First(h, n) <= n
  /\ First(h, n) <= Last(h, n)

\* No ValueError is raised.
Accepted(h, n) ==
  /\ h.form # "bad"
  /\ h.form = "suffix" => h.length > 0
  /\ First(h, n) < n
  /\ First(h, n) <= Last(h, n)

\* The end is clamped to the last byte.
End(h, n) == Least(Last(h, n), n - 1)

\* The route: without a header the whole file, else the interval.
IntervalLength(h, n) == IF h.form = "none" THEN n ELSE End(h, n) - First(h, n) + 1

-----------------------------------------------------------------------------
(* The request.                                                            *)

\* The asset is not exposed: 404.
Refuse(c) ==
  /\ pc[c] = "new"
  /\ pc' = [pc EXCEPT ![c] = "done"]
  /\ status' = [status EXCEPT ![c] = "refused"]
  /\ UNCHANGED <<fileVars, ask, stat, start, remaining, fd, pos, got, base, resumes, asOf>>

\* resolve_download_target finds the registered asset.
Resolve(c) ==
  /\ pc[c] = "new"
  /\ pc' = [pc EXCEPT ![c] = "check"]
  /\ UNCHANGED <<fileVars, ask, status, stat, start, remaining, fd, pos, got, base, resumes, asOf>>

\* os.path.isfile, or 410.
CheckFile(c) ==
  /\ pc[c] = "check"
  /\ IF name # NoFile
       THEN /\ pc' = [pc EXCEPT ![c] = "stat"]
            /\ UNCHANGED status
       ELSE /\ pc' = [pc EXCEPT ![c] = "done"]
            /\ status' = [status EXCEPT ![c] = "missing"]
  /\ UNCHANGED <<fileVars, ask, stat, start, remaining, fd, pos, got, base, resumes, asOf>>

\* Mutant: the last byte of the inclusive interval is not counted.
PromiseOneLess(c, n) ==
  /\ pc' = [pc EXCEPT ![c] = "open"]
  /\ status' = [status EXCEPT ![c] = IF ask[c].form = "none" THEN "full" ELSE "partial"]
  /\ start' = [start EXCEPT ![c] = IF ask[c].form = "none" THEN 0 ELSE First(ask[c], n)]
  /\ remaining' = [remaining EXCEPT ![c] = IntervalLength(ask[c], n) - 1]

\* The headers of a 200 or 206 go out with this length.
Promise(c, n) ==
  /\ pc' = [pc EXCEPT ![c] = "open"]
  /\ status' = [status EXCEPT ![c] = IF ask[c].form = "none" THEN "full" ELSE "partial"]
  /\ start' = [start EXCEPT ![c] = IF ask[c].form = "none" THEN 0 ELSE First(ask[c], n)]
  /\ remaining' = [remaining EXCEPT ![c] = IntervalLength(ask[c], n)]

\* os.path.getsize (it raises when the file has gone since the check: 500),
\* then the Range header against the size on disk: 416, 200 or 206.
StatFile(c) ==
  /\ pc[c] = "stat"
  /\ asOf' = [asOf EXCEPT ![c] = changes]
  /\ \/ /\ name = NoFile
        /\ pc' = [pc EXCEPT ![c] = "done"]
        /\ status' = [status EXCEPT ![c] = "raised"]
        /\ UNCHANGED <<stat, start, remaining>>
     \/ /\ name # NoFile
        /\ stat' = [stat EXCEPT ![c] = size[name]]
        /\ IF ask[c].form = "none" \/ Accepted(ask[c], size[name])
             THEN Promise(c, size[name])
             ELSE /\ pc' = [pc EXCEPT ![c] = "done"]
                  /\ status' = [status EXCEPT ![c] = "unsatisfiable"]
                  /\ UNCHANGED <<start, remaining>>
  /\ UNCHANGED <<fileVars, ask, fd, pos, got, base, resumes>>

\* Mutant: the iterator does not seek.
OpenAtZero(c) ==
  /\ pc[c] = "open"
  /\ name # NoFile /\ readable
  /\ pc' = [pc EXCEPT ![c] = "read"]
  /\ fd' = [fd EXCEPT ![c] = name]
  /\ pos' = [pos EXCEPT ![c] = 0]
  /\ UNCHANGED <<fileVars, ask, status, stat, start, remaining, got, base, resumes, asOf>>

\* The iterator starts after the headers went out: open and seek.  An error
\* breaks the connection, it can no longer change the status.
Open(c) ==
  /\ pc[c] = "open"
  /\ \/ /\ name # NoFile /\ readable
        /\ pc' = [pc EXCEPT ![c] = "read"]
        /\ fd' = [fd EXCEPT ![c] = name]
        /\ pos' = [pos EXCEPT ![c] = start[c]]
     \/ /\ name = NoFile \/ ~readable
        /\ pc' = [pc EXCEPT ![c] = "broken"]
        /\ UNCHANGED <<fd, pos>>
  /\ UNCHANGED <<fileVars, ask, status, stat, start, remaining, got, base, resumes, asOf>>

\* The number of bytes fh.read(n) finds at the position of c.
Found(c, n) == IF pos[c] >= size[fd[c]] THEN 0 ELSE Least(n, size[fd[c]] - pos[c])

\* The client receives the k bytes from the position on.
Receive(c, k) ==
  /\ got' = [got EXCEPT ![c] = @ \o [i \in 1..k |-> <<fd[c], pos[c] + i - 1>>]]
  /\ pos' = [pos EXCEPT ![c] = @ + k]
  /\ remaining' = [remaining EXCEPT ![c] = @ - k]

Want(c) == Least(Chunk, remaining[c])

\* Mutant: an empty chunk does not end the loop.
ReadForever(c) ==
  /\ pc[c] = "read"
  /\ remaining[c] > 0
  /\ Receive(c, Found(c, Want(c)))
  /\ UNCHANGED <<fileVars, pc, ask, status, stat, start, fd, base, resumes, asOf>>

\* One turn of the loop: it ends when nothing is left to send, or when the
\* file has become shorter than it was.
Read(c) ==
  /\ pc[c] = "read"
  /\ IF remaining[c] > 0 /\ Found(c, Want(c)) > 0
       THEN /\ Receive(c, Found(c, Want(c)))
            /\ UNCHANGED <<pc, fd>>
       ELSE /\ pc' = [pc EXCEPT ![c] = "done"]
            /\ fd' = [fd EXCEPT ![c] = NoFile]
            /\ UNCHANGED <<got, pos, remaining>>
  /\ UNCHANGED <<fileVars, ask, status, stat, start, base, resumes, asOf>>

-----------------------------------------------------------------------------
(* The clients and the owner of the file (external).                       *)

\* The connection of c is lost while the body is sent.
Disconnect(c) ==
  /\ pc[c] \in {"open", "read"}
  /\ pc' = [pc EXCEPT ![c] = "gone"]
  /\ fd' = [fd EXCEPT ![c] = NoFile]
  /\ UNCHANGED <<fileVars, ask, status, stat, start, remaining, pos, got, base, resumes, asOf>>

\* A client that wanted the whole file asks for the rest of it.
Resume(c) ==
  /\ pc[c] \in {"gone", "broken"}
  /\ ask[c].form = "none" \/ resumes[c] > 0
  /\ resumes[c] < MaxResumes
  /\ resumes' = [resumes EXCEPT ![c] = @ + 1]
  /\ pc' = [pc EXCEPT ![c] = "new"]
  /\ ask' = [ask EXCEPT ![c] = [form |-> "from", first |-> Len(got[c])]]
  /\ base' = [base EXCEPT ![c] = Len(got[c])]
  /\ status' = [status EXCEPT ![c] = "none"]
  /\ UNCHANGED <<fileVars, stat, start, remaining, fd, pos, got, asOf>>

Change ==
  /\ changes < MaxChanges
  /\ changes' = changes + 1
  /\ UNCHANGED reqVars

\* Another file takes the name; who has the old one open keeps it.
ReplaceFile ==
  /\ Change
  /\ name' = changes + 1
  /\ \E s \in Sizes : size' = [size EXCEPT ![changes + 1] = s]
  /\ UNCHANGED readable

\* The file becomes shorter in place.
CutFile ==
  /\ Change
  /\ name # NoFile
  /\ \E s \in Sizes : s < size[name] /\ size' = [size EXCEPT ![name] = s]
  /\ UNCHANGED <<name, readable>>

RemoveFile ==
  /\ Change
  /\ name # NoFile
  /\ name' = NoFile
  /\ UNCHANGED <<size, readable>>

LockFile ==
  /\ Change
  /\ readable' = ~readable
  /\ UNCHANGED <<name, size>>

-----------------------------------------------------------------------------
Step(c) ==
  \/ Refuse(c)
  \/ Resolve(c)
  \/ CheckFile(c)
  \/ StatFile(c)
  \/ Open(c)
  \/ Read(c)

ClientStep(c) == Disconnect(c) \/ Resume(c)

FileStep == ReplaceFile \/ CutFile \/ RemoveFile \/ LockFile

Next == (\E c \in Clients : Step(c) \/ ClientStep(c)) \/ FileStep

Spec == Init /\ [][Next]_vars

\* The server runs the handler and the iterator as long as the client reads.
FairSpec == Spec /\ \A c \in Clients : WF_vars(Step(c))

-----------------------------------------------------------------------------
(* Properties.                                                             *)

\* The bytes RFC 7233 lets a header select from a file of n bytes.
Selected(h, n) ==
  {i \in 0..(n - 1) :
     CASE h.form = "between" -> h.first <= i /\ i <= h.last
       [] h.form = "from"    -> h.first <= i
       [] h.form = "suffix"  -> n - h.length <= i
       [] h.form = "none"    -> TRUE
       [] h.form = "bad"     -> FALSE}

\* The interval that is announced is what the header selects from the file
\* that was measured, whole and not empty; 416 is the answer exactly when it
\* selects nothing.
PromiseIsSelected ==
  \A c \in Clients :
    /\ pc[c] = "open" =>
         start[c]..(start[c] + remaining[c] - 1) = Selected(ask[c], stat[c])
    /\ status[c] = "partial" => Selected(ask[c], stat[c]) # {}
    /\ status[c] = "unsatisfiable" => Selected(ask[c], stat[c]) = {}

\* What a request sends are the bytes of one file, from the start of the
\* interval on, in order and no more than it announced, whatever happens to
\* the file while they are sent.
BodyInOrder ==
  \A c \in Clients :
    LET sent == Len(got[c]) - base[c] IN
      pc[c] = "read" =>
        /\ sent + remaining[c] = IntervalLength(ask[c], stat[c])
        /\ \A i \in 1..sent : got[c][base[c] + i] = <<fd[c], start[c] + i - 1>>

\* A body ends before the announced length only when the file was changed
\* after it had been measured.
ShortOnlyIfChanged ==
  \A c \in Clients :
    pc[c] = "done" /\ status[c] \in {"full", "partial"} /\ asOf[c] = changes =>
      Len(got[c]) - base[c] = IntervalLength(ask[c], stat[c])

\* A client that was cut off and resumed has the whole file in the end, each
\* byte once, if the file did not change.
ResumedIsWhole ==
  \A c \in Clients :
    /\ pc[c] = "done"
    /\ resumes[c] > 0
    /\ changes = 0
    /\ status[c] \in {"partial", "unsatisfiable"}
    => got[c] = [i \in 1..size[0] |-> <<0, i - 1>>]

\* Every download ends, also when its file becomes shorter under it.
DownloadsEnd ==
  \A c \in Clients : (pc[c] = "read") ~> (pc[c] \in {"done", "gone"})

\* "check that the original is there: 410 if it is missing or cannot be read"
\* (download): an original that cannot be read is not answered with a 200.
UnreadableIsGone ==
  \A c \in Clients :
    changes = 0 /\ ~readable => status[c] \notin {"full", "partial"}
=============================================================================
