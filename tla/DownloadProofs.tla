---------------------------- MODULE DownloadProofs --------------------------
(***************************************************************************)
(* Proofs about Download: for every header and every file size the Range   *)
(* parser selects what RFC 7233 selects, and whatever happens to the file  *)
(* a request sends the bytes of one file, in order, as announced.          *)
(***************************************************************************)
EXTENDS Download, TLAPS

\* The fields a header of each form has.
LEMMA HeaderFields ==
  ASSUME NEW h \in Headers
  PROVE  /\ h.form \in {"none", "bad", "between", "from", "suffix"}
         /\ h.form = "between" => h.first \in Nat /\ h.last \in Int
         /\ h.form = "from" => h.first \in Nat
         /\ h.form = "suffix" => h.length \in Int
BY DEF Headers

\* parse_range_header accepts a header exactly when it selects a byte, and
\* its interval is what the header selects.
THEOREM ParserSelects ==
  ASSUME NEW h \in Headers, NEW n \in Nat, h.form # "none"
  PROVE  /\ Accepted(h, n) =>
              /\ First(h, n) \in Nat /\ End(h, n) \in Nat
              /\ First(h, n) <= End(h, n)
              /\ First(h, n)..End(h, n) = Selected(h, n)
              /\ Selected(h, n) # {}
         /\ ~Accepted(h, n) => Selected(h, n) = {}
<1>. USE HeaderFields DEF Accepted, First, Last, End, Least, Selected
<1>1. CASE h.form = "bad"
  BY <1>1
<1>2. CASE h.form = "between"
  <2>1. First(h, n) = h.first /\ Last(h, n) = h.last /\ h.first \in Nat /\ h.last \in Int
    BY <1>2
  <2>2. Selected(h, n) = {i \in 0..(n - 1) : h.first <= i /\ i <= h.last}
    BY <1>2
  <2>3. ASSUME Accepted(h, n) PROVE h.first \in Selected(h, n)
    BY <1>2, <2>1, <2>2, <2>3
  <2>. QED
    BY <1>2, <2>1, <2>2, <2>3
<1>3. CASE h.form = "from"
  <2>1. First(h, n) = h.first /\ Last(h, n) = n - 1 /\ h.first \in Nat
    BY <1>3
  <2>2. Selected(h, n) = {i \in 0..(n - 1) : h.first <= i}
    BY <1>3
  <2>3. ASSUME Accepted(h, n) PROVE h.first \in Selected(h, n)
    BY <1>3, <2>1, <2>2, <2>3
  <2>. QED
    BY <1>3, <2>1, <2>2, <2>3
<1>4. CASE h.form = "suffix"
  <2>1. /\ h.length \in Int /\ Last(h, n) = n - 1
        /\ First(h, n) = IF n >= h.length THEN n - h.length ELSE 0
    BY <1>4
  <2>2. Selected(h, n) = {i \in 0..(n - 1) : n - h.length <= i}
    BY <1>4
  <2>3. ASSUME Accepted(h, n) PROVE n - 1 \in Selected(h, n)
    BY <1>4, <2>1, <2>2, <2>3
  <2>. QED
    BY <1>4, <2>1, <2>2, <2>3
<1>. QED
  BY <1>1, <1>2, <1>3, <1>4

-----------------------------------------------------------------------------
(* The inductive invariant.                                                *)

\* The answer goes with the header and the size that was measured.
PromiseOf(c) ==
  /\ pc[c] \in {"new", "check", "stat"} => status[c] = "none"
  /\ pc[c] \in {"open", "read"} => status[c] \in {"full", "partial"}
  /\ status[c] = "full" => ask[c].form = "none"
  /\ status[c] = "partial" => ask[c].form # "none" /\ Accepted(ask[c], stat[c])
  /\ status[c] = "unsatisfiable" => ask[c].form # "none" /\ ~Accepted(ask[c], stat[c])
  /\ pc[c] \in {"open", "read"} =>
       start[c] = IF ask[c].form = "none" THEN 0 ELSE First(ask[c], stat[c])

PromiseInv == \A c \in Clients : PromiseOf(c)

\* What c has received in this request.
Sent(c) == Len(got[c]) - base[c]

\* The body so far, and the place in the file where it goes on.
BodyOf(c) ==
  /\ pc[c] \in {"new", "check", "stat", "open"} => base[c] = Len(got[c])
  /\ pc[c] = "open" => remaining[c] = IntervalLength(ask[c], stat[c])
  /\ pc[c] = "read" =>
       /\ fd[c] \in Inodes
       /\ base[c] <= Len(got[c])
       /\ pos[c] = start[c] + Sent(c)
       /\ Sent(c) + remaining[c] = IntervalLength(ask[c], stat[c])
       /\ \A i \in 1..Sent(c) : got[c][base[c] + i] = <<fd[c], start[c] + i - 1>>

BodyInv == \A c \in Clients : BodyOf(c)

\* Until the file changes, what was measured is what is read, to the end.
FreshOf(c) ==
  /\ asOf[c] <= changes
  /\ asOf[c] = changes =>
       /\ pc[c] = "open" => name # NoFile /\ size[name] = stat[c]
       /\ pc[c] = "read" => size[fd[c]] = stat[c]
       /\ pc[c] = "done" /\ status[c] \in {"full", "partial"} =>
            Sent(c) = IntervalLength(ask[c], stat[c])

FreshInv == \A c \in Clients : FreshOf(c)

IInv == TypeOK /\ PromiseInv /\ BodyInv /\ FreshInv

\* The whole file and an accepted interval have a length and lie in the file.
LEMMA IntervalInFile ==
  ASSUME NEW h \in Headers, NEW n \in Nat, h.form = "none" \/ Accepted(h, n)
  PROVE  /\ IntervalLength(h, n) \in Nat
         /\ h.form # "none" => First(h, n) \in Nat /\ First(h, n) + IntervalLength(h, n) <= n
         /\ h.form = "none" => IntervalLength(h, n) = n
<1>1. CASE h.form = "none"
  BY <1>1 DEF IntervalLength
<1>2. CASE h.form # "none"
  <2>1. First(h, n) \in Nat /\ End(h, n) \in Nat /\ First(h, n) <= End(h, n)
    BY <1>2, ParserSelects
  <2>2. End(h, n) <= n - 1
    BY HeaderFields, <1>2 DEF End, Least, Last, Accepted
  <2>. QED
    BY <1>2, <2>1, <2>2 DEF IntervalLength
<1>. QED
  BY <1>1, <1>2

\* What a turn of the loop finds in the file is at most what is left to send.
LEMMA FoundIsThere ==
  ASSUME TypeOK, NEW c \in Clients, fd[c] \in Inodes
  PROVE  /\ Found(c, Want(c)) \in Nat
         /\ Found(c, Want(c)) <= remaining[c]
         /\ Found(c, Want(c)) = 0 /\ remaining[c] > 0 => pos[c] >= size[fd[c]]
<1>1. /\ remaining[c] \in Nat /\ pos[c] \in Nat
      /\ size[fd[c]] \in Nat /\ Chunk \in Nat \ {0}
  BY ChunkAssumption DEF TypeOK
<1>2. Want(c) \in Nat /\ Want(c) <= remaining[c] /\ (remaining[c] > 0 => Want(c) > 0)
  BY <1>1 DEF Want, Least
<1>. QED
  BY <1>1, <1>2 DEF Found, Least

\* Appending one sequence to another.
LEMMA Concatenation ==
  ASSUME NEW S, NEW s \in Seq(S), NEW t \in Seq(S)
  PROVE  /\ s \o t \in Seq(S)
         /\ Len(s \o t) = Len(s) + Len(t)
         /\ \A i \in 1..Len(s) : (s \o t)[i] = s[i]
         /\ \A i \in 1..Len(t) : (s \o t)[Len(s) + i] = t[i]
OBVIOUS

\* Receiving appends the bytes of the open file from the position on.
LEMMA ReceiveAppends ==
  ASSUME TypeOK, NEW c \in Clients, fd[c] \in Inodes, NEW k \in Nat, Receive(c, k)
  PROVE  /\ got' \in [Clients -> Seq(Inodes \X Nat)]
         /\ Len(got'[c]) = Len(got[c]) + k
         /\ \A i \in 1..Len(got[c]) : got'[c][i] = got[c][i]
         /\ \A i \in 1..k : got'[c][Len(got[c]) + i] = <<fd[c], pos[c] + i - 1>>
         /\ \A d \in Clients \ {c} : got'[d] = got[d]
<1>. DEFINE tail == [i \in 1..k |-> <<fd[c], pos[c] + i - 1>>]
<1>1. tail \in Seq(Inodes \X Nat) /\ Len(tail) = k
  <2>1. tail \in [1..k -> Inodes \X Nat]
    BY DEF TypeOK
  <2>. QED
    BY <2>1
<1>2. got' = [got EXCEPT ![c] = @ \o tail]
  BY DEF Receive
<1>3. got[c] \in Seq(Inodes \X Nat) /\ got \in [Clients -> Seq(Inodes \X Nat)]
  BY DEF TypeOK
<1>4. \A i \in 1..k : tail[i] = <<fd[c], pos[c] + i - 1>>
  OBVIOUS
<1>. HIDE DEF tail
<1>5. /\ got[c] \o tail \in Seq(Inodes \X Nat)
      /\ Len(got[c] \o tail) = Len(got[c]) + k
      /\ \A i \in 1..Len(got[c]) : (got[c] \o tail)[i] = got[c][i]
      /\ \A i \in 1..k : (got[c] \o tail)[Len(got[c]) + i] = tail[i]
  <2>. DEFINE Bytes == Inodes \X Nat
  <2>1. got[c] \in Seq(Bytes) /\ tail \in Seq(Bytes)
    BY <1>1, <1>3
  <2>. HIDE DEF Bytes
  <2>2. /\ got[c] \o tail \in Seq(Bytes)
        /\ Len(got[c] \o tail) = Len(got[c]) + Len(tail)
        /\ \A i \in 1..Len(got[c]) : (got[c] \o tail)[i] = got[c][i]
        /\ \A i \in 1..Len(tail) : (got[c] \o tail)[Len(got[c]) + i] = tail[i]
    BY <2>1, Concatenation
  <2>. QED
    BY <1>1, <2>2 DEF Bytes
<1>6. got'[c] = got[c] \o tail /\ \A d \in Clients \ {c} : got'[d] = got[d]
  BY <1>2, <1>3
<1>7. got' \in [Clients -> Seq(Inodes \X Nat)]
  BY <1>2, <1>3, <1>5
<1>8. \A i \in 1..k : got'[c][Len(got[c]) + i] = <<fd[c], pos[c] + i - 1>>
  BY <1>4, <1>5, <1>6
<1>. QED
  BY <1>5, <1>6, <1>7, <1>8

-----------------------------------------------------------------------------
(* Every step keeps the invariant.                                         *)

\* The length and the start that are announced are numbers.
LEMMA PromiseTypes ==
  ASSUME NEW h \in Headers, NEW n \in Nat, h.form = "none" \/ Accepted(h, n)
  PROVE  /\ IntervalLength(h, n) \in Nat
         /\ (IF h.form = "none" THEN 0 ELSE First(h, n)) \in Nat
BY IntervalInFile

\* The variables keep their types.
LEMMA TypeStep ==
  IInv /\ [Next]_vars => TypeOK'
<1> SUFFICES ASSUME IInv, [Next]_vars PROVE TypeOK'
  OBVIOUS
<1>0. TypeOK
  BY DEF IInv
<1>. USE <1>0, BoundsAssumption, SizesAssumption
       DEF TypeOK, PCs, Statuses, fileVars, reqVars
<1>1. ASSUME NEW c \in Clients, Refuse(c)
      PROVE  TypeOK'
  BY <1>1 DEF Refuse
<1>2. ASSUME NEW c \in Clients, Resolve(c)
      PROVE  TypeOK'
  BY <1>2 DEF Resolve
<1>3. ASSUME NEW c \in Clients, CheckFile(c)
      PROVE  TypeOK'
  BY <1>3 DEF CheckFile
<1>4. ASSUME NEW c \in Clients, StatFile(c)
      PROVE  TypeOK'
  <2>1. CASE name = NoFile
    BY <1>4, <2>1 DEF StatFile
  <2>2. CASE name # NoFile /\ (ask[c].form = "none" \/ Accepted(ask[c], size[name]))
    <3>1. size[name] \in Nat
      BY <2>2
    <3>2. /\ IntervalLength(ask[c], size[name]) \in Nat
          /\ (IF ask[c].form = "none" THEN 0 ELSE First(ask[c], size[name])) \in Nat
      BY <2>2, <3>1, PromiseTypes
    <3>. QED
      <4>1. /\ start' \in [Clients -> Nat] /\ remaining' \in [Clients -> Nat]
            /\ stat' \in [Clients -> Nat]
        <5>1. /\ start' = [start EXCEPT ![c] = IF ask[c].form = "none" THEN 0
                                               ELSE First(ask[c], size[name])]
              /\ remaining' = [remaining EXCEPT ![c] = IntervalLength(ask[c], size[name])]
              /\ stat' = [stat EXCEPT ![c] = size[name]]
          <6>. HIDE DEF TypeOK, reqVars, PCs, Statuses
          <6>. QED
            BY <1>4, <2>2 DEF StatFile, Promise
        <5>2. start' \in [Clients -> Nat]
          BY <3>2, <5>1
        <5>3. remaining' \in [Clients -> Nat] /\ stat' \in [Clients -> Nat]
          BY <3>1, <3>2, <5>1
        <5>. QED
          BY <5>2, <5>3
      <4>2. /\ pc' \in [Clients -> PCs] /\ status' \in [Clients -> Statuses]
            /\ asOf' \in [Clients -> 0..MaxChanges]
        <5>1. /\ pc' = [pc EXCEPT ![c] = "open"]
              /\ status' = [status EXCEPT ![c] = IF ask[c].form = "none" THEN "full"
                                                 ELSE "partial"]
              /\ asOf' = [asOf EXCEPT ![c] = changes]
          <6>. HIDE DEF TypeOK, reqVars, PCs, Statuses
          <6>. QED
            BY <1>4, <2>2 DEF StatFile, Promise
        <5>. QED
          BY <5>1
      <4>. QED
        BY <1>4, <4>1, <4>2 DEF StatFile
  <2>3. CASE name # NoFile /\ ~(ask[c].form = "none" \/ Accepted(ask[c], size[name]))
    <3>1. /\ stat' = [stat EXCEPT ![c] = size[name]]
          /\ pc' = [pc EXCEPT ![c] = "done"]
          /\ status' = [status EXCEPT ![c] = "unsatisfiable"]
          /\ asOf' = [asOf EXCEPT ![c] = changes]
          /\ UNCHANGED <<start, remaining, fileVars, ask, fd, pos, got, base, resumes>>
      <4>. HIDE DEF TypeOK, reqVars, PCs, Statuses
      <4>. QED
        BY <1>4, <2>3 DEF StatFile
    <3>2. stat' \in [Clients -> Nat]
      BY <2>3, <3>1
    <3>. QED
      BY <3>1, <3>2
  <2>. QED
    BY <2>1, <2>2, <2>3
<1>5. ASSUME NEW c \in Clients, Open(c)
      PROVE  TypeOK'
  <2>1. CASE name # NoFile /\ readable
    <3>1. name \in Inodes /\ start[c] \in Nat
      BY <2>1
    <3>2. pc' \in [Clients -> PCs] /\ fd' \in [Clients -> Inodes \cup {NoFile}]
      <4>1. pc' = [pc EXCEPT ![c] = "read"] /\ fd' = [fd EXCEPT ![c] = name]
        BY <1>5, <2>1 DEF Open
      <4>. QED
        BY <3>1, <4>1
    <3>3. pos' \in [Clients -> Nat]
      BY <1>5, <2>1, <3>1 DEF Open
    <3>. QED
      BY <1>5, <3>2, <3>3 DEF Open
  <2>2. CASE ~(name # NoFile /\ readable)
    BY <1>5, <2>2 DEF Open
  <2>. QED
    BY <2>1, <2>2
<1>6. ASSUME NEW c \in Clients, Read(c)
      PROVE  TypeOK'
  <2>1. CASE remaining[c] > 0 /\ Found(c, Want(c)) > 0
    <3>1. fd[c] \in Inodes
      BY <1>6 DEF Read, IInv, BodyInv, BodyOf
    <3>2. /\ Found(c, Want(c)) \in Nat
          /\ Found(c, Want(c)) <= remaining[c]
      BY <3>1, FoundIsThere
    <3>3. Receive(c, Found(c, Want(c)))
      BY <1>6, <2>1 DEF Read
    <3>4. got' \in [Clients -> Seq(Inodes \X Nat)]
      BY <3>1, <3>2, <3>3, ReceiveAppends
    <3>. QED
      <4>1. pos' \in [Clients -> Nat] /\ remaining' \in [Clients -> Nat]
        <5>1. /\ pos' = [pos EXCEPT ![c] = pos[c] + Found(c, Want(c))]
              /\ remaining' = [remaining EXCEPT ![c] = remaining[c] - Found(c, Want(c))]
          <6>. HIDE DEF TypeOK, reqVars, PCs, Statuses
          <6>. QED
            BY <3>3 DEF Receive
        <5>2. /\ pos[c] + Found(c, Want(c)) \in Nat
              /\ remaining[c] - Found(c, Want(c)) \in Nat
          <6>1. pos[c] \in Nat /\ remaining[c] \in Nat
            OBVIOUS
          <6>. HIDE DEF TypeOK, reqVars
          <6>. QED
            BY <3>2, <6>1
        <5>. QED
          BY <5>1, <5>2
      <4>. QED
        BY <1>6, <2>1, <3>4, <4>1 DEF Read
  <2>2. CASE ~(remaining[c] > 0 /\ Found(c, Want(c)) > 0)
    BY <1>6, <2>2 DEF Read
  <2>. QED
    BY <2>1, <2>2
<1>7. ASSUME NEW c \in Clients, Disconnect(c)
      PROVE  TypeOK'
  BY <1>7 DEF Disconnect
<1>8. ASSUME NEW c \in Clients, Resume(c)
      PROVE  TypeOK'
  <2>1. [form |-> "from", first |-> Len(got[c])] \in Headers /\ Len(got[c]) \in Nat
    BY DEF Headers
  <2>2. /\ ask' \in [Clients -> Headers] /\ base' \in [Clients -> Nat]
    BY <1>8, <2>1 DEF Resume
  <2>3. /\ pc' \in [Clients -> PCs] /\ status' \in [Clients -> Statuses]
        /\ resumes' \in [Clients -> 0..MaxResumes]
    BY <1>8 DEF Resume
  <2>. QED
    BY <1>8, <2>2, <2>3 DEF Resume
<1>9. ASSUME FileStep
      PROVE  TypeOK'
  <2>1. ASSUME Change
        PROVE  changes' \in 0..MaxChanges /\ changes + 1 \in Inodes
    BY <2>1 DEF Change, Inodes
  <2>2. CASE ReplaceFile
    BY <2>1, <2>2 DEF ReplaceFile, Change
  <2>3. CASE CutFile
    BY <2>1, <2>3 DEF CutFile, Change
  <2>4. CASE RemoveFile
    BY <2>1, <2>4 DEF RemoveFile, Change
  <2>5. CASE LockFile
    BY <2>1, <2>5 DEF LockFile, Change
  <2>. QED
    BY <1>9, <2>2, <2>3, <2>4, <2>5 DEF FileStep
<1>10. CASE UNCHANGED vars
  BY <1>10 DEF vars
<1>. QED
  BY <1>1, <1>2, <1>3, <1>4, <1>5, <1>6, <1>7, <1>8, <1>9, <1>10
  DEF Next, Step, ClientStep

\* The variables of one client.
Mine(d) ==
  <<pc[d], ask[d], status[d], stat[d], start[d], remaining[d], fd[d], pos[d],
    got[d], base[d], resumes[d], asOf[d]>>

\* A step of one client leaves the others alone, and the file as well.
LEMMA StepIsLocal ==
  ASSUME TypeOK, NEW c \in Clients, Step(c) \/ ClientStep(c)
  PROVE  /\ UNCHANGED fileVars
         /\ \A d \in Clients \ {c} : UNCHANGED Mine(d)
<1>. USE DEF TypeOK, Mine
<1>1. CASE Refuse(c)
  BY <1>1 DEF Refuse
<1>2. CASE Resolve(c)
  BY <1>2 DEF Resolve
<1>3. CASE CheckFile(c)
  BY <1>3 DEF CheckFile
<1>4. CASE StatFile(c)
  <2>1. UNCHANGED fileVars
    BY <1>4 DEF StatFile
  <2>2. ASSUME NEW d \in Clients \ {c}
        PROVE  UNCHANGED Mine(d)
    <3>1. UNCHANGED <<ask, fd, pos, got, base, resumes>>
      BY <1>4 DEF StatFile
    <3>2. /\ \E x \in PCs : pc' = [pc EXCEPT ![c] = x]
          /\ \E x \in Statuses : status' = [status EXCEPT ![c] = x]
      <4>. HIDE DEF TypeOK, Mine
      <4>. QED
        BY <1>4 DEF StatFile, Promise, PCs, Statuses
    <3>3. stat'[d] = stat[d] /\ asOf'[d] = asOf[d]
      BY <1>4 DEF StatFile
    <3>4. start'[d] = start[d] /\ remaining'[d] = remaining[d]
      BY <1>4 DEF StatFile, Promise
    <3>. QED
      BY <3>1, <3>2, <3>3, <3>4
  <2>. QED
    BY <2>1, <2>2
<1>5. CASE Open(c)
  BY <1>5 DEF Open
<1>6. CASE Read(c)
  <2>1. UNCHANGED <<fileVars, ask, status, stat, start, base, resumes, asOf>>
    BY <1>6 DEF Read
  <2>2. CASE remaining[c] > 0 /\ Found(c, Want(c)) > 0
    BY <1>6, <2>1, <2>2 DEF Read, Receive
  <2>3. CASE ~(remaining[c] > 0 /\ Found(c, Want(c)) > 0)
    BY <1>6, <2>1, <2>3 DEF Read
  <2>. QED
    BY <2>2, <2>3, <2>1
<1>7. CASE Disconnect(c)
  BY <1>7 DEF Disconnect
<1>8. CASE Resume(c)
  BY <1>8 DEF Resume
<1>. QED
  BY <1>1, <1>2, <1>3, <1>4, <1>5, <1>6, <1>7, <1>8 DEF Step, ClientStep

\* What holds of a client keeps holding while it and the file do not move.
LEMMA IdleKeeps ==
  ASSUME NEW d \in Clients, UNCHANGED Mine(d)
  PROVE  /\ PromiseOf(d) => PromiseOf(d)'
         /\ BodyOf(d) => BodyOf(d)'
         /\ FreshOf(d) /\ UNCHANGED fileVars => FreshOf(d)'
<1>1. /\ pc'[d] = pc[d] /\ ask'[d] = ask[d] /\ status'[d] = status[d] /\ stat'[d] = stat[d]
      /\ start'[d] = start[d] /\ remaining'[d] = remaining[d] /\ fd'[d] = fd[d]
      /\ pos'[d] = pos[d] /\ got'[d] = got[d] /\ base'[d] = base[d] /\ asOf'[d] = asOf[d]
  BY DEF Mine
<1>2. PromiseOf(d) => PromiseOf(d)'
  BY <1>1 DEF PromiseOf
<1>3. BodyOf(d) => BodyOf(d)'
  BY <1>1 DEF BodyOf, Sent
<1>4. FreshOf(d) /\ UNCHANGED fileVars => FreshOf(d)'
  BY <1>1 DEF FreshOf, Sent, fileVars
<1>. QED
  BY <1>2, <1>3, <1>4

\* The answer of the client that moves.
LEMMA PromiseOfMover ==
  ASSUME TypeOK, NEW c \in Clients, PromiseOf(c), Step(c) \/ ClientStep(c)
  PROVE  PromiseOf(c)'
<1>. USE DEF TypeOK, PromiseOf
<1>1. CASE Refuse(c)
  BY <1>1 DEF Refuse
<1>2. CASE Resolve(c)
  BY <1>2 DEF Resolve
<1>3. CASE CheckFile(c)
  BY <1>3 DEF CheckFile
<1>4. CASE StatFile(c)
  <2>0. pc[c] = "stat" /\ status[c] = "none" /\ ask'[c] = ask[c]
    BY <1>4 DEF StatFile
  <2>1. CASE name = NoFile
    <3>1. pc'[c] = "done" /\ status'[c] = "raised"
      BY <1>4, <2>1 DEF StatFile
    <3>. QED
      BY <3>1
  <2>2. CASE name # NoFile /\ (ask[c].form = "none" \/ Accepted(ask[c], size[name]))
    <3>1. /\ pc'[c] = "open"
          /\ status'[c] = IF ask[c].form = "none" THEN "full" ELSE "partial"
          /\ stat'[c] = size[name]
          /\ start'[c] = IF ask[c].form = "none" THEN 0 ELSE First(ask[c], size[name])
      BY <1>4, <2>2 DEF StatFile, Promise
    <3>. QED
      BY <2>0, <2>2, <3>1
  <2>3. CASE name # NoFile /\ ~(ask[c].form = "none" \/ Accepted(ask[c], size[name]))
    <3>1. pc'[c] = "done" /\ status'[c] = "unsatisfiable" /\ stat'[c] = size[name]
      BY <1>4, <2>3 DEF StatFile
    <3>. QED
      BY <2>0, <2>3, <3>1
  <2>. QED
    BY <2>1, <2>2, <2>3
<1>5. CASE Open(c)
  BY <1>5 DEF Open
<1>6. CASE Read(c)
  BY <1>6 DEF Read
<1>7. CASE Disconnect(c)
  BY <1>7 DEF Disconnect
<1>8. CASE Resume(c)
  BY <1>8 DEF Resume
<1>. QED
  BY <1>1, <1>2, <1>3, <1>4, <1>5, <1>6, <1>7, <1>8 DEF Step, ClientStep

\* A turn of the loop that sends something: the body grows in order.
LEMMA BodyGrows ==
  ASSUME TypeOK, NEW c \in Clients, BodyOf(c), Read(c),
         remaining[c] > 0, Found(c, Want(c)) > 0
  PROVE  BodyOf(c)'
<1>. DEFINE k == Found(c, Want(c))
<1>1. /\ fd[c] \in Inodes /\ pc[c] = "read"
      /\ UNCHANGED <<pc, ask, stat, start, fd, base>>
  BY DEF Read, BodyOf
<1>2. k \in Nat /\ Receive(c, k)
  BY <1>1, FoundIsThere DEF Read
<1>. HIDE DEF k
<1>3. /\ Len(got[c]) \in Nat /\ base[c] \in Nat /\ pos[c] \in Nat /\ start[c] \in Nat
      /\ remaining[c] \in Nat
  BY DEF TypeOK
<1>4. /\ base[c] <= Len(got[c])
      /\ pos[c] = start[c] + Sent(c)
      /\ Sent(c) + remaining[c] = IntervalLength(ask[c], stat[c])
      /\ \A i \in 1..Sent(c) : got[c][base[c] + i] = <<fd[c], start[c] + i - 1>>
  BY <1>1 DEF BodyOf
<1>5. /\ Len(got'[c]) = Len(got[c]) + k
      /\ \A i \in 1..Len(got[c]) : got'[c][i] = got[c][i]
      /\ \A i \in 1..k : got'[c][Len(got[c]) + i] = <<fd[c], pos[c] + i - 1>>
  BY <1>1, <1>2, ReceiveAppends
<1>6. pos'[c] = pos[c] + k /\ remaining'[c] = remaining[c] - k
  BY <1>2 DEF Receive, TypeOK
<1>7. /\ Sent(c) \in Nat /\ Sent(c)' = Sent(c) + k
      /\ Len(got[c]) = base[c] + Sent(c)
  BY <1>1, <1>2, <1>3, <1>4, <1>5 DEF Sent
<1>8. ASSUME NEW i \in 1..(Sent(c) + k)
      PROVE  got'[c][base[c] + i] = <<fd[c], start[c] + i - 1>>
  <2>1. CASE i <= Sent(c)
    <3>1. i \in 1..Sent(c) /\ base[c] + i \in 1..Len(got[c])
      BY <1>3, <1>7, <2>1
    <3>. QED
      BY <1>4, <1>5, <3>1
  <2>2. CASE i > Sent(c)
    <3>1. i - Sent(c) \in 1..k /\ base[c] + i = Len(got[c]) + (i - Sent(c))
      BY <1>2, <1>3, <1>7, <2>2
    <3>2. got'[c][Len(got[c]) + (i - Sent(c))] = <<fd[c], pos[c] + (i - Sent(c)) - 1>>
      BY <1>5, <3>1
    <3>3. pos[c] = start[c] + Sent(c)
      BY <1>4
    <3>4. i \in Int /\ Sent(c) \in Nat /\ start[c] \in Nat
      BY <1>2, <1>3, <1>7
    <3>5. pos[c] + (i - Sent(c)) - 1 = start[c] + i - 1
      BY <3>3, <3>4
    <3>. QED
      BY <3>1, <3>2, <3>5
  <2>. QED
    BY <1>2, <1>7, <2>1, <2>2
<1>9. /\ base'[c] <= Len(got'[c])
      /\ pos'[c] = start'[c] + Sent(c)'
  <2>1. base'[c] = base[c] /\ start'[c] = start[c] /\ Len(got'[c]) = Len(got[c]) + k
    BY <1>1, <1>5
  <2>2. pos[c] + k = start[c] + (Sent(c) + k)
    BY <1>2, <1>3, <1>4, <1>7
  <2>. QED
    BY <1>2, <1>3, <1>4, <1>6, <1>7, <2>1, <2>2
<1>10. Sent(c)' + remaining'[c] = IntervalLength(ask'[c], stat'[c])
  <2>1. Sent(c)' + remaining'[c] = Sent(c) + remaining[c]
    BY <1>2, <1>3, <1>6, <1>7
  <2>2. IntervalLength(ask'[c], stat'[c]) = IntervalLength(ask[c], stat[c])
    BY <1>1
  <2>. QED
    BY <1>4, <2>1, <2>2
<1>. QED
  BY <1>1, <1>7, <1>8, <1>9, <1>10 DEF BodyOf

\* The body of the client that moves.
LEMMA BodyOfMover ==
  ASSUME TypeOK, NEW c \in Clients, BodyOf(c), Step(c) \/ ClientStep(c)
  PROVE  BodyOf(c)'
<1>1. CASE Refuse(c)
  BY <1>1 DEF Refuse, TypeOK, BodyOf
<1>2. CASE Resolve(c)
  BY <1>2 DEF Resolve, TypeOK, BodyOf
<1>3. CASE CheckFile(c)
  BY <1>3 DEF CheckFile, TypeOK, BodyOf
<1>4. CASE StatFile(c)
  <2>1. /\ pc[c] = "stat" /\ pc'[c] \in {"done", "open"}
        /\ UNCHANGED <<ask, base, got>>
        /\ pc'[c] = "open" =>
             stat'[c] = size[name] /\ remaining'[c] = IntervalLength(ask[c], size[name])
    BY <1>4 DEF StatFile, Promise, TypeOK
  <2>. QED
    BY <2>1 DEF BodyOf
<1>5. CASE Open(c)
  <2>1. CASE name # NoFile /\ readable
    <3>1. /\ pc[c] = "open" /\ pc'[c] = "read" /\ fd'[c] = name /\ pos'[c] = start[c]
          /\ UNCHANGED <<ask, stat, start, remaining, got, base>>
      BY <1>5, <2>1 DEF Open, TypeOK
    <3>2. /\ Len(got[c]) \in Nat /\ base[c] = Len(got[c]) /\ name \in Inodes
          /\ remaining[c] = IntervalLength(ask[c], stat[c])
          /\ remaining[c] \in Nat /\ start[c] \in Nat
      BY <2>1, <3>1 DEF TypeOK, BodyOf
    <3>3. Sent(c)' = 0
      BY <3>1, <3>2 DEF Sent
    <3>. QED
      BY <3>1, <3>2, <3>3 DEF BodyOf
  <2>2. CASE ~(name # NoFile /\ readable)
    BY <1>5, <2>2 DEF Open, TypeOK, BodyOf
  <2>. QED
    BY <2>1, <2>2
<1>6. CASE Read(c)
  <2>1. CASE remaining[c] > 0 /\ Found(c, Want(c)) > 0
    BY <1>6, <2>1, BodyGrows
  <2>2. CASE ~(remaining[c] > 0 /\ Found(c, Want(c)) > 0)
    BY <1>6, <2>2 DEF Read, TypeOK, BodyOf
  <2>. QED
    BY <2>1, <2>2
<1>7. CASE Disconnect(c)
  BY <1>7 DEF Disconnect, TypeOK, BodyOf
<1>8. CASE Resume(c)
  BY <1>8 DEF Resume, TypeOK, BodyOf
<1>. QED
  BY <1>1, <1>2, <1>3, <1>4, <1>5, <1>6, <1>7, <1>8 DEF Step, ClientStep

\* A body ends short only where the file ends before what was measured.
LEMMA EndIsWhole ==
  ASSUME TypeOK, NEW c \in Clients, PromiseOf(c), BodyOf(c), pc[c] = "read",
         ~(remaining[c] > 0 /\ Found(c, Want(c)) > 0), size[fd[c]] = stat[c]
  PROVE  Sent(c) = IntervalLength(ask[c], stat[c])
<1>1. /\ fd[c] \in Inodes /\ pos[c] = start[c] + Sent(c)
      /\ Sent(c) + remaining[c] = IntervalLength(ask[c], stat[c])
  BY DEF BodyOf
<1>2. /\ remaining[c] \in Nat /\ start[c] \in Nat /\ Len(got[c]) \in Nat /\ base[c] \in Nat
      /\ stat[c] \in Nat /\ ask[c] \in Headers
  BY DEF TypeOK
<1>3. Sent(c) \in Int
  BY <1>2 DEF Sent
<1>4. /\ ask[c].form = "none" \/ Accepted(ask[c], stat[c])
      /\ start[c] = IF ask[c].form = "none" THEN 0 ELSE First(ask[c], stat[c])
  BY DEF PromiseOf
<1>5. start[c] + IntervalLength(ask[c], stat[c]) <= stat[c]
  BY <1>2, <1>4, IntervalInFile
<1>6. CASE remaining[c] = 0
  BY <1>1, <1>3, <1>6
<1>7. CASE remaining[c] > 0
  <2>1. pos[c] >= stat[c]
    BY <1>1, <1>7, FoundIsThere
  <2>. QED
    BY <1>1, <1>2, <1>3, <1>5, <1>7, <2>1
<1>. QED
  BY <1>2, <1>6, <1>7

\* The measure of the client that moves.
LEMMA FreshOfMover ==
  ASSUME TypeOK, NEW c \in Clients, PromiseOf(c), BodyOf(c), FreshOf(c),
         Step(c) \/ ClientStep(c)
  PROVE  FreshOf(c)'
<1>0. UNCHANGED <<name, size, changes>>
  BY StepIsLocal DEF fileVars
<1>. USE <1>0 DEF TypeOK, FreshOf
<1>1. CASE Refuse(c)
  BY <1>1 DEF Refuse
<1>2. CASE Resolve(c)
  BY <1>2 DEF Resolve
<1>3. CASE CheckFile(c)
  BY <1>3 DEF CheckFile
<1>4. CASE StatFile(c)
  <2>1. /\ asOf'[c] = changes
        /\ pc'[c] \in {"done", "open"}
        /\ pc'[c] = "open" => name # NoFile /\ stat'[c] = size[name]
        /\ pc'[c] = "done" => status'[c] \in {"raised", "unsatisfiable"}
    BY <1>4 DEF StatFile, Promise
  <2>. QED
    BY <2>1
<1>5. CASE Open(c)
  BY <1>5 DEF Open
<1>6. CASE Read(c)
  <2>0. /\ pc[c] = "read" /\ UNCHANGED <<ask, stat, status, base, asOf>>
        /\ asOf[c] = changes => size[fd[c]] = stat[c]
    BY <1>6 DEF Read
  <2>1. CASE remaining[c] > 0 /\ Found(c, Want(c)) > 0
    <3>1. UNCHANGED <<pc, fd>>
      BY <1>6, <2>1 DEF Read
    <3>. QED
      BY <2>0, <3>1
  <2>2. CASE ~(remaining[c] > 0 /\ Found(c, Want(c)) > 0)
    <3>1. pc'[c] = "done" /\ UNCHANGED got
      BY <1>6, <2>2 DEF Read
    <3>2. asOf[c] = changes => Sent(c) = IntervalLength(ask[c], stat[c])
      BY <2>0, <2>2, EndIsWhole
    <3>3. Sent(c)' = Sent(c)
      BY <2>0, <3>1 DEF Sent
    <3>. QED
      BY <2>0, <3>1, <3>2, <3>3
  <2>. QED
    BY <2>1, <2>2
<1>7. CASE Disconnect(c)
  BY <1>7 DEF Disconnect
<1>8. CASE Resume(c)
  BY <1>8 DEF Resume
<1>. QED
  BY <1>1, <1>2, <1>3, <1>4, <1>5, <1>6, <1>7, <1>8 DEF Step, ClientStep

\* The file changes: nothing that was measured before is fresh any more.
LEMMA FileStepKeeps ==
  ASSUME IInv, FileStep
  PROVE  PromiseInv' /\ BodyInv' /\ FreshInv'
<1>1. UNCHANGED reqVars /\ changes' = changes + 1
  BY DEF FileStep, ReplaceFile, CutFile, RemoveFile, LockFile, Change
<1>2. \A d \in Clients : UNCHANGED Mine(d)
  BY <1>1 DEF reqVars, Mine
<1>3. PromiseInv' /\ BodyInv'
  BY <1>2, IdleKeeps DEF IInv, PromiseInv, BodyInv
<1>4. ASSUME NEW d \in Clients PROVE FreshOf(d)'
  <2>1. asOf'[d] <= changes /\ asOf'[d] \in Nat /\ changes \in Nat
    BY <1>1, BoundsAssumption DEF IInv, FreshInv, FreshOf, TypeOK, reqVars
  <2>2. asOf'[d] <= changes' /\ asOf'[d] # changes'
    BY <1>1, <2>1
  <2>. QED
    BY <2>1, <2>2 DEF FreshOf
<1>. QED
  BY <1>3, <1>4 DEF FreshInv

-----------------------------------------------------------------------------
(* The theorems.                                                           *)

\* No request has begun.
LEMMA InitIInv ==
  Init => IInv
<1> SUFFICES ASSUME Init PROVE IInv
  OBVIOUS
<1>1. TypeOK
  BY SizesAssumption, BoundsAssumption, AsksAssumption
  DEF Init, TypeOK, Inodes, NoFile, PCs, Statuses
<1>2. PromiseInv
  BY DEF Init, PromiseInv, PromiseOf
<1>3. BodyInv
  BY DEF Init, BodyInv, BodyOf
<1>4. FreshInv
  <2>1. changes = 0 /\ \A c \in Clients : asOf[c] = 0 /\ pc[c] = "new"
    BY DEF Init
  <2>2. ASSUME NEW c \in Clients PROVE FreshOf(c)
    BY <2>1 DEF FreshOf
  <2>. QED
    BY <2>2 DEF FreshInv
<1>. QED
  BY <1>1, <1>2, <1>3, <1>4 DEF IInv

\* The types, the answers, the bodies and the measures of all clients keep
\* their relations in every step.
THEOREM Invariance == Spec => []IInv
<1>1. ASSUME IInv, [Next]_vars PROVE IInv'
  <2>1. TypeOK'
    BY <1>1, TypeStep
  <2>2. CASE FileStep
    BY <1>1, <2>1, <2>2, FileStepKeeps DEF IInv
  <2>3. CASE \E c \in Clients : Step(c) \/ ClientStep(c)
    <3>1. PICK c \in Clients : Step(c) \/ ClientStep(c)
      BY <2>3
    <3>2. UNCHANGED fileVars /\ \A d \in Clients \ {c} : UNCHANGED Mine(d)
      BY <1>1, <3>1, StepIsLocal DEF IInv
    <3>3. PromiseOf(c)' /\ BodyOf(c)' /\ FreshOf(c)'
      BY <1>1, <3>1, PromiseOfMover, BodyOfMover, FreshOfMover
      DEF IInv, PromiseInv, BodyInv, FreshInv
    <3>4. \A d \in Clients \ {c} : PromiseOf(d)' /\ BodyOf(d)' /\ FreshOf(d)'
      BY <1>1, <3>2, IdleKeeps DEF IInv, PromiseInv, BodyInv, FreshInv
    <3>. QED
      BY <2>1, <3>3, <3>4 DEF IInv, PromiseInv, BodyInv, FreshInv
  <2>4. CASE UNCHANGED vars
    <3>1. UNCHANGED fileVars /\ \A d \in Clients : UNCHANGED Mine(d)
      BY <2>4 DEF vars, reqVars, Mine
    <3>. QED
      BY <1>1, <2>1, <3>1, IdleKeeps DEF IInv, PromiseInv, BodyInv, FreshInv
  <2>. QED
    BY <1>1, <2>2, <2>3, <2>4 DEF Next
<1>. QED
  BY <1>1, InitIInv, PTL DEF Spec

\* The announced interval is what the header selects from the measured file,
\* and a request is refused with 416 exactly when that is nothing.
THEOREM PromiseIsSelectedHolds == Spec => []PromiseIsSelected
<1>1. ASSUME IInv PROVE PromiseIsSelected
  <2>1. ASSUME NEW c \in Clients, status[c] = "partial"
        PROVE  Selected(ask[c], stat[c]) # {}
    BY <1>1, <2>1, ParserSelects DEF IInv, TypeOK, PromiseInv, PromiseOf
  <2>2. ASSUME NEW c \in Clients, status[c] = "unsatisfiable"
        PROVE  Selected(ask[c], stat[c]) = {}
    BY <1>1, <2>2, ParserSelects DEF IInv, TypeOK, PromiseInv, PromiseOf
  <2>3. ASSUME NEW c \in Clients, pc[c] = "open"
        PROVE  start[c]..(start[c] + remaining[c] - 1) = Selected(ask[c], stat[c])
    <3>1. /\ ask[c] \in Headers /\ stat[c] \in Nat
          /\ ask[c].form = "none" \/ Accepted(ask[c], stat[c])
          /\ start[c] = IF ask[c].form = "none" THEN 0 ELSE First(ask[c], stat[c])
          /\ remaining[c] = IntervalLength(ask[c], stat[c])
      BY <1>1, <2>3 DEF IInv, TypeOK, PromiseInv, PromiseOf, BodyInv, BodyOf
    <3>2. CASE ask[c].form = "none"
      <4>1. Selected(ask[c], stat[c]) = 0..(stat[c] - 1)
        BY <3>2 DEF Selected
      <4>. QED
        BY <3>1, <3>2, <4>1 DEF IntervalLength
    <3>3. CASE ask[c].form # "none"
      <4>1. /\ start[c] = First(ask[c], stat[c]) /\ start[c] \in Nat
            /\ End(ask[c], stat[c]) \in Nat
            /\ start[c]..End(ask[c], stat[c]) = Selected(ask[c], stat[c])
        BY <3>1, <3>3, ParserSelects
      <4>2. start[c] + remaining[c] - 1 = End(ask[c], stat[c])
        BY <3>1, <3>3, <4>1 DEF IntervalLength
      <4>. QED
        BY <4>1, <4>2
    <3>. QED
      BY <3>2, <3>3
  <2>. QED
    BY <2>1, <2>2, <2>3 DEF PromiseIsSelected
<1>. QED
  BY <1>1, Invariance, PTL

\* A request sends the bytes of one file, in order, as it announced them,
\* whatever the owner does to the file in the meantime.
THEOREM BodyInOrderHolds == Spec => []BodyInOrder
<1>1. ASSUME IInv PROVE BodyInOrder
  BY <1>1 DEF IInv, BodyInv, BodyOf, BodyInOrder, Sent
<1>. QED
  BY <1>1, Invariance, PTL

\* A body is shorter than announced only when the file changed after it was
\* measured.
THEOREM ShortOnlyIfChangedHolds == Spec => []ShortOnlyIfChanged
<1>1. ASSUME IInv PROVE ShortOnlyIfChanged
  BY <1>1 DEF IInv, FreshInv, FreshOf, ShortOnlyIfChanged, Sent
<1>. QED
  BY <1>1, Invariance, PTL

-----------------------------------------------------------------------------
(* Downloads that are cut off and resumed: the requests of a client         *)
(* together make the whole file, for any size, any chunk and any number of  *)
(* interruptions, as long as the file does not change.                      *)


\* c wants the whole file: by a request without Range, and then by ones for
\* the rest.
WantsWhole(c) == ask[c].form = "none" \/ resumes[c] > 0

\* All c has received is the beginning of the file; a resumption asks for
\* what follows it.
WholeOf(c) ==
  /\ fd[c] \in {0, NoFile}
  /\ resumes[c] = 0 => base[c] = 0
  /\ resumes[c] > 0 => ask[c].form = "from" /\ ask[c].first = base[c]
  /\ status[c] \in {"full", "partial", "unsatisfiable"} => stat[c] = size[0]
  /\ status[c] = "unsatisfiable" => Len(got[c]) = base[c]
  /\ WantsWhole(c) =>
       /\ Len(got[c]) <= size[0]
       /\ \A i \in 1..Len(got[c]) : got[c][i] = <<0, i - 1>>

WholeInv ==
  changes = 0 => name \in {0, NoFile} /\ \A c \in Clients : WholeOf(c)

-----------------------------------------------------------------------------
(* Every step keeps the invariant.                                         *)

\* A turn of the loop, for a client that wants the whole file.
LEMMA ReadContinues ==
  ASSUME IInv, IInv', NEW c \in Clients, WholeOf(c), WantsWhole(c),
         Read(c), remaining[c] > 0 /\ Found(c, Want(c)) > 0
  PROVE  /\ Len(got'[c]) <= size[0]
         /\ \A i \in 1..Len(got'[c]) : got'[c][i] = <<0, i - 1>>
<1>1. /\ UNCHANGED <<pc, fd, fileVars, ask, status, stat, start, base, resumes>>
      /\ Receive(c, Found(c, Want(c))) /\ pc[c] = "read"
  BY DEF Read
<1>2. TypeOK /\ PromiseOf(c) /\ BodyOf(c) /\ BodyOf(c)' /\ TypeOK'
  BY DEF IInv, PromiseInv, BodyInv
<1>3. fd[c] = 0 /\ fd[c] \in Inodes /\ status[c] \in {"full", "partial"} /\ stat[c] = size[0]
  BY <1>1, <1>2 DEF BodyOf, PromiseOf, WholeOf, Inodes, NoFile
<1>4. Found(c, Want(c)) \in Nat
  BY <1>2, <1>3, FoundIsThere
<1>5. /\ Len(got'[c]) = Len(got[c]) + Found(c, Want(c))
      /\ \A i \in 1..Len(got[c]) : got'[c][i] = got[c][i]
  BY <1>1, <1>2, <1>3, <1>4, ReceiveAppends
<1>6. /\ ask[c] \in Headers /\ stat[c] \in Nat /\ base[c] \in Nat /\ Len(got[c]) \in Nat
      /\ Len(got'[c]) \in Nat /\ remaining'[c] \in Nat
  <2>1. /\ ask[c] \in Headers /\ stat[c] \in Nat /\ base[c] \in Nat /\ got[c] \in Seq(Inodes \X Nat)
    BY <1>2 DEF TypeOK
  <2>2. got'[c] \in Seq(Inodes \X Nat) /\ remaining'[c] \in Nat
    BY <1>2 DEF TypeOK
  <2> QED
    BY <2>1, <2>2
<1>7. start[c] = base[c] /\ base[c] + IntervalLength(ask[c], stat[c]) <= stat[c]
  <2>1. ask[c].form = "none" \/ Accepted(ask[c], stat[c])
    BY <1>2, <1>3 DEF PromiseOf
  <2>2. CASE ask[c].form = "none"
    <3>1. resumes[c] = 0
      <4>1. resumes[c] \in Nat
        BY <1>2 DEF TypeOK
      <4> QED
        BY <2>2, <4>1 DEF WholeOf
    <3> QED
      BY <1>1, <1>2, <1>6, <2>1, <2>2, <3>1, IntervalInFile DEF WholeOf, PromiseOf
  <2>3. CASE ask[c].form # "none"
    <3>1. First(ask[c], stat[c]) = base[c]
      BY <2>3 DEF WantsWhole, WholeOf, First
    <3> QED
      BY <1>1, <1>2, <1>6, <2>1, <2>3, <3>1, IntervalInFile DEF PromiseOf
  <2> QED
    BY <2>2, <2>3
<1>8. /\ base[c] <= Len(got'[c])
      /\ Len(got'[c]) - base[c] + remaining'[c] = IntervalLength(ask[c], stat[c])
      /\ \A i \in 1..(Len(got'[c]) - base[c]) : got'[c][base[c] + i] = <<0, base[c] + i - 1>>
  BY <1>1, <1>2, <1>3, <1>7 DEF BodyOf, Sent
<1>9. IntervalLength(ask[c], stat[c]) \in Int
  BY <1>6, <1>8
<1>10. Len(got'[c]) <= size[0]
  BY <1>3, <1>6, <1>7, <1>8, <1>9
<1>11. ASSUME NEW i \in 1..Len(got'[c])
       PROVE  got'[c][i] = <<0, i - 1>>
  <2>1. CASE i <= base[c]
    <3>1. base[c] <= Len(got[c])
      BY <1>1, <1>2 DEF BodyOf
    <3>2. i \in 1..Len(got[c])
      BY <1>6, <2>1, <3>1
    <3>3. got[c][i] = <<0, i - 1>>
      BY <3>2 DEF WholeOf
    <3> QED
      BY <1>5, <3>2, <3>3
  <2>2. CASE i > base[c]
    <3>1. i - base[c] \in 1..(Len(got'[c]) - base[c])
      BY <1>6, <2>2
    <3>2. PICK j \in 1..(Len(got'[c]) - base[c]) : j = i - base[c]
      BY <3>1
    <3>3. got'[c][base[c] + j] = <<0, base[c] + j - 1>>
      BY <1>8
    <3>4. base[c] + j = i /\ base[c] + j - 1 = i - 1
      BY <1>6, <3>2
    <3>5. got'[c][i] = <<0, base[c] + j - 1>>
      BY <3>3, <3>4
    <3> QED
      BY <3>4, <3>5
  <2> QED
    BY <1>6, <2>1, <2>2
<1> QED
  BY <1>10, <1>11

\* The client that moves, while nothing has changed.
LEMMA WholeOfMover ==
  ASSUME IInv, IInv', name \in {0, NoFile}, NEW c \in Clients, WholeOf(c),
         Step(c) \/ ClientStep(c)
  PROVE  WholeOf(c)'
<1>0. TypeOK /\ PromiseOf(c) /\ BodyOf(c)
  BY DEF IInv, PromiseInv, BodyInv
<1>1. CASE Refuse(c)
  BY <1>0, <1>1 DEF Refuse, WholeOf, WantsWhole, TypeOK, fileVars
<1>2. CASE Resolve(c)
  BY <1>0, <1>2 DEF Resolve, WholeOf, WantsWhole, TypeOK, fileVars
<1>3. CASE CheckFile(c)
  <2>1. UNCHANGED <<size, ask, stat, fd, got, base, resumes>>
    BY <1>3 DEF CheckFile, fileVars
  <2>2. status'[c] \in {"none", "missing"}
    BY <1>0, <1>3 DEF CheckFile, PromiseOf, TypeOK
  <2> QED
    BY <2>1, <2>2 DEF WholeOf, WantsWhole
<1>4. CASE StatFile(c)
  <2>1. UNCHANGED <<size, ask, fd, got, base, resumes>> /\ pc[c] = "stat"
    BY <1>4 DEF StatFile, fileVars
  <2>2. base[c] = Len(got[c])
    BY <1>0, <2>1 DEF BodyOf
  <2>3. status'[c] = "raised" \/ stat'[c] = size[0]
    BY <1>0, <1>4 DEF StatFile, TypeOK
  <2> QED
    BY <2>1, <2>2, <2>3 DEF WholeOf, WantsWhole
<1>5. CASE Open(c)
  <2>1. UNCHANGED <<size, ask, status, stat, got, base, resumes>>
    BY <1>5 DEF Open, fileVars
  <2>2. fd'[c] \in {0, NoFile}
    BY <1>0, <1>5 DEF Open, TypeOK, WholeOf
  <2> QED
    BY <2>1, <2>2 DEF WholeOf, WantsWhole
<1>6. CASE Read(c) /\ ~(remaining[c] > 0 /\ Found(c, Want(c)) > 0)
  <2>1. UNCHANGED <<size, ask, status, stat, got, base, resumes>> /\ fd'[c] = NoFile
    BY <1>0, <1>6 DEF Read, TypeOK, fileVars
  <2> QED
    BY <2>1 DEF WholeOf, WantsWhole
<1>7. CASE Read(c) /\ remaining[c] > 0 /\ Found(c, Want(c)) > 0
  <2>1. UNCHANGED <<size, ask, status, stat, fd, base, resumes>> /\ pc[c] = "read"
    BY <1>7 DEF Read, fileVars
  <2>2. status[c] # "unsatisfiable"
    BY <1>0, <2>1 DEF PromiseOf
  <2>3. WantsWhole(c) =>
          /\ Len(got'[c]) <= size[0]
          /\ \A i \in 1..Len(got'[c]) : got'[c][i] = <<0, i - 1>>
    BY <1>7, ReadContinues
  <2> QED
    BY <2>1, <2>2, <2>3 DEF WholeOf, WantsWhole
<1>8. CASE Disconnect(c)
  <2>1. UNCHANGED <<size, ask, status, stat, got, base, resumes>> /\ fd'[c] = NoFile
    BY <1>0, <1>8 DEF Disconnect, TypeOK, fileVars
  <2> QED
    BY <2>1 DEF WholeOf, WantsWhole
<1>9. CASE Resume(c)
  <2>1. UNCHANGED <<size, got, fd>> /\ WantsWhole(c)
    BY <1>9 DEF Resume, WantsWhole, fileVars
  <2>2. /\ resumes'[c] = resumes[c] + 1 /\ status'[c] = "none"
        /\ ask'[c] = [form |-> "from", first |-> Len(got[c])] /\ base'[c] = Len(got[c])
    BY <1>0, <1>9 DEF Resume, TypeOK
  <2>3. resumes[c] \in Nat
    BY <1>0, BoundsAssumption DEF TypeOK
  <2> QED
    BY <2>1, <2>2, <2>3 DEF WholeOf, WantsWhole
<1> QED
  BY <1>1, <1>2, <1>3, <1>4, <1>5, <1>6, <1>7, <1>8, <1>9 DEF Step, ClientStep

\* A client that does not move.
LEMMA WholeOfIdle ==
  ASSUME NEW d \in Clients, WholeOf(d), UNCHANGED Mine(d), size' = size
  PROVE  WholeOf(d)'
<1>1. /\ ask'[d] = ask[d] /\ status'[d] = status[d] /\ stat'[d] = stat[d] /\ fd'[d] = fd[d]
      /\ got'[d] = got[d] /\ base'[d] = base[d] /\ resumes'[d] = resumes[d]
  BY DEF Mine
<1> QED
  BY <1>1 DEF WholeOf, WantsWhole

\* A step keeps what is known of a client that wants the whole file.
LEMMA WholeStep ==
  ASSUME IInv, IInv', WholeInv, [Next]_vars
  PROVE  WholeInv'
<1>1. CASE FileStep
  <2>1. changes' = changes + 1 /\ changes \in Nat
    BY <1>1, BoundsAssumption DEF FileStep, ReplaceFile, CutFile, RemoveFile, LockFile, Change, IInv, TypeOK
  <2> QED
    BY <2>1 DEF WholeInv
<1>2. CASE \E c \in Clients : Step(c) \/ ClientStep(c)
  <2>1. PICK c \in Clients : Step(c) \/ ClientStep(c)
    BY <1>2
  <2>2. UNCHANGED <<name, size, changes>> /\ \A d \in Clients \ {c} : UNCHANGED Mine(d)
    BY <2>1, StepIsLocal DEF IInv, fileVars
  <2>3. SUFFICES ASSUME changes = 0
                 PROVE  name' \in {0, NoFile} /\ \A d \in Clients : WholeOf(d)'
    BY <2>2 DEF WholeInv
  <2>4. name \in {0, NoFile} /\ \A d \in Clients : WholeOf(d)
    BY <2>3 DEF WholeInv
  <2>5. WholeOf(c)'
    BY <2>1, <2>4, WholeOfMover
  <2>6. \A d \in Clients \ {c} : WholeOf(d)'
    BY <2>2, <2>4, WholeOfIdle
  <2> QED
    BY <2>2, <2>4, <2>5, <2>6
<1>3. CASE UNCHANGED vars
  <2>1. UNCHANGED <<name, size, changes>> /\ \A d \in Clients : UNCHANGED Mine(d)
    BY <1>3 DEF vars, fileVars, reqVars, Mine
  <2> QED
    BY <2>1, WholeOfIdle DEF WholeInv
<1> QED
  BY <1>1, <1>2, <1>3 DEF Next

\* A client begins with nothing.
LEMMA InitWhole ==
  Init => WholeInv
<1> SUFFICES ASSUME Init PROVE WholeInv
  OBVIOUS
<1>1. /\ name \in {0, NoFile}
      /\ \A c \in Clients : fd[c] = NoFile /\ base[c] = 0 /\ resumes[c] = 0
                            /\ status[c] = "none" /\ got[c] = <<>>
  BY DEF Init
<1>2. size[0] \in Nat
  BY SizesAssumption, BoundsAssumption DEF Init, Inodes
<1> QED
  BY <1>1, <1>2 DEF WholeInv, WholeOf

-----------------------------------------------------------------------------
(* The theorem.                                                            *)

\* At the end of a resumption that was answered the client has the file.
LEMMA EndIsWholeFile ==
  ASSUME IInv, WholeInv PROVE ResumedIsWhole
<1> SUFFICES ASSUME NEW c \in Clients, pc[c] = "done", resumes[c] > 0, changes = 0,
                    status[c] \in {"partial", "unsatisfiable"}
             PROVE  got[c] = [i \in 1..size[0] |-> <<0, i - 1>>]
  BY DEF ResumedIsWhole
<1>1. /\ Len(got[c]) <= size[0] /\ stat[c] = size[0]
      /\ \A i \in 1..Len(got[c]) : got[c][i] = <<0, i - 1>>
      /\ ask[c].form = "from" /\ ask[c].first = base[c]
      /\ status[c] = "unsatisfiable" => Len(got[c]) = base[c]
  BY DEF WholeInv, WholeOf, WantsWhole
<1>2. /\ got[c] \in Seq(Inodes \X Nat) /\ Len(got[c]) \in Nat /\ base[c] \in Nat /\ stat[c] \in Nat
      /\ asOf[c] \in Nat
  BY BoundsAssumption DEF IInv, TypeOK
<1>3. Len(got[c]) = size[0]
  <2>1. CASE status[c] = "unsatisfiable"
    <3>1. ~Accepted(ask[c], stat[c])
      BY <2>1 DEF IInv, PromiseInv, PromiseOf
    <3>2. base[c] >= stat[c]
      BY <1>1, <1>2, <3>1 DEF Accepted, First, Last
    <3> QED
      BY <1>1, <1>2, <2>1, <3>2
  <2>2. CASE status[c] = "partial"
    <3>1. asOf[c] = changes
      BY <1>2 DEF IInv, FreshInv, FreshOf
    <3>2. Len(got[c]) - base[c] = IntervalLength(ask[c], stat[c])
      BY <2>2, <3>1 DEF IInv, FreshInv, FreshOf, Sent
    <3>3. IntervalLength(ask[c], stat[c]) = stat[c] - base[c]
      BY <1>1, <1>2 DEF IntervalLength, End, Last, First, Least
    <3> QED
      BY <1>1, <1>2, <3>2, <3>3
  <2> QED
    BY <2>1, <2>2
<1>4. got[c] = [i \in 1..Len(got[c]) |-> got[c][i]]
  BY <1>2
<1> QED
  BY <1>1, <1>3, <1>4

\* A client that was cut off and resumed, as often as it took, has the whole
\* file in the end, each byte once, if the file did not change
\* (routes_assets.py:34-57, 232-270; download.py:46-99).
THEOREM ResumedIsWholeHolds == Spec => []ResumedIsWhole
<1>1. IInv /\ WholeInv /\ [Next]_vars /\ IInv' => WholeInv'
  BY WholeStep
<1>2. Init => WholeInv
  BY InitWhole
<1>3. IInv /\ WholeInv => ResumedIsWhole
  BY EndIsWholeFile
<1> QED
  BY <1>1, <1>2, <1>3, Invariance, PTL DEF Spec
=============================================================================
