---------------------------- MODULE PidfileProofs ----------------------------
(* Proofs about Pidfile: the lock keeps the pid in the file, and keeps the   *)
(* daemons apart until a Release removes a file that another daemon has open. *)
EXTENDS Pidfile, TLAPS

\* No process has anything open at first.
LEMMA InitTypes == Init => TypeOK
<1>1. Init => /\ holder \in [Inode -> Proc \cup {NoOne}]
              /\ content \in [Inode -> Proc \cup {NoOne}]
              /\ pc \in [Proc -> Locked \cup {"gone", "lock", "remove"}]
              /\ file \in [Proc -> Inode \cup {NoInode}]
  BY DEF Init, Locked
<1> QED
  BY <1>1, PidfileAssumption DEF Init, TypeOK, ProcessType, CommandType, Outcomes, Locked

\* Every step of a starting daemon keeps the types and the lock's bookkeeping.
LEMMA AcquireTypes ==
  ASSUME TypeOK, NEW p \in Proc,
         Open(p) \/ Lock(p) \/ LockRefused(p) \/ Truncate(p) \/ WritePid(p) \/ InstallSignals(p)
  PROVE  TypeOK'
<1> USE PidfileAssumption DEF TypeOK, ProcessType, CommandType, Outcomes, Locked, Move, command, disk
<1>1. CASE Open(p)
  BY <1>1 DEF Open
<1>2. CASE Lock(p)
  BY <1>2 DEF Lock
<1>3. CASE LockRefused(p)
  BY <1>3 DEF LockRefused
<1>4. CASE Truncate(p)
  BY <1>4 DEF Truncate
<1>5. CASE WritePid(p)
  BY <1>5 DEF WritePid
<1>6. CASE InstallSignals(p)
  BY <1>6 DEF InstallSignals
<1> QED
  BY <1>1, <1>2, <1>3, <1>4, <1>5, <1>6

\* The end of a process, whatever ends it, keeps them.
LEMMA EndTypes ==
  ASSUME TypeOK, NEW p \in Proc, pc[p] # "gone", Ends(p),
         stranger' = stranger, raced' = raced,
         (client' = client /\ target' = target) \/ (client' = "fatal" /\ target' = NoOne)
  PROVE  TypeOK'
<1> USE PidfileAssumption DEF TypeOK, ProcessType, CommandType, Outcomes, Locked, Move
<1>1. holder' \in [Inode -> Proc \cup {NoOne}] /\ pc' \in [Proc -> Locked \cup {"gone", "lock", "remove"}]
      /\ file' \in [Proc -> Inode \cup {NoInode}]
  BY DEF Ends
<1>2. \A q \in Proc :
        /\ file'[q] \in Inode <=> pc'[q] \in Locked \cup {"lock"}
        /\ \A i \in Inode : holder'[i] = q <=> pc'[q] \in Locked /\ file'[q] = i
  BY DEF Ends
<1>3. gap' \in BOOLEAN /\ path' = path /\ content' = content
  BY DEF Ends, gapAfter
<1>4. stranger' \subseteq {q \in Proc : pc'[q] = "gone"}
  BY DEF Ends
<1>5. ProcessType'
  BY <1>1, <1>2, <1>3
<1>6. CommandType'
  <2>1. CASE client' = client /\ target' = target
    BY <1>3, <1>4, <2>1
  <2>2. CASE client' = "fatal" /\ target' = NoOne
    BY <1>3, <1>4, <2>2
  <2> QED
    BY <2>1, <2>2
<1> QED
  BY <1>5, <1>6

\* So does every other step of a daemon or of another program.
LEMMA ReleaseTypes ==
  ASSUME TypeOK, NEW p \in Proc,
         Finish(p) \/ Unlock(p) \/ Remove(p) \/ Crash(p) \/ StrangerStarts(p) \/ StrangerEnds(p)
  PROVE  TypeOK'
<1>4. CASE Crash(p)
  <2>1. /\ pc[p] # "gone" /\ Ends(p) /\ stranger' = stranger /\ raced' = raced
        /\ client' = client /\ target' = target
    BY <1>4 DEF Crash
  <2> QED
    BY ONLY TypeOK, p \in Proc, <2>1, EndTypes
<1> USE PidfileAssumption DEF TypeOK, ProcessType, CommandType, Outcomes, Locked, Move, command, disk
<1>1. CASE Finish(p)
  BY <1>1 DEF Finish, gapAfter
<1>2. CASE Unlock(p)
  BY <1>2 DEF Unlock
<1>3. CASE Remove(p)
  BY <1>3 DEF Remove
<1>5. CASE StrangerStarts(p)
  BY <1>5 DEF StrangerStarts
<1>6. CASE StrangerEnds(p)
  BY <1>6 DEF StrangerEnds
<1> QED
  BY <1>1, <1>2, <1>3, <1>4, <1>5, <1>6

\* And every step of a command.
LEMMA ClientTypes ==
  ASSUME TypeOK, Client
  PROVE  TypeOK'
<1>1. CASE SendFatal
  <2>1. target \in Proc /\ pc[target] # "gone" /\ Ends(target)
    BY <1>1 DEF TypeOK, CommandType, SendFatal
  <2>2. stranger' = stranger /\ raced' = raced /\ client' = "fatal" /\ target' = NoOne
    BY <1>1 DEF SendFatal
  <2> QED
    BY <2>1, <2>2, EndTypes
<1>2. ASSUME UNCHANGED <<disk, pc, file>>, CommandType'
      PROVE  TypeOK'
  BY <1>2 DEF TypeOK, ProcessType, disk
<1>3. CASE ClientStarts
  <2>1. gap' \in BOOLEAN
    BY <1>3, Zenon DEF ClientStarts
  <2>2. CommandType'
    BY <1>3, <2>1 DEF ClientStarts, TypeOK, CommandType, Outcomes
  <2> QED
    BY <1>2, <1>3, <2>2 DEF ClientStarts
<1>4. CASE ReadPid
  <2>1. path # NoInode => content[path] \in Proc \cup {NoOne}
    BY DEF TypeOK, ProcessType
  <2>2. UNCHANGED <<disk, pc, file>>
    BY <1>4 DEF ReadPid, ClientExits
  <2>3. CommandType'
    BY <1>4, <2>1 DEF ReadPid, ClientExits, TypeOK, CommandType, Outcomes
  <2> QED
    BY <1>2, <2>2, <2>3
<1>5. CASE ProbePid \/ SendHandled \/ SendFails \/ SendAstray \/ ClientDone
  <2>1. UNCHANGED <<disk, pc, file>>
    BY <1>5 DEF ProbePid, SendHandled, SendFails, SendAstray, ClientDone, ClientExits
  <2>2. CommandType'
    BY <1>5 DEF ProbePid, SendHandled, SendFails, SendAstray, ClientDone, ClientExits,
                TypeOK, CommandType, Outcomes
  <2> QED
    BY <1>2, <2>1, <2>2
<1> QED
  BY <1>1, <1>3, <1>4, <1>5 DEF Client

\* Typing holds of every behaviour: a process has the file open and locked
\* exactly from Lock to Unlock.
THEOREM Typing == Spec => []TypeOK
<1>1. Init => TypeOK
  BY InitTypes
<1>2. TypeOK /\ [Next]_vars => TypeOK'
  <2> SUFFICES ASSUME TypeOK, [Next]_vars
               PROVE  TypeOK'
    OBVIOUS
  <2>1. CASE Client
    BY <2>1, ClientTypes
  <2>2. ASSUME NEW p \in Proc, Daemon(p)
        PROVE  TypeOK'
    BY <2>2, AcquireTypes, ReleaseTypes DEF Daemon
  <2>3. CASE UNCHANGED vars
    BY <2>3 DEF vars, TypeOK, ProcessType, CommandType, Outcomes
  <2> QED
    BY <2>1, <2>2, <2>3 DEF Next
<1> QED
  BY <1>1, <1>2, PTL DEF Spec

-----------------------------------------------------------------------------
\* PidOfHolder does not hold step by step: from WritePid on, not only while
\* it serves, the daemon's file holds its pid.
Named ==
  \A p \in Proc : pc[p] \in {"new", "running", "unlock"} => content[file[p]] = p

\* Only the holder of an inode's lock writes to it, and a new inode is nobody's.
LEMMA NamedStep ==
  ASSUME TypeOK, Named, [Next]_vars
  PROVE  Named'
<1> USE DEF Named, TypeOK, ProcessType, Locked, Move, command, disk
<1>1. ASSUME NEW p \in Proc, Open(p)
      PROVE  Named'
  BY <1>1 DEF Open
<1>2. ASSUME NEW p \in Proc, Lock(p) \/ LockRefused(p) \/ InstallSignals(p)
      PROVE  Named'
  BY <1>2 DEF Lock, LockRefused, InstallSignals
<1>3. ASSUME NEW p \in Proc, Truncate(p)
      PROVE  Named'
  BY <1>3 DEF Truncate
<1>4. ASSUME NEW p \in Proc, WritePid(p)
      PROVE  Named'
  BY <1>4 DEF WritePid
<1>5. ASSUME NEW p \in Proc, Finish(p) \/ Unlock(p) \/ Remove(p)
      PROVE  Named'
  BY <1>5 DEF Finish, Unlock, Remove
<1>6. ASSUME NEW p \in Proc, Ends(p)
      PROVE  Named'
  BY <1>6 DEF Ends
<1>7. ASSUME UNCHANGED <<content, pc, file>>
      PROVE  Named'
  BY <1>7
<1>8. ASSUME NEW p \in Proc, Daemon(p)
      PROVE  Named'
  BY <1>1, <1>2, <1>3, <1>4, <1>5, <1>6, <1>7, <1>8
     DEF Daemon, Crash, StrangerStarts, StrangerEnds
<1>9. CASE Client
  <2>1. CASE SendFatal
    <3>1. target \in Proc /\ Ends(target)
      BY <2>1 DEF SendFatal, CommandType
    <3> QED
      BY <3>1, <1>6
  <2> QED
    BY <1>7, <1>9, <2>1
       DEF Client, ClientStarts, ReadPid, ProbePid, SendHandled, SendAstray, SendFails,
           ClientDone, ClientExits
<1> QED
  BY <1>7, <1>8, <1>9 DEF Next, vars

\* The file a serving daemon has locked names it: `kick` and `reload` that
\* read that file find that daemon.
THEOREM FileNamesHolder == Spec => []PidOfHolder
<1>1. Init => Named
  BY DEF Init, Named
<1>2. TypeOK /\ Named /\ [Next]_vars => Named'
  BY NamedStep
<1>3. Named => PidOfHolder
  BY DEF Named, PidOfHolder
<1> QED
  BY <1>1, <1>2, <1>3, Typing, PTL DEF Spec

-----------------------------------------------------------------------------
\* OneDaemonUnlessRaced does not hold step by step: until the race, every file
\* that is open is the one the path leads to, so there is one lock to be had.
SameFile == ~raced => \A p \in Proc : file[p] \in {NoInode, path}

\* Open opens what the path leads to; Remove leaves an open file behind, or
\* else nobody has one open.
LEMMA SameFileStep ==
  ASSUME TypeOK, SameFile, [Next]_vars
  PROVE  SameFile'
<1> USE PidfileAssumption DEF SameFile, TypeOK, ProcessType, Locked, Move, command, disk
<1>1. ASSUME NEW p \in Proc, Open(p)
      PROVE  SameFile'
  BY <1>1 DEF Open
<1>2. ASSUME NEW p \in Proc, Lock(p) \/ LockRefused(p) \/ Truncate(p) \/ WritePid(p) \/ InstallSignals(p)
      PROVE  SameFile'
  BY <1>2 DEF Lock, LockRefused, Truncate, WritePid, InstallSignals
<1>3. ASSUME NEW p \in Proc, Finish(p) \/ Unlock(p)
      PROVE  SameFile'
  BY <1>3 DEF Finish, Unlock
<1>4. ASSUME NEW p \in Proc, Remove(p)
      PROVE  SameFile'
  <2>1. ~raced' => ~raced /\ \A q \in Proc : file[q] = NoInode \/ file[q] # path
    BY <1>4 DEF Remove
  <2>2. file' = file
    BY <1>4 DEF Remove
  <2> QED
    BY <2>1, <2>2
<1>5. ASSUME NEW p \in Proc, Ends(p), raced' = raced
      PROVE  SameFile'
  BY <1>5 DEF Ends
<1>6. ASSUME UNCHANGED <<path, pc, file, raced>>
      PROVE  SameFile'
  BY <1>6
<1>7. ASSUME NEW p \in Proc, Daemon(p)
      PROVE  SameFile'
  BY <1>1, <1>2, <1>3, <1>4, <1>5, <1>6, <1>7 DEF Daemon, Crash, StrangerStarts, StrangerEnds
<1>8. CASE Client
  <2>1. CASE SendFatal
    <3>1. target \in Proc /\ Ends(target) /\ raced' = raced
      BY <2>1 DEF SendFatal, CommandType
    <3> QED
      BY <3>1, <1>5
  <2> QED
    BY <1>6, <1>8, <2>1
       DEF Client, ClientStarts, ReadPid, ProbePid, SendHandled, SendAstray, SendFails,
           ClientDone, ClientExits
<1> QED
  BY <1>6, <1>7, <1>8 DEF Next, vars

\* Whatever starts, ends, crashes and is signalled, two daemons serve at a time
\* only after a Release has removed a file that another daemon had opened: a
\* file that a crash leaves behind lets one successor in and no second.
THEOREM OneDaemonOrRace == Spec => []OneDaemonUnlessRaced
<1>1. Init => SameFile
  BY DEF Init, SameFile
<1>2. TypeOK /\ SameFile /\ [Next]_vars => SameFile'
  BY SameFileStep
<1>3. TypeOK /\ SameFile => OneDaemonUnlessRaced
  BY PidfileAssumption
     DEF TypeOK, ProcessType, SameFile, OneDaemonUnlessRaced, OneDaemon, Serving, Locked
<1> QED
  BY <1>1, <1>2, <1>3, Typing, PTL DEF Spec

-----------------------------------------------------------------------------
\* ClientFindsDaemon does not hold step by step: while no gap has come, some
\* daemon serves; and the pid that a command has read is then that daemon's,
\* from the reading of the file to the signal.
OnItsWay ==
  /\ client # "idle" /\ ~gap => Serving # {}
  /\ ~gap /\ ~raced =>
       /\ client \in {"probe", "send"} => target \in Serving
       /\ client \in Outcomes => client = "handled"

\* A command that reads while a daemon serves reads that daemon's pid, finds it
\* alive and reaches its handler.
LEMMA ClientOnItsWay ==
  ASSUME TypeOK, Named, SameFile, OnItsWay, Client
  PROVE  OnItsWay'
<1> USE DEF OnItsWay, Outcomes
<1>1. ASSUME UNCHANGED <<pc, gap, raced>>, client' \in {"none", "error", "astray"},
             client # "idle", gap \/ raced
      PROVE  OnItsWay'
  BY <1>1 DEF Serving
<1>2. ASSUME client = "read", ~gap, ~raced
      PROVE  path # NoInode /\ content[path] \in Serving
  <2>1. PICK p \in Proc : pc[p] = "running"
    BY <1>2 DEF Serving
  <2>2. file[p] \in Inode /\ content[file[p]] = p
    BY <2>1 DEF TypeOK, ProcessType, Named, Locked
  <2>3. file[p] = path /\ path # NoInode
    BY <1>2, <2>2, PidfileAssumption DEF SameFile
  <2> QED
    BY <2>1, <2>2, <2>3 DEF Serving
<1>3. ASSUME client \in {"probe", "send"}, ~gap, ~raced
      PROVE  target \in Proc /\ pc[target] = "running" /\ Alive(target) /\ target \notin stranger
  BY <1>3 DEF Serving, Alive, TypeOK, CommandType
<1>4. CASE ClientStarts
  BY <1>4 DEF ClientStarts, Serving
<1>5. CASE ReadPid
  <2>1. CASE gap \/ raced
    BY <1>5, <2>1 DEF ReadPid, ClientExits, Serving
  <2>2. CASE ~gap /\ ~raced
    <3>1. content[path] # NoOne
      BY <1>2, <1>5, <2>2, PidfileAssumption DEF ReadPid, Serving
    <3> QED
      BY <1>2, <1>5, <2>2, <3>1 DEF ReadPid, Serving
  <2> QED
    BY <2>1, <2>2
<1>6. CASE ProbePid
  BY <1>3, <1>6 DEF ProbePid, ClientExits, Serving
<1>7. CASE SendHandled
  BY <1>7 DEF SendHandled, ClientExits, Serving
<1>8. CASE SendFatal
  <2>1. gap \/ raced
    BY <1>3, <1>8 DEF SendFatal
  <2>2. target \in Proc /\ pc[target] # "running" /\ pc' = [pc EXCEPT ![target] = "gone"]
    BY <1>8 DEF SendFatal, Ends, Move, TypeOK, CommandType
  <2>3. Serving' = Serving
    BY <2>2 DEF Serving, TypeOK, ProcessType
  <2>4. client = "send" /\ (gap => gap') /\ raced' = raced /\ client' = "fatal"
    BY <1>8 DEF SendFatal, Ends, gapAfter
  <2> QED
    BY <2>1, <2>3, <2>4
<1>9. CASE SendAstray
  BY <1>1, <1>3, <1>9 DEF SendAstray, ClientExits
<1>10. CASE SendFails
  BY <1>1, <1>3, <1>10 DEF SendFails, ClientExits
<1>11. CASE ClientDone
  BY <1>11 DEF ClientDone
<1> QED
  BY <1>4, <1>5, <1>6, <1>7, <1>8, <1>9, <1>10, <1>11 DEF Client

\* What daemons and other programs do meanwhile: the daemon it is after does not
\* end, or else that is a gap.
LEMMA DaemonOnItsWay ==
  ASSUME TypeOK, OneDaemonUnlessRaced, OnItsWay, NEW p \in Proc, Daemon(p)
  PROVE  OnItsWay'
<1> USE DEF OnItsWay
<1>1. ASSUME UNCHANGED <<client, target, gap>>, raced => raced', Serving \subseteq Serving'
      PROVE  OnItsWay'
  BY <1>1
<1>2. ASSUME UNCHANGED <<client, target, raced>>, gap' = gapAfter(p),
             Serving \ {p} \subseteq Serving'
      PROVE  OnItsWay'
  <2> SUFFICES ASSUME client # "idle", ~gap'
               PROVE  OnItsWay'
    BY <1>2 DEF gapAfter
  <2>1. PICK q \in Serving : q # p
    BY <1>2 DEF gapAfter
  <2>2. q \in Serving' /\ ~gap
    BY <1>2, <2>1 DEF gapAfter
  <2>3. ASSUME ~raced, client \in {"probe", "send"}
        PROVE  target \in Serving'
    BY <1>2, <2>1, <2>2, <2>3 DEF OneDaemonUnlessRaced, OneDaemon
  <2> QED
    BY <1>2, <2>2, <2>3
<1> USE DEF Serving, Move, command
<1>3. CASE Open(p) \/ Lock(p) \/ LockRefused(p) \/ Truncate(p) \/ WritePid(p) \/ InstallSignals(p)
  BY <1>1, <1>3
     DEF Open, Lock, LockRefused, Truncate, WritePid, InstallSignals, TypeOK, ProcessType
<1>4. CASE Finish(p)
  BY <1>2, <1>4 DEF Finish, TypeOK, ProcessType
<1>5. CASE Unlock(p) \/ Remove(p)
  <2>1. raced => raced'
    BY <1>5, Zenon DEF Unlock, Remove
  <2>2. UNCHANGED <<client, target, gap>> /\ Serving \subseteq Serving'
    BY <1>5 DEF Unlock, Remove, TypeOK, ProcessType
  <2> QED
    BY <1>1, <2>1, <2>2
<1>6. CASE Crash(p)
  BY <1>2, <1>6 DEF Crash, Ends, TypeOK, ProcessType
<1>7. CASE StrangerStarts(p) \/ StrangerEnds(p)
  BY <1>1, <1>7 DEF StrangerStarts, StrangerEnds
<1> QED
  BY <1>3, <1>4, <1>5, <1>6, <1>7 DEF Daemon

\* If some daemon serves from the start of `kick` or `reload` to its end, and no
\* Release has removed another daemon's file, the signal reaches a handler:
\* whatever else starts, crashes or is given a dead daemon's pid.
THEOREM DaemonIsFound == Spec => []ClientFindsDaemon
<1>1. Init => Named /\ SameFile /\ OnItsWay
  BY DEF Init, Named, SameFile, OnItsWay, Outcomes
<1>2. TypeOK /\ Named /\ [Next]_vars => Named'
  BY NamedStep
<1>3. TypeOK /\ SameFile /\ [Next]_vars => SameFile'
  BY SameFileStep
<1>4. TypeOK /\ Named /\ SameFile /\ OneDaemonUnlessRaced /\ OnItsWay /\ [Next]_vars => OnItsWay'
  <2> SUFFICES ASSUME TypeOK, Named, SameFile, OneDaemonUnlessRaced, OnItsWay, [Next]_vars
               PROVE  OnItsWay'
    OBVIOUS
  <2>1. CASE UNCHANGED vars
    BY <2>1 DEF vars, OnItsWay, Serving
  <2> QED
    BY <2>1, ClientOnItsWay, DaemonOnItsWay DEF Next
<1>5. OnItsWay => ClientFindsDaemon
  BY DEF OnItsWay, ClientFindsDaemon
<1> QED
  BY <1>1, <1>2, <1>3, <1>4, <1>5, Typing, OneDaemonOrRace, PTL DEF Spec
=============================================================================
