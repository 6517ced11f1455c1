------------------------------- MODULE Pidfile -------------------------------
(***************************************************************************)
(* internal/pidfile and its users: how `seasoned daemon` makes itself the  *)
(* only one, and how `seasoned reload` and `seasoned kick` find it.  Every *)
(* system call of Acquire and Release is a step of its own; the file       *)
(* system (one path, inodes, flock) is external.                           *)
(***************************************************************************)
EXTENDS Integers, FiniteSets

CONSTANTS
  Proc,        \* daemon processes, each named by its pid
  Inode,       \* inodes of pidfiles
  NoOne, NoInode,
  Strangers    \* whether other programs may be given the pid of a dead daemon

ASSUME PidfileAssumption ==
  /\ IsFiniteSet(Proc) /\ NoOne \notin Proc
  /\ IsFiniteSet(Inode) /\ NoInode \notin Inode
  /\ Cardinality(Inode) >= Cardinality(Proc)
  /\ Strangers \in BOOLEAN

VARIABLES
  path,        \* the inode the pidfile's path leads to, or NoInode
  holder,      \* holder[i]: whose flock is on inode i
  content,     \* content[i]: the pid written in it, or NoOne for an empty file
  pc,          \* pc[p]: where the daemon process p is
  file,        \* file[p]: the inode it has open
  stranger,    \* the pids that other programs have
  client,      \* a `seasoned kick` or `seasoned reload`: where it is
  target,      \* the pid it has read
  gap,         \* history: no daemon served at some time since the client started
  raced        \* history: a daemon has removed the path of a file another had open

vars == <<path, holder, content, pc, file, stranger, client, target, gap, raced>>

disk == <<path, holder, content>>
command == <<client, target, gap>>

Serving == {p \in Proc : pc[p] = "running"}

Init ==
  /\ path = NoInode
  /\ holder = [i \in Inode |-> NoOne]
  /\ content = [i \in Inode |-> NoOne]
  /\ pc = [p \in Proc |-> "gone"]
  /\ file = [p \in Proc |-> NoInode]
  /\ stranger = {}
  /\ client = "idle" /\ target = NoOne
  /\ gap = FALSE /\ raced = FALSE

-----------------------------------------------------------------------------
(* Acquire *)

Move(p, to) == pc' = [pc EXCEPT ![p] = to]

\* Mutant: the file is opened with O_TRUNC.
OpenTruncating(p) ==
  /\ pc[p] = "gone" /\ p \notin stranger
  /\ \E i \in Inode :
       /\ IF path = NoInode
          THEN holder[i] = NoOne /\ \A q \in Proc : file[q] # i
          ELSE i = path
       /\ path' = i
       /\ file' = [file EXCEPT ![p] = i]
       /\ content' = [content EXCEPT ![i] = NoOne]
  /\ Move(p, "lock")
  /\ UNCHANGED <<holder, stranger, command, raced>>

\* os.OpenFile with O_CREATE: the inode of the path, or a new, empty one.
Open(p) ==
  /\ pc[p] = "gone" /\ p \notin stranger
  /\ \E i \in Inode :
       /\ IF path = NoInode
          THEN /\ holder[i] = NoOne /\ \A q \in Proc : file[q] # i
               /\ content' = [content EXCEPT ![i] = NoOne]
          ELSE i = path /\ UNCHANGED content
       /\ path' = i
       /\ file' = [file EXCEPT ![p] = i]
  /\ Move(p, "lock")
  /\ UNCHANGED <<holder, stranger, command, raced>>

\* Mutant: the lock is taken with LOCK_SH.
LockShared(p) ==
  /\ pc[p] = "lock"
  /\ holder' = [holder EXCEPT ![file[p]] = p]
  /\ Move(p, "truncate")
  /\ UNCHANGED <<path, content, file, stranger, command, raced>>

\* flock(LOCK_EX | LOCK_NB) succeeds on an inode nobody has locked.
Lock(p) ==
  /\ pc[p] = "lock"
  /\ holder[file[p]] = NoOne
  /\ holder' = [holder EXCEPT ![file[p]] = p]
  /\ Move(p, "truncate")
  /\ UNCHANGED <<path, content, file, stranger, command, raced>>

\* Mutant: a Release is deferred before the lock is known to be had.
LockRefusedRemoving(p) ==
  /\ pc[p] = "lock"
  /\ holder[file[p]] # NoOne
  /\ path' = NoInode
  /\ file' = [file EXCEPT ![p] = NoInode]
  /\ Move(p, "gone")
  /\ UNCHANGED <<holder, content, stranger, command, raced>>

\* Otherwise ErrLocked: "daemon already running", exit 5.
LockRefused(p) ==
  /\ pc[p] = "lock"
  /\ holder[file[p]] # NoOne
  /\ file' = [file EXCEPT ![p] = NoInode]
  /\ Move(p, "gone")
  /\ UNCHANGED <<disk, stranger, command, raced>>

Truncate(p) ==
  /\ pc[p] = "truncate"
  /\ content' = [content EXCEPT ![file[p]] = NoOne]
  /\ Move(p, "write")
  /\ UNCHANGED <<path, holder, file, stranger, command, raced>>

WritePid(p) ==
  /\ pc[p] = "write"
  /\ content' = [content EXCEPT ![file[p]] = p]
  /\ Move(p, "new")
  /\ UNCHANGED <<path, holder, file, stranger, command, raced>>

\* daemon.New, then InstallSignals: until here SIGHUP and SIGUSR1 are fatal.
InstallSignals(p) ==
  /\ pc[p] = "new"
  /\ Move(p, "running")
  /\ UNCHANGED <<disk, file, stranger, command, raced>>

-----------------------------------------------------------------------------
(* Release, and the end without it *)

gapAfter(ended) == gap \/ (client # "idle" /\ Serving \subseteq {ended})

\* New fails, or Run returns and stop() takes the signal handlers away.
Finish(p) ==
  /\ pc[p] \in {"new", "running"}
  /\ Move(p, "unlock")
  /\ gap' = gapAfter(p)
  /\ UNCHANGED <<disk, file, stranger, client, target, raced>>

Unlock(p) ==
  /\ pc[p] = "unlock"
  /\ holder' = [holder EXCEPT ![file[p]] = NoOne]
  /\ file' = [file EXCEPT ![p] = NoInode]
  /\ Move(p, "remove")
  /\ UNCHANGED <<path, content, stranger, command, raced>>

\* os.Remove: whatever file is at the path by now.
Remove(p) ==
  /\ pc[p] = "remove"
  /\ raced' = (raced \/ \E q \in Proc : file[q] # NoInode /\ file[q] = path)
  /\ path' = NoInode
  /\ Move(p, "gone")
  /\ UNCHANGED <<holder, content, file, stranger, command>>

\* The end of a process: its descriptors are closed, and a lock goes with them.
Ends(p) ==
  /\ holder' = [i \in Inode |-> IF holder[i] = p THEN NoOne ELSE holder[i]]
  /\ file' = [file EXCEPT ![p] = NoInode]
  /\ Move(p, "gone")
  /\ gap' = gapAfter(p)
  /\ UNCHANGED <<path, content>>

\* A crash at any point, or a truncate, seek, write or sync that fails.
Crash(p) ==
  /\ pc[p] # "gone"
  /\ Ends(p)
  /\ UNCHANGED <<stranger, client, target, raced>>

\* Another program is given a free pid, and ends.
StrangerStarts(p) ==
  /\ Strangers
  /\ pc[p] = "gone"
  /\ stranger' = stranger \cup {p}
  /\ UNCHANGED <<disk, pc, file, command, raced>>

StrangerEnds(p) ==
  /\ p \in stranger
  /\ stranger' = stranger \ {p}
  /\ UNCHANGED <<disk, pc, file, command, raced>>

-----------------------------------------------------------------------------
(* signalDaemon *)

\* How a client ends: with exit code 6 or 1, or with 0 and the signal sent.
Outcomes == {"none", "error", "handled", "fatal", "astray"}

ClientStarts ==
  /\ client = "idle"
  /\ client' = "read"
  /\ gap' = (Serving = {})
  /\ UNCHANGED <<disk, pc, file, stranger, target, raced>>

ClientExits(how) ==
  /\ client' = how
  /\ target' = NoOne
  /\ UNCHANGED <<disk, pc, file, stranger, gap, raced>>

\* ReadPID: no file is exit 6, an empty one exit 1.
ReadPid ==
  /\ client = "read"
  /\ \/ path = NoInode /\ ClientExits("none")
     \/ path # NoInode /\ content[path] = NoOne /\ ClientExits("error")
     \/ /\ path # NoInode /\ content[path] # NoOne
        /\ client' = "probe"
        /\ target' = content[path]
        /\ UNCHANGED <<disk, pc, file, stranger, gap, raced>>

Alive(p) == pc[p] # "gone" \/ p \in stranger

\* processAlive: kill(pid, 0).
ProbePid ==
  /\ client = "probe"
  /\ \/ ~Alive(target) /\ ClientExits("none")
     \/ /\ Alive(target)
        /\ client' = "send"
        /\ UNCHANGED <<disk, pc, file, stranger, target, gap, raced>>

\* The signal reaches the daemon's handler,
SendHandled ==
  /\ client = "send" /\ pc[target] = "running"
  /\ ClientExits("handled")

\* ends a daemon that has no handler,
SendFatal ==
  /\ client = "send" /\ pc[target] \notin {"gone", "running"}
  /\ Ends(target)
  /\ client' = "fatal" /\ target' = NoOne
  /\ UNCHANGED <<stranger, raced>>

\* reaches another program,
SendAstray ==
  /\ client = "send" /\ target \in stranger
  /\ ClientExits("astray")

\* or nobody.
SendFails ==
  /\ client = "send" /\ ~Alive(target)
  /\ ClientExits("error")

ClientDone ==
  /\ client \in Outcomes
  /\ client' = "idle"
  /\ gap' = FALSE
  /\ UNCHANGED <<disk, pc, file, stranger, target, raced>>

-----------------------------------------------------------------------------
Daemon(p) ==
  \/ Open(p) \/ Lock(p) \/ LockRefused(p) \/ Truncate(p) \/ WritePid(p)
  \/ InstallSignals(p) \/ Finish(p) \/ Unlock(p) \/ Remove(p)
  \/ Crash(p)
  \/ StrangerStarts(p) \/ StrangerEnds(p)

Client ==
  \/ ClientStarts \/ ReadPid \/ ProbePid
  \/ SendHandled \/ SendFatal \/ SendAstray \/ SendFails \/ ClientDone

Next == Client \/ \E p \in Proc : Daemon(p)

Spec == Init /\ [][Next]_vars

-----------------------------------------------------------------------------
(* Properties *)

Locked == {"truncate", "write", "new", "running", "unlock"}

ProcessType ==
  /\ path \in Inode \cup {NoInode}
  /\ holder \in [Inode -> Proc \cup {NoOne}]
  /\ content \in [Inode -> Proc \cup {NoOne}]
  /\ pc \in [Proc -> Locked \cup {"gone", "lock", "remove"}]
  /\ file \in [Proc -> Inode \cup {NoInode}]
  /\ \A p \in Proc :
       /\ file[p] \in Inode <=> pc[p] \in Locked \cup {"lock"}
       /\ \A i \in Inode : holder[i] = p <=> pc[p] \in Locked /\ file[p] = i

CommandType ==
  /\ stranger \subseteq {p \in Proc : pc[p] = "gone"}
  /\ client \in {"idle", "read", "probe", "send"} \cup Outcomes
  /\ target \in Proc \cup {NoOne}
  /\ client \in {"probe", "send"} => target \in Proc
  /\ gap \in BOOLEAN /\ raced \in BOOLEAN

\* Every variable has its type, and a process has the file open and locked
\* exactly from Lock to Unlock.
TypeOK == ProcessType /\ CommandType

\* The file a daemon has locked names that daemon: no other start, however far
\* it gets, wipes or overwrites it.
PidOfHolder ==
  \A p \in Proc : pc[p] = "running" => content[file[p]] = p

\* No two daemons serve at a time.
OneDaemon == \A p, q \in Serving : p = q

\* That can only fail after a Release removed, by its path, a file that another
\* daemon had opened since the unlocking.
OneDaemonUnlessRaced == ~raced => OneDaemon

\* If some daemon served all the while, `kick` and `reload` find it and their
\* signal reaches its handler: they do not say that there is none, do not end
\* a daemon that has no handler, and do not signal another program.
ClientFindsDaemon == client \in Outcomes /\ ~gap /\ ~raced => client = "handled"
=============================================================================
