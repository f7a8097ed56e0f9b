----------------------------- MODULE PosixLocks -----------------------------
(***************************************************************************)
(* LockFile and UnlockFile of leveldb/util/env_posix.cc on one file (the   *)
(* LOCK of a database), called by the threads of several processes.  A     *)
(* process keeps the names it locked in a table; between processes the     *)
(* lock is that of fcntl, which belongs to the process and which the       *)
(* system drops when the process closes ANY descriptor of the file.        *)
(***************************************************************************)
EXTENDS Integers, FiniteSets

CONSTANTS
    Procs,     \* processes
    Threads    \* threads of each

VARIABLES
    locked_files,  \* the processes whose PosixLockTable holds the name
    owner,         \* the processes fcntl has given the lock: none or one
    call,          \* <<process, thread>> -> where its call is
    fds            \* process -> its open descriptors of the file

lockVars == <<locked_files, owner, call, fds>>

Callers == Procs \X Threads
Places  == {"idle", "opened", "refused", "inserted", "failed", "closed", "holds",
            "unlocked", "removed"}

LockInit ==
    /\ locked_files = {}
    /\ owner = {}
    /\ call = [c \in Callers |-> "idle"]
    /\ fds = [p \in Procs |-> 0]

Move(c, from, to) == call[c] = from /\ call' = [call EXCEPT ![c] = to]

\* close(fd): the fcntl lock of the process goes with it.
CloseFd(p) ==
    /\ fds' = [fds EXCEPT ![p] = @ - 1]
    /\ owner' = owner \ {p}

LockOpen(c) ==
    /\ Move(c, "idle", "opened")
    /\ fds' = [fds EXCEPT ![c[1]] = @ + 1]
    /\ UNCHANGED <<locked_files, owner>>

InsertAlways(p) == TRUE                                \* a defect: insert's result unused
Inserts(p) == p \notin locked_files

\* locks_.Insert: once per process.
LockInsert(c) ==
    /\ IF Inserts(c[1]) THEN Move(c, "opened", "inserted") ELSE Move(c, "opened", "refused")
    /\ locked_files' = locked_files \cup {c[1]}
    /\ UNCHANGED <<owner, fds>>

\* "already held by process"
LockRefused(c) ==
    /\ Move(c, "refused", "idle")
    /\ CloseFd(c[1])
    /\ UNCHANGED locked_files

\* fcntl(F_SETLK): refused only while another process has the lock.
LockFcntl(c) ==
    /\ IF owner \subseteq {c[1]}
       THEN Move(c, "inserted", "holds") /\ owner' = {c[1]}
       ELSE Move(c, "inserted", "failed") /\ UNCHANGED owner
    /\ UNCHANGED <<locked_files, fds>>

LockFailedClose(c) ==
    /\ Move(c, "failed", "closed")
    /\ CloseFd(c[1])
    /\ UNCHANGED locked_files

Removed(p) == locked_files \ {p}

LockFailedRemove(c) ==
    /\ Move(c, "closed", "idle")
    /\ locked_files' = Removed(c[1])
    /\ UNCHANGED <<owner, fds>>

\* UnlockFile: fcntl, then the table, then close.
UnlockFcntl(c) ==
    /\ Move(c, "holds", "unlocked")
    /\ owner' = owner \ {c[1]}
    /\ UNCHANGED <<locked_files, fds>>

UnlockRemove(c) ==
    /\ Move(c, "unlocked", "removed")
    /\ locked_files' = Removed(c[1])
    /\ UNCHANGED <<owner, fds>>

ClosedNot(p) == UNCHANGED <<fds, owner>>               \* a defect: the descriptor is leaked
Closed(p) == CloseFd(p)

UnlockClose(c) ==
    /\ Move(c, "removed", "idle")
    /\ Closed(c[1])
    /\ UNCHANGED locked_files

LockStep(c) == \/ LockOpen(c) \/ LockInsert(c) \/ LockRefused(c) \/ LockFcntl(c)
               \/ LockFailedClose(c) \/ LockFailedRemove(c)
               \/ UnlockFcntl(c) \/ UnlockRemove(c) \/ UnlockClose(c)

LockNext == \E c \in Callers : LockStep(c)

LockSpec == LockInit /\ [][LockNext]_lockVars

-----------------------------------------------------------------------------
(* Types: table of names, locks of the system and descriptors.             *)
LockTypeOK ==
    /\ locked_files \subseteq Procs
    /\ owner \subseteq Procs /\ Cardinality(owner) <= 1
    /\ call \in [Callers -> Places]
    /\ fds \in [Procs -> 0..Cardinality(Threads)]

Of(p, places) == {t \in Threads : call[<<p, t>>] \in places}

(* Within a process the table is exact: a name is in it just while one     *)
(* thread has the lock or is between taking and giving up the name, so two *)
(* threads never have the lock and a failed LockFile does not leave the    *)
(* database locked for ever.                                               *)
OneHolderPerProcess ==
    \A p \in Procs :
        /\ Cardinality(Of(p, {"inserted", "failed", "closed", "holds", "unlocked"}))
             = IF p \in locked_files THEN 1 ELSE 0

(* Nothing is left behind: the system's lock belongs to a process one of   *)
(* whose threads has it, and a process without a call in progress or a     *)
(* lock has no descriptor of the file open.                                *)
NothingLeftLocked ==
    \A p \in Procs :
        /\ p \in owner => Of(p, {"holds"}) # {}
        /\ fds[p] = Cardinality(Of(p, Places \ {"idle", "closed"}))

(* "Used to prevent concurrent access to the same db by multiple           *)
(* processes" (env.h, LockFile): no two processes have the lock at once.   *)
OneProcess ==
    \A p, q \in Procs : Of(p, {"holds"}) # {} /\ Of(q, {"holds"}) # {} => p = q
=============================================================================
