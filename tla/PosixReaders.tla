---------------------------- MODULE PosixReaders ----------------------------
(***************************************************************************)
(* Random-access files of leveldb/util/env_posix.cc.  A file is mapped in  *)
(* memory while the limiter of mappings allows it, else it keeps a         *)
(* descriptor while the limiter of descriptors allows that, else it is     *)
(* opened anew at every read.  Threads open, read and close files; files   *)
(* are unlinked meanwhile, as the database does with obsolete tables.      *)
(***************************************************************************)
EXTENDS Integers, FiniteSets, FiniteSetsExt

CONSTANTS
    Threads,    \* each opens, reads and closes one file at a time
    Files,      \* file names; a removed one never comes back
    MaxMmaps,   \* the result of MaxMmaps()
    MaxOpen     \* the result of MaxOpenFiles()

VARIABLES
    mmapAllowed,  \* acquires_allowed_ of mmap_limiter_
    fdAllowed,    \* acquires_allowed_ of fd_limiter_
    linked,       \* the names in the directory
    call,         \* thread -> where it is in its call
    file,         \* thread -> the name of its file
    handle,       \* thread -> its RandomAccessFile: mapped, kept, reopened
    fds,          \* thread -> descriptors it has open for its file
    answer        \* thread -> what its last read returned

readVars == <<mmapAllowed, fdAllowed, linked, call, file, handle, fds, answer>>

Handles == {"none", "mapped", "kept", "reopened"}
Places  == {"idle", "mmapSub", "mmapBack", "fdSub", "fdBack", "map",
            "mmapRelease", "fdRelease", "pread"}
Answers == {"none", "whole", "short", "refused", "error"}

ReadInit ==
    /\ mmapAllowed = MaxMmaps
    /\ fdAllowed = MaxOpen
    /\ linked = Files
    /\ call = [t \in Threads |-> "idle"]
    /\ file \in [Threads -> Files]
    /\ handle = [t \in Threads |-> "none"]
    /\ fds = [t \in Threads |-> 0]
    /\ answer = [t \in Threads |-> "none"]

Goto(t, place) == call' = [call EXCEPT ![t] = place]
Becomes(t, h)  == handle' = [handle EXCEPT ![t] = h]
OpenFd(t)      == fds' = [fds EXCEPT ![t] = @ + 1]
CloseFd(t)     == fds' = [fds EXCEPT ![t] = @ - 1]
Answered(t, a) == answer' = [answer EXCEPT ![t] = a]

(***************************************************************************)
(* Limiter: the count is taken first and given back if there was none.     *)
(***************************************************************************)
TakenEarly(allowed) == allowed > -1                    \* a defect: off by one
Taken(allowed) == allowed > 0

\* NewRandomAccessFile up to the open.
NewRandomAccessFile(t, f) ==
    /\ call[t] = "idle" /\ handle[t] = "none"
    /\ f \in linked
    /\ file' = [file EXCEPT ![t] = f]
    /\ OpenFd(t)
    /\ Goto(t, "mmapSub")
    /\ UNCHANGED <<mmapAllowed, fdAllowed, linked, handle, answer>>

\* The open finds nothing: the call returns the error.
OpenFails(t, f) ==
    /\ call[t] = "idle" /\ handle[t] = "none"
    /\ f \notin linked
    /\ file' = [file EXCEPT ![t] = f]
    /\ Answered(t, "error")
    /\ UNCHANGED <<mmapAllowed, fdAllowed, linked, call, handle, fds>>

\* mmap_limiter_.Acquire(): the fetch_sub.
AcquireMmap(t) ==
    /\ call[t] = "mmapSub"
    /\ mmapAllowed' = mmapAllowed - 1
    /\ Goto(t, IF Taken(mmapAllowed) THEN "map" ELSE "mmapBack")
    /\ UNCHANGED <<fdAllowed, linked, file, handle, fds, answer>>

\* The fetch_add of a refused Acquire.
ReturnMmap(t) ==
    /\ call[t] = "mmapBack"
    /\ mmapAllowed' = mmapAllowed + 1
    /\ Goto(t, "fdSub")
    /\ UNCHANGED <<fdAllowed, linked, file, handle, fds, answer>>

\* The constructor of PosixRandomAccessFile: fd_limiter_->Acquire().
AcquireFd(t) ==
    /\ call[t] = "fdSub"
    /\ fdAllowed' = fdAllowed - 1
    /\ IF Taken(fdAllowed)
       THEN Becomes(t, "kept") /\ Goto(t, "idle")
       ELSE UNCHANGED handle /\ Goto(t, "fdBack")
    /\ UNCHANGED <<mmapAllowed, linked, file, fds, answer>>

\* Without a permanent descriptor the one just opened is closed again.
ReturnFd(t) ==
    /\ call[t] = "fdBack"
    /\ fdAllowed' = fdAllowed + 1
    /\ Becomes(t, "reopened")
    /\ CloseFd(t)
    /\ Goto(t, "idle")
    /\ UNCHANGED <<mmapAllowed, linked, file, answer>>

AfterFailedMapNot == "idle"                            \* a defect: keeps the acquire
AfterFailedMap == "mmapRelease"

\* GetFileSize by name, then mmap; either may fail.  The descriptor is closed.
Map(t) ==
    /\ call[t] = "map"
    /\ CloseFd(t)
    /\ \/ file[t] \in linked /\ Becomes(t, "mapped") /\ Goto(t, "idle")
       \/ UNCHANGED handle /\ Goto(t, AfterFailedMap)
    /\ UNCHANGED <<mmapAllowed, fdAllowed, linked, file, answer>>

ReleaseMmap(t) ==
    /\ call[t] = "mmapRelease"
    /\ mmapAllowed' = mmapAllowed + 1
    /\ Goto(t, "idle")
    /\ UNCHANGED <<fdAllowed, linked, file, handle, fds, answer>>

ReleaseFd(t) ==
    /\ call[t] = "fdRelease"
    /\ fdAllowed' = fdAllowed + 1
    /\ Goto(t, "idle")
    /\ UNCHANGED <<mmapAllowed, linked, file, handle, fds, answer>>

NeedsNameAlways(h) == h # "none"                       \* a defect: never a descriptor
NeedsName(h) == h = "reopened"

\* Read: a mapped file refuses a range past its end, pread shortens it.
ReadOpened(t, past) ==
    /\ call[t] = "idle" /\ handle[t] # "none" /\ ~NeedsName(handle[t])
    /\ Answered(t, IF ~past THEN "whole"
                   ELSE IF handle[t] = "mapped" THEN "refused" ELSE "short")
    /\ UNCHANGED <<mmapAllowed, fdAllowed, linked, call, file, handle, fds>>

\* Read of a file without descriptor: the open comes first and may find nothing.
ReadReopens(t) ==
    /\ call[t] = "idle" /\ NeedsName(handle[t])
    /\ IF file[t] \in linked
       THEN OpenFd(t) /\ Goto(t, "pread") /\ UNCHANGED answer
       ELSE Answered(t, "error") /\ UNCHANGED <<fds, call>>
    /\ UNCHANGED <<mmapAllowed, fdAllowed, linked, file, handle>>

ReadReopened(t, past) ==
    /\ call[t] = "pread"
    /\ Answered(t, IF past THEN "short" ELSE "whole")
    /\ CloseFd(t)
    /\ Goto(t, "idle")
    /\ UNCHANGED <<mmapAllowed, fdAllowed, linked, file, handle>>

AfterClose(h) == CASE h = "mapped" -> "mmapRelease"
                   [] h = "kept" -> "fdRelease"
                   [] OTHER -> "idle"

ClosesFdAny(h) == h \in {"kept", "mapped"}             \* a defect: closes twice
ClosesFd(h) == h = "kept"

\* The destructors.
Close(t) ==
    /\ call[t] = "idle" /\ handle[t] # "none"
    /\ Becomes(t, "none")
    /\ Goto(t, AfterClose(handle[t]))
    /\ IF ClosesFd(handle[t]) THEN CloseFd(t) ELSE UNCHANGED fds
    /\ Answered(t, "none")
    /\ UNCHANGED <<mmapAllowed, fdAllowed, linked, file>>

\* RemoveFile by anybody.
RemoveFile(f) ==
    /\ f \in linked
    /\ linked' = linked \ {f}
    /\ UNCHANGED <<mmapAllowed, fdAllowed, call, file, handle, fds, answer>>

ReadNext ==
    \/ \E t \in Threads, f \in Files : NewRandomAccessFile(t, f)
    \/ \E t \in Threads, f \in Files : OpenFails(t, f)
    \/ \E t \in Threads : AcquireMmap(t)
    \/ \E t \in Threads : ReturnMmap(t)
    \/ \E t \in Threads : AcquireFd(t)
    \/ \E t \in Threads : ReturnFd(t)
    \/ \E t \in Threads : Map(t)
    \/ \E t \in Threads : ReleaseMmap(t)
    \/ \E t \in Threads : ReleaseFd(t)
    \/ \E t \in Threads, past \in BOOLEAN : ReadOpened(t, past)
    \/ \E t \in Threads : ReadReopens(t)
    \/ \E t \in Threads, past \in BOOLEAN : ReadReopened(t, past)
    \/ \E t \in Threads : Close(t)
    \/ \E f \in Files : RemoveFile(f)

ReadSpec == ReadInit /\ [][ReadNext]_readVars

-----------------------------------------------------------------------------
At(places)      == {t \in Threads : call[t] \in places}
With(handles)   == {t \in Threads : handle[t] \in handles}

(* The limiters are exact: what is left of a limit is the limit less the   *)
(* files that hold a share, the threads that took one they must give back  *)
(* and those that are about to release one.  So concurrent Acquires, which *)
(* push the count below zero, never lose or grant a share.                 *)
LimitersExact ==
    /\ mmapAllowed = MaxMmaps - Cardinality(With({"mapped"}))
                              - Cardinality(At({"mmapBack", "map", "mmapRelease"}))
    /\ fdAllowed = MaxOpen - Cardinality(With({"kept"}))
                           - Cardinality(At({"fdBack", "fdRelease"}))

(* No more files are mapped, and no more descriptors kept, than the limits *)
(* say, whatever the order in which threads acquire and release.           *)
LimitsHeld ==
    /\ Cardinality(With({"mapped"})) <= MaxMmaps
    /\ Cardinality(With({"kept"})) <= MaxOpen

(* Descriptors do not leak: between calls the process has exactly those of *)
(* the files that keep one, and a call in progress has at most one more.   *)
DescriptorsBounded ==
    /\ \A t \in Threads : fds[t] \in {0, 1}
    /\ \A t \in At({"idle"}) : fds[t] = 1 <=> handle[t] = "kept"

(* A file that was opened as mapped or with its own descriptor stays       *)
(* readable after RemoveFile; only one past both limits can fail to find   *)
(* its name, and only after the removal.                                   *)
Loses(t) ==
    /\ answer'[t] = "error" /\ answer[t] # "error"
    /\ handle[t] \notin {"none", "reopened"} \/ file'[t] \in linked
RemovedStaysReadable == [][\A t \in Threads : ~Loses(t)]_readVars

(* Types: what each thread has open, and the two limiters.                 *)
ReadTypeOK ==
    /\ mmapAllowed \in (-Cardinality(Threads))..MaxMmaps
    /\ fdAllowed \in (-Cardinality(Threads))..MaxOpen
    /\ linked \subseteq Files
    /\ call \in [Threads -> Places]
    /\ file \in [Threads -> Files]
    /\ handle \in [Threads -> Handles]
    /\ fds \in [Threads -> Nat]
    /\ answer \in [Threads -> Answers]
=============================================================================
