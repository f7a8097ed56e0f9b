---------------------------- MODULE WindowsFiles ----------------------------
(***************************************************************************)
(* The files of leveldb/util/env_windows.cc.  Threads open files for       *)
(* reading (with a mapping while the limiter allows one), for writing and  *)
(* for appending, lock one, rename and remove them.  A step is one system  *)
(* call.  What the calls may do at once is decided by the access and the   *)
(* sharing that each open asked for: an open is refused unless every       *)
(* handle of the file shares what it wants, and it shares what they have;  *)
(* to delete or to replace a file nobody may have it open or mapped.       *)
(***************************************************************************)
EXTENDS Integers, Sequences, FiniteSets

CONSTANTS
    Threads,
    Current, Temp, Lock,     \* file names; RenameFile replaces Current by Temp
    MaxMmaps,                \* the limit of mappings
    BufferSize,              \* kWritableFileBufferSize
    MaxInodes, MaxBytes      \* bounds: files ever created, bytes appended to one

VARIABLES
    dir,                     \* name -> the file it names, 0 for none
    data,                    \* file -> its bytes
    acquiresAllowed,         \* of mmap_limiter_
    open,                    \* thread -> what it has open
    call                     \* thread -> where it is in a call

vars == <<dir, data, acquiresAllowed, open, call>>

\* ino: the file; buf: buffered bytes; sent: all bytes appended; mapped: bytes of the view
Nothing == [kind |-> "none", ino |-> 0, buf |-> <<>>, sent |-> <<>>, mapped |-> 0, failed |-> FALSE]
Kinds == {"none", "reading", "opening", "mapped", "writing", "locking", "lock"}
Calls == {"idle", "acquire", "giveBack", "map", "release", "replace"}
Names == {Current, Temp, Lock}
NewInode == Len(data) + 1

WinInit ==
    /\ dir = [n \in Names |-> 0]
    /\ data = <<>>
    /\ acquiresAllowed = MaxMmaps
    /\ open = [t \in Threads |-> Nothing]
    /\ call = [t \in Threads |-> "idle"]

-----------------------------------------------------------------------------
(* desired_access and share_mode of the CreateFileA calls; a mapped view   *)
(* has no handle, ScopedHandle closes it at the end of the call.           *)
AccessOf(kind) ==
    CASE kind \in {"reading", "opening"} -> {"read"}
      [] kind = "writing" -> {"write"}
      [] kind \in {"locking", "lock"} -> {"read", "write"}
      [] OTHER -> {}
ShareOfAll(kind) == {"read", "delete"}            \* a defect: FILE_SHARE_DELETE
ShareWriters(kind) == IF kind \in {"none", "mapped"} THEN {"read", "write", "delete"}
                      ELSE {"read", "write"}      \* a defect: FILE_SHARE_WRITE
ShareOf(kind) ==
    CASE kind \in {"reading", "opening", "locking", "lock"} -> {"read"}
      [] kind = "writing" -> {}
      [] OTHER -> {"read", "write", "delete"}

On(ino) == {t \in Threads : open[t].ino = ino}
Shares(ino, access) == \A t \in On(ino) : access \subseteq ShareOf(open[t].kind)
Opens(n, kind) ==
    \A t \in On(dir[n]) : /\ AccessOf(kind) \subseteq ShareOf(open[t].kind)
                          /\ AccessOf(open[t].kind) \subseteq ShareOf(kind)
Mapped(ino) == \E t \in On(ino) : open[t].kind = "mapped"
Deletable(ino) == Shares(ino, {"delete"}) /\ ~Mapped(ino)

Idle(t) == call[t] = "idle"
Goto(t, place) == call' = [call EXCEPT ![t] = place]
Has(t, h) == open' = [open EXCEPT ![t] = h]
HasFile(t, kind, ino) == Has(t, [Nothing EXCEPT !.kind = kind, !.ino = ino])

-----------------------------------------------------------------------------
NewSequentialFile(t, n) ==
    /\ Idle(t) /\ open[t].kind = "none" /\ dir[n] # 0 /\ Opens(n, "reading")
    /\ HasFile(t, "reading", dir[n])
    /\ UNCHANGED <<dir, data, acquiresAllowed, call>>

NewRandomAccessFile(t, n) ==
    /\ Idle(t) /\ open[t].kind = "none" /\ dir[n] # 0 /\ Opens(n, "opening")
    /\ HasFile(t, "opening", dir[n])
    /\ Goto(t, "acquire")
    /\ UNCHANGED <<dir, data, acquiresAllowed>>

(* Limiter::Acquire: the count is taken, and given back if none was left;  *)
(* without a mapping the file keeps its handle.                            *)
Taken(allowed) == allowed > 0
Acquire(t) ==
    /\ call[t] = "acquire"
    /\ acquiresAllowed' = acquiresAllowed - 1
    /\ Goto(t, IF Taken(acquiresAllowed) THEN "map" ELSE "giveBack")
    /\ UNCHANGED <<dir, data, open>>
GiveBack(t) ==
    /\ call[t] = "giveBack"
    /\ acquiresAllowed' = acquiresAllowed + 1
    /\ HasFile(t, "reading", open[t].ino)
    /\ Goto(t, "idle")
    /\ UNCHANGED <<dir, data>>

(* GetFileSizeEx, CreateFileMappingA and MapViewOfFile; an empty file      *)
(* cannot be mapped and any of them may fail.                              *)
AfterFailedMapNot == "idle"                       \* a defect: keeps the acquire
AfterFailedMap == "release"
Map(t) ==
    /\ call[t] = "map"
    /\ \/ /\ data[open[t].ino] # <<>>
          /\ Has(t, [open[t] EXCEPT !.kind = "mapped", !.mapped = Len(data[open[t].ino])])
          /\ Goto(t, "idle")
       \/ Has(t, Nothing) /\ Goto(t, AfterFailedMap)
    /\ UNCHANGED <<dir, data, acquiresAllowed>>
Release(t) ==
    /\ call[t] = "release"
    /\ acquiresAllowed' = acquiresAllowed + 1
    /\ Goto(t, "idle")
    /\ UNCHANGED <<dir, data, open>>

(* Destructors of the readable files. *)
CloseReadable(t) ==
    /\ Idle(t) /\ open[t].kind \in {"reading", "mapped"}
    /\ Has(t, Nothing)
    /\ Goto(t, IF open[t].kind = "mapped" THEN "release" ELSE "idle")
    /\ UNCHANGED <<dir, data, acquiresAllowed>>

-----------------------------------------------------------------------------
(* CREATE_ALWAYS truncates a file that is there; OPEN_ALWAYS keeps it. *)
Created(t, n, kind) ==
    /\ NewInode <= MaxInodes
    /\ dir' = [dir EXCEPT ![n] = NewInode]
    /\ data' = Append(data, <<>>)
    /\ HasFile(t, kind, NewInode)
NewWritableFile(t, n) ==
    /\ Idle(t) /\ open[t].kind = "none"
    /\ IF dir[n] = 0 THEN Created(t, n, "writing")
       ELSE /\ Opens(n, "writing") /\ ~Mapped(dir[n])
            /\ data' = [data EXCEPT ![dir[n]] = <<>>]
            /\ HasFile(t, "writing", dir[n])
            /\ UNCHANGED dir
    /\ UNCHANGED <<acquiresAllowed, call>>
NewAppendableFile(t, n) ==
    /\ Idle(t) /\ open[t].kind = "none"
    /\ IF dir[n] = 0 THEN Created(t, n, "writing")
       ELSE /\ Opens(n, "writing")
            /\ Has(t, [Nothing EXCEPT !.kind = "writing", !.ino = dir[n], !.sent = data[dir[n]]])
            /\ UNCHANGED <<dir, data>>
    /\ UNCHANGED <<acquiresAllowed, call>>

(* Append of n bytes: fill the buffer, write it when more is left, then    *)
(* buffer the rest or write it directly.  A failed WriteFile drops the     *)
(* buffer and the rest.  Bytes are numbered as they are appended; those    *)
(* behind a failure are not told apart.                                    *)
Bytes(h, n) == [i \in 1..n |-> IF h.failed THEN 0 ELSE Len(h.sent) + i]
CopySize(h, n) == LET room == BufferSize - Len(h.buf) IN IF n < room THEN n ELSE room
AppendBytes(t, n) ==
    LET h == open[t]
        bytes == Bytes(h, n)
        copied == h.buf \o SubSeq(bytes, 1, CopySize(h, n))
        rest == SubSeq(bytes, CopySize(h, n) + 1, n)
        sent == h.sent \o bytes
        direct == Len(rest) >= BufferSize
    IN  /\ Idle(t) /\ h.kind = "writing" /\ Len(sent) <= MaxBytes
        /\ \/ /\ rest = <<>>
              /\ Has(t, [h EXCEPT !.buf = copied, !.sent = sent])
              /\ UNCHANGED data
           \/ /\ rest # <<>>
              /\ data' = [data EXCEPT ![h.ino] = @ \o copied \o IF direct THEN rest ELSE <<>>]
              /\ Has(t, [h EXCEPT !.buf = IF direct THEN <<>> ELSE rest, !.sent = sent])
           \/ /\ rest # <<>>
              /\ Has(t, [h EXCEPT !.buf = <<>>, !.sent = sent, !.failed = TRUE])
              /\ UNCHANGED data
        /\ UNCHANGED <<dir, acquiresAllowed, call>>

Flushed(h) == [h EXCEPT !.buf = <<>>]
Flush(t, ok) ==
    /\ Idle(t) /\ open[t].kind = "writing"
    /\ open[t].buf # <<>>
    /\ data' = IF ok THEN [data EXCEPT ![open[t].ino] = @ \o open[t].buf] ELSE data
    /\ Has(t, [Flushed(open[t]) EXCEPT !.failed = @ \/ ~ok])
    /\ UNCHANGED <<dir, acquiresAllowed, call>>
CloseWritable(t, ok) ==
    /\ Idle(t) /\ open[t].kind = "writing"
    /\ data' = IF ok THEN [data EXCEPT ![open[t].ino] = @ \o open[t].buf] ELSE data
    /\ Has(t, Nothing)
    /\ UNCHANGED <<dir, acquiresAllowed, call>>

-----------------------------------------------------------------------------
RemoveFile(n) ==
    /\ n # Current /\ dir[n] # 0 /\ Deletable(dir[n])
    /\ dir' = [dir EXCEPT ![n] = 0]
    /\ UNCHANGED <<data, acquiresAllowed, open, call>>

(* RenameFile: MoveFileA does it if the target is not there; else          *)
(* ReplaceFileA does it if the target is there.  The thread has closed     *)
(* the source.                                                             *)
Moved == [dir EXCEPT ![Current] = dir[Temp], ![Temp] = 0]
MoveFile(t) ==
    /\ Idle(t) /\ open[t].kind = "none" /\ dir[Temp] # 0
    /\ IF dir[Current] = 0 /\ Shares(dir[Temp], {"delete"})
       THEN dir' = Moved /\ UNCHANGED call
       ELSE Goto(t, "replace") /\ UNCHANGED dir
    /\ UNCHANGED <<data, acquiresAllowed, open>>
ReplacedInTwo == [dir EXCEPT ![Current] = 0]      \* a defect: deletes the target, to move then
Replaced == Moved
ReplaceFile(t) ==
    /\ call[t] = "replace"
    /\ dir' = IF dir[Current] # 0 /\ dir[Temp] # 0
                    /\ Deletable(dir[Current]) /\ Shares(dir[Temp], {"delete"})
              THEN Replaced ELSE dir
    /\ Goto(t, "idle")
    /\ UNCHANGED <<data, acquiresAllowed, open>>

(* LockFile opens the file, which it may create, and locks all of it;      *)
(* UnlockFile keeps the handle if unlocking fails.                         *)
LockFile(t) ==
    /\ Idle(t) /\ open[t].kind = "none"
    /\ IF dir[Lock] = 0 THEN Created(t, Lock, "locking")
       ELSE Opens(Lock, "locking") /\ HasFile(t, "locking", dir[Lock]) /\ UNCHANGED <<dir, data>>
    /\ UNCHANGED <<acquiresAllowed, call>>
LockOrUnlock(t, lock, ok) ==
    /\ Has(t, IF lock = ok THEN [open[t] EXCEPT !.kind = "lock"] ELSE Nothing)
    /\ UNCHANGED <<dir, data, acquiresAllowed, call>>
Locks(t, ok) == open[t].kind = "locking" /\ LockOrUnlock(t, TRUE, ok)
UnlockFile(t, ok) == open[t].kind = "lock" /\ LockOrUnlock(t, FALSE, ok)

WinNext ==
    \E t \in Threads :
        \/ \E n \in {Current, Temp} : NewSequentialFile(t, n) \/ NewRandomAccessFile(t, n)
        \/ Acquire(t) \/ GiveBack(t) \/ Map(t) \/ Release(t) \/ CloseReadable(t)
        \/ NewWritableFile(t, Temp) \/ NewAppendableFile(t, Temp)
        \/ \E n \in 1..MaxBytes : AppendBytes(t, n)
        \/ \E ok \in BOOLEAN : Flush(t, ok) \/ CloseWritable(t, ok)
        \/ Idle(t) /\ open[t].kind = "none" /\ \E n \in {Temp, Lock} : RemoveFile(n)
        \/ MoveFile(t) \/ ReplaceFile(t)
        \/ LockFile(t) \/ \E ok \in BOOLEAN : Locks(t, ok) \/ UnlockFile(t, ok)
WinSpec == WinInit /\ [][WinNext]_vars

-----------------------------------------------------------------------------
(* Handles and calls have their types, buffers never grow past their size  *)
(* and a thread inside a call has what the call needs.                     *)
WinTypeOK ==
    /\ dir \in [Names -> 0..Len(data)]
    /\ call \in [Threads -> Calls]
    /\ \A t \in Threads :
        /\ open[t].kind \in Kinds /\ Len(open[t].buf) <= BufferSize
        /\ open[t].kind = "none" <=> open[t].ino = 0
        /\ open[t].kind = "opening" <=> call[t] \in {"acquire", "giveBack", "map"}

(* The limiter of mappings is exact: what is left is the limit less the    *)
(* views and the shares on their way in or out, also after a mapping that  *)
(* failed; and no more views exist than it allows.                         *)
WinLimiterExact ==
    LET views == {t \in Threads : open[t].kind = "mapped"}
        taken == {t \in Threads : call[t] \in {"giveBack", "map", "release"}}
    IN  /\ acquiresAllowed = MaxMmaps - Cardinality(views) - Cardinality(taken)
        /\ Cardinality(views) <= MaxMmaps

(* A file that somebody writes, and the lock file that somebody holds, are *)
(* open nowhere else: the share modes keep two writers, a writer and a     *)
(* reader, and two holders of the lock apart, in one process and across.   *)
ExclusiveHandles ==
    \A t, u \in Threads :
        /\ t # u /\ open[t].ino = open[u].ino /\ open[t].ino # 0
        /\ "write" \in AccessOf(open[t].kind)
        => open[u].kind = "mapped"

(* A file that is open or mapped keeps its name, whatever RemoveFile and   *)
(* RenameFile are called with meanwhile, and a view never outlives bytes   *)
(* that it shows.                                                          *)
OpenFileStays ==
    \A t \in Threads : open[t].ino # 0 =>
        /\ \E n \in Names : dir[n] = open[t].ino
        /\ open[t].mapped <= Len(data[open[t].ino])

(* A writer that saw no error has its bytes in the file in the order they  *)
(* were appended, except for those still in the buffer, whatever the sizes *)
(* of the appends.                                                         *)
AppendedInOrder ==
    \A t \in Threads :
        LET h == open[t]
        IN  h.kind = "writing" /\ ~h.failed => data[h.ino] \o h.buf = h.sent

(* Once there is a CURRENT file there is always one, at every system call  *)
(* of RenameFile.                                                          *)
Vanishes == dir[Current] # 0 /\ dir'[Current] = 0
CurrentStays == [][~Vanishes]_vars
=============================================================================
