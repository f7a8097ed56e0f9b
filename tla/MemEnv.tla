------------------------------- MODULE MemEnv -------------------------------
(***************************************************************************)
(* The in-memory file system of leveldb/helpers/memenv/memenv.cc: names    *)
(* map to reference-counted FileState objects, which keep their bytes in   *)
(* blocks; open files hold references of their own.  Every call holds the  *)
(* mutex of the map, or that of one FileState, throughout and is one step. *)
(***************************************************************************)
EXTENDS Integers, Sequences, FiniteSets, FiniteSetsExt

CONSTANTS
    Names,       \* file names
    States,      \* addresses of FileState objects
    Handles,     \* slots for open files
    BlockSize,   \* kBlockSize
    MaxBytes     \* bound: bytes appended in all

Null == 0        \* nullptr: file_map_[fname] creates an entry that holds it

VARIABLES
    file_map,    \* name -> FileState or Null
    refs,        \* FileState -> refs_; 0 when it is not allocated
    blocks,      \* FileState -> blocks_
    size,        \* FileState -> size_
    open,        \* slot -> the open file in it, or Closed
    bytes,       \* bytes appended so far; the next byte is its number
    contents,    \* FileState -> the bytes appended since it was last truncated
    orphans,     \* FileStates that NewAppendableFile made and entered nowhere
    crashed      \* a null pointer was followed

memVars == <<file_map, refs, blocks, size, open, bytes, contents, orphans, crashed>>
files   == <<blocks, size, contents>>

File(kind, s) == [kind |-> kind, state |-> s, pos |-> 0]
Closed        == File("closed", Null)

MemEnvInit ==
    /\ file_map = << >>
    /\ refs = [s \in States |-> 0]
    /\ blocks = [s \in States |-> <<>>]
    /\ size = [s \in States |-> 0]
    /\ open = [h \in Handles |-> Closed]
    /\ bytes = 0
    /\ contents = [s \in States |-> <<>>]
    /\ orphans = {}
    /\ crashed = FALSE

Entered(map, n, s) == [m \in DOMAIN map \cup {n} |-> IF m = n THEN s ELSE map[m]]
Erased(map, n)     == [m \in DOMAIN map \ {n} |-> map[m]]
Fresh              == {s \in States : refs[s] = 0}
New                == CHOOSE s \in Fresh : \A t \in Fresh : s <= t

Ref(r, s) == [r EXCEPT ![s] = @ + 1]

UnrefDeletes(r, s) == [r EXCEPT ![s] = 0]              \* a defect: deletes at once
Unref(r, s) == [r EXCEPT ![s] = @ - 1]

\* Unref deletes the object with its last reference; its blocks go with it.
Dropped(f, zero) == [s \in States |-> IF refs'[s] = 0 THEN zero ELSE f[s]]
DropBlocks == blocks' = Dropped(blocks, <<>>) /\ size' = Dropped(size, 0)
                 /\ contents' = Dropped(contents, <<>>)

Crash == crashed' = TRUE /\ UNCHANGED <<file_map, refs, files, open, bytes, orphans>>

(***************************************************************************)
(* FileState.                                                              *)
(***************************************************************************)
\* Append, byte by byte: a full last block makes it push a new one.
NeedsBlock(n) == n % BlockSize = 0

AppendByte(b, n, x) ==
    IF NeedsBlock(n) THEN Append(b, <<x>>)
    ELSE [b EXCEPT ![Len(b)] = Append(@, x)]

\* Read: n is cut to what there is; the loop goes from block to block.
BlockOf(offset) == offset \div BlockSize + 1
InBlockStart(offset) == 0                              \* a defect: block_offset is dropped
InBlock(offset) == offset % BlockSize

ReadBytes(b, sz, offset, n) ==
    LET count == IF n > sz - offset THEN sz - offset ELSE n
    IN [i \in 1..count |->
           LET o == offset + i - 1 IN b[BlockOf(o)][InBlock(o) + 1]]

(***************************************************************************)
(* InMemoryEnv.                                                            *)
(***************************************************************************)
\* NewSequentialFile and NewRandomAccessFile of a name that is there.
NewReader(n, h, kind) ==
    /\ ~crashed /\ open[h] = Closed /\ n \in DOMAIN file_map
    /\ \/ file_map[n] = Null /\ Crash
       \/ /\ file_map[n] # Null
          /\ open' = [open EXCEPT ![h] = File(kind, file_map[n])]
          /\ refs' = Ref(refs, file_map[n])
          /\ UNCHANGED <<file_map, files, bytes, orphans, crashed>>

\* NewWritableFile: a new object, or the old one truncated.
NewWritableFile(n, h) ==
    /\ ~crashed /\ open[h] = Closed
    /\ \/ /\ n \notin DOMAIN file_map /\ Fresh # {}
          /\ file_map' = Entered(file_map, n, New)
          /\ refs' = Ref(Ref(refs, New), New)
          /\ open' = [open EXCEPT ![h] = File("writable", New)]
          /\ UNCHANGED <<files, bytes, orphans, crashed>>
       \/ /\ n \in DOMAIN file_map /\ file_map[n] # Null
          /\ LET s == file_map[n]
             IN /\ blocks' = [blocks EXCEPT ![s] = <<>>]
                /\ size' = [size EXCEPT ![s] = 0]
                /\ contents' = [contents EXCEPT ![s] = <<>>]
                /\ refs' = Ref(refs, s)
                /\ open' = [open EXCEPT ![h] = File("writable", s)]
          /\ UNCHANGED <<file_map, bytes, orphans, crashed>>
       \/ n \in DOMAIN file_map /\ file_map[n] = Null /\ Crash

\* NewAppendableFile: operator[] enters a null pointer for a new name, and the
\* new object is not put in its place.
NewAppendableFile(n, h) ==
    /\ ~crashed /\ open[h] = Closed
    /\ file_map' = IF n \in DOMAIN file_map THEN file_map ELSE Entered(file_map, n, Null)
    /\ \/ /\ file_map'[n] = Null /\ Fresh # {}
          /\ refs' = Ref(Ref(refs, New), New)
          /\ open' = [open EXCEPT ![h] = File("writable", New)]
          /\ orphans' = orphans \cup {New}
       \/ /\ file_map'[n] # Null
          /\ refs' = Ref(refs, file_map'[n])
          /\ open' = [open EXCEPT ![h] = File("writable", file_map'[n])]
          /\ UNCHANGED orphans
    /\ UNCHANGED <<files, bytes, crashed>>

\* RemoveFile of a name that is there (RemoveFileInternal).
RemoveFile(n) ==
    /\ ~crashed /\ n \in DOMAIN file_map
    /\ \/ file_map[n] = Null /\ Crash
       \/ /\ file_map[n] # Null
          /\ refs' = Unref(refs, file_map[n])
          /\ DropBlocks
          /\ file_map' = Erased(file_map, n)
          /\ UNCHANGED <<open, bytes, orphans, crashed>>

RenamedOver(r, target) == r                            \* a defect: the target is not removed
Renamed(r, target) == IF target \in DOMAIN file_map THEN Unref(r, file_map[target]) ELSE r

\* RenameFile: the target is removed first; the entry moves with its
\* reference.  Onto itself, the file is gone.
RenameFile(src, target) ==
    /\ ~crashed /\ src \in DOMAIN file_map
    /\ \/ target \in DOMAIN file_map /\ file_map[target] = Null /\ Crash
       \/ /\ target \in DOMAIN file_map => file_map[target] # Null
          /\ refs' = Renamed(refs, target)
          /\ DropBlocks
          /\ file_map' = Erased(Entered(file_map, target, file_map[src]), src)
          /\ UNCHANGED <<open, bytes, orphans, crashed>>

\* Append of one byte by a WritableFileImpl.
WriteByte(h) ==
    /\ ~crashed /\ bytes < MaxBytes
    /\ open[h] # Closed /\ open[h].kind = "writable"
    /\ LET s == open[h].state
       IN /\ blocks' = [blocks EXCEPT ![s] = AppendByte(@, size[s], bytes + 1)]
          /\ size' = [size EXCEPT ![s] = @ + 1]
          /\ contents' = [contents EXCEPT ![s] = Append(@, bytes + 1)]
    /\ bytes' = bytes + 1
    /\ UNCHANGED <<file_map, refs, open, orphans, crashed>>

\* SequentialFileImpl::Read and Skip: past the end, which a truncation may have
\* brought nearer, they fail; else the position advances by what there is.
Advance(h, n) ==
    /\ ~crashed /\ open[h] # Closed /\ open[h].kind = "sequential"
    /\ LET s == open[h].state
           available == size[s] - open[h].pos
       IN /\ available > 0
          /\ open' = [open EXCEPT ![h].pos = @ + Min({n, available})]
    /\ UNCHANGED <<file_map, refs, files, bytes, orphans, crashed>>

\* The destructor of an open file.
CloseFile(h) ==
    /\ ~crashed /\ open[h] # Closed
    /\ refs' = Unref(refs, open[h].state)
    /\ DropBlocks
    /\ open' = [open EXCEPT ![h] = Closed]
    /\ UNCHANGED <<file_map, bytes, orphans, crashed>>

MemEnvNext ==
    \/ \E n \in Names, h \in Handles, k \in {"sequential", "random"} : NewReader(n, h, k)
    \/ \E n \in Names, h \in Handles : NewWritableFile(n, h)
    \/ \E n \in Names, h \in Handles : NewAppendableFile(n, h)
    \/ \E n \in Names : RemoveFile(n)
    \/ \E n, m \in Names : RenameFile(n, m)
    \/ \E h \in Handles : WriteByte(h)
    \/ \E h \in Handles, n \in 1..MaxBytes : Advance(h, n)
    \/ \E h \in Handles : CloseFile(h)

MemEnvSpec == MemEnvInit /\ [][MemEnvNext]_memVars

-----------------------------------------------------------------------------
(* Types: references, blocks and positions of the files in memory.         *)
MemEnvTypeOK ==
    /\ DOMAIN file_map \subseteq Names
    /\ \A n \in DOMAIN file_map : file_map[n] \in States \cup {Null}
    /\ refs \in [States -> 0..(Cardinality(Names) + Cardinality(Handles))]
    /\ \A s \in States : \A i \in 1..Len(blocks[s]) : Len(blocks[s][i]) \in 1..BlockSize
    /\ \A h \in Handles : open[h] = Closed \/ open[h].state \in States
    /\ bytes \in 0..MaxBytes
    /\ crashed \in BOOLEAN

(* Reference counts are exact: an object's count is the number of names    *)
(* and open files that lead to it, and one more for the reference that     *)
(* NewAppendableFile takes and enters nowhere.                             *)
MemRefsExact ==
    \A s \in States :
        refs[s] = Cardinality({n \in DOMAIN file_map : file_map[n] = s})
                + Cardinality({h \in Handles : open[h] # Closed /\ open[h].state = s})
                + (IF s \in orphans THEN 1 ELSE 0)

(* What a removed or replaced name led to stays usable for those who have  *)
(* it open: no name and no open file leads to a deleted object.            *)
NoUseAfterFree ==
    /\ \A n \in DOMAIN file_map : file_map[n] = Null \/ refs[file_map[n]] > 0
    /\ \A h \in Handles : open[h] = Closed \/ refs[open[h].state] > 0

(* Every read returns the bytes that were appended: at any offset and of   *)
(* any length, across block boundaries, after truncation and when the      *)
(* object's address was used before.                                       *)
ReadsWhatWasAppended ==
    \A s \in States :
        /\ size[s] = Len(contents[s])
        /\ \A o \in 0..size[s], n \in 0..MaxBytes :
              ReadBytes(blocks[s], size[s], o, n)
                = SubSeq(contents[s], o + 1, Min({o + n, size[s]}))

(* A null pointer is only followed for a name that NewAppendableFile made. *)
AppendableIsThere == \A n \in DOMAIN file_map : file_map[n] # Null
=============================================================================
