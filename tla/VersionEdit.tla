----------------------------- MODULE VersionEdit -----------------------------
(***************************************************************************)
(* VersionEdit (leveldb/db/version_edit.cc): the record of the manifest    *)
(* that says how one version follows from another.  An edit is filled,     *)
(* encoded, perhaps cut off, and decoded into an object that was used      *)
(* before, as VersionSet::Recover and the log reader do.                   *)
(***************************************************************************)
EXTENDS Coding, SequencesExt

CONSTANTS
    Numbers,     \* file numbers, sizes and sequence numbers
    Levels,      \* levels an edit may name
    NumLevels,   \* config::kNumLevels
    Keys,        \* encoded internal keys, never empty
    Comparator,  \* the name of the comparator
    MaxFields    \* bound: fields set in an edit

VARIABLES
    edit,      \* the edit that is filled
    fields,    \* how many fields were set
    record,    \* what is read back of its encoding
    state,     \* filling, encoded, decoded
    decoded,   \* the object decoded into
    status     \* the result of DecodeFrom

editVars == <<edit, fields, record, state, decoded, status>>

\* An optional number is a set of none or one.
Clear == [comparator |-> {}, log |-> {}, prev |-> {}, next |-> {}, last |-> {},
          pointers |-> <<>>, deleted |-> {}, new |-> <<>>]

ClearKeeps(e) == [Clear EXCEPT !.new = e.new]          \* a defect: new_files_ is not cleared
Cleared(e) == Clear

kComparator == 1
kLogNumber == 2
kNextFileNumber == 3
kLastSequence == 4
kCompactPointer == 5
kDeletedFile == 6
kNewFile == 7
kPrevLogNumber == 9

Optional(tag, field) == IF field = {} THEN <<>> ELSE Varint(tag) \o Varint(CHOOSE n \in field : TRUE)

\* std::set iterates in order of level, then number.
InOrder(S) == SetToSortSeq(S, LAMBDA x, y : x[1] < y[1] \/ (x[1] = y[1] /\ x[2] < y[2]))

EncodePointer(p) == Varint(kCompactPointer) \o Varint(p[1]) \o LengthPrefixed(p[2])
EncodeDeleted(d) == Varint(kDeletedFile) \o Varint(d[1]) \o Varint(d[2])
EncodeNew(f) == Varint(kNewFile) \o Varint(f.level) \o Varint(f.number) \o Varint(f.size)
                  \o LengthPrefixed(f.smallest) \o LengthPrefixed(f.largest)

Each(Op(_), s) == FlattenSeq([i \in DOMAIN s |-> Op(s[i])])

EncodeTo(e) ==
    (IF e.comparator = {} THEN <<>>
     ELSE Varint(kComparator) \o LengthPrefixed(CHOOSE c \in e.comparator : TRUE))
      \o Optional(kLogNumber, e.log) \o Optional(kPrevLogNumber, e.prev)
      \o Optional(kNextFileNumber, e.next) \o Optional(kLastSequence, e.last)
      \o Each(EncodePointer, e.pointers)
      \o Each(EncodeDeleted, InOrder(e.deleted))
      \o Each(EncodeNew, e.new)

(***************************************************************************)
(* DecodeFrom.  A field that was read gives the rest of the input and the  *)
(* edit with the field in it.                                              *)
(***************************************************************************)
Bad == [ok |-> FALSE, edit |-> Clear, rest |-> <<>>]
Field(e, r) == [ok |-> TRUE, edit |-> e, rest |-> r.rest]

LevelOK(r) == r.ok /\ r.value < NumLevels

KeyOK(r) == r.ok /\ r.value # <<>>                     \* GetInternalKey

IfRead(ok, e, r) == IF ok THEN Field(e, r) ELSE Bad

DecodeNumber(tag, num, e) ==
    IfRead(num.ok, CASE tag = kLogNumber -> [e EXCEPT !.log = {num.value}]
                     [] tag = kPrevLogNumber -> [e EXCEPT !.prev = {num.value}]
                     [] tag = kNextFileNumber -> [e EXCEPT !.next = {num.value}]
                     [] tag = kLastSequence -> [e EXCEPT !.last = {num.value}], num)
DecodePointer(level, key, e) ==
    IfRead(LevelOK(level) /\ KeyOK(key),
           [e EXCEPT !.pointers = Append(@, <<level.value, key.value>>)], key)
DecodeDeleted(level, num, e) ==
    IfRead(LevelOK(level) /\ num.ok,
           [e EXCEPT !.deleted = @ \cup {<<level.value, num.value>>}], num)
DecodeNew(level, num, size, smallest, largest, e) ==
    IfRead(LevelOK(level) /\ num.ok /\ size.ok /\ KeyOK(smallest) /\ KeyOK(largest),
           [e EXCEPT !.new = Append(@, [level |-> level.value, number |-> num.value,
               size |-> size.value, smallest |-> smallest.value,
               largest |-> largest.value])], largest)

DecodeField(tag, in, e) ==
    LET num == GetVarint(in)
        num2 == GetVarint(num.rest)
        num3 == GetVarint(num2.rest)
        small == GetLengthPrefixed(num3.rest)
        str == GetLengthPrefixed(in)
    IN CASE tag = kComparator -> IfRead(str.ok, [e EXCEPT !.comparator = {str.value}], str)
         [] tag \in {kLogNumber, kPrevLogNumber, kNextFileNumber, kLastSequence} ->
              DecodeNumber(tag, num, e)
         [] tag = kCompactPointer -> DecodePointer(num, GetLengthPrefixed(num.rest), e)
         [] tag = kDeletedFile -> DecodeDeleted(num, num2, e)
         [] tag = kNewFile ->
              DecodeNew(num, num2, num3, small, GetLengthPrefixed(small.rest), e)
         [] OTHER -> Bad

RECURSIVE DecodeFields(_, _)
DecodeFields(in, e) ==
    LET tag == GetVarint(in)
        f == DecodeField(tag.value, tag.rest, e)
    IN IF in = <<>> THEN [edit |-> e, ok |-> TRUE]
       ELSE IF ~tag.ok \/ ~f.ok THEN [edit |-> e, ok |-> FALSE]
       ELSE DecodeFields(f.rest, f.edit)

(***************************************************************************)
(* The actions.                                                            *)
(***************************************************************************)
EditInit ==
    /\ edit = Clear
    /\ fields = 0
    /\ record = <<>>
    /\ state = "filling"
    /\ decoded \in {Clear, [Clear EXCEPT !.log = {0}, !.new = <<[level |-> 0, number |-> 0,
                       size |-> 0, smallest |-> <<0>>, largest |-> <<0>>]>>]}
    /\ status = TRUE

Fill(e) ==
    /\ state = "filling" /\ fields < MaxFields
    /\ edit' = e /\ fields' = fields + 1
    /\ UNCHANGED <<record, state, decoded, status>>

SetComparatorName == Fill([edit EXCEPT !.comparator = {Comparator}])
SetLogNumber(n) == Fill([edit EXCEPT !.log = {n}])
SetPrevLogNumber(n) == Fill([edit EXCEPT !.prev = {n}])
SetNextFile(n) == Fill([edit EXCEPT !.next = {n}])
SetLastSequence(n) == Fill([edit EXCEPT !.last = {n}])
SetCompactPointer(l, k) == Fill([edit EXCEPT !.pointers = Append(@, <<l, k>>)])
RemoveFile(l, n) == Fill([edit EXCEPT !.deleted = @ \cup {<<l, n>>}])
AddFile(l, n, k1, k2) ==
    Fill([edit EXCEPT !.new = Append(@, [level |-> l, number |-> n, size |-> n,
                                         smallest |-> k1, largest |-> k2])])

Encode(n) ==
    /\ state = "filling" /\ state' = "encoded"
    /\ record' = SubSeq(EncodeTo(edit), 1, n)
    /\ UNCHANGED <<edit, fields, decoded, status>>

DecodeFrom ==
    /\ state = "encoded" /\ state' = "decoded"
    /\ LET r == DecodeFields(record, Cleared(decoded))
       IN decoded' = r.edit /\ status' = r.ok
    /\ UNCHANGED <<edit, fields, record>>

EditNext ==
    \/ SetComparatorName
    \/ \E n \in Numbers : SetLogNumber(n)
    \/ \E n \in Numbers : SetPrevLogNumber(n)
    \/ \E n \in Numbers : SetNextFile(n)
    \/ \E n \in Numbers : SetLastSequence(n)
    \/ \E l \in Levels, k \in Keys : SetCompactPointer(l, k)
    \/ \E l \in Levels, n \in Numbers : RemoveFile(l, n)
    \/ \E l \in Levels, n \in Numbers, k1, k2 \in Keys : AddFile(l, n, k1, k2)
    \/ \E n \in 0..Len(EncodeTo(edit)) : Encode(n)
    \/ DecodeFrom

EditSpec == EditInit /\ [][EditNext]_editVars

-----------------------------------------------------------------------------
(* Types: an edit has its fields, its encoding is a string of bytes.       *)
EditTypeOK ==
    /\ fields \in 0..MaxFields
    /\ \A i \in DOMAIN record : record[i] \in Byte
    /\ state \in {"filling", "encoded", "decoded"}
    /\ \A d \in decoded.deleted : d[1] < NumLevels
    /\ \A i \in DOMAIN decoded.new : decoded.new[i].level < NumLevels
    /\ status \in BOOLEAN

Legal(e) == /\ \A d \in e.deleted : d[1] < NumLevels
            /\ \A i \in DOMAIN e.new : e.new[i].level < NumLevels
            /\ \A i \in DOMAIN e.pointers : e.pointers[i][1] < NumLevels

(* An edit is read back exactly as it was filled, whatever the object it   *)
(* is read into held before and however many bytes its numbers take.       *)
EditReadsBack ==
    state = "decoded" /\ record = EncodeTo(edit) /\ Legal(edit) => status /\ decoded = edit

(* An edit that was cut off gives an error or a part of the edit, never a  *)
(* number, file or pointer that was not in it.                             *)
CutEditIsPart ==
    state = "decoded" =>
        /\ decoded.comparator \subseteq edit.comparator
        /\ decoded.log \subseteq edit.log /\ decoded.prev \subseteq edit.prev
        /\ decoded.next \subseteq edit.next /\ decoded.last \subseteq edit.last
        /\ IsPrefix(decoded.pointers, edit.pointers)
        /\ decoded.deleted \subseteq edit.deleted
        /\ IsPrefix(decoded.new, edit.new)
=============================================================================
