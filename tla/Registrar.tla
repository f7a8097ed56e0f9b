----------------------------- MODULE Registrar -----------------------------
(***************************************************************************)
(* The component registrar of the web crawler with the serial numbers its  *)
(* identifiers are made of.  Goroutines make components (a serial number,  *)
(* an identifier, Register), unregister them, and ask for the least loaded *)
(* component of a type.                                                    *)
(*                                                                         *)
(* The registrar's lock is Go's RWMutex, modelled by what its users rely   *)
(* on: a writer waits for the readers that hold it, a reader that arrives  *)
(* while a writer holds it waits, and RUnlock of a lock that is write-     *)
(* locked ends the program if no reader waits and otherwise takes one away *)
(* from the waiting readers' count, and leaves the lock write-locked.      *)
(***************************************************************************)
EXTENDS Integers, Sequences, FiniteSets

CONSTANTS
    Makers, Users,           \* goroutines: those that make and unregister, and
                             \* those that call Get
    Types,                   \* letters of component types
    Start, Max,              \* of the generator, Max > Start
    Offers,                  \* what is made: [mtype, kind, maddr]
    Scores,                  \* the scores that makers' components may have
    MaxCalls                 \* bounds on the calls, goroutine -> number

VARIABLES
    next, cycleCount,        \* the generator
    moduleTypeMap,           \* the registered components, MID -> component
    writer, readers, waiting, fatal,   \* the lock; waiting: readers that wait
    pc, id, tmp, made, calls,          \* locals of the makers
    wanted, offered, seen, selected, minScore,   \* locals of Get
    score,                   \* what SetScore computes for a component now
    overlap, issued,         \* history: two calls of the generator overlapped;
                             \* the numbers it gave out, each with its cycle
    unregistered             \* history: Unregister took the lock

snVars == <<next, cycleCount, overlap, issued>>
lockVars == <<writer, readers, waiting, fatal>>
makerVars == <<id, tmp, made>>
getVars == <<wanted, offered, seen, selected, minScore>>
vars == <<snVars, moduleTypeMap, lockVars, pc, makerVars, calls, getVars, score,
          unregistered>>

Goroutines == Makers \cup Users
Set(f, g, v) == [f EXCEPT ![g] = v]
Goto(g, l) == pc' = Set(pc, g, l)

-----------------------------------------------------------------------------
(* Identifiers: a letter, a number and perhaps an address, host and port.  *)
(* As net.Addr prints them an IPv6 host is in brackets, and a port is a    *)
(* number; ParseIP takes neither a host in brackets nor a name.            *)
NoAddr == <<>>

LegalType(mtype) == mtype \in Types
GenMID(mtype, sn, maddr) == [letter |-> mtype, sn |-> sn, addr |-> maddr]

legalSN(sn) == sn \in Nat
ParseIP(host) == host = "10.0.0.1"
SplitMID(mid) ==
    IF /\ mid.letter \in Types
       /\ legalSN(mid.sn)
       /\ mid.addr = NoAddr \/ ParseIP(mid.addr[1])
    THEN <<mid.letter, mid.sn, mid.addr>> ELSE <<>>

LegalMID(mid) == SplitMID(mid) # <<>>
GetType(mid) == SplitMID(mid)[1]

(* A component is its MID, the interface it implements and who made it. *)
CheckTypeNot(letter, module) == TRUE       \* a defect: any component will do
CheckType(letter, module) == module.kind = letter

-----------------------------------------------------------------------------
Init ==
    /\ next = Start /\ cycleCount = 0 /\ overlap = FALSE /\ issued = <<>>
    /\ moduleTypeMap = <<>>
    /\ writer = {} /\ readers = {} /\ waiting = {} /\ fatal = FALSE
    /\ pc = [g \in Goroutines |-> "idle"]
    /\ id = [g \in Makers |-> 0] /\ tmp = [g \in Makers |-> 0]
    /\ made = [g \in Makers |-> <<>>]
    /\ calls = [g \in Goroutines |-> 0]
    /\ wanted = [g \in Users |-> CHOOSE t \in Types : TRUE]
    /\ seen = [g \in Users |-> {}] /\ offered = [g \in Users |-> {}]
    /\ selected = [g \in Users |-> <<>>] /\ minScore = [g \in Users |-> 0]
    /\ score \in Scores
    /\ unregistered = FALSE

Begin(g) ==
    /\ pc[g] = "idle" /\ calls[g] < MaxCalls[g]
    /\ calls' = Set(calls, g, calls[g] + 1)

AtMaxLate(sn) == sn > Max                  \* a defect: begins again one too late
AtMax(sn) == sn = Max

(* mySNGenertor.Get changes next although it holds the lock for reading    *)
(* only: id := s.next, the comparison, and s.next++, a load and a store.   *)
GetRead(g) ==
    /\ Begin(g)
    /\ id' = Set(id, g, next)
    /\ overlap' = (overlap \/ \E h \in Makers : pc[h] \in {"compare", "store"})
    /\ Goto(g, "compare")
    /\ UNCHANGED <<next, cycleCount, issued, moduleTypeMap, lockVars, tmp, made,
                   getVars, score, unregistered>>

GetCompare(g) ==
    /\ pc[g] = "compare"
    /\ IF AtMax(id[g])
       THEN /\ next' = Start /\ cycleCount' = cycleCount + 1
            /\ issued' = Append(issued, <<cycleCount, id[g]>>)
            /\ Goto(g, "made") /\ UNCHANGED tmp
       ELSE /\ tmp' = Set(tmp, g, next)
            /\ Goto(g, "store") /\ UNCHANGED <<next, cycleCount, issued>>
    /\ UNCHANGED <<overlap, moduleTypeMap, lockVars, id, made, calls, getVars,
                   score, unregistered>>

GetStore(g) ==
    /\ pc[g] = "store"
    /\ next' = tmp[g] + 1
    /\ issued' = Append(issued, <<cycleCount, id[g]>>)
    /\ tmp' = Set(tmp, g, 0)
    /\ Goto(g, "made")
    /\ UNCHANGED <<cycleCount, overlap, moduleTypeMap, lockVars, id, made, calls,
                   getVars, score, unregistered>>

(* A component with that number: Register refuses one whose identifier is  *)
(* not legal or not of its type before it takes the lock.                  *)
Register(g, o) ==
    LET mid == GenMID(o.mtype, id[g], o.maddr)
        module == [mid |-> mid, kind |-> o.kind, maker |-> g]
    IN  /\ pc[g] = "made"
        /\ id' = Set(id, g, 0)
        /\ IF LegalMID(mid) /\ CheckType(GetType(mid), module)
           THEN made' = Set(made, g, module) /\ Goto(g, "lock")
           ELSE UNCHANGED made /\ Goto(g, "idle")
        /\ UNCHANGED <<snVars, moduleTypeMap, lockVars, tmp, calls, getVars, score,
                       unregistered>>

CanLock == writer = {} /\ readers = {}
Lock(g) == CanLock /\ writer' = {g} /\ UNCHANGED <<readers, waiting, fatal>>
RUnlock(g) ==
    IF writer # {}
    THEN /\ fatal' = (waiting = {})
         /\ UNCHANGED <<writer, readers, waiting>>
    ELSE /\ readers' = readers \ {g}
         /\ UNCHANGED <<writer, waiting, fatal>>
UnlockAsReader(g) == RUnlock(g)            \* a defect: as in Unregister
Unlock(g) ==
    /\ writer' = {} /\ readers' = readers \cup waiting /\ waiting' = {}
    /\ UNCHANGED fatal

RegisterLock(g) ==
    /\ pc[g] = "lock"
    /\ Lock(g)
    /\ Goto(g, "register")
    /\ UNCHANGED <<snVars, moduleTypeMap, makerVars, calls, getVars, score,
                   unregistered>>

Store(f, m) ==
    [x \in DOMAIN f \cup {m.mid} |-> IF x = m.mid THEN m ELSE f[x]]
RegisterOver(f, m) == Store(f, m)          \* a defect: replaces a component
RegisterNew(f, m) == IF m.mid \in DOMAIN f THEN f ELSE Store(f, m)
RegisterStore(g) ==
    /\ pc[g] = "register"
    /\ moduleTypeMap' = RegisterNew(moduleTypeMap, made[g])
    /\ Unlock(g)
    /\ Goto(g, "idle")
    /\ UNCHANGED <<snVars, makerVars, calls, getVars, score, unregistered>>

(* Unregister of the component it made: Lock, and a deferred RUnlock. *)
UnregisterLock(g) ==
    /\ made[g] # <<>>
    /\ Begin(g)
    /\ Lock(g)
    /\ unregistered' = TRUE
    /\ Goto(g, "unregister")
    /\ UNCHANGED <<snVars, moduleTypeMap, makerVars, getVars, score>>

Unregister(g) ==
    /\ pc[g] = "unregister"
    /\ moduleTypeMap' = [x \in DOMAIN moduleTypeMap \ {made[g].mid} |->
                           moduleTypeMap[x]]
    /\ RUnlock(g)
    /\ Goto(g, "idle")
    /\ UNCHANGED <<snVars, makerVars, calls, getVars, score, unregistered>>

(* Clear, as the scheduler calls it, in one critical section *)
Clear(g) ==
    /\ Begin(g)
    /\ CanLock
    /\ moduleTypeMap' = <<>>
    /\ UNCHANGED <<snVars, lockVars, pc, makerVars, getVars, score, unregistered>>

-----------------------------------------------------------------------------
(* GetAllByType: RLock, a copy of the components of the type, RUnlock. *)
RLockNot(g) == readers' = readers \cup {g} /\ UNCHANGED waiting   \* a defect: no lock
RLock(g) ==
    IF writer = {}
    THEN readers' = readers \cup {g} /\ UNCHANGED waiting
    ELSE waiting' = waiting \cup {g} /\ UNCHANGED readers

Get(g, mtype) ==
    /\ Begin(g) /\ LegalType(mtype)
    /\ wanted' = Set(wanted, g, mtype)
    /\ RLock(g)
    /\ Goto(g, "copy")
    /\ UNCHANGED <<snVars, moduleTypeMap, writer, fatal, makerVars, offered, seen,
                   selected, minScore, score, unregistered>>

GetAllByType(g) ==
    LET ofType == {moduleTypeMap[x] : x \in {y \in DOMAIN moduleTypeMap :
                                               y.letter = wanted[g]}}
    IN  /\ pc[g] = "copy" /\ g \in readers
        /\ seen' = Set(seen, g, ofType) /\ offered' = Set(offered, g, ofType)
        /\ selected' = Set(selected, g, <<>>) /\ minScore' = Set(minScore, g, 0)
        /\ RUnlock(g)
        /\ Goto(g, IF ofType = {} THEN "idle" ELSE "select")
        /\ UNCHANGED <<snVars, moduleTypeMap, makerVars, calls, wanted, score,
                       unregistered>>

(* A turn of Get's loop, in the order of Go's maps, any; SetScore computes *)
(* the score from the counts of that moment.                               *)
BetterIfMore(new, min) == min = 0 \/ new > min   \* a defect: the most loaded
Better(new, min) == min = 0 \/ new < min
Select(g, m) ==
    /\ pc[g] = "select" /\ m \in seen[g]
    /\ seen' = Set(seen, g, seen[g] \ {m})
    /\ IF Better(score[m.maker], minScore[g])
       THEN selected' = Set(selected, g, m) /\ minScore' = Set(minScore, g, score[m.maker])
       ELSE UNCHANGED <<selected, minScore>>
    /\ UNCHANGED <<snVars, moduleTypeMap, lockVars, pc, makerVars, calls, wanted,
                   offered, score, unregistered>>

GetReturn(g) ==
    /\ pc[g] = "select" /\ seen[g] = {}
    /\ Goto(g, "idle")
    /\ selected' = Set(selected, g, <<>>) /\ minScore' = Set(minScore, g, 0)
    /\ offered' = Set(offered, g, {})
    /\ UNCHANGED <<snVars, moduleTypeMap, lockVars, makerVars, calls, wanted, seen,
                   score, unregistered>>

-----------------------------------------------------------------------------
MakerStep(g) ==
    \/ GetCompare(g) \/ GetStore(g)
    \/ \E o \in Offers : Register(g, o)
    \/ RegisterLock(g) \/ RegisterStore(g) \/ Unregister(g)
UserStep(g) == GetAllByType(g) \/ (\E m \in seen[g] : Select(g, m)) \/ GetReturn(g)

MakerTurn(g) == ~fatal /\ MakerStep(g)
UserTurn(g) == ~fatal /\ UserStep(g)

Next ==
    /\ ~ fatal
    /\ \/ \E g \in Makers : GetRead(g) \/ UnregisterLock(g) \/ Clear(g) \/ MakerStep(g)
       \/ \E g \in Users, mtype \in Types : Get(g, mtype)
       \/ \E g \in Users : UserStep(g)

Spec == Init /\ [][Next]_vars

-----------------------------------------------------------------------------
(* Types: who holds the lock, the serial numbers, the registered modules   *)
(* and the steps of the goroutines.                                        *)
TypeOK ==
    /\ next \in Nat /\ cycleCount \in Nat /\ overlap \in BOOLEAN
    /\ \A x \in DOMAIN moduleTypeMap : LegalMID(x)
    /\ writer \subseteq Makers /\ readers \subseteq Users /\ waiting \subseteq Users
    /\ writer = {} \/ readers = {}
    /\ Cardinality(writer) <= 1

(* Serial numbers: as long as no two calls of the generator overlap, it    *)
(* gives every number once before it begins again at start, and none       *)
(* above max; Get holds its lock for reading only, so calls may overlap.   *)
NumbersDistinct ==
    ~ overlap =>
        /\ \A i \in DOMAIN issued : issued[i][2] \in Start..Max
        /\ \A i, j \in DOMAIN issued : issued[i] = issued[j] => i = j

(* Register files a component under its own identifier, in the map of its  *)
(* own type, so that Get(type) returns components that can do the work.    *)
FiledByType ==
    \A x \in DOMAIN moduleTypeMap :
        moduleTypeMap[x].mid = x /\ moduleTypeMap[x].kind = x.letter

(* A registered component is never replaced by another one with the same   *)
(* identifier, although the generator may give the same number twice.      *)
Replaces ==
    \E x \in DOMAIN moduleTypeMap \cap DOMAIN moduleTypeMap' :
        moduleTypeMap'[x] # moduleTypeMap[x]
NeverReplaced == [][~Replaces]_vars

(* Load balancing: Get returns a component with the least score, provided  *)
(* that none of them is idle with score 0, which minScore == 0 takes for   *)
(* "none seen yet".                                                        *)
LeastLoaded ==
    \A g \in Users :
        pc[g] = "select" /\ seen[g] = {} /\ (\A m \in offered[g] : score[m.maker] > 0) =>
            \A m \in offered[g] : score[selected[g].maker] <= score[m.maker]

(* A goroutine is in no call.  Once Unregister was called nobody need get  *)
(* there: it takes the lock for writing and gives it back as a reader.     *)
InCall(g) == pc[g] # "idle"
Returned(g) == ~InCall(g) \/ unregistered
=============================================================================
