----------------------------- MODULE Scheduler -----------------------------
(***************************************************************************)
(* The scheduler of the web crawler: Init and Start, called by several     *)
(* goroutines, with the status they move under its lock, the fields they   *)
(* fill in without one, and sendError.  The steps of Start that the        *)
(* repository declares but does not define (getPrimaryDomain,              *)
(* checkBufferPoolForStart, download, analyze, pick, sendReq) may succeed, *)
(* fail where they return an error, or panic; Stop does not exist.         *)
(***************************************************************************)
EXTENDS Integers, Sequences, FiniteSets

CONSTANTS
    Goroutines,
    ArgsSet,                 \* arguments of Init: [domains, caps, modules]
    PoolKinds,               \* the buffer pools in the order they are made
    MaxCalls, MaxErrors      \* bounds: calls of a goroutine, errors sent

NilModule == "nil"           \* an entry of a component list
NoPool == 0

VARIABLES
    status,
    registrar,               \* NoRegistrar or the set of registered components
    acceptedDomainMap,       \* <<>> (nil) or a tuple with the set of domains
    pool, open, pools,       \* current pool of a kind, pools that are open,
                             \* number of pools made
    pc, oldStatus, err, args, at, calls,   \* per goroutine
    ready,                   \* history: the arguments of the last good Init
    refused,                 \* history: a Start was refused
    sending, errors          \* pools that senders of errors hold; errors sent

NoRegistrar == {"no registrar"}
fieldVars == <<registrar, acceptedDomainMap, pool, open, pools>>
localVars == <<oldStatus, err, args, at, calls>>
histVars == <<ready, refused>>
sendVars == <<sending, errors>>
vars == <<status, fieldVars, pc, localVars, histVars, sendVars>>

Set(f, g, v) == [f EXCEPT ![g] = v]
Goto(g, l) == pc' = Set(pc, g, l)
Fail(g, l) == err' = Set(err, g, TRUE) /\ Goto(g, l)

Init ==
    /\ status = "uninitialized"
    /\ registrar = NoRegistrar /\ acceptedDomainMap = <<>>
    /\ pool = [i \in DOMAIN PoolKinds |-> NoPool] /\ open = {} /\ pools = 0
    /\ pc = [g \in Goroutines |-> "idle"]
    /\ oldStatus = [g \in Goroutines |-> "uninitialized"]
    /\ err = [g \in Goroutines |-> FALSE]
    /\ args = [g \in Goroutines |-> <<>>]
    /\ at = [g \in Goroutines |-> 0] /\ calls = [g \in Goroutines |-> 0]
    /\ ready = <<>> /\ refused = FALSE
    /\ sending = <<>> /\ errors = 0

-----------------------------------------------------------------------------
Transitional == {"initializing", "starting", "stopping"}

(* Whether checkStatus refuses, in the order of its tests *)
checkStatusSettled(current, wanted) ==     \* a defect: no test of the states between
    \/ wanted = "initializing" /\ current \in {"initialized", "started"}
    \/ wanted = "starting" /\ current \in {"uninitialized", "initializing", "started"}
checkStatusRestarting(current, wanted) ==  \* a defect: a started one may be started
    \/ current \in Transitional
    \/ current = "uninitialized" /\ wanted # "initializing"
checkStatus(current, wanted) ==
    \/ current \in Transitional
    \/ current = "initialized" /\ wanted \in {"initializing", "stopping"}
    \/ wanted = "initializing" /\ current = "started"
    \/ wanted = "starting" /\ current \in {"uninitialized", "started"}
    \/ wanted = "stopping" /\ current # "started"

checkAndSetStatus(g, wanted) ==
    /\ oldStatus' = Set(oldStatus, g, status)
    /\ err' = Set(err, g, checkStatus(status, wanted))
    /\ status' = IF checkStatus(status, wanted) THEN status ELSE wanted

Call(g) ==
    /\ pc[g] = "idle" /\ calls[g] < MaxCalls
    /\ calls' = Set(calls, g, calls[g] + 1)

(* Init: a refused one returns nil at once. *)
InitCheck(g, a) ==
    /\ Call(g)
    /\ checkAndSetStatus(g, "initializing")
    /\ args' = Set(args, g, a)
    /\ Goto(g, IF err'[g] THEN "idle" ELSE "arguments")
    /\ UNCHANGED <<fieldVars, at, histVars, sendVars>>

(* The Check functions of the arguments *)
RequestArgsCheck(a) == a.domains # <<>>
DataArgsCheck(a) == \A i \in DOMAIN a.caps : a.caps[i] > 0
ModuleArgsCheck(a) == \A i \in DOMAIN a.modules : a.modules[i] # <<>>
Checked(a) == RequestArgsCheck(a) /\ DataArgsCheck(a) /\ ModuleArgsCheck(a)

InitArguments(g) ==
    /\ pc[g] = "arguments"
    /\ IF Checked(args[g]) THEN Goto(g, "registrar") /\ UNCHANGED err
                           ELSE Fail(g, "initialized")
    /\ UNCHANGED <<status, fieldVars, oldStatus, args, at, calls, histVars, sendVars>>

(* NewRegistrar, or Clear of the one there is; then the map of domains *)
ClearedNot(r) == IF r = NoRegistrar THEN {} ELSE r   \* a defect: no Clear
Cleared(r) == {}
InitFields(g) ==
    /\ pc[g] = "registrar"
    /\ registrar' = Cleared(registrar)
    /\ acceptedDomainMap' = <<{args[g].domains[i] : i \in DOMAIN args[g].domains}>>
    /\ at' = Set(at, g, 1)
    /\ Goto(g, "pools")
    /\ UNCHANGED <<status, pool, open, pools, oldStatus, err, args, calls, histVars,
                   sendVars>>

(* initBufferPool: the pool of the next kind is closed if it is open, and  *)
(* replaced.                                                               *)
CloseOldNot(k) == open                     \* a defect: the old pool stays open
CloseOld(k) == open \ {pool[k]}
initBufferPool(g) ==
    LET k == at[g]
    IN  /\ pc[g] = "pools"
        /\ open' = CloseOld(k) \cup {pools + 1}
        /\ pool' = [pool EXCEPT ![k] = pools + 1] /\ pools' = pools + 1
        /\ IF k = Len(PoolKinds) THEN at' = Set(at, g, 1) /\ Goto(g, "modules")
           ELSE at' = Set(at, g, k + 1) /\ UNCHANGED pc
        /\ UNCHANGED <<status, registrar, acceptedDomainMap, oldStatus, err, args,
                       calls, histVars, sendVars>>

(* registerModules: the lists one after the other; nil entries are         *)
(* skipped, an identifier that is taken ends Init.                         *)
Register(r, m) == IF m = NilModule THEN r ELSE r \cup {m}
ModuleList(a) == a.modules[1] \o a.modules[2] \o a.modules[3]
registerModules(g) ==
    LET list == ModuleList(args[g])
        m == list[at[g]]
    IN  /\ pc[g] = "modules"
        /\ IF at[g] > Len(list)
           THEN Goto(g, "initialized") /\ UNCHANGED <<registrar, err, at>>
           ELSE IF m \in registrar THEN Fail(g, "initialized") /\ UNCHANGED <<registrar, at>>
           ELSE /\ registrar' = Register(registrar, m)
                /\ at' = Set(at, g, at[g] + 1)
                /\ UNCHANGED <<pc, err>>
        /\ UNCHANGED <<status, acceptedDomainMap, pool, open, pools, oldStatus, args,
                       calls, histVars, sendVars>>

StoreStatus(g, good) == status' = IF err[g] THEN oldStatus[g] ELSE good
Returned(g) ==
    /\ Goto(g, "idle")
    /\ err' = Set(err, g, FALSE) /\ at' = Set(at, g, 0)
    /\ oldStatus' = Set(oldStatus, g, "uninitialized") /\ args' = Set(args, g, <<>>)
    /\ UNCHANGED <<fieldVars, calls, sendVars>>

(* The deferred function of Init *)
InitDone(g) ==
    /\ pc[g] = "initialized"
    /\ StoreStatus(g, "initialized")
    /\ ready' = IF err[g] THEN ready ELSE <<args[g]>>
    /\ Returned(g)
    /\ UNCHANGED refused

-----------------------------------------------------------------------------
(* Start: its deferred function runs also when the status was refused.     *)
StartCheck(g) ==
    /\ Call(g)
    /\ checkAndSetStatus(g, "starting")
    /\ refused' = (refused \/ err'[g])
    /\ Goto(g, IF err'[g] THEN "started" ELSE "first")
    /\ UNCHANGED <<fieldVars, args, at, ready, sendVars>>

(* A nil first request, or getPrimaryDomain fails; otherwise its domain is *)
(* accepted.                                                               *)
StartFirst(g, good) ==
    /\ pc[g] = "first"
    /\ IF good THEN /\ acceptedDomainMap' = <<acceptedDomainMap[1] \cup {"primary"}>>
                    /\ Goto(g, "run") /\ UNCHANGED err
               ELSE Fail(g, "started") /\ UNCHANGED acceptedDomainMap
    /\ UNCHANGED <<status, registrar, pool, open, pools, oldStatus, args, at, calls,
                   histVars, sendVars>>

(* checkBufferPoolForStart, then download, analyze, pick and sendReq.  If  *)
(* one of these panics, err is still nil when the deferred function that   *)
(* stores the status runs; the one that recovers runs after it.            *)
StartRun(g, outcome) ==
    /\ pc[g] = "run"
    /\ IF outcome = "error" THEN Fail(g, "started") ELSE Goto(g, "started") /\ UNCHANGED err
    /\ UNCHANGED <<status, fieldVars, oldStatus, args, at, calls, histVars, sendVars>>

StartDone(g) ==
    /\ pc[g] = "started"
    /\ StoreStatus(g, "started")
    /\ Returned(g)
    /\ UNCHANGED histVars

-----------------------------------------------------------------------------
(* sendError: refused if there is no error pool or it is closed; otherwise *)
(* a new goroutine puts the error into the pool it was given.              *)
ErrorPool == pool[Len(PoolKinds)]
sendError ==
    /\ errors < MaxErrors
    /\ ErrorPool \in open
    /\ sending' = Append(sending, ErrorPool) /\ errors' = errors + 1
    /\ UNCHANGED <<status, fieldVars, pc, localVars, histVars>>

(* Put: a closed pool refuses, and the error is ignored. *)
PutError ==
    /\ sending # <<>>
    /\ sending' = Tail(sending)
    /\ UNCHANGED <<status, fieldVars, pc, localVars, histVars, errors>>

Step(g) ==
    \/ InitArguments(g) \/ InitFields(g) \/ initBufferPool(g) \/ registerModules(g)
    \/ InitDone(g) \/ StartDone(g)
    \/ \E good \in BOOLEAN : StartFirst(g, good)
    \/ \E outcome \in {"error", "running", "panic"} : StartRun(g, outcome)

Next ==
    \/ \E g \in Goroutines, a \in ArgsSet : InitCheck(g, a)
    \/ \E g \in Goroutines : StartCheck(g) \/ Step(g)
    \/ sendError \/ PutError

Spec == Init /\ [][Next]_vars

-----------------------------------------------------------------------------
Statuses == {"uninitialized", "initializing", "initialized", "starting", "started"}
Inside == {g \in Goroutines : pc[g] # "idle" /\ ~ (pc[g] = "started" /\ err[g] /\ refused)}

(* Types: status, pools and modules, and the steps of the goroutines.      *)
TypeOK ==
    /\ status \in Statuses /\ oldStatus \in [Goroutines -> Statuses]
    /\ \A i \in DOMAIN pool : pool[i] \in 0..pools
    /\ open \subseteq 1..pools
    /\ NilModule \notin registrar

(* One transition at a time: as long as no Start was refused, at most one  *)
(* goroutine is between the check of the status and the store of the new   *)
(* one, so that the fields, which no lock protects, have one writer.  (A   *)
(* refused Start stores the status it saw, whatever happened since.)       *)
OneTransition == ~ refused => Cardinality(Inside) <= 1

(* An initialized scheduler has what the last Init was given, exactly: its *)
(* components, its domains and open pools, also after an Init that failed  *)
(* halfway with other arguments.                                           *)
InitializedIsReady ==
    ~ refused /\ status \in {"initialized", "starting", "started"} =>
        /\ ready # <<>>
        /\ LET list == ModuleList(ready[1])
           IN  registrar = {list[i] : i \in DOMAIN list} \ {NilModule}
        /\ \A i \in DOMAIN pool : pool[i] \in open
        /\ \A i \in DOMAIN ready[1].domains :
             ready[1].domains[i] \in acceptedDomainMap[1]

(* No pool is left open when it is replaced: a goroutine that waits in it  *)
(* is woken, however often Init fails and is called again.                 *)
NoPoolForgotten == ~ refused => open \subseteq {pool[i] : i \in DOMAIN pool}

(* The status is between two states, and no refused Start put it there. *)
Unsettled == status \in Transitional /\ ~refused

(* A scheduler that runs is not started or initialized again.              *)
Restarts == status = "started" /\ status' # "started" /\ ~refused'
StartedStays == [][~Restarts]_vars

(* The comment of checkStatus: while the scheduler is being initialized or *)
(* started its status cannot be changed from outside.                      *)
NoChangeFromOutside ==
    [][\A g \in Goroutines :
        pc[g] \in {"arguments", "registrar", "pools", "modules", "first", "run"}
        /\ pc'[g] # "idle" => status' = status]_vars
=============================================================================
