---------------------------- MODULE ModuleCalls ----------------------------
(***************************************************************************)
(* The counters of a crawler component (stub.myModule) and the calls that  *)
(* keep them: Download, Analyze and Send, which run concurrently on one    *)
(* component.  A call raises the handling number and the called count,     *)
(* returns if its argument is refused, raises the accepted count, works,   *)
(* and raises the completed count if nothing failed; a deferred call       *)
(* lowers the handling number.  Each change is one atomic addition.        *)
(*                                                                         *)
(* A download is one request; an analyzer's work is its parsers, one by    *)
(* one over copies of the body, a pipeline's its processors, each getting  *)
(* the item its predecessor returned.  What they do is the user's: they    *)
(* give data or items, and errors.                                         *)
(***************************************************************************)
EXTENDS Integers, Sequences, FiniteSets

CONSTANTS
    Callers,                 \* the goroutines that call
    Steps,                   \* number of parsers or processors
    Word,                    \* counters are taken modulo Word, 2^64
    MaxCalls                 \* bound on the calls of a caller; the counts are read once

Kinds == {"downloader", "analyzer", "pipeline"}
Counters == {"called", "accepted", "completed", "handling"}
CountOrder == <<"called", "accepted", "completed", "handling">>

VARIABLES
    kind, failFast,          \* of the component
    count, score,
    pc, step, errs, out, calls,   \* of a caller; out: the depths or the item
    snap, taken,             \* of the observer: Counts read so far
    cleared                  \* how many stores of Clear were done

moduleVars == <<kind, failFast>>
callVars == <<step, errs, out, calls>>
vars == <<moduleVars, count, score, pc, callVars, snap, taken, cleared>>

Set(f, g, v) == [f EXCEPT ![g] = v]
Goto(g, l) == pc' = Set(pc, g, l)
Add(c, n) == [count EXCEPT ![c] = (@ + n) % Word]

Init ==
    /\ kind \in Kinds /\ failFast \in (IF kind = "pipeline" THEN BOOLEAN ELSE {FALSE})
    /\ count = [c \in Counters |-> 0] /\ score = 0
    /\ pc = [g \in Callers |-> "idle"]
    /\ step = [g \in Callers |-> 0] /\ errs = [g \in Callers |-> 0]
    /\ out = [g \in Callers |-> <<>>] /\ calls = [g \in Callers |-> 0]
    /\ snap = [c \in Counters |-> 0] /\ taken = 0
    /\ cleared = 0

-----------------------------------------------------------------------------
IncrHandling(g) ==
    /\ pc[g] = "idle" /\ calls[g] < MaxCalls
    /\ count' = Add("handling", 1)
    /\ calls' = Set(calls, g, calls[g] + 1)
    /\ Goto(g, "called")
    /\ UNCHANGED <<moduleVars, score, step, errs, out, snap, taken, cleared>>

IncrCalled(g) ==
    /\ pc[g] = "called"
    /\ count' = Add("called", 1)
    /\ Goto(g, "check")
    /\ UNCHANGED <<moduleVars, score, callVars, snap, taken, cleared>>

(* A nil argument is refused; otherwise the call is accepted. *)
Refuse(g) ==
    /\ pc[g] = "check"
    /\ errs' = Set(errs, g, 1)
    /\ Goto(g, "return")
    /\ UNCHANGED <<moduleVars, count, score, step, out, calls, snap, taken, cleared>>

IncrAccepted(g) ==
    /\ pc[g] = "check"
    /\ count' = Add("accepted", 1)
    /\ step' = Set(step, g, 1)
    /\ Goto(g, "work")
    /\ UNCHANGED <<moduleVars, score, errs, out, calls, snap, taken, cleared>>

StepsOf == IF kind = "downloader" THEN 1 ELSE Steps

(* appendDataList: a request found in a response is one deeper than the    *)
(* response, whatever depth the parser gave it.                            *)
respDepth == 0
appendDataListAsGiven(list, depth) == Append(list, depth)  \* a defect: the parser's
appendDataList(list, depth) ==
    Append(list, IF depth # respDepth + 1 THEN respDepth + 1 ELSE depth)

(* One parser or processor: it fails or not, and an analyzer's parser may  *)
(* give a request of some depth, also when it fails.                       *)
StopsAtErrorNever(failed) == FALSE         \* a defect: failFast is not looked at
StopsAtError(failed) == failed /\ kind = "pipeline" /\ failFast
Work(g, failed, depth) ==
    /\ pc[g] = "work" /\ step[g] <= StepsOf
    /\ errs' = Set(errs, g, errs[g] + (IF failed THEN 1 ELSE 0))
    /\ out' = IF kind = "analyzer" THEN Set(out, g, appendDataList(out[g], depth))
              ELSE out
    /\ step' = Set(step, g, IF StopsAtError(failed) THEN StepsOf + 1 ELSE step[g] + 1)
    /\ UNCHANGED <<moduleVars, count, score, pc, calls, snap, taken, cleared>>

Finish(g) ==
    /\ pc[g] = "work" /\ step[g] > StepsOf
    /\ count' = IF errs[g] = 0 THEN Add("completed", 1) ELSE count
    /\ Goto(g, "return")
    /\ UNCHANGED <<moduleVars, score, callVars, snap, taken, cleared>>

DecrHandlingNot == count                   \* a defect: no deferred call
DecrHandling == Add("handling", -1)
Return(g) ==
    /\ pc[g] = "return"
    /\ count' = DecrHandling
    /\ step' = Set(step, g, 0) /\ errs' = Set(errs, g, 0) /\ out' = Set(out, g, <<>>)
    /\ Goto(g, "idle")
    /\ UNCHANGED <<moduleVars, score, calls, snap, taken, cleared>>

-----------------------------------------------------------------------------
(* Counts loads one counter after the other; SetScore stores the score.    *)
CalculateScoreShifted(c) ==                \* a defect: handling << 5
    (c["called"] + 2 * c["accepted"] + 4 * c["completed"] + 32 * c["handling"]) % Word
CalculateScoreSimple(c) ==
    (c["called"] + 2 * c["accepted"] + 4 * c["completed"] + 16 * c["handling"]) % Word

LoadCount ==
    /\ taken < 4 /\ cleared = 0
    /\ snap' = [snap EXCEPT ![CountOrder[taken + 1]] = count[CountOrder[taken + 1]]]
    /\ taken' = taken + 1
    /\ UNCHANGED <<moduleVars, count, score, pc, callVars, cleared>>

SetScore ==
    /\ taken = 4
    /\ score' = CalculateScoreSimple(snap)
    /\ taken' = 5 /\ snap' = [c \in Counters |-> 0]
    /\ UNCHANGED <<moduleVars, count, pc, callVars, cleared>>

(* Clear stores zero in the counters one after the other.  (In one run the *)
(* counters are read or they are cleared, a bound.)                        *)
Clear ==
    /\ cleared < 4 /\ taken = 0
    /\ count' = [count EXCEPT ![CountOrder[cleared + 1]] = 0]
    /\ cleared' = cleared + 1
    /\ UNCHANGED <<moduleVars, score, pc, callVars, snap, taken>>

Step(g) ==
    \/ IncrCalled(g) \/ Refuse(g) \/ IncrAccepted(g) \/ Finish(g) \/ Return(g)
    \/ \E failed \in BOOLEAN, depth \in 0..1 : Work(g, failed, depth)

Next ==
    \/ \E g \in Callers : IncrHandling(g) \/ Step(g)
    \/ LoadCount \/ SetScore \/ Clear

Spec == Init /\ [][Next]_vars

-----------------------------------------------------------------------------
Busy == {g \in Callers : pc[g] # "idle"}
(* Types: the counters are words, a caller is at a step of its call.       *)
TypeOK ==
    /\ count \in [Counters -> 0..(Word - 1)] /\ snap \in [Counters -> 0..(Word - 1)]
    /\ score \in 0..(Word - 1) /\ taken \in 0..5 /\ cleared \in 0..4

(* The counters agree with the calls at every moment, whatever calls run   *)
(* at the same time: never more completed than accepted or more accepted   *)
(* than called, and the handling number is the number of calls that are    *)
(* under way.  A Clear in the middle of a call ends this for good: the     *)
(* deferred addition then takes the handling number below zero.            *)
CountersAgree ==
    cleared = 0 =>
        /\ count["completed"] <= count["accepted"]
        /\ count["accepted"] <= count["called"]
        /\ count["handling"] = Cardinality(Busy)

(* What Counts returns need not be a state the component ever was in, but  *)
(* each counter it loaded is still a lower bound, and so is the score that *)
(* SetScore computes from it, of one with every call counted as handled.   *)
SnapshotNotAhead ==
    cleared = 0 =>
        /\ \A c \in {"called", "accepted", "completed"} : snap[c] <= count[c]
        /\ score <= count["called"] + 2 * count["accepted"] + 4 * count["completed"]
                    + 16 * Cardinality(Callers) * MaxCalls

(* Every request an analyzer returns is one level below the response, so   *)
(* the depth limit is not outrun by a parser that gives another depth.     *)
DepthGrowsByOne ==
    \A g \in Callers : \A i \in DOMAIN out[g] : out[g][i] = respDepth + 1

(* A pipeline that fails fast reports at most one error per item; no call  *)
(* reports more errors than it has steps.                                  *)
FailFastStops == \A g \in Callers : errs[g] <= IF failFast THEN 1 ELSE StepsOf
=============================================================================
