-------------------------- MODULE CoalescedRunner --------------------------
(***************************************************************************)
(* createCoalescedAsyncRunner (src/web/src/lib/snapshotSync.ts): at most   *)
(* one call of the asynchronous function per key at a time; a request made *)
(* while a call is in flight is coalesced with every other such request    *)
(* into one further call, started when the current one settles.            *)
(*                                                                         *)
(* Each method is synchronous JavaScript, so it is one action.  The        *)
(* function itself is external: all that is seen of it is that a call      *)
(* starts and later settles, with a result or an error (finally runs in    *)
(* both cases).                                                            *)
(***************************************************************************)
EXTENDS Naturals

CONSTANTS
    Keys,       \* the keys of the runner: session ids
    MaxRuns     \* bound: calls of the function started per key

ASSUME MaxRunsAssumption == MaxRuns \in Nat

VARIABLES
    inFlight,   \* keys of the Map inFlight
    queued,     \* the Set queued
    started,    \* history: calls of the function started, per key
    finished,   \* history: calls of the function settled, per key
    needed      \* history: the number of the call that serves the last request

runnerVars == <<inFlight, queued, started, finished, needed>>

RunnerInit ==
    /\ inFlight = {}
    /\ queued = {}
    /\ started = [k \in Keys |-> 0]
    /\ finished = [k \in Keys |-> 0]
    /\ needed = [k \in Keys |-> 0]

----------------------------------------------------------------------------

(* Lines 12-24: run(key) with no call in flight calls fn at once. *)
StartCall(k) ==
    /\ started[k] < MaxRuns
    /\ inFlight' = inFlight \cup {k}
    /\ started' = [started EXCEPT ![k] = @ + 1]

(* Lines 26-32: request(key) starts a call, or leaves a mark for the call  *)
(* in flight to find when it settles.  Either way the caller asks for a    *)
(* call that starts now or later: number started + 1.                      *)
Request(k) ==
    /\ started[k] < MaxRuns
    /\ IF k \in inFlight
       THEN /\ queued' = queued \cup {k}
            /\ UNCHANGED <<inFlight, started>>
       ELSE /\ StartCall(k)
            /\ UNCHANGED queued
    /\ needed' = [needed EXCEPT ![k] = started[k] + 1]
    /\ UNCHANGED finished

(* A bug the code avoids: the mark goes with the call that should see it.  *)
SettleDropsMark(k) ==
    /\ k \in inFlight
    /\ finished' = [finished EXCEPT ![k] = @ + 1]
    /\ inFlight' = inFlight \ {k}
    /\ queued' = queued \ {k}
    /\ UNCHANGED <<started, needed>>

(* A bug the code avoids: the follow-up call starts while the mark stays,  *)
(* and the key is taken out of the map after it was put there.             *)
SettleDeletesLast(k) ==
    /\ k \in inFlight
    /\ finished' = [finished EXCEPT ![k] = @ + 1]
    /\ inFlight' = inFlight \ {k}
    /\ IF k \in queued
       THEN /\ started[k] < MaxRuns
            /\ queued' = queued \ {k}
            /\ started' = [started EXCEPT ![k] = @ + 1]
       ELSE UNCHANGED <<queued, started>>
    /\ UNCHANGED needed

(* A bug the code avoids: has(key) where the code says delete(key), so one *)
(* mark starts call after call.                                            *)
SettleKeepsMark(k) ==
    /\ k \in inFlight
    /\ finished' = [finished EXCEPT ![k] = @ + 1]
    /\ IF k \in queued
       THEN /\ started[k] < MaxRuns
            /\ started' = [started EXCEPT ![k] = @ + 1]
            /\ UNCHANGED inFlight
       ELSE /\ inFlight' = inFlight \ {k}
            /\ UNCHANGED started
    /\ UNCHANGED <<queued, needed>>

(* A bug the code avoids: the call settles without looking for a mark.     *)
SettleIgnoresMark(k) ==
    /\ k \in inFlight
    /\ finished' = [finished EXCEPT ![k] = @ + 1]
    /\ inFlight' = inFlight \ {k}
    /\ UNCHANGED <<queued, started, needed>>

(* Lines 16-21, the finally block of a call: the key leaves the map, and a *)
(* mark, which is consumed, starts the next call in the same step.         *)
Settle(k) ==
    /\ k \in inFlight
    /\ finished' = [finished EXCEPT ![k] = @ + 1]
    /\ IF k \in queued
       THEN /\ queued' = queued \ {k}
            /\ started' = [started EXCEPT ![k] = @ + 1]
            /\ UNCHANGED inFlight
       ELSE /\ inFlight' = inFlight \ {k}
            /\ UNCHANGED <<queued, started>>
    /\ UNCHANGED needed

RunnerNext == \E k \in Keys : Request(k) \/ Settle(k)

(* Every call settles: a fetch that never answers is timed out by http.ts. *)
RunnerFairness == \A k \in Keys : WF_runnerVars(Settle(k))

RunnerSpec == RunnerInit /\ [][RunnerNext]_runnerVars /\ RunnerFairness

----------------------------------------------------------------------------

(* The shape of the state; a mark is only ever left for a running call.    *)
RunnerTypeOK ==
    /\ inFlight \subseteq Keys
    /\ queued \subseteq inFlight
    /\ started \in [Keys -> Nat]
    /\ finished \in [Keys -> Nat]
    /\ needed \in [Keys -> Nat]

(* The calls of one key never overlap: a key is in the map exactly while   *)
(* one call of it is running (snapshotSync.ts:13-22).                      *)
OneCallPerKey ==
    \A k \in Keys :
        started[k] = finished[k] + (IF k \in inFlight THEN 1 ELSE 0)

(* No request is forgotten or served by a call that began before it: until *)
(* a later call has started, the key is marked and a running call will     *)
(* find the mark (snapshotSync.ts:18, 27-28).                              *)
NoRequestForgotten ==
    \A k \in Keys :
        needed[k] > started[k] =>
            /\ needed[k] = started[k] + 1
            /\ k \in inFlight
            /\ k \in queued

(* Coalescing neither loses the last request nor runs without one: a call  *)
(* that starts was asked for (snapshotSync.ts:18-20).                      *)
EveryCallRequested == \A k \in Keys : started[k] <= needed[k]

(* Every request is eventually served by a call that starts after it.      *)
RequestsServed == \A k \in Keys : needed[k] > started[k] ~> needed[k] <= started[k]
============================================================================
