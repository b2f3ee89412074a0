----------------------- MODULE CoalescedRunner_proofs -----------------------
(***************************************************************************)
(* The safety of the coalesced runner for any set of keys and any bound on *)
(* the number of calls.  Marked is what makes the three invariants         *)
(* inductive: a key's mark says exactly whether the last request is still  *)
(* waiting for a call.                                                     *)
(***************************************************************************)
EXTENDS CoalescedRunner, TLAPS

(* A marked key waits for the next call, an unmarked one for none.         *)
Marked ==
    \A k \in Keys :
        needed[k] = started[k] + (IF k \in queued THEN 1 ELSE 0)

IInv == RunnerTypeOK /\ OneCallPerKey /\ Marked

(* The initial state satisfies the inductive invariant.                    *)
LEMMA InitIInv == RunnerInit => IInv
  BY DEF RunnerInit, IInv, RunnerTypeOK, OneCallPerKey, Marked

(* Every method of the runner preserves the inductive invariant.           *)
LEMMA StepIInv == IInv /\ [RunnerNext]_runnerVars => IInv'
<1> SUFFICES ASSUME IInv, [RunnerNext]_runnerVars PROVE IInv'
  OBVIOUS
<1> USE DEF IInv, RunnerTypeOK, OneCallPerKey, Marked
<1>1. ASSUME NEW k \in Keys, Request(k) PROVE IInv'
  <2>1. CASE k \in inFlight
    BY <1>1, <2>1 DEF Request
  <2>2. CASE k \notin inFlight
    <3>1. k \notin queued
      BY <2>2
    <3> QED BY <1>1, <2>2, <3>1 DEF Request, StartCall
  <2> QED BY <2>1, <2>2
<1>2. ASSUME NEW k \in Keys, Settle(k) PROVE IInv'
  <2>1. CASE k \in queued
    BY <1>2, <2>1 DEF Settle
  <2>2. CASE k \notin queued
    BY <1>2, <2>2 DEF Settle
  <2> QED BY <2>1, <2>2
<1>3. CASE UNCHANGED runnerVars
  BY <1>3 DEF runnerVars
<1> QED BY <1>1, <1>2, <1>3 DEF RunnerNext

(* The marks and the map keep their shape (snapshotSync.ts:9-10).          *)
THEOREM TypeCorrect == RunnerSpec => []RunnerTypeOK
<1>1. IInv => RunnerTypeOK
  BY DEF IInv
<1> QED BY InitIInv, StepIInv, <1>1, PTL DEF RunnerSpec

(* Two calls of the function for one key never overlap, whatever the       *)
(* requests (snapshotSync.ts:12-24).                                       *)
THEOREM CallsNeverOverlap == RunnerSpec => []OneCallPerKey
<1>1. IInv => OneCallPerKey
  BY DEF IInv
<1> QED BY InitIInv, StepIInv, <1>1, PTL DEF RunnerSpec

(* A request that no later call has served yet is marked on a running call *)
(* (snapshotSync.ts:26-32): no request is lost.                            *)
THEOREM RequestsKept == RunnerSpec => []NoRequestForgotten
<1>1. IInv => NoRequestForgotten
  BY DEF IInv, RunnerTypeOK, Marked, NoRequestForgotten
<1> QED BY InitIInv, StepIInv, <1>1, PTL DEF RunnerSpec

(* No call starts that nobody asked for (snapshotSync.ts:18-20).           *)
THEOREM NoSpuriousCall == RunnerSpec => []EveryCallRequested
<1>1. IInv => EveryCallRequested
  <2> SUFFICES ASSUME IInv, NEW k \in Keys PROVE started[k] <= needed[k]
    BY DEF EveryCallRequested
  <2>1. started[k] \in Nat /\ needed[k] = started[k] + (IF k \in queued THEN 1 ELSE 0)
    BY DEF IInv, RunnerTypeOK, Marked
  <2> QED BY <2>1
<1> QED BY InitIInv, StepIInv, <1>1, PTL DEF RunnerSpec
============================================================================
