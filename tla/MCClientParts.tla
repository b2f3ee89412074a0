---------------------------- MODULE MCClientParts ----------------------------
(* Three parts of the client that share no state with another: the         *)
(* coalesced runner, the event batcher and the task poller.  A behaviour   *)
(* is one of them, chosen at the start.                                    *)
EXTENDS CoalescedRunner, EventBatcher, TaskPoller

CONSTANTS home, other, agent, bash

VARIABLE part   \* the one that moves

MCSessions == {home, other}

MCSessionOf == [t \in {agent, bash} |-> IF t = bash THEN home ELSE other]

partsVars == <<part, runnerVars, batcherVars, pollerVars>>

PartsInit ==
    /\ part \in {"runner", "batcher", "poller"}
    /\ RunnerInit /\ BatcherInit /\ PollerInit /\ active = home

RunnerStep == part = "runner" /\ RunnerNext /\ UNCHANGED <<part, batcherVars, pollerVars>>

BatcherStep == part = "batcher" /\ BatcherNext /\ UNCHANGED <<part, runnerVars, pollerVars>>

PollerStep == part = "poller" /\ PollerNext /\ UNCHANGED <<part, runnerVars, batcherVars>>

PartsSpec ==
    /\ PartsInit /\ [][RunnerStep \/ BatcherStep \/ PollerStep]_partsVars
    /\ RunnerFairness /\ BatcherFairness /\ PollerFairness

=============================================================================
