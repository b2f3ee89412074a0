--------------------------- MODULE EventBatcher ----------------------------
(***************************************************************************)
(* The pipeline between the WebSocket and the reducer: streaming deltas    *)
(* wait for the next frame (or a task, when frames are suspended), adjacent*)
(* ones merge, control events force a bounded slice, and an authoritative  *)
(* snapshot flushes everything.                                            *)
(*                                                                         *)
(*   src/web/src/composables/client/eventBatcher.ts                        *)
(*                                                                         *)
(* The queue holds the events as they arrived; those merged into one group *)
(* stand next to each other and share the group's first offset as start.   *)
(* The reducer (process) is called once per group, never calls back into   *)
(* the batcher and does not throw.  The queue's head index and compaction  *)
(* are the sequence operations themselves.                                 *)
(***************************************************************************)
EXTENDS Naturals, Sequences, FiniteSets, FiniteSetsExt, Subsequences

CONSTANTS
    FeedSessions,       \* the sessions whose events arrive
    MaxItemsPerSlice,   \* groups one slice may process (100 in the code)
    MaxChars,           \* MAX_COALESCED_STREAM_CHARS (32768 in the code)
    MaxArrivals         \* bound: events that arrive

ASSUME BoundsAssumption ==
    /\ MaxItemsPerSlice \in Nat \ {0} /\ MaxChars \in Nat \ {0}
    /\ MaxArrivals \in Nat

VARIABLES
    pending,    \* pending from head on
    frame,      \* frameHandle is set
    task,       \* taskHandle is set
    disposed,
    sent,       \* external: next offset of each session's stream
    arrived,    \* history: events that arrived
    applied     \* history: numbers of the events processed, in order

batcherVars == <<pending, frame, task, disposed, sent, arrived, applied>>

----------------------------------------------------------------------------

Numbers(s) == [i \in DOMAIN s |-> s[i].number]

(* An element opens a group unless it was merged into the previous one.    *)
OpensGroup(e) == e.kind # "delta" \/ e.start = e.offset

Groups(s) == {i \in DOMAIN s : OpensGroup(s[i])}

(* The events of the first groups of the queue, at most one slice of them. *)
SliceEnd(s) ==
    Max({n \in DOMAIN s : /\ n = Len(s) \/ OpensGroup(s[n + 1])
                          /\ Cardinality(Groups(SubSeq(s, 1, n))) <= MaxItemsPerSlice})

Rest(s, n) == SubSeq(s, n + 1, Len(s))

Process(s) == applied' = applied \o Numbers(s)

CancelScheduled == frame' = FALSE /\ task' = FALSE

(* A bug the code avoids: only a visible tab drains the queue.             *)
ScheduleFrameOnly(queue) ==
    IF queue = <<>> THEN CancelScheduled
    ELSE frame' = TRUE /\ task' = FALSE

(* scheduleDrain, when nothing is scheduled; frames may be unavailable.    *)
ScheduleAnew(queue) ==
    IF queue = <<>> THEN CancelScheduled
    ELSE frame' \in BOOLEAN /\ task' = TRUE

ScheduleDrain(queue) ==
    IF frame \/ task THEN UNCHANGED <<frame, task>> ELSE ScheduleAnew(queue)

(* A bug the code avoids: the rest of a large queue waits for new events.  *)
DrainSliceAndStop(queue) ==
    /\ Process(SubSeq(queue, 1, SliceEnd(queue)))
    /\ pending' = Rest(queue, SliceEnd(queue))
    /\ CancelScheduled

(* drainSlice.                                                             *)
DrainSlice(queue) ==
    /\ Process(SubSeq(queue, 1, SliceEnd(queue)))
    /\ pending' = Rest(queue, SliceEnd(queue))
    /\ ScheduleAnew(pending')

(* A bug the code avoids: a gap in the offsets is merged over.             *)
CoalescesOverGap(last, e) ==
    /\ last.kind = "delta" /\ e.kind = "delta" /\ last.session = e.session
    /\ e.offset + e.len - last.start <= MaxChars

(* coalesceAppRenderEvents: same stream, contiguous, and within the cap.   *)
Coalesces(last, e) ==
    /\ last.kind = "delta" /\ e.kind = "delta" /\ last.session = e.session
    /\ e.offset = last.offset + last.len
    /\ e.offset + e.len - last.start <= MaxChars

(* A bug the code avoids: an event is put before those that wait.          *)
PushBefore(e) == <<e>> \o pending

Push(e) ==
    Append(pending, IF pending # <<>> /\ Coalesces(pending[Len(pending)], e)
                    THEN [e EXCEPT !.start = pending[Len(pending)].start]
                    ELSE e)

----------------------------------------------------------------------------

BatcherInit ==
    /\ pending = <<>> /\ frame = FALSE /\ task = FALSE /\ disposed = FALSE
    /\ sent = [session \in FeedSessions |-> 0] /\ arrived = 0 /\ applied = <<>>

Event(kind, session, offset, len) ==
    [number |-> arrived + 1, kind |-> kind, session |-> session,
     offset |-> offset, len |-> len, start |-> offset]

(* enqueue of an event that only appends: the main agent's delta, or other *)
(* streaming output, which is never merged.                                *)
EnqueueBatchable(e) ==
    /\ pending' = Push(e)
    /\ ScheduleDrain(pending')
    /\ UNCHANGED <<disposed, applied>>

(* A delta, or one part of an oversized one (splitOversizedAppRenderEvent  *)
(* cuts it at the cap); the stream may have lost frames before it.         *)
Delta(session) ==
    /\ arrived < MaxArrivals /\ arrived' = arrived + 1 /\ ~disposed
    /\ \E lost \in {0, 1}, len \in 1..MaxChars :
         LET offset == sent[session] + lost IN
           /\ sent' = [sent EXCEPT ![session] = offset + len]
           /\ EnqueueBatchable(Event("delta", session, offset, len))

OtherRender(session) ==
    /\ arrived < MaxArrivals /\ arrived' = arrived + 1 /\ ~disposed
    /\ EnqueueBatchable(Event("render", session, 0, 0))
    /\ UNCHANGED sent

(* enqueue of any other event.                                             *)
Control(session) ==
    /\ arrived < MaxArrivals /\ arrived' = arrived + 1 /\ ~disposed
    /\ LET e == Event("control", session, 0, 0) IN
         IF pending = <<>>
         THEN Process(<<e>>) /\ UNCHANGED <<pending, frame, task>>
         ELSE DrainSlice(Append(pending, e))
    /\ UNCHANGED <<disposed, sent>>

FrameFires ==
    /\ frame /\ pending # <<>> /\ DrainSlice(pending)
    /\ UNCHANGED <<disposed, sent, arrived>>

TaskFires ==
    /\ task /\ pending # <<>> /\ DrainSlice(pending)
    /\ UNCHANGED <<disposed, sent, arrived>>

(* flush, before a snapshot is applied and when a resync is announced.     *)
Flush ==
    /\ ~disposed
    /\ Process(pending) /\ pending' = <<>>
    /\ CancelScheduled
    /\ UNCHANGED <<disposed, sent, arrived>>

OfOthers(queue, session) ==
    ElementsAt(queue, {i \in DOMAIN queue : queue[i].session # session})

(* discard, when a session is forgotten.                                   *)
Discard(session) ==
    /\ ~disposed /\ pending # <<>>
    /\ pending' = OfOthers(pending, session)
    /\ IF pending' = <<>> THEN CancelScheduled ELSE ScheduleDrain(pending')
    /\ UNCHANGED <<disposed, sent, arrived, applied>>

(* A bug the code avoids: a timer outlives the batcher.                    *)
DisposeKeepingTask ==
    /\ ~disposed /\ disposed' = TRUE
    /\ pending' = <<>>
    /\ UNCHANGED <<frame, task, sent, arrived, applied>>

(* dispose, when the module is replaced.                                   *)
Dispose ==
    /\ ~disposed /\ disposed' = TRUE
    /\ pending' = <<>>
    /\ CancelScheduled
    /\ UNCHANGED <<sent, arrived, applied>>

BatcherNext ==
    \/ \E session \in FeedSessions :
         \/ Delta(session)
         \/ OtherRender(session)
         \/ Control(session)
         \/ Discard(session)
    \/ FrameFires
    \/ TaskFires
    \/ Flush
    \/ Dispose

(* A timer fires; frames may be suspended for ever (a hidden tab).         *)
BatcherFairness == WF_batcherVars(TaskFires)

BatcherSpec == BatcherInit /\ [][BatcherNext]_batcherVars /\ BatcherFairness

----------------------------------------------------------------------------

(* The shape of the state; a disposed batcher holds no event and no timer. *)
BatcherTypeOK ==
    /\ {frame, task, disposed} \subseteq BOOLEAN
    /\ arrived \in 0..MaxArrivals
    /\ \A i \in DOMAIN pending : pending[i].number \in 1..arrived
    /\ disposed => pending = <<>> /\ ~frame /\ ~task

(* Nothing waits without a task that will drain it.                        *)
PendingIsScheduled == pending # <<>> => task

(* A group is one stretch of one stream, no longer than the cap: what the  *)
(* reducer appends at its start is exactly what arrived.                   *)
GroupsLossless ==
    \A i \in DOMAIN pending :
        LET e == pending[i] IN
          e.kind = "delta" =>
            /\ e.offset + e.len - e.start <= MaxChars
            /\ ~OpensGroup(e) =>
                 /\ i > 1
                 /\ LET p == pending[i - 1] IN
                      /\ p.kind = "delta" /\ p.session = e.session
                      /\ p.start = e.start /\ p.offset + p.len = e.offset

(* Until the batcher is disposed every event is applied once and in order, *)
(* but for those a forgotten session had waiting: no flush, frame or slice *)
(* throws one away (eventBatcher.ts:124-201).                              *)
Backlog(queue) == [i \in DOMAIN queue |-> <<queue[i].number, queue[i].session>>]

Feed == INSTANCE OrderedFeed
    WITH Sessions <- FeedSessions, backlog <- Backlog(pending), closed <- disposed

AppliedInOrder == Feed!Spec

(* Whatever waits is applied or dropped.                                   *)
EverythingHandled == pending # <<>> ~> pending = <<>>
============================================================================
