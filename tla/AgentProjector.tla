--------------------------- MODULE AgentProjector --------------------------
(***************************************************************************)
(* How the raw stream of one session's agent becomes the transcript on the *)
(* screen.  The projector turns each frame into events and keeps its own   *)
(* log of the messages it has opened; the reducer keeps the copy that is   *)
(* rendered.  Text comes in volatile deltas that carry their offset in the *)
(* step's stream: a delta is appended, skipped as old, or taken as a gap   *)
(* that asks for a snapshot, which is merged into the transcript and seeds *)
(* the projector with the step in flight.                                  *)
(*                                                                         *)
(*   src/web/src/api/daemon/agentEventProjector.ts  (the projector)        *)
(*   src/web/src/api/daemon/eventReducer.ts         (messages)             *)
(*   src/web/src/api/daemon/client.ts               (routing, seeding)     *)
(*   src/web/src/composables/useKimiWebClient.ts    (snapshots, turn ends) *)
(*   src/web/src/lib/snapshotMessages.ts            (merging a snapshot)   *)
(*                                                                         *)
(* The daemon is external.  Only the main agent's transcript frames are    *)
(* modelled.  A delta is one unit of text, named by its step and offset;   *)
(* a retried step counts as a new one.  Prompt ids are the turn's number,  *)
(* usage, durations and the output lines of a tool card are left out, and  *)
(* the user's own messages too.  A snapshot's page reaches back over all   *)
(* steps modelled: older pages that the user has loaded stay, and hold     *)
(* nothing of these steps.  The batcher between projector and reducer *)
(* is a FIFO that every snapshot flushes (EventBatcher), so an event is    *)
(* reduced when it is projected; a snapshot goes through the coalesced     *)
(* runner (CoalescedRunner) and stays in one journal epoch (SessionSync    *)
(* has the others).                                                        *)
(***************************************************************************)
EXTENDS Naturals, Sequences, FiniteSets, Subsequences

CONSTANT
    Profiles    \* the bounds to explore, see Bounds

(* Bounds on a behaviour: turns of the main agent; steps over all turns, a *)
(* retry counted as one; deltas of each kind in one step; durable frames;  *)
(* how far the daemon gets ahead of the client; disturbances; the last     *)
(* step whose bubble can be dated before a snapshot's page (Merged).       *)
Bounds ==
    [turns : Nat, steps : Nat, text : Nat, thinking : Nat, frames : Nat, ahead : Nat, faults : Nat,
     early : Nat]

ASSUME BoundsAssumption == Profiles \subseteq Bounds

VARIABLES
    bound,      \* the profile of this behaviour
    journal,    \* external: the durable frames so far; a frame's seq is its place
    turn,       \* external: number of turns begun
    phase,      \* external: what the main agent does
    steps,      \* external: the steps begun, with their text so far and their fate
    toolOpen,   \* external: the current step runs a tool
    served,     \* external: the connection is subscribed to the session
    down,       \* frames from the daemon in transit
    up,         \* subscribe frames in transit: their cursors
    cursor,     \* socket.subscriptions entry of the session
    log,        \* state.messages of the projector, by message id
    current,    \* currentAssistantMsgId, 0 when undefined
    reuse,      \* retryReuseMsgId, 0 when undefined
    len,        \* turnTextLen and turnThinkLen
    nextId,     \* the next message id (ulid); a snapshot leaves none in use
    shown,      \* messagesBySession: the messages made since the last snapshot,
                \* by id, the one it seeds included
    transcript, \* the steps whose message came with the snapshot
    kept,       \* messagesBySession: the steps with text in a message made from
                \* events before the last snapshot and kept by its merge
    lastSeq,    \* lastSeqBySession
    fetch,      \* the runner's snapshot request
    queued,     \* the runner's mark for the session
    required,   \* member of sessionsRequiringSnapshot
    retryingStale,  \* member of sessionsRetryingStaleSnapshot
    handled,    \* history: turn.ended frames whose side effects have run, or that
                \* a snapshot or a resync_required stood for
    lost,       \* history: steps whose text is short for good (see ShownComplete)
    misaligned, \* history: the last snapshot and the stream did not meet (see Meets)
    repeated,   \* history: durable frames come twice since the last snapshot
    faults      \* number of disturbances so far

daemonVars  == <<journal, turn, phase, steps, toolOpen>>
wireVars    == <<served, down, up, cursor>>
projectVars == <<log, current, reuse, len, nextId>>
copyVars    == <<shown, transcript, kept, lastSeq, handled>>
fetchVars   == <<fetch, queued, required, retryingStale>>
historyVars == <<lost, misaligned, repeated>>
vars == <<bound, daemonVars, wireVars, projectVars, copyVars, fetchVars, historyVars, faults>>

----------------------------------------------------------------------------

Kinds == {"text", "thinking"}
PartTypes == Kinds \cup {"toolUse", "toolResult"}
NoText == [k \in Kinds |-> 0]
NoMessages == [i \in {} |-> 0]
Idle == [phase |-> "idle"]
Sent == [phase |-> "sent"]

(* A disturbance: what the network, the daemon's buffers or the user do to *)
(* the steady stream.  Bounded by the profile.                             *)
Disturb == faults < bound.faults /\ faults' = faults + 1

Init ==
    /\ bound \in Profiles
    /\ journal = <<>> /\ turn = 0 /\ phase = "idle" /\ steps = <<>> /\ toolOpen = FALSE
    /\ served = FALSE /\ down = <<>> /\ up = <<>> /\ cursor = 0
    /\ log = NoMessages /\ current = 0 /\ reuse = 0 /\ len = NoText /\ nextId = 1
    /\ shown = NoMessages /\ transcript = {} /\ kept = {} /\ lastSeq = 0 /\ handled = {}
    /\ fetch = Sent /\ queued = FALSE /\ required = FALSE /\ retryingStale = FALSE
    /\ lost = {} /\ misaligned = FALSE /\ repeated = FALSE /\ faults = 0

----------------------------------------------------------------------------
(* The daemon, as the client uses it: one main-agent turn after another,   *)
(* each a sequence of steps.                                               *)

Step == Len(steps)

(* A durable frame; when the connection's buffer overflows the subscriber  *)
(* gets resync_required instead.                                           *)
Journal(type) ==
    LET frame == [type |-> type, seq |-> Len(journal) + 1, turn |-> turn', step |-> Len(steps')]
    IN  /\ Len(journal) < bound.frames /\ Len(journal) < cursor + bound.ahead
        /\ journal' = Append(journal, frame)
        /\ \/ down' = (IF served THEN Append(down, frame) ELSE down) /\ UNCHANGED faults
           \/ served /\ Disturb /\ down' = Append(down, [frame EXCEPT !.type = "resync"])
        /\ UNCHANGED <<served, up, cursor, projectVars, copyVars, fetchVars, historyVars>>

(* The current step's fate when the agent leaves it.                       *)
Leave(fate) ==
    steps' = IF phase \in {"step", "results"} THEN [steps EXCEPT ![Step].fate = fate] ELSE steps

StartTurn ==
    /\ phase = "idle" /\ turn < bound.turns
    /\ turn' = turn + 1 /\ phase' = "turn" /\ UNCHANGED <<steps, toolOpen>>
    /\ Journal("turn.started")

StartStep ==
    /\ phase \in {"turn", "retry"} /\ Step < bound.steps
    /\ steps' = Append(steps, [turn |-> turn, sent |-> NoText, fate |-> "live"])
    /\ phase' = "step" /\ UNCHANGED <<turn, toolOpen>>
    /\ Journal("turn.step.started")

(* thinking.delta and assistant.delta: volatile, so they carry the seq of  *)
(* the last durable frame and are not replayed.                            *)
StreamDelta(k) ==
    /\ phase = "step" /\ Len(down) < bound.ahead
    /\ steps[Step].sent[k] < bound[k]
    /\ steps' = [steps EXCEPT ![Step].sent[k] = @ + 1]
    /\ IF served
       THEN /\ down' = Append(down, [type |-> "delta", seq |-> Len(journal), step |-> Step,
                                     kind |-> k, offset |-> steps[Step].sent[k]])
            /\ UNCHANGED lost
       ELSE lost' = lost \cup {Step} /\ UNCHANGED down
    /\ UNCHANGED <<journal, turn, phase, toolOpen, served, up, cursor, projectVars, copyVars,
                   fetchVars, misaligned, repeated, faults>>

CallTool ==
    /\ phase = "step" /\ ~toolOpen
    /\ toolOpen' = TRUE /\ UNCHANGED <<turn, phase, steps>>
    /\ Journal("tool.call.started")

ToolResult ==
    /\ phase = "step" /\ toolOpen
    /\ phase' = "results" /\ toolOpen' = FALSE /\ UNCHANGED <<turn, steps>>
    /\ Journal("tool.result")

CompleteStep ==
    /\ phase \in {"step", "results"} /\ ~toolOpen
    /\ Leave("done") /\ phase' = "turn" /\ UNCHANGED <<turn, toolOpen>>
    /\ Journal("turn.step.completed")

RetryStep ==
    /\ phase = "step"
    /\ Leave("retried") /\ phase' = "retry" /\ toolOpen' = FALSE /\ UNCHANGED turn
    /\ Journal("turn.step.retrying")

InterruptStep ==
    /\ phase \in {"step", "retry"}
    /\ Leave("cut") /\ phase' = "turn" /\ toolOpen' = FALSE /\ UNCHANGED turn
    /\ Journal("turn.step.interrupted")

EndTurn ==
    /\ phase # "idle"
    /\ Leave("cut") /\ phase' = "idle" /\ toolOpen' = FALSE /\ UNCHANGED turn
    /\ Journal("turn.ended")

EndsUpTo(seq) == {i \in 1..seq : journal[i].type = "turn.ended"}

Replay(after) == SubSeq(journal, after + 1, Len(journal))

(* A subscribe frame is served: the durable frames after its cursor, those *)
(* that a subscribed session was sent before once more.                    *)
ServeSubscribe ==
    /\ up # <<>>
    /\ served' = TRUE /\ up' = Tail(up)
    /\ down' = down \o Replay(Head(up))
    /\ repeated' = (repeated \/ (served /\ Head(up) < Len(journal)))
    /\ UNCHANGED <<daemonVars, cursor, projectVars, copyVars, fetchVars, lost, misaligned, faults>>

(* The connection drops and comes back: frames in transit are gone, the    *)
(* handshake's cursor brings back the durable ones.                        *)
Reconnect ==
    /\ cursor > 0 /\ (down # <<>> \/ up # <<>>) /\ Disturb
    /\ served' = TRUE /\ up' = <<>>
    /\ down' = Replay(cursor)
    /\ lost' = lost \cup {down[i].step : i \in {j \in DOMAIN down : down[j].type = "delta"}}
    /\ UNCHANGED <<daemonVars, cursor, projectVars, copyVars, fetchVars, misaligned, repeated>>

(* One atomic read of the session: finished steps in the transcript, the   *)
(* current one as in_flight_turn.                                          *)
AnswerSnapshot ==
    /\ fetch = Sent
    /\ fetch' = [phase |-> "answered", at |-> Len(journal), steps |-> Step, turn |-> turn,
                 done |-> {a \in DOMAIN steps : steps[a].fate \in {"done", "cut"}},
                 inFlight |-> phase # "idle", toolOpen |-> toolOpen,
                 sent |-> IF phase \in {"step", "results"} THEN steps[Step].sent ELSE NoText]
    /\ UNCHANGED <<daemonVars, wireVars, projectVars, copyVars, queued, required,
                   retryingStale, historyVars, faults>>

----------------------------------------------------------------------------
(* Messages: the same helpers serve the projector's log and the reducer.   *)

Part(type, body) == [type |-> type, body |-> body]
Piece(m) == <<m.step, m.offset>>
Put(f, i, msg) == [j \in DOMAIN f \cup {i} |-> IF j = i THEN msg ELSE f[j]]

(* appendAssistantDelta: continue the last part when it is of that kind,   *)
(* else open a new one; the part written is the last.                      *)
AppendDelta(content, kind, piece) ==
    IF content # <<>> /\ content[Len(content)].type = kind
    THEN [content EXCEPT ![Len(content)].body = Append(@, piece)]
    ELSE Append(content, Part(kind, <<piece>>))

(* A bug the code avoids: the slot is found by kind, not by position.      *)
ReduceDeltaByKind(content, index, kind, piece) ==
    LET same == {i \in DOMAIN content : content[i].type = kind}
    IN  IF same = {} THEN Append(content, Part(kind, <<piece>>))
        ELSE [content EXCEPT ![CHOOSE i \in same : \A j \in same : i <= j].body = Append(@, piece)]

(* reduceAppEvent, assistantDelta: fill up to the slot, then append to a   *)
(* part of that kind or replace another.                                   *)
ReduceDelta(content, index, kind, piece) ==
    LET padded == content \o [n \in 1..(index - Len(content)) |-> Part("text", <<>>)]
    IN  IF padded[index].type = kind
        THEN [padded EXCEPT ![index].body = Append(@, piece)]
        ELSE [padded EXCEPT ![index] = Part(kind, <<piece>>)]

(* reduceAppEvent, messageUpdated.                                         *)
ReduceUpdated(f, i, content) == IF i \in DOMAIN f THEN [f EXCEPT ![i].content = content] ELSE f

(* startAssistantMessage or appendToolResultMessage, and messageCreated.   *)
CreateMessage(msg) ==
    /\ log' = Put(log, nextId, msg)
    /\ shown' = IF nextId \in DOMAIN shown THEN shown ELSE Put(shown, nextId, msg)
    /\ nextId' = nextId + 1

(* The log's content of message i, and messageUpdated with a copy of it.   *)
UpdateMessage(i, content) ==
    /\ log' = [log EXCEPT ![i].content = content]
    /\ shown' = ReduceUpdated(shown, i, content)

IsOpen == current # 0 /\ current \in DOMAIN log

----------------------------------------------------------------------------
(* Frames (the projector's project, then processEvent).                    *)

Request ==
    IF fetch = Idle THEN fetch' = Sent /\ UNCHANGED queued ELSE queued' = TRUE /\ UNCHANGED fetch

Settle == fetch' = (IF queued THEN Sent ELSE Idle) /\ queued' = FALSE

Larger(a, b) == IF a > b THEN a ELSE b

(* trackCursor, for durable frames only.                                   *)
TakeFrame(type) ==
    /\ down # <<>> /\ Head(down).type = type
    /\ down' = Tail(down)
    /\ cursor' = IF type = "delta" THEN cursor ELSE Larger(cursor, Head(down).seq)
    /\ UNCHANGED <<daemonVars, served, up, transcript, kept, historyVars, faults>>

(* A bug the code avoids: lastSeq is the seq expected next.                *)
HeardNext(m) == lastSeq' = Larger(lastSeq, m.seq + 1)

(* Each reduced event moves lastSeq; a frame without events does not.      *)
Heard(m) == lastSeq' = Larger(lastSeq, m.seq)

KeepBinding == UNCHANGED <<current, reuse, len>>
KeepMessages == UNCHANGED <<log, shown, nextId>>

ProjectTurnStarted ==
    /\ TakeFrame("turn.started")
    /\ Heard(Head(down)) /\ len' = NoText
    /\ KeepMessages /\ UNCHANGED <<current, reuse, handled, fetchVars>>

(* The bubble a retried step refills: the one turn.step.retrying cleared.  *)
Reused == IF reuse \in DOMAIN log THEN reuse ELSE 0

ProjectStepStarted ==
    /\ TakeFrame("turn.step.started")
    /\ len' = NoText /\ reuse' = 0
    /\ IF Reused # 0
       THEN current' = Reused /\ KeepMessages /\ UNCHANGED lastSeq
       ELSE /\ current' = nextId /\ Heard(Head(down))
            /\ CreateMessage([turn |-> Head(down).turn, content |-> <<>>])
    /\ UNCHANGED <<handled, fetchVars>>

(* A pre-append offset of 0 in mid-stream: the daemon began a new stream.  *)
AlignedLen(m) == IF m.offset = 0 THEN 0 ELSE len[m.kind]

(* Bugs the code avoids: offsets are not looked at; the text that comes    *)
(* next counts as known.                                                   *)
AlignBlindly(m) == "append"
AlignOffByOne(m) ==
    IF m.offset <= AlignedLen(m) THEN "skip" ELSE "gap"

Align(m) ==
    CASE m.offset < AlignedLen(m) -> "skip"
      [] m.offset > AlignedLen(m) -> "gap"
      [] OTHER -> "append"

(* No bubble, or text the log has already.                                 *)
ProjectNothing ==
    /\ TakeFrame("delta")
    /\ ~IsOpen \/ Align(Head(down)) = "skip"
    /\ KeepBinding /\ KeepMessages /\ UNCHANGED <<lastSeq, handled, fetchVars>>

(* alignDelta says append: into the log, and by index into the copy.       *)
ProjectDelta ==
    /\ TakeFrame("delta")
    /\ IsOpen /\ Align(Head(down)) = "append"
    /\ LET m == Head(down)
           content == AppendDelta(log[current].content, m.kind, Piece(m))
       IN  /\ log' = [log EXCEPT ![current].content = content]
           /\ len' = [len EXCEPT ![m.kind] = AlignedLen(m) + 1]
           /\ shown' = IF current \in DOMAIN shown
                       THEN [shown EXCEPT ![current].content =
                               ReduceDelta(@, Len(content), m.kind, Piece(m))]
                       ELSE shown
           /\ Heard(m)
    /\ UNCHANGED <<current, reuse, nextId, handled, fetchVars>>

(* alignDelta says gap: a snapshot that must be applied is asked for.      *)
ProjectGap ==
    /\ TakeFrame("delta")
    /\ IsOpen /\ Align(Head(down)) = "gap"
    /\ Request /\ required' = TRUE /\ UNCHANGED retryingStale
    /\ Heard(Head(down))
    /\ KeepBinding /\ KeepMessages /\ UNCHANGED handled

ProjectToolCall ==
    /\ TakeFrame("tool.call.started")
    /\ IF IsOpen
       THEN UpdateMessage(current, Append(log[current].content, Part("toolUse", <<>>)))
            /\ Heard(Head(down))
       ELSE UNCHANGED <<log, shown, lastSeq>>
    /\ KeepBinding /\ UNCHANGED <<nextId, handled, fetchVars>>

ProjectToolResult ==
    /\ TakeFrame("tool.result")
    /\ CreateMessage([turn |-> Head(down).turn, content |-> <<Part("toolResult", <<>>)>>])
    /\ current' = 0
    /\ Heard(Head(down)) /\ UNCHANGED <<reuse, len, handled, fetchVars>>

ProjectStepCompleted ==
    /\ TakeFrame("turn.step.completed")
    /\ IF IsOpen
       THEN UpdateMessage(current, log[current].content) /\ Heard(Head(down))
       ELSE UNCHANGED <<log, shown, lastSeq>>
    /\ KeepBinding /\ UNCHANGED <<nextId, handled, fetchVars>>

(* The parts of other types than these, in order.                          *)
Without(types, content) ==
    ElementsAt(content, {i \in DOMAIN content : content[i].type \notin types})

(* A bug the code avoids: the failed attempt keeps its text.               *)
StrippedOfCards(content) == Without({"toolUse"}, content)

(* Only what is neither text, thinking nor a tool card survives a retry.   *)
Stripped(content) == Without(Kinds \cup {"toolUse"}, content)

ProjectStepRetrying ==
    /\ TakeFrame("turn.step.retrying")
    /\ len' = NoText
    /\ IF IsOpen
       THEN /\ UpdateMessage(current, Stripped(log[current].content))
            /\ reuse' = current /\ Heard(Head(down))
       ELSE UNCHANGED <<log, shown, reuse, lastSeq>>
    /\ UNCHANGED <<current, nextId, handled, fetchVars>>

ProjectStepInterrupted ==
    /\ TakeFrame("turn.step.interrupted")
    /\ current' = 0 /\ reuse' = 0
    /\ KeepMessages /\ UNCHANGED <<len, lastSeq, handled, fetchVars>>

(* A bug the code avoids: the bubble is finished before the turn.          *)
BubbleFirst == <<"messageUpdated", "sessionUsageUpdated", "turnActiveChanged">>

(* The events of a turn.ended frame in the order they are emitted.         *)
TurnEndedEvents == <<"turnActiveChanged", "messageUpdated", "sessionUsageUpdated">>

(* processEvent: the side effects run when the event's seq is above        *)
(* lastSeq, which its siblings before it have moved already.               *)
TurnEndFires(m) == m.seq > lastSeq /\ Head(TurnEndedEvents) = "turnActiveChanged"

(* A bug the code avoids: the reuse target outlives its turn.              *)
ClearTurnButReuse == current' = 0 /\ UNCHANGED reuse /\ len' = NoText

(* What turn.ended leaves of the per-turn state.                           *)
ClearTurn == current' = 0 /\ reuse' = 0 /\ len' = NoText

ProjectTurnEnded ==
    /\ TakeFrame("turn.ended")
    /\ handled' = IF TurnEndFires(Head(down)) THEN handled \cup {Head(down).seq} ELSE handled
    /\ IF IsOpen THEN UpdateMessage(current, log[current].content) ELSE UNCHANGED <<log, shown>>
    /\ ClearTurn
    /\ Heard(Head(down)) /\ UNCHANGED <<nextId, fetchVars>>

(* resync_required: the projector starts over, the cursor moves on.        *)
ReceiveResync ==
    /\ TakeFrame("resync")
    /\ log' = NoMessages /\ current' = 0 /\ reuse' = 0 /\ len' = NoText
    /\ Request /\ required' = TRUE /\ UNCHANGED retryingStale
    /\ handled' = handled \cup EndsUpTo(Head(down).seq)
    /\ UNCHANGED <<shown, nextId, lastSeq>>

----------------------------------------------------------------------------
(* Snapshots (syncSessionFromSnapshot, seedSnapshot).                      *)

(* The user comes back to the session or to the window.                    *)
Refocus ==
    /\ Disturb
    /\ Request /\ UNCHANGED <<required, retryingStale>>
    /\ UNCHANGED <<daemonVars, wireVars, projectVars, copyVars, historyVars>>

SnapshotFails ==
    /\ fetch # Idle /\ Disturb
    /\ Settle /\ UNCHANGED <<required, retryingStale>>
    /\ UNCHANGED <<daemonVars, wireVars, projectVars, copyVars, historyVars>>

(* The client moved past the snapshot; it is fetched again, once.          *)
IsStale(snap) == ~required /\ cursor > 0 /\ lastSeq > snap.at

DropStaleSnapshot ==
    /\ fetch.phase = "answered" /\ IsStale(fetch)
    /\ retryingStale' = ~retryingStale
    /\ IF retryingStale THEN Settle ELSE fetch' = Sent /\ queued' = FALSE
    /\ UNCHANGED <<daemonVars, wireVars, projectVars, copyVars, required, historyVars, faults>>

(* seedInFlight: thinking, then text, then the running tool.               *)
SeedText(snap, k) == [n \in 1..snap.sent[k] |-> <<snap.steps, n - 1>>]

SeedPart(snap, k) == IF snap.sent[k] = 0 THEN <<>> ELSE <<Part(k, SeedText(snap, k))>>

SeedContent(snap) ==
    SeedPart(snap, "thinking") \o SeedPart(snap, "text")
        \o (IF snap.toolOpen THEN <<Part("toolUse", <<>>)>> ELSE <<>>)

(* seedSnapshot resets the projector; a turn in flight opens one message.  *)
Seeded(snap) ==
    IF snap.inFlight
    THEN [i \in {1} |-> [turn |-> snap.turn, content |-> SeedContent(snap)]]
    ELSE NoMessages

(* The daemon sent the frame before it read the snapshot.                  *)
Older(m, snap) ==
    IF m.type = "delta"
    THEN m.step < snap.steps \/ (m.step = snap.steps /\ m.offset < snap.sent[m.kind])
    ELSE m.seq <= snap.at

(* Steps with text newer than the snapshot that no frame in transit has.   *)
LostBehind(snap) ==
    {a \in DOMAIN steps :
        a >= snap.steps /\ \E k \in Kinds : \E n \in 0..(steps[a].sent[k] - 1) :
            LET isTheOne(m) == m.type = "delta" /\ m.step = a /\ m.kind = k /\ m.offset = n
            IN  /\ ~(a = snap.steps /\ (n < snap.sent[k] \/ a \in snap.done))
                /\ \A i \in DOMAIN down : ~isTheOne(down[i])}

(* The stream goes on where the snapshot stops: no older frame is still to *)
(* come or to be replayed, and no newer durable one is gone already.       *)
Meets(snap) ==
    /\ cursor <= snap.at
    /\ \A i \in DOMAIN down : ~Older(down[i], snap)
    /\ \A i \in DOMAIN up : up[i] >= snap.at

(* Durable frames are in transit out of their order, so for a second time. *)
ComeAgain(frames) ==
    LET durable == {i \in DOMAIN frames : frames[i].type # "delta"}
    IN  \E i, j \in durable : i < j /\ frames[j].seq <= frames[i].seq

(* The pieces in the messages: message, part and place in its text.        *)
AllPlaces ==
    UNION {UNION {{<<i, p, j>> : j \in DOMAIN shown[i].content[p].body}
                    : p \in DOMAIN shown[i].content} : i \in DOMAIN shown}

PartAt(s) == shown[s[1]].content[s[2]]
StepAt(s) == PartAt(s).body[s[3]][1]
OffsetAt(s) == PartAt(s).body[s[3]][2]

(* Where the pieces of step a's stream k stand.                            *)
Places(a, k) == {s \in AllPlaces : PartAt(s).type = k /\ StepAt(s) = a}

(* mergeSnapshotMessages: a message made from events stays beside the page *)
(* when its time is before that of the page's first message.  Its id is    *)
(* the client's own and its time the client's, the page's the daemon's, so *)
(* the clocks decide; time goes with the steps, up to some step n.         *)
Merged(n) == {a \in DOMAIN steps : a <= n /\ (a \in kept \/ \E k \in Kinds : Places(a, k) # {})}

ApplySnapshot ==
    /\ fetch.phase = "answered" /\ ~IsStale(fetch)
    /\ log' = Seeded(fetch) /\ shown' = Seeded(fetch) /\ transcript' = fetch.done
    /\ \E n \in 0..bound.early : kept' = Merged(n)
    /\ current' = (IF fetch.inFlight THEN 1 ELSE 0)
    /\ len' = (IF fetch.inFlight THEN fetch.sent ELSE NoText)
    /\ reuse' = 0 /\ nextId' = 2
    /\ lastSeq' = fetch.at /\ handled' = handled \cup EndsUpTo(fetch.at)
    /\ cursor' = fetch.at /\ up' = Append(up, fetch.at)
    /\ required' = FALSE /\ retryingStale' = FALSE /\ Settle
    /\ misaligned' = ~Meets(fetch) /\ repeated' = ComeAgain(down)
    /\ lost' = LostBehind(fetch)
    /\ UNCHANGED <<daemonVars, served, down, faults>>

----------------------------------------------------------------------------

Daemon ==
    \/ StartTurn \/ StartStep \/ (\E k \in Kinds : StreamDelta(k)) \/ CallTool \/ ToolResult
    \/ CompleteStep \/ RetryStep \/ InterruptStep \/ EndTurn
    \/ ServeSubscribe \/ AnswerSnapshot

Client ==
    \/ ProjectTurnStarted \/ ProjectStepStarted \/ ProjectNothing \/ ProjectDelta \/ ProjectGap
    \/ ProjectToolCall \/ ProjectToolResult \/ ProjectStepCompleted \/ ProjectStepRetrying
    \/ ProjectStepInterrupted \/ ProjectTurnEnded \/ ReceiveResync
    \/ DropStaleSnapshot \/ ApplySnapshot

Disturbance == Reconnect \/ Refocus \/ SnapshotFails

Next == (Daemon \/ Client \/ Disturbance) /\ UNCHANGED bound

Spec == Init /\ [][Next]_vars

----------------------------------------------------------------------------
(* Properties.                                                             *)

PartsType == [type : PartTypes, body : Seq(Nat \X Nat)]
Messages == [turn : Nat, content : Seq(PartsType)]

IsMessages(f) == \A i \in DOMAIN f : i \in 1..(nextId - 1) /\ f[i] \in Messages

(* The projector's and the reducer's records keep their shape.             *)
TypeOK ==
    /\ nextId \in Nat \ {0} /\ current \in 0..(nextId - 1) /\ reuse \in 0..(nextId - 1)
    /\ len \in [Kinds -> Nat]
    /\ IsMessages(log) /\ IsMessages(shown)
    /\ transcript \cup kept \subseteq DOMAIN steps /\ cursor \in 0..Len(journal)
    /\ lastSeq \in 0..Len(journal) /\ handled \subseteq DOMAIN journal
    /\ served \in BOOLEAN /\ required \in BOOLEAN /\ queued \in BOOLEAN

(* Every message the projector holds is rendered with exactly the content  *)
(* the projector holds (cloneMessage and contentIndex, the comments at     *)
(* agentEventProjector.ts:376 and :417): the two copies are changed by     *)
(* different code and never drift, whatever is replayed, stripped, seeded  *)
(* or reset.                                                               *)
LogIsShown ==
    \A i \in DOMAIN log : i \in DOMAIN shown /\ shown[i] = log[i]

Precedes(s, t) ==
    \/ s[1] < t[1]
    \/ s[1] = t[1] /\ (s[2] < t[2] \/ (s[2] = t[2] /\ s[3] < t[3]))

(* The text of a step in flight is on the screen as a prefix of what the   *)
(* daemon streamed, in order, no piece twice and none left out, and a step *)
(* rendered from the snapshot has no second bubble with text.  Exempt are  *)
(* a snapshot that did not meet the stream (Meets) and a step some bubble  *)
(* of which a merge has kept (NoSecondBubble).                             *)
ShownPrefix ==
    ~misaligned =>
      \A a \in DOMAIN steps \ kept, k \in Kinds :
        LET at == Places(a, k)
        IN  /\ a \in transcript => at = {}
            /\ \A s, t \in at : Precedes(s, t) <=> OffsetAt(s) < OffsetAt(t)
            /\ {OffsetAt(s) : s \in at} = 0..(Cardinality(at) - 1)

(* A finished step is on the screen whole, once the frames up to its end   *)
(* have arrived: the alignment skips nothing it should have appended.      *)
(* Exempt are a pending repair, a snapshot that did not meet the stream    *)
(* (Meets), frames that come again, and steps some delta of which was      *)
(* dropped on the way (lost).                                              *)
ShownComplete ==
    ~required /\ ~misaligned /\ ~repeated =>
      \A a \in DOMAIN steps \ (lost \cup transcript), k \in Kinds :
        (\E i \in 1..cursor : journal[i].type = "turn.step.completed" /\ journal[i].step = a)
          => {OffsetAt(s) : s \in Places(a, k)} = 0..(steps[a].sent[k] - 1)

(* The failed attempt's text is never on the screen next to the stream of  *)
(* a later step (the comment at turn.step.retrying).  Exempt are a pending *)
(* repair, a snapshot that did not meet the stream, frames that come again *)
(* and a step some bubble of which a merge has kept.                       *)
AbandonedHidden ==
    ~required /\ ~misaligned /\ ~repeated =>
      \A a, b \in DOMAIN steps :
        steps[a].fate = "retried" /\ a \notin kept /\ a < b /\ (\E k \in Kinds : Places(b, k) # {})
          => \A k \in Kinds : Places(a, k) = {}

(* A bubble holds the text of one step, of the turn it was opened for: a   *)
(* retry's bubble is never refilled by the next prompt.  Exempt are a      *)
(* snapshot that did not meet the stream and frames that come again: a     *)
(* reconnect within a replayed range leaves an older step's bubble open.   *)
BubbleOfOneStep ==
    ~misaligned /\ ~repeated =>
      \A i \in DOMAIN shown :
        \A p, q \in DOMAIN shown[i].content :
          \A x \in DOMAIN shown[i].content[p].body, y \in DOMAIN shown[i].content[q].body :
            /\ shown[i].content[p].body[x][1] = shown[i].content[q].body[y][1]
            /\ steps[shown[i].content[p].body[x][1]].turn = shown[i].turn

(* Only older pages outlive a snapshot: it is authoritative for its own    *)
(* window and replaces anything inside it (snapshotMessages.ts:7), so no   *)
(* bubble made from events stays beside a message that the snapshot has.   *)
NoSecondBubble ==
    \A a \in kept : a \notin transcript /\ \A k \in Kinds : Places(a, k) = {}

(* A turn end the client has heard of has run its side effects (working    *)
(* flags, queue drain), unless a snapshot stood for it: no event of the    *)
(* same frame, and no later frame, moves lastSeq past it first.            *)
EndsHandled ==
    \A i \in 1..lastSeq :
        journal[i].type = "turn.ended" => i \in handled

=============================================================================
