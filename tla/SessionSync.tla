---------------------------- MODULE SessionSync ----------------------------
(***************************************************************************)
(* How the web client keeps its copy of ONE session equal to the daemon's: *)
(* a REST snapshot at a watermark, a WebSocket subscription from that      *)
(* watermark, and the repairs: resync_required, reconnection, eviction     *)
(* from the subscription cache, and snapshots that race newer events or    *)
(* prompts the user has just sent.                                         *)
(*                                                                         *)
(*   src/web/src/composables/useKimiWebClient.ts  (state, snapshots)       *)
(*   src/web/src/api/daemon/ws.ts                 (socket, cursor)         *)
(*   src/web/src/lib/snapshotSync.ts              (coalesced snapshots)    *)
(*   src/web/src/composables/client/useWorkspaceState.ts  (local turns)    *)
(*                                                                         *)
(* The daemon is external.  Its durable events of the session, over all    *)
(* journal epochs, are numbered 1, 2, ... in log; within an epoch the wire *)
(* seq of an event is its distance from the start of the epoch.  Volatile  *)
(* deltas carry no new seq and are left to the projector's model; the      *)
(* batcher between socket and reducer is a FIFO that every snapshot        *)
(* flushes (EventBatcher), so an event is applied when it is received.     *)
(***************************************************************************)
EXTENDS Naturals, Sequences

CONSTANTS
    MaxLog,     \* bound: durable events of the session
    MaxEpoch,   \* bound: journal epochs (daemon restarts + 1)
    MaxTurns,   \* bound: prompts the user sends from this client
    MaxFaults   \* bound: disturbances (see Disturb)

ASSUME BoundsAssumption ==
    MaxLog \in Nat /\ MaxEpoch \in Nat \ {0} /\ MaxTurns \in Nat /\ MaxFaults \in Nat

VARIABLES
    log,        \* external: kinds of the durable events
    base,       \* external: base[e] is the length of log when epoch e began
    accepted,   \* external: the user's prompts the daemon has accepted
    served,     \* external: the connection is subscribed to the session
    link,       \* "none", "down", "opening" or "up" (after server_hello)
    down,       \* frames from the daemon in transit
    up,         \* frames to the daemon in transit
    cursor,     \* socket.subscriptions entry of the session
    retained,   \* the session is in wsSubscriptionOrder
    known,      \* the session is in rawState.sessions
    lastSeq,    \* lastSeqBySession
    knownEpoch, \* epochBySession, 0 when unset
    requiringSnapshot,  \* member of sessionsRequiringSnapshot
    retryingStale,      \* member of sessionsRetryingStaleSnapshot
    staleCursor,        \* member of sessionsWithStaleCursor
    turnActive, \* turnActiveBySession
    seen,       \* the events the client's copy reflects
    fetch,      \* snapshot requests in flight: the runner's and a direct one
    queued,     \* the runner's mark for the session
    generation, \* promptGenerationBySession
    pending,    \* pendingLocalTurnStarts
    settleCallback,     \* afterLocalTurnsSettled holds a callback
    post,       \* POST /prompts of each of the user's prompts
    shown,      \* the user's prompts in the transcript
    fired,      \* history: turn ends whose side effects have run
    firedTwice, \* history: those of some turn end have run again
    late,       \* history: the last event applied was older than the copy
    gaveUp,     \* history: the last snapshot request failed
    skipped,    \* history: the connection was lost with a dishonest cursor
    faults      \* number of disturbances so far

daemonVars == <<log, base, accepted>>
wireVars   == <<served, link, down, up, skipped>>
cacheVars  == <<cursor, retained, staleCursor>>
copyVars   == <<known, lastSeq, knownEpoch, turnActive, seen, fired, firedTwice, shown, late>>
fetchVars  == <<requiringSnapshot, retryingStale, fetch, queued, gaveUp>>
turnVars   == <<generation, pending, settleCallback, post>>
vars == <<daemonVars, wireVars, cacheVars, copyVars, fetchVars, turnVars, faults>>

----------------------------------------------------------------------------

Prompts == 1..MaxTurns
Fetchers == {"runner", "direct"}
Kinds == {"start", "end", "work"}   \* turn.started, turn.ended, work_changed
NoCursor == [seq |-> 0, epoch |-> 0]
Idle == [phase |-> "idle"]

Epoch == Len(base)
LogEnd == Len(log)
SeqOf(i, e) == i - base[e]
EpochOf(i) == CHOOSE e \in 1..Epoch :
                 base[e] < i /\ (e = Epoch \/ i <= base[e + 1])

(* The main agent's turn is live after event i of epoch e.                 *)
ActiveAt(i, e) ==
    \E j \in base[e] + 1 .. i :
        log[j] = "start" /\ \A k \in j + 1 .. i : log[k] # "end"

EventFrame(i) == [type |-> "event", at |-> i, seq |-> SeqOf(i, EpochOf(i)), epoch |-> EpochOf(i)]
ResyncFrame == [type |-> "resync", seq |-> SeqOf(LogEnd, Epoch), epoch |-> Epoch]

(* A disturbance: something the daemon, the network or the user does that  *)
(* is not part of one session's steady streaming.  Bounded by MaxFaults.   *)
Disturb == faults < MaxFaults /\ faults' = faults + 1

Init ==
    /\ log = <<>> /\ base = <<0>> /\ accepted = {}
    /\ served = FALSE /\ link = "none" /\ down = <<>> /\ up = <<>>
    /\ skipped = FALSE
    /\ cursor = NoCursor /\ retained = FALSE /\ staleCursor = FALSE
    /\ known = TRUE /\ lastSeq = 0 /\ knownEpoch = 0
    /\ turnActive = FALSE /\ late = FALSE /\ seen = {} /\ fired = {} /\ firedTwice = FALSE
    /\ shown = {}
    /\ requiringSnapshot = FALSE /\ retryingStale = FALSE
    /\ fetch = [f \in Fetchers |-> Idle] /\ queued = FALSE /\ gaveUp = FALSE
    /\ generation = 0 /\ pending = {} /\ settleCallback = FALSE
    /\ post = [p \in Prompts |-> "none"]
    /\ faults = 0

----------------------------------------------------------------------------
(* The daemon, as the client uses it.                                      *)

(* A durable event.  Subscribers receive it; work_changed is broadcast to  *)
(* every connection (the comment above MAX_WS_SUBSCRIPTIONS).  When the    *)
(* connection's buffer overflows, a subscriber gets resync_required        *)
(* instead.                                                                *)
EmitEvent(kind) ==
    /\ LogEnd < MaxLog
    /\ kind = "start" => ~ActiveAt(LogEnd, Epoch)
    /\ kind = "end" => ActiveAt(LogEnd, Epoch)
    /\ log' = Append(log, kind)
    /\ \/ /\ down' = IF link = "up" /\ (served \/ kind = "work")
                     THEN Append(down, [type |-> "event", at |-> LogEnd + 1,
                                        seq |-> LogEnd + 1 - base[Epoch], epoch |-> Epoch])
                     ELSE down
          /\ UNCHANGED faults
       \/ /\ link = "up" /\ served /\ Disturb
          /\ down' = Append(down, [type |-> "resync", seq |-> LogEnd + 1 - base[Epoch],
                                   epoch |-> Epoch])
    /\ UNCHANGED <<base, accepted, served, link, up, skipped, cacheVars, copyVars, fetchVars, turnVars>>

(* The tracked cursor is in the epoch of the client's copy, which reflects *)
(* the daemon's state there; or the copy is about to be replaced.          *)
CursorHonest ==
    \/ cursor = NoCursor
    \/ requiringSnapshot
    \/ /\ cursor.epoch = knownEpoch
       /\ LET at == base[cursor.epoch] + cursor.seq
          IN 1..at \subseteq seen /\ turnActive = ActiveAt(at, cursor.epoch)

(* A connection ends: whatever is in transit on it is lost.                *)
ConnectionClosed(next) ==
    /\ link' = next /\ served' = FALSE /\ down' = <<>> /\ up' = <<>>
    /\ skipped' = (skipped \/ ~CursorHonest)

(* The daemon restarts with a fresh journal epoch; its connections drop.   *)
Restart ==
    /\ Epoch < MaxEpoch /\ Disturb
    /\ base' = Append(base, LogEnd)
    /\ ConnectionClosed(IF link = "none" THEN "none" ELSE "down")
    /\ UNCHANGED <<log, accepted, cacheVars, copyVars, fetchVars, turnVars>>

(* client_hello and subscribe carry a cursor: the daemon replays the       *)
(* durable events after it, or asks for a resync when the epoch is gone.   *)
ServeFrame ==
    /\ up # <<>>
    /\ LET m == Head(up) IN
         IF m.type = "unsubscribe"
         THEN served' = FALSE /\ UNCHANGED down
         ELSE /\ served' = TRUE
              /\ down' = IF m.epoch = Epoch
                         THEN down \o [n \in 1..(Len(log) - base[Epoch] - m.seq) |->
                                         EventFrame(base[Epoch] + m.seq + n)]
                         ELSE Append(down, ResyncFrame)
    /\ up' = Tail(up)
    /\ UNCHANGED <<daemonVars, link, skipped, cacheVars, copyVars, fetchVars, turnVars, faults>>

(* The daemon answers a snapshot request: one atomic read of the session.  *)
AnswerSnapshot(f) ==
    /\ fetch[f].phase = "sent"
    /\ fetch' = [fetch EXCEPT ![f] =
         [phase |-> "answered", generation |-> @.generation, pending |-> @.pending,
          at |-> LogEnd, epoch |-> Epoch, active |-> ActiveAt(LogEnd, Epoch),
          own |-> accepted]]
    /\ UNCHANGED <<daemonVars, wireVars, cacheVars, copyVars, requiringSnapshot,
                   retryingStale, queued, gaveUp, turnVars, faults>>

(* The daemon takes or refuses a prompt; its answer is in transit.         *)
DecidePrompt(p) ==
    /\ post[p] = "sent"
    /\ \/ post' = [post EXCEPT ![p] = "accepted"] /\ accepted' = accepted \cup {p}
       \/ post' = [post EXCEPT ![p] = "refused"] /\ UNCHANGED accepted
    /\ UNCHANGED <<log, base, wireVars, cacheVars, copyVars, fetchVars,
                   generation, pending, settleCallback, faults>>

----------------------------------------------------------------------------
(* The socket (ws.ts).                                                     *)

(* onclose: frames in transit are gone and a reconnect is scheduled.       *)
ConnectionLost ==
    /\ link \in {"opening", "up"} /\ Disturb
    /\ ConnectionClosed("down")
    /\ UNCHANGED <<daemonVars, cacheVars, copyVars, fetchVars, turnVars>>

(* The reconnect timer fires and opens a new WebSocket.                    *)
ReconnectTimer ==
    /\ link = "down"
    /\ link' = "opening"
    /\ UNCHANGED <<daemonVars, served, down, up, skipped, cacheVars, copyVars, fetchVars,
                   turnVars, faults>>

(* onServerHello: client_hello re-subscribes at the tracked cursor.        *)
ServerHello ==
    /\ link = "opening"
    /\ link' = "up"
    /\ up' = IF cursor = NoCursor THEN <<>>
             ELSE <<[type |-> "subscribe", seq |-> cursor.seq, epoch |-> cursor.epoch]>>
    /\ UNCHANGED <<daemonVars, served, down, skipped, cacheVars, copyVars, fetchVars, turnVars, faults>>

(* trackCursor: only a managed session, only forward.                      *)
TrackCursor(m) ==
    cursor' = IF cursor # NoCursor /\ m.seq > cursor.seq
              THEN [seq |-> m.seq, epoch |-> m.epoch]
              ELSE cursor

Unsubscribe ==
    /\ cursor' = NoCursor
    /\ up' = IF link = "up" THEN Append(up, [type |-> "unsubscribe"]) ELSE up

Subscribe(seq, epoch) ==
    /\ cursor' = [seq |-> seq, epoch |-> epoch]
    /\ up' = IF link = "up"
             THEN Append(up, [type |-> "subscribe", seq |-> seq, epoch |-> epoch])
             ELSE up

----------------------------------------------------------------------------
(* Coalesced snapshots (snapshotSync.ts), on a pair <<fetch, queued>>.     *)

NewFetch(openTurns) ==
    [phase |-> "sent", generation |-> generation, pending |-> openTurns # {}]

Requested(fq, openTurns) ==
    IF fq[1].runner = Idle
    THEN <<[fq[1] EXCEPT !.runner = NewFetch(openTurns)], fq[2]>>
    ELSE <<fq[1], TRUE>>

(* A bug the code avoids: the call settles without looking for a mark.     *)
SettledIgnoringMark(fq, f) == <<[fq[1] EXCEPT ![f] = Idle], fq[2]>>

(* A bug the code avoids: the mark goes with the call that should see it.  *)
SettledDroppingMark(fq, f) == <<[fq[1] EXCEPT ![f] = Idle], FALSE>>

Settled(fq, f) ==
    IF f = "runner" /\ fq[2]
    THEN <<[fq[1] EXCEPT ![f] = NewFetch(pending)], FALSE>>
    ELSE <<[fq[1] EXCEPT ![f] = Idle], fq[2]>>

SetFetch(fq) == fetch' = fq[1] /\ queued' = fq[2]

----------------------------------------------------------------------------
(* Events (reduceAppEvent, processEvent).                                  *)

(* The turn-end side effects run when the event moves lastSeq forward.     *)
TurnEndFires(m) == log[m.at] = "end" /\ m.seq > lastSeq

ReceiveEvent ==
    /\ down # <<>> /\ Head(down).type = "event"
    /\ LET m == Head(down) IN
         /\ seen' = seen \cup {m.at}
         /\ lastSeq' = IF m.seq > lastSeq THEN m.seq ELSE lastSeq
         /\ turnActive' = ActiveAt(m.at, m.epoch)
         /\ late' = (m.seq < lastSeq)
         /\ IF TurnEndFires(m)
            THEN fired' = fired \cup {m.at} /\ firedTwice' = (firedTwice \/ m.at \in fired)
            ELSE UNCHANGED <<fired, firedTwice>>
         /\ TrackCursor(m)
    /\ down' = Tail(down)
    /\ UNCHANGED <<daemonVars, served, link, up, skipped, retained, staleCursor, known, knownEpoch,
                   shown, fetchVars, turnVars, faults>>

(* resync_required: adopt the announced cursor, whoever is subscribed, and *)
(* ask for a snapshot that must be applied.                                *)
ReceiveResync ==
    /\ down # <<>> /\ Head(down).type = "resync"
    /\ cursor' = [seq |-> Head(down).seq, epoch |-> Head(down).epoch]
    /\ down' = Tail(down)
    /\ requiringSnapshot' = TRUE
    /\ SetFetch(Requested(<<fetch, queued>>, pending))
    /\ UNCHANGED <<daemonVars, served, link, up, skipped, retained, staleCursor, copyVars,
                   retryingStale, gaveUp, turnVars, faults>>

----------------------------------------------------------------------------
(* Snapshots (syncSessionFromSnapshot).                                    *)

(* selectSession: the first open, or a re-open, which bypasses the runner. *)
OpenSession ==
    /\ known /\ fetch.direct = Idle
    /\ IF knownEpoch = 0 THEN UNCHANGED faults ELSE Disturb
    /\ fetch' = [fetch EXCEPT !.direct = NewFetch(pending)]
    /\ UNCHANGED <<daemonVars, wireVars, cacheVars, copyVars, requiringSnapshot,
                   retryingStale, queued, gaveUp, turnVars>>

(* The session left the list while the request was in flight.              *)
SnapshotOfForgotten(f) ==
    /\ fetch[f].phase = "answered" /\ ~known
    /\ SetFetch(Settled(<<fetch, queued>>, f))
    /\ UNCHANGED <<daemonVars, wireVars, cacheVars, copyVars, requiringSnapshot,
                   retryingStale, gaveUp, turnVars, faults>>

(* A bug the code avoids: a resync does not force the next snapshot.       *)
MustApplyAfterEviction == staleCursor

MustApply == requiringSnapshot \/ staleCursor

(* The client moved past the snapshot in the snapshot's own epoch.         *)
IsStale(snap) ==
    /\ ~MustApply
    /\ knownEpoch = snap.epoch
    /\ lastSeq > SeqOf(snap.at, snap.epoch)

(* A bug the code avoids: only prompts begun since the request count.      *)
IsGenerationCurrent(snap) == snap.generation = generation

(* isLocalTurnSnapshotCurrent: no prompt was pending at the request or     *)
(* begun since.                                                            *)
IsLocalTurnCurrent(snap) == ~snap.pending /\ snap.generation = generation

(* A stale snapshot is dropped; the first of a row is fetched again.       *)
DropStaleSnapshot(f) ==
    /\ fetch[f].phase = "answered" /\ known /\ IsStale(fetch[f])
    /\ retryingStale' = ~retryingStale
    /\ SetFetch(Settled(IF retryingStale THEN <<fetch, queued>>
                        ELSE Requested(<<fetch, queued>>, pending), f))
    /\ UNCHANGED <<daemonVars, wireVars, cacheVars, copyVars, requiringSnapshot,
                   gaveUp, turnVars, faults>>

(* A bug the code avoids: the deferred snapshot is never asked for again.  *)
DropRacingSnapshot(f) ==
    /\ fetch[f].phase = "answered" /\ known
    /\ ~IsStale(fetch[f]) /\ ~IsLocalTurnCurrent(fetch[f])
    /\ SetFetch(Settled(<<fetch, queued>>, f))
    /\ UNCHANGED <<daemonVars, wireVars, cacheVars, copyVars, requiringSnapshot,
                   retryingStale, gaveUp, turnVars, faults>>

(* A snapshot that races a prompt of the user's is dropped; a fresh one is *)
(* requested once the daemon has answered the prompt.                      *)
DeferSnapshot(f) ==
    /\ fetch[f].phase = "answered" /\ known
    /\ ~IsStale(fetch[f]) /\ ~IsLocalTurnCurrent(fetch[f])
    /\ settleCallback' = (settleCallback \/ pending # {})
    /\ SetFetch(Settled(IF pending = {} THEN Requested(<<fetch, queued>>, pending)
                        ELSE <<fetch, queued>>, f))
    /\ UNCHANGED <<daemonVars, wireVars, cacheVars, copyVars, requiringSnapshot,
                   retryingStale, gaveUp, generation, pending, post, faults>>

(* The snapshot replaces the client's copy, and the subscription restarts  *)
(* from its watermark (opening the connection on the first snapshot).      *)
ApplySnapshot(f) ==
    LET snap == fetch[f]
        seq == SeqOf(snap.at, snap.epoch)
    IN /\ snap.phase = "answered" /\ known
       /\ ~IsStale(snap) /\ IsLocalTurnCurrent(snap)
       /\ lastSeq' = seq /\ knownEpoch' = snap.epoch
       /\ seen' = 1..snap.at
       /\ turnActive' = snap.active /\ late' = FALSE
       /\ shown' = snap.own
       /\ requiringSnapshot' = FALSE /\ retryingStale' = FALSE
       /\ gaveUp' = FALSE /\ skipped' = FALSE
       /\ link' = IF link = "none" THEN "opening" ELSE link
       /\ Subscribe(seq, snap.epoch)
       /\ retained' = TRUE /\ staleCursor' = FALSE
       /\ SetFetch(Settled(<<fetch, queued>>, f))
       /\ UNCHANGED <<daemonVars, served, down, known, fired, firedTwice, turnVars, faults>>

(* The request fails, before or after the daemon has read the session: a   *)
(* notice is shown and nothing else changes.                               *)
SnapshotFails(f) ==
    /\ fetch[f].phase = "sent" /\ Disturb
    /\ gaveUp' = TRUE
    /\ SetFetch(Settled(<<fetch, queued>>, f))
    /\ UNCHANGED <<daemonVars, wireVars, cacheVars, copyVars, requiringSnapshot,
                   retryingStale, turnVars>>

(* recoverStaleConnection: the tab is back on a socket that went silent.   *)
RecoverStaleConnection ==
    /\ link # "none" /\ known /\ Disturb
    /\ ConnectionClosed("opening")
    /\ \E active \in BOOLEAN :
         IF active THEN SetFetch(Requested(<<fetch, queued>>, pending))
         ELSE UNCHANGED <<fetch, queued>>
    /\ UNCHANGED <<daemonVars, cacheVars, copyVars, requiringSnapshot, retryingStale,
                   gaveUp, turnVars>>

----------------------------------------------------------------------------
(* Subscription cache and session list.                                    *)

(* retainWsSubscription of other sessions pushes this one out.             *)
Evict ==
    /\ retained /\ Disturb
    /\ Unsubscribe
    /\ retained' = FALSE /\ staleCursor' = TRUE
    /\ UNCHANGED <<daemonVars, served, link, down, skipped, copyVars, fetchVars, turnVars>>

(* forgetSession (archive, or the daemon no longer knows it).  Prompts     *)
(* still being answered are no longer the client's concern.                *)
ForgetSession ==
    /\ known /\ Disturb
    /\ known' = FALSE
    /\ Unsubscribe
    /\ retained' = FALSE /\ staleCursor' = FALSE
    /\ lastSeq' = 0 /\ knownEpoch' = 0 /\ turnActive' = FALSE /\ seen' = {} /\ shown' = {}
    /\ late' = FALSE
    /\ requiringSnapshot' = FALSE /\ retryingStale' = FALSE
    /\ generation' = 0 /\ pending' = {} /\ settleCallback' = FALSE
    /\ post' = [p \in Prompts |-> IF post[p] = "none" THEN "none" ELSE "dropped"]
    /\ UNCHANGED <<daemonVars, served, link, down, skipped, fired, firedTwice, fetch, queued, gaveUp>>

(* The session is listed again (restored from the archive).                *)
Relist ==
    /\ ~known
    /\ known' = TRUE
    /\ UNCHANGED <<daemonVars, wireVars, cacheVars, lastSeq, knownEpoch, turnActive, seen,
                   fired, firedTwice, late, shown, fetchVars, turnVars, faults>>

----------------------------------------------------------------------------
(* Local turns (useWorkspaceState.ts).                                     *)

(* beginLocalTurn and the optimistic message of submitPromptInternal.      *)
BeginTurn(p) ==
    /\ known /\ knownEpoch # 0
    /\ post[p] = "none" /\ \A q \in 1..p - 1 : post[q] # "none"
    /\ post' = [post EXCEPT ![p] = "sent"]
    /\ generation' = p
    /\ pending' = pending \cup {p}
    /\ shown' = shown \cup {p}
    /\ UNCHANGED <<daemonVars, wireVars, cacheVars, known, lastSeq, knownEpoch, turnActive,
                   seen, fired, firedTwice, late, fetchVars, settleCallback, faults>>

(* settleLocalTurn: the last pending start runs the waiting callback.      *)
SettleTurn(p) ==
    /\ pending' = pending \ {p}
    /\ IF pending # {} /\ pending' = {} /\ settleCallback
       THEN /\ settleCallback' = FALSE
            /\ SetFetch(Requested(<<fetch, queued>>, pending'))
       ELSE UNCHANGED <<settleCallback, fetch, queued>>

(* The answer to POST /prompts arrives, or the request is lost: anything   *)
(* but an acceptance rolls the optimistic message back.                    *)
PromptAnswered(p) ==
    /\ \/ post[p] \in {"accepted", "refused"} /\ UNCHANGED faults
       \/ post[p] \in {"sent", "accepted"} /\ Disturb
    /\ LET ok == post[p] = "accepted" /\ faults' = faults IN
         /\ post' = [post EXCEPT ![p] = IF ok THEN "done" ELSE "failed"]
         /\ shown' = IF ok THEN shown ELSE shown \ {p}
    /\ SettleTurn(p)
    /\ UNCHANGED <<daemonVars, wireVars, cacheVars, known, lastSeq, knownEpoch, turnActive,
                   seen, fired, firedTwice, late, requiringSnapshot, retryingStale, gaveUp, generation>>

----------------------------------------------------------------------------

Network ==
    \/ ServeFrame
    \/ ReconnectTimer
    \/ ServerHello
    \/ ReceiveEvent
    \/ ReceiveResync

Snapshots(f) ==
    \/ AnswerSnapshot(f)
    \/ SnapshotOfForgotten(f)
    \/ DropStaleSnapshot(f)
    \/ DeferSnapshot(f)
    \/ ApplySnapshot(f)

Next ==
    \/ \E kind \in Kinds : EmitEvent(kind)
    \/ Restart
    \/ ConnectionLost
    \/ Network
    \/ \E f \in Fetchers : Snapshots(f) \/ SnapshotFails(f)
    \/ OpenSession
    \/ RecoverStaleConnection
    \/ Evict
    \/ ForgetSession
    \/ Relist
    \/ \E p \in Prompts : BeginTurn(p) \/ DecidePrompt(p) \/ PromptAnswered(p)

(* Frames are delivered, the reconnect timer fires, and every HTTP request *)
(* is answered or times out (http.ts).                                     *)
Fairness ==
    /\ WF_vars(Network)
    /\ \A f \in Fetchers : WF_vars(Snapshots(f))
    /\ \A p \in Prompts : WF_vars(DecidePrompt(p)) /\ WF_vars(PromptAnswered(p))

Spec == Init /\ [][Next]_vars /\ Fairness

----------------------------------------------------------------------------

(* Nothing is on its way to the client and nothing it started is open.     *)
Quiet ==
    /\ link = "up" /\ up = <<>> /\ down = <<>>
    /\ \A f \in Fetchers : fetch[f] = Idle
    /\ pending = {}

(* When everything has settled, the copy of a session that was opened and  *)
(* is still subscribed equals the daemon's: no event is missing, the       *)
(* cursor is the daemon's, and the turn is live exactly when it really is  *)
(* (syncSessionFromSnapshot, ws.ts onServerHello and trackCursor).  Not    *)
(* asked of the flag: a turn.started or turn.ended received after a        *)
(* snapshot that is newer sets it all the same (eventReducer.ts:867 has no *)
(* seq gate), and it stays wrong until the next turn event or snapshot or  *)
(* the work_changed that the daemon sends last.                            *)
Converged ==
    (Quiet /\ known /\ retained /\ ~gaveUp /\ ~skipped) =>
        /\ seen = 1..LogEnd
        /\ knownEpoch = Epoch
        /\ lastSeq = SeqOf(LogEnd, Epoch)
        /\ ~late \/ (log # <<>> /\ log[LogEnd] = "work") => turnActive = ActiveAt(LogEnd, Epoch)

(* A prompt the user has sent stays in the transcript until the daemon     *)
(* refuses it: no snapshot taken before the daemon had it is applied over  *)
(* it (useKimiWebClient.ts:1402, 1435-1440).                               *)
OwnPromptsShown ==
    \A p \in Prompts : post[p] \in {"sent", "accepted", "refused", "done"} => p \in shown

(* The shape of the state; a mark on the runner is left only while its     *)
(* request is in flight, and a callback only while a prompt is pending.    *)
TypeOK ==
    /\ log \in Seq(Kinds) /\ base \in Seq(Nat) /\ accepted \subseteq Prompts
    /\ served \in BOOLEAN /\ link \in {"none", "down", "opening", "up"}
    /\ cursor.seq \in Nat /\ cursor.epoch \in Nat
    /\ {retained, known, turnActive, requiringSnapshot, retryingStale, staleCursor,
         queued, settleCallback, gaveUp, skipped} \subseteq BOOLEAN
    /\ lastSeq \in Nat /\ knownEpoch \in Nat
    /\ seen \subseteq 1..LogEnd /\ shown \subseteq Prompts
    /\ queued => fetch.runner # Idle
    /\ generation \in Nat /\ pending \subseteq Prompts
    /\ settleCallback => pending # {}

(* A resync is never dropped: until a snapshot is applied, a request is in *)
(* flight, or waits for the prompts in flight, unless one failed.          *)
ResyncHasDriver ==
    (known /\ knownEpoch # 0 /\ requiringSnapshot /\ ~gaveUp) =>
        \/ \E f \in Fetchers : fetch[f] # Idle
        \/ settleCallback

(* A resync is carried out unless the session goes or the request fails.   *)
ResyncCompletes ==
    (requiringSnapshot /\ knownEpoch # 0) ~> (~requiringSnapshot \/ gaveUp \/ ~known)

(* The next two state what comments of the code say; they do not hold.     *)

(* The cursor a connection resumes from is one the client's copy has       *)
(* reached: no gap (useKimiWebClient.ts:1157-1160).                        *)
ResumesWithoutGap ==
    (link = "opening" /\ known /\ cursor # NoCursor /\ ~requiringSnapshot) =>
        1 .. base[cursor.epoch] + cursor.seq \subseteq seen

(* The side effects of a turn end run at most once                         *)
(* (useKimiWebClient.ts:915-918, 965-973).                                 *)
TurnEndFiresOnce == ~firedTwice
============================================================================
