---------------------------- MODULE PromptQueue ----------------------------
(***************************************************************************)
(* The user's prompts in ONE session, from the composer to the daemon:     *)
(* sent at once, queued behind a running turn, drained when the turn ends, *)
(* or merged and steered into it.                                          *)
(*                                                                         *)
(*   src/web/src/composables/client/useWorkspaceState.ts                   *)
(*   src/web/src/composables/useKimiWebClient.ts  (processEvent)           *)
(*                                                                         *)
(* The daemon is external: it takes or refuses each submission, runs one   *)
(* turn at a time, parks or blocks submissions and announces everything in *)
(* feed.  While subscribed the client handles the entries in order, all of *)
(* them but those a resync_required stands for; while evicted from the     *)
(* subscription cache it only hears the work_changed broadcast of a turn's *)
(* start and end.  A submission is identified by its place in posts, which *)
(* is also the generation beginLocalTurn gives it.                         *)
(***************************************************************************)
EXTENDS Integers, Sequences, FiniteSets, SequencesExt

CONSTANTS
    FlushBudget,    \* MAX_QUEUE_FLUSH_FAILURES (3 in the code)
    MaxPrompts,     \* bound: prompts the user types
    MaxPosts,       \* bound: submissions
    MaxFaults       \* bound: disturbances (see Disturb)

ASSUME BoundsAssumption ==
    /\ FlushBudget \in Nat \ {0} /\ MaxPrompts \in Nat /\ MaxPosts \in Nat
    /\ MaxFaults \in Nat

VARIABLES
    running,    \* external: submission whose turn runs, Foreign or None
    parked,     \* external: submissions waiting for the turn, oldest first
    feed,       \* what the daemon announced and the client has not handled
    live,       \* the session is subscribed (wsSubscriptionOrder)
    known,      \* it is in rawState.sessions
    required,   \* it is in sessionsRequiringSnapshot
    queue,      \* queuedBySession
    inFlight,   \* inFlightBySession
    turnActive, \* turnActiveBySession
    promptId,   \* promptIdBySession
    failures,   \* queueFlushFailures: the entry and its count
    posts,      \* the submissions so far
    stop,       \* where abortCurrentPrompt is, and the prompt it is for
    snap,       \* the snapshot on its way, with what was announced since
    missed,     \* history: blocked submissions that were not recognized
    typed,      \* history: prompts the user has typed
    gone,       \* history: prompts taken back, or reported as not sent
    credit,     \* history: ends announced less drains (see OneDrainPerEnd)
    faults      \* number of disturbances so far

daemonVars == <<running, parked>>
feedVars   == <<feed, snap, missed>>
viewVars   == <<live, known, required, stop>>
queueVars  == <<queue, failures, posts, gone>>
turnVars   == <<inFlight, turnActive, promptId>>
vars == <<daemonVars, feedVars, viewVars, queueVars, turnVars, credit, typed, faults>>

----------------------------------------------------------------------------

None == 0
Foreign == MaxPosts + 1
NoFailures == [prompt |-> 0, count |-> 0]
NoSnapshot == [since |-> <<>>]
NoStop == [at |-> "none"]
Ends == {"ended", "handed", "quiet", "dropped", "blocked"}
PostIds == 1..Len(posts)

(* A submission: how it was made, the queued prompts and the composer's    *)
(* prompt it carries, and what the daemon and the client made of it.       *)
Post(via, fromQueue, text) ==
    [via |-> via, entries |-> fromQueue, typed |-> text,
     daemon |-> "sent", client |-> "waiting"]

Carries(k) == posts[k].entries \o posts[k].typed

(* pendingLocalTurnStarts: submissions not settled yet.                    *)
Pending == {k \in PostIds : posts[k].client \in {"waiting", "steering"}}

(* activity (no approval or question is open here).                        *)
Running == inFlight \/ turnActive

Disturb == faults < MaxFaults /\ faults' = faults + 1

Init ==
    /\ running = None /\ parked = <<>>
    /\ feed = <<>> /\ snap = NoSnapshot /\ missed = {}
    /\ live = TRUE /\ known = TRUE
    /\ queue = <<>> /\ failures = NoFailures /\ posts = <<>>
    /\ inFlight = FALSE /\ turnActive = FALSE /\ promptId = None
    /\ typed = 0 /\ gone = {} /\ credit = 0 /\ stop = NoStop
    /\ required = FALSE /\ faults = 0

----------------------------------------------------------------------------
(* The daemon, as the client uses it.                                      *)

Announce(events) ==
    /\ feed' = IF known THEN feed \o events ELSE feed
    /\ snap' = IF snap = NoSnapshot THEN snap ELSE [snap EXCEPT !.since = @ \o events]
    /\ UNCHANGED missed
    /\ credit' = credit + Cardinality({i \in DOMAIN events : events[i].type \in Ends})

Event(type, k) == [type |-> type, of |-> k]

Decide(k, decision) == posts' = [posts EXCEPT ![k].daemon = decision]

(* A submission is announced and starts a turn ...                         *)
DaemonStarts(k) ==
    /\ posts[k].daemon = "sent" /\ running = None
    /\ Decide(k, "started")
    /\ running' = k
    /\ Announce(<<Event("began", k)>>)
    /\ UNCHANGED <<parked, viewVars, queue, failures, gone, turnVars, typed, faults>>

(* ... or is parked behind the running one ...                             *)
DaemonParks(k) ==
    /\ posts[k].daemon = "sent" /\ running # None
    /\ Decide(k, "queued")
    /\ parked' = Append(parked, k)
    /\ Announce(<<Event("submitted", k)>>)
    /\ UNCHANGED <<running, viewVars, queue, failures, gone, turnVars, typed, faults>>

(* ... or is refused.                                                      *)
DaemonRefuses(k) ==
    /\ posts[k].daemon = "sent"
    /\ Decide(k, "refused")
    /\ UNCHANGED <<daemonVars, feedVars, viewVars, queue, failures, gone, turnVars, credit,
                   typed, faults>>

(* ... or a pre-submit hook blocks it: no turn, only this announcement.    *)
DaemonBlocks(k) ==
    /\ posts[k].daemon = "sent"
    /\ Decide(k, "blocked")
    /\ Announce(<<Event("blocked", k)>>)
    /\ UNCHANGED <<daemonVars, viewVars, queue, failures, gone, turnVars, typed, faults>>

(* Another client's prompt starts a turn.                                  *)
ForeignTurn ==
    /\ running = None
    /\ running' = Foreign /\ Disturb
    /\ Announce(<<Event("began", Foreign)>>)
    /\ UNCHANGED <<parked, viewVars, queueVars, turnVars, typed>>

(* The turn's end, by itself or on Stop; no snapshot sees the session      *)
(* between the end of a turn and the start of the next parked prompt.      *)
EndTurn ==
    /\ running # None
    /\ \/ /\ parked = <<>>
          /\ running' = None /\ UNCHANGED parked
          /\ Announce(<<Event("ended", running)>>)
       \/ /\ parked # <<>>
          /\ running' = Head(parked) /\ parked' = Tail(parked)
          /\ Announce(<<Event("handed", running), Event("started", Head(parked))>>)

TurnEnds == EndTurn /\ UNCHANGED <<viewVars, queueVars, turnVars, typed, faults>>

(* The turn's agent is disposed of: only the session's quiet is announced. *)
TurnVanishes ==
    /\ running # None /\ parked = <<>> /\ Disturb
    /\ running' = None
    /\ Announce(<<Event("quiet", running)>>)
    /\ UNCHANGED <<parked, viewVars, queueVars, turnVars, typed>>

Unpark(k) == \E i \in DOMAIN parked : parked[i] = k /\ parked' = RemoveAt(parked, i)

(* A parked prompt is aborted, by another client or on Stop.               *)
Drop(k) ==
    /\ Unpark(k) /\ UNCHANGED running
    /\ Announce(<<Event("dropped", k)>>)

DropParked(k) == Disturb /\ Drop(k) /\ UNCHANGED <<viewVars, queueVars, turnVars, typed>>

----------------------------------------------------------------------------
(* Submissions (submitPromptInternal, flushQueueHead, steerPrompt).        *)

CanPost == Len(posts) < MaxPosts

(* flushQueueHead: what is left of a queue and the submission of its head. *)
Flushed(q) == [queue |-> Tail(q), post |-> Post("flush", <<Head(q)>>, <<>>)]

FlushHead(q, subs) ==
    /\ queue' = Flushed(q).queue
    /\ posts' = Append(subs, Flushed(q).post)

TypeNext ==
    /\ known /\ typed < MaxPrompts
    /\ typed' = typed + 1

(* sendPrompt, the session busy: the prompt waits in the queue.            *)
Enqueue ==
    /\ TypeNext /\ Running
    /\ queue' = Append(queue, typed')
    /\ UNCHANGED <<daemonVars, feedVars, viewVars, failures, posts, gone, credit, turnVars, faults>>

(* sendPrompt, idle with prompts stuck in the queue: the head goes first.  *)
EnqueueAndFlush ==
    /\ TypeNext /\ ~Running /\ queue # <<>> /\ CanPost
    /\ FlushHead(Append(queue, typed'), posts)
    /\ inFlight' = TRUE
    /\ UNCHANGED <<daemonVars, feedVars, viewVars, failures, gone, credit, turnActive, promptId, faults>>

(* sendPrompt, idle and nothing queued.                                    *)
SendNow ==
    /\ TypeNext /\ ~Running /\ queue = <<>> /\ CanPost
    /\ posts' = Append(posts, Post("send", <<>>, <<typed'>>))
    /\ inFlight' = TRUE
    /\ UNCHANGED <<daemonVars, feedVars, viewVars, queue, failures, gone, credit, turnActive, promptId, faults>>

(* steerPrompt: the whole queue and the composer's text, if there is any,  *)
(* in one submission, which is a normal send when nothing runs.            *)
Steer ==
    /\ known /\ CanPost
    /\ \/ typed < MaxPrompts /\ typed' = typed + 1
       \/ queue # <<>> /\ typed' = typed
    /\ posts' = Append(posts, Post(IF Running THEN "steer" ELSE "merged", queue,
                                   IF typed' = typed THEN <<>> ELSE <<typed'>>))
    /\ queue' = <<>>
    /\ inFlight' = (inFlight \/ ~Running)
    /\ UNCHANGED <<daemonVars, feedVars, viewVars, failures, gone, credit, turnActive, promptId, faults>>

(* unqueue and reorderQueue.                                               *)
Unqueue(i) ==
    /\ known
    /\ queue' = RemoveAt(queue, i) /\ gone' = gone \cup {queue[i]}
    /\ UNCHANGED <<daemonVars, feedVars, viewVars, failures, posts, credit, turnVars, typed, faults>>

ReorderQueue(from, to) ==
    /\ known /\ from # to
    /\ queue' = InsertAt(RemoveAt(queue, from), to, queue[from])
    /\ UNCHANGED <<daemonVars, feedVars, viewVars, failures, posts, gone, credit, turnVars, typed, faults>>

----------------------------------------------------------------------------
(* Stop (abortCurrentPrompt).                                              *)

(* The prompt is the one known by now, else the one that the copy of the   *)
(* session names (currentPromptId, of any age), else whatever runs.        *)
AskStop ==
    /\ known /\ Running /\ stop = NoStop /\ Disturb
    /\ \E k \in IF promptId # None THEN {promptId} ELSE {None, Foreign} \cup PostIds :
          stop' = IF k = None THEN [at |-> "session"] ELSE [at |-> "prompt", of |-> k]
    /\ UNCHANGED <<daemonVars, feedVars, live, known, required, queueVars, turnVars, credit,
                   typed>>

(* The daemon's part: the prompt's turn or its place in the line ends, or  *)
(* it has been over for long; or all ends that runs in the session.  A     *)
(* request that is lost has the same effect or none.                       *)
ServeStop ==
    /\ \/ stop.at = "prompt" /\ stop.of = running /\ EndTurn /\ stop' = NoStop
       \/ stop.at = "prompt" /\ Drop(stop.of) /\ stop' = NoStop
       \/ /\ stop.at = "prompt" /\ stop.of \notin {running} \cup ToSet(parked)
          /\ stop' = [at |-> "missed"] /\ UNCHANGED <<daemonVars, feedVars, credit>>
       \/ stop.at = "session" /\ EndTurn /\ stop' = NoStop
       \/ stop.at # "none" /\ stop' = NoStop /\ UNCHANGED <<daemonVars, feedVars, credit>>
    /\ UNCHANGED <<live, known, required, queueVars, turnVars, typed, faults>>

(* The id is not known or its prompt is over: the id by now is deleted and *)
(* the session is asked next.                                              *)
StopMissed ==
    /\ stop.at = "missed"
    /\ promptId' = None /\ stop' = [at |-> "session"]
    /\ UNCHANGED <<daemonVars, feedVars, live, known, required, queueVars, inFlight,
                   turnActive, credit, typed, faults>>

----------------------------------------------------------------------------
(* The answer to a submission.                                             *)

Settle(k, outcome) == [posts EXCEPT ![k].client = outcome]
Waiting(k) == posts[k].client = "waiting"

(* Accepted, or blocked by a hook: the prompt's id is known; a steered     *)
(* prompt that was parked is next asked into the running turn.             *)
AnswerOk(k) ==
    /\ Waiting(k) /\ posts[k].daemon \in {"started", "queued", "blocked"}
    /\ IF posts[k].via = "steer" /\ posts[k].daemon = "queued"
       THEN posts' = Settle(k, "steering") /\ UNCHANGED promptId
       ELSE posts' = Settle(k, "done") /\ promptId' = k
    /\ failures' = IF posts[k].via = "flush" THEN NoFailures ELSE failures
    /\ UNCHANGED <<daemonVars, feedVars, viewVars, queue, gone, credit, inFlight, turnActive, typed, faults>>

(* POST /prompts:steer, answered: the parked prompt joins the running turn *)
(* or, the turn being over or the request lost, still starts its own.      *)
SteerAnswered(k) ==
    /\ posts[k].client = "steering"
    /\ posts' = Settle(k, "done")
    /\ IF running # None /\ k \in ToSet(parked)
       THEN \/ Unpark(k) /\ UNCHANGED faults
            \/ UNCHANGED parked /\ Disturb
       ELSE UNCHANGED <<parked, faults>>
    /\ UNCHANGED <<running, feedVars, viewVars, queue, failures, gone, credit, turnVars, typed>>

(* A bug the code avoids: a failed submission leaves the flag to a turn    *)
(* end that never comes.                                                   *)
FlagKept(k) == inFlight

(* inFlightBySession after a failed submission.                            *)
FlagAfterFailure(k) == inFlight /\ posts[k].via = "steer"

(* An ambiguous failure: the daemon may have the prompt, so nothing goes   *)
(* back to the queue.                                                      *)
AnswerLost(k) ==
    /\ Waiting(k) /\ Disturb
    /\ posts' = Settle(k, "uncertain")
    /\ inFlight' = FlagAfterFailure(k)
    /\ failures' = IF posts[k].via = "flush" THEN NoFailures ELSE failures
    /\ UNCHANGED <<daemonVars, feedVars, viewVars, queue, gone, credit, turnActive, promptId, typed>>

(* A bug the code avoids: every failure is taken for a refusal.            *)
AnyFailure(k) == Waiting(k)

(* The error is one the daemon itself gave (isDaemonApiError).             *)
Refused(k) == Waiting(k) /\ posts[k].daemon = "refused"

(* A bug the code avoids: prompts queued meanwhile are overwritten.        *)
RestoredAlone(k) == posts[k].entries

(* The entries are put back before what was queued meanwhile.              *)
Restored(k) == posts[k].entries \o queue

(* Refused: the queued prompts a steer had merged go back to the head; the *)
(* composer's own prompt is reported.                                      *)
RefusedSend(k) ==
    /\ Refused(k) /\ posts[k].via # "flush"
    /\ posts' = Settle(k, "rejected")
    /\ queue' = Restored(k)
    /\ gone' = gone \cup ToSet(posts[k].typed)
    /\ inFlight' = FlagAfterFailure(k)
    /\ UNCHANGED <<daemonVars, feedVars, viewVars, failures, credit, turnActive, promptId, typed, faults>>

(* A bug the code avoids: failures are counted whoever's they are.         *)
CountedTogether(k) == failures.count + 1

(* The failure budget is the entry's own: another head starts afresh.      *)
FlushFailures(k) ==
    IF failures.prompt = Head(posts[k].entries) THEN failures.count + 1 ELSE 1

(* A bug the code avoids: one failure too many is allowed.                 *)
ExhaustedLate(k) == FlushFailures(k) > FlushBudget

Exhausted(k) == FlushFailures(k) >= FlushBudget

(* A refused flush puts the entry back at the head ...                     *)
RefusedFlush(k) ==
    /\ Refused(k) /\ posts[k].via = "flush" /\ known /\ ~Exhausted(k)
    /\ posts' = Settle(k, "rejected")
    /\ failures' = [prompt |-> Head(posts[k].entries), count |-> FlushFailures(k)]
    /\ queue' = Restored(k)
    /\ inFlight' = FALSE
    /\ UNCHANGED <<daemonVars, feedVars, viewVars, gone, credit, turnActive, promptId, typed, faults>>

(* ... or drops it and goes on with the next.                              *)
FlushExhausted(k) ==
    /\ Refused(k) /\ posts[k].via = "flush" /\ known /\ Exhausted(k)
    /\ failures' = NoFailures
    /\ gone' = gone \cup ToSet(posts[k].entries)
    /\ IF queue = <<>>
       THEN posts' = Settle(k, "rejected") /\ inFlight' = FALSE /\ UNCHANGED queue
       ELSE CanPost /\ FlushHead(queue, Settle(k, "rejected")) /\ inFlight' = TRUE
    /\ UNCHANGED <<daemonVars, feedVars, viewVars, credit, turnActive, promptId, typed, faults>>

(* The session was forgotten meanwhile: its queue is not resurrected.      *)
FlushForgotten(k) ==
    /\ Refused(k) /\ posts[k].via = "flush" /\ ~known
    /\ posts' = Settle(k, "rejected")
    /\ failures' = NoFailures
    /\ inFlight' = FALSE
    /\ UNCHANGED <<daemonVars, feedVars, viewVars, queue, gone, credit, turnActive, promptId, typed, faults>>

----------------------------------------------------------------------------
(* Turn boundaries (processEvent, finishPromptLocal, handleSessionSnapshot) *)

(* A bug the code avoids: re-opening a session submits what was queued.    *)
AlwaysDrain == TRUE

(* Only a client that has witnessed a prompt or a turn drains its queue.   *)
MayDrain == Running

FinishPrompt ==
    /\ promptId' = None
    /\ IF MayDrain /\ queue # <<>>
       THEN CanPost /\ FlushHead(queue, posts) /\ inFlight' = TRUE
       ELSE inFlight' = FALSE /\ UNCHANGED <<queue, posts>>

Drains == Len(posts') - Len(posts)

(* clearWorkingFlags: the main turn is over, nothing is drained.           *)
ClearWorkingFlags ==
    /\ turnActive' = FALSE
    /\ inFlight' = (inFlight /\ ~turnActive)
    /\ UNCHANGED <<promptId, queue, posts>>

Ignore == UNCHANGED <<turnVars, queue, posts>>

(* A bug the code avoids: a prompt that a hook blocked is not let go of.   *)
AbortedHere(e) == e.type = "dropped" /\ promptId = e.of

(* The prompt that ends without a turn is the session's, as far as known.  *)
FinishedHere(e) == promptId = e.of

(* A subscribed client.  The work_changed that follows a turn.ended finds  *)
(* the turn flag already cleared and does nothing more.                    *)
Handle(e) ==
    \/ /\ e.type = "began"
       /\ turnActive' = TRUE /\ promptId' = e.of
       /\ UNCHANGED <<inFlight, queue, posts>>
    \/ /\ e.type = "started"
       /\ turnActive' = TRUE
       /\ UNCHANGED <<inFlight, promptId, queue, posts>>
    \/ /\ e.type = "submitted"
       /\ promptId' = e.of
       /\ UNCHANGED <<inFlight, turnActive, queue, posts>>
    \/ e.type \in {"ended", "handed"} /\ FinishPrompt /\ turnActive' = FALSE
    \/ e.type = "quiet" /\ ClearWorkingFlags
    \/ /\ e.type \in {"dropped", "blocked"}
       /\ IF FinishedHere(e) THEN FinishPrompt /\ UNCHANGED turnActive ELSE Ignore

(* An evicted client hears only work_changed.                              *)
Overhear(e) ==
    \/ /\ e.type \in {"began", "started"}
       /\ turnActive' = TRUE
       /\ UNCHANGED <<inFlight, promptId, queue, posts>>
    \/ e.type \in {"ended", "quiet"} /\ ClearWorkingFlags
    \/ e.type \in {"submitted", "handed", "dropped", "blocked"} /\ Ignore

Receive ==
    /\ known /\ feed # <<>>
    /\ IF live THEN Handle(Head(feed)) ELSE Overhear(Head(feed))
    /\ feed' = Tail(feed) /\ credit' = credit - Drains
    /\ missed' = missed \cup {k \in PostIds : live /\ Head(feed) = Event("blocked", k) /\ promptId # k}
    /\ UNCHANGED <<daemonVars, snap, viewVars, failures, gone, typed, faults>>

(* resync_required: the daemon cannot send all that the client has not     *)
(* handled (onResync) ...                                                  *)
Resync ==
    /\ known /\ live /\ Disturb
    /\ required' = TRUE
    /\ UNCHANGED <<daemonVars, feedVars, live, known, stop, queueVars, turnVars, credit, typed>>

(* ... and what it leaves out only a snapshot makes up for.                *)
Omit ==
    /\ live /\ required /\ feed # <<>>
    /\ feed' = Tail(feed)
    /\ UNCHANGED <<daemonVars, snap, missed, viewVars, queueVars, turnVars, credit, typed, faults>>

(* After a resync_required, and where an evicted session's cursor may have *)
(* jumped, a snapshot is applied although the cursor is past it.           *)
MustApply == required \/ ~live

(* A snapshot is requested: after a resync, to subscribe again, or, of the *)
(* disturbances, on re-opening or returning to a silent socket; and again  *)
(* after a discarded one (SessionSync has the order of all that).  Then    *)
(* the daemon reads the session.  A submission between the request and the *)
(* reading has it discarded, so they are one step, and so does one         *)
(* unanswered at the request (localTurnStartState), so there is none.      *)
TakeSnapshot ==
    /\ known /\ snap = NoSnapshot /\ Pending = {}
    /\ IF MustApply THEN UNCHANGED faults ELSE Disturb
    /\ snap' = [since |-> <<>>, active |-> running # None, generation |-> Len(posts)]
    /\ UNCHANGED <<daemonVars, feed, missed, viewVars, queueVars, turnVars, credit, typed>>

(* The client has gone past events announced after the snapshot.           *)
Overtaken == Len(feed) < Len(snap.since)

(* A bug the code avoids: the cursor is not looked at.                     *)
NeverStale == FALSE

IsStale == ~MustApply /\ Overtaken

IsLocalTurnCurrent == snap.generation = Len(posts)

(* A snapshot that shows no main turn finishes the prompt; the client goes *)
(* on from the snapshot's watermark, subscribed.                           *)
ApplySnapshot ==
    /\ known /\ snap # NoSnapshot /\ ~IsStale /\ IsLocalTurnCurrent
    /\ IF snap.active
       THEN UNCHANGED <<inFlight, promptId, queue, posts>>
       ELSE FinishPrompt
    /\ credit' = IF MustApply /\ Overtaken THEN credit ELSE credit - Drains
    /\ turnActive' = snap.active
    /\ feed' = snap.since /\ live' = TRUE /\ required' = FALSE
    /\ snap' = NoSnapshot
    /\ UNCHANGED <<daemonVars, missed, known, stop, failures, gone, typed, faults>>

(* It is stale or races a local prompt.                                    *)
DiscardSnapshot ==
    /\ snap # NoSnapshot
    /\ IsStale \/ ~IsLocalTurnCurrent
    /\ snap' = NoSnapshot
    /\ UNCHANGED <<daemonVars, feed, missed, viewVars, queueVars, turnVars, credit, typed, faults>>

----------------------------------------------------------------------------

(* The user opens enough other sessions to evict this one, and may be back *)
(* in it at any time.                                                      *)
Evict ==
    /\ live /\ Disturb
    /\ live' = FALSE
    /\ UNCHANGED <<daemonVars, feedVars, known, required, stop, queueVars, turnVars, credit, typed>>

(* forgetSession: its events still to be handled are discarded, and so is  *)
(* a snapshot when it arrives.                                             *)
ForgetSession ==
    /\ known /\ Disturb
    /\ known' = FALSE /\ live' = FALSE /\ required' = FALSE
    /\ feed' = <<>> /\ snap' = NoSnapshot
    /\ queue' = <<>> /\ failures' = NoFailures
    /\ inFlight' = FALSE /\ turnActive' = FALSE /\ promptId' = None
    /\ UNCHANGED <<daemonVars, missed, stop, posts, gone, credit, typed>>

----------------------------------------------------------------------------

Daemon ==
    \/ \E k \in PostIds : DaemonStarts(k) \/ DaemonParks(k)
    \/ TurnEnds

Answers ==
    \E k \in PostIds :
        \/ AnswerOk(k)
        \/ SteerAnswered(k)
        \/ RefusedSend(k)
        \/ RefusedFlush(k)
        \/ FlushExhausted(k)
        \/ FlushForgotten(k)

User ==
    \/ Enqueue
    \/ EnqueueAndFlush
    \/ SendNow
    \/ Steer
    \/ \E i \in DOMAIN queue : Unqueue(i)
    \/ \E i, j \in DOMAIN queue : ReorderQueue(i, j)

Next ==
    \/ Daemon
    \/ \E k \in PostIds : DaemonRefuses(k) \/ DaemonBlocks(k) \/ DropParked(k) \/ AnswerLost(k)
    \/ ForeignTurn
    \/ TurnVanishes
    \/ User
    \/ AskStop
    \/ ServeStop
    \/ StopMissed
    \/ Answers
    \/ Receive
    \/ Resync
    \/ Omit
    \/ TakeSnapshot
    \/ ApplySnapshot
    \/ DiscardSnapshot
    \/ Evict
    \/ ForgetSession

(* Turns end, submissions are answered or time out, events arrive, and a   *)
(* required snapshot is asked for until one is applied (ResyncHasDriver    *)
(* and ResyncCompletes of SessionSync).                                    *)
Fairness ==
    /\ WF_vars(Daemon) /\ WF_vars(Answers) /\ WF_vars(Receive)
    /\ WF_vars(required /\ TakeSnapshot)
    /\ WF_vars(required /\ (ApplySnapshot \/ DiscardSnapshot))

Spec == Init /\ [][Next]_vars /\ Fairness

----------------------------------------------------------------------------

(* The shape of the state; the failure count stays below the flush budget  *)
(* (flushQueueHead).                                                       *)
TypeOK ==
    /\ running \in {None, Foreign} \cup PostIds /\ parked \in Seq(PostIds)
    /\ \A i \in DOMAIN feed : feed[i].of \in {Foreign} \cup PostIds
    /\ {live, known, required, inFlight, turnActive} \subseteq BOOLEAN
    /\ queue \in Seq(1..typed) /\ promptId \in {None, Foreign} \cup PostIds
    /\ failures.count \in 0..FlushBudget - 1 /\ gone \subseteq 1..typed

(* A prompt is nowhere lost and nowhere doubled: it waits in the queue, is *)
(* carried by one submission that was not refused, or the user was told.   *)
Places(p) ==
    Cardinality({i \in DOMAIN queue : queue[i] = p})
    + Cardinality({k \in PostIds : posts[k].client # "rejected" /\ p \in ToSet(Carries(k))})
    + Cardinality({p} \cap gone)

Conserved == known => \A p \in 1..typed : Places(p) = 1

(* The refusals of a queued prompt's own submissions.                      *)
Refusals(p) ==
    Cardinality({k \in PostIds : /\ posts[k].via = "flush" /\ posts[k].client = "rejected"
                                 /\ p \in ToSet(posts[k].entries)})

(* A queued prompt that could not be sent is given up only after           *)
(* MAX_QUEUE_FLUSH_FAILURES refusals of its own, whatever was reordered,   *)
(* refused or sent in between; the user may take it back before.           *)
GivenUpAfterBudget ==
    [][\A p \in gone' \ gone :
          \/ p \in ToSet(queue)
          \/ \E k \in PostIds : p \in ToSet(posts[k].typed)
          \/ Refusals(p)' >= FlushBudget]_vars

(* The daemon never holds a prompt twice.                                  *)
NeverRunsTwice ==
    \A p \in 1..typed :
        Cardinality({k \in PostIds : /\ posts[k].daemon \in {"started", "queued"}
                                     /\ p \in ToSet(Carries(k))}) <= 1

(* At most one queued prompt is drained for each end of a turn or of a     *)
(* prompt that got none (finishPromptLocal), however often it is learnt,   *)
(* overheard or missed.  Only a snapshot that must be applied although it  *)
(* is overtaken may drain without one: it can show the session before a    *)
(* turn that the client has already seen start.                            *)
OneDrainPerEnd == credit >= 0

(* The flag was raised last by a prompt that a hook blocked, and the only  *)
(* event about it was handled before the answer had told the prompt's id,  *)
(* or after Stop had deleted it.                                           *)
BlockMissed ==
    \E k \in missed :
        /\ posts[k].via # "steer"
        /\ \A later \in PostIds : later > k => posts[later].via = "steer"

(* The working state always has an end in sight: a submission unanswered,  *)
(* a turn or parked prompt at the daemon, an end not yet received, or a    *)
(* snapshot to come; but for BlockMissed, where the code falls short of    *)
(* the comment at useKimiWebClient.ts:1001 and the flag sticks.            *)
InFlightBacked ==
    (inFlight /\ live /\ ~required /\ ~BlockMissed) =>
        \/ \E k \in PostIds : Waiting(k) /\ posts[k].via # "steer"
        \/ running # None
        \/ \E i \in DOMAIN feed : feed[i].type \in Ends

(* ... and that end comes: the session does not stay busy for good, except *)
(* for BlockMissed, where the bound on submissions stops the model, or     *)
(* where it was evicted.                                                   *)
InFlightEnds ==
    inFlight ~> (~inFlight \/ ~live \/ BlockMissed \/ (~CanPost /\ queue # <<>>))

(* The next two state what comments of the code say; they do not hold.     *)

(* Two prompts are never submitted at the same time.                       *)
OneUnansweredSend ==
    Cardinality({k \in PostIds : Waiting(k) /\ posts[k].via # "steer"}) <= 1

(* A forgotten session's queue is not resurrected.                         *)
ForgottenQueueStaysEmpty == ~known => queue = <<>>
============================================================================
