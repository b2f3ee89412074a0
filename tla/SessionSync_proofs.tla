------------------------ MODULE SessionSync_proofs ------------------------
(***************************************************************************)
(* Proofs about SessionSync: no snapshot wipes a prompt the user has sent, *)
(* a resync that was announced always has a request or a callback that     *)
(* will carry it out, and once everything has settled the client's copy is *)
(* the daemon's.                                                           *)
(***************************************************************************)
EXTENDS SessionSync, TLAPS, SequenceTheorems

(* A prompt the client still answers for.                                  *)
Open == {"sent", "accepted", "refused"}
Live == Open \cup {"done"}

(* A snapshot request r cannot wipe a prompt, given the generation g and   *)
(* the posts ps: unless its application is refused (isLocalTurnSnapshot-   *)
(* Current), every live prompt was accepted before the daemon read r.      *)
Harmless(r, g, ps) ==
    /\ r.phase \in {"idle", "sent", "answered"}
    /\ r.phase # "idle" =>
        /\ r.generation = 0 \/ (r.generation \in Prompts /\ ps[r.generation] # "none")
        /\ (~r.pending /\ r.generation = g) =>
             \A p \in Prompts : ps[p] \in Live =>
                 ps[p] = "done" /\ (r.phase = "answered" => p \in r.own)

(* What the proof of OwnPromptsShown rests on.                             *)
PostsTyped ==
    /\ DOMAIN post = Prompts
    /\ generation = 0 \/ (generation \in Prompts /\ post[generation] # "none")

OpenIsPending == \A p \in Prompts : post[p] \in Open => p \in pending

AcceptedIsKept == \A p \in Prompts : post[p] \in {"accepted", "done"} => p \in accepted

FetchesHarmless ==
    /\ DOMAIN fetch = Fetchers
    /\ \A f \in Fetchers : Harmless(fetch[f], generation, post)

PromptInv ==
    /\ OwnPromptsShown
    /\ PostsTyped
    /\ OpenIsPending
    /\ AcceptedIsKept
    /\ FetchesHarmless

----------------------------------------------------------------------------
(* A new request is harmless when the prompts it takes for pending include *)
(* all the open ones.                                                      *)
LEMMA NewFetchHarmless ==
    ASSUME NEW open, NEW ps,
           generation = 0 \/ (generation \in Prompts /\ ps[generation] # "none"),
           \A p \in Prompts : ps[p] \in Open => p \in open
    PROVE  Harmless(NewFetch(open), generation, ps)
  BY DEF Harmless, NewFetch, Live, Open

LEMMA IdleHarmless == ASSUME NEW g, NEW ps PROVE Harmless(Idle, g, ps)
  BY DEF Harmless, Idle

(* The runner's two operations (snapshotSync.ts) keep all requests         *)
(* harmless.                                                               *)
LEMMA RequestedHarmless ==
    ASSUME NEW fs, NEW mark, NEW open, NEW ps,
           DOMAIN fs = Fetchers,
           \A f \in Fetchers : Harmless(fs[f], generation, ps),
           Harmless(NewFetch(open), generation, ps)
    PROVE  LET fq == Requested(<<fs, mark>>, open) IN
             /\ DOMAIN fq[1] = Fetchers
             /\ \A f \in Fetchers : Harmless(fq[1][f], generation, ps)
  BY DEF Requested, Fetchers

LEMMA SettledHarmless ==
    ASSUME NEW fs, NEW mark, NEW f \in Fetchers, NEW ps,
           DOMAIN fs = Fetchers,
           \A g \in Fetchers : Harmless(fs[g], generation, ps),
           Harmless(NewFetch(pending), generation, ps)
    PROVE  LET fq == Settled(<<fs, mark>>, f) IN
             /\ DOMAIN fq[1] = Fetchers
             /\ \A g \in Fetchers : Harmless(fq[1][g], generation, ps)
  BY IdleHarmless DEF Settled, Fetchers

----------------------------------------------------------------------------
(* What requests do to the whole state, step by step.                      *)

LEMMA RequestKeepsHarmless ==
    ASSUME PromptInv, NEW open, NEW ps, NEW fs, NEW mark,
           SetFetch(Requested(<<fs, mark>>, open)),
           DOMAIN fs = Fetchers, \A f \in Fetchers : Harmless(fs[f], generation, ps),
           generation = 0 \/ (generation \in Prompts /\ ps[generation] # "none"),
           \A p \in Prompts : ps[p] \in Open => p \in open
    PROVE  DOMAIN fetch' = Fetchers /\ \A f \in Fetchers : Harmless(fetch'[f], generation, ps)
  <1>1. Harmless(NewFetch(open), generation, ps)
    BY NewFetchHarmless
  <1> QED BY <1>1, RequestedHarmless DEF SetFetch

LEMMA SettleKeepsHarmless ==
    ASSUME PromptInv, NEW fs, NEW mark, NEW f \in Fetchers,
           SetFetch(Settled(<<fs, mark>>, f)),
           DOMAIN fs = Fetchers, \A g \in Fetchers : Harmless(fs[g], generation, post)
    PROVE  DOMAIN fetch' = Fetchers /\ \A g \in Fetchers : Harmless(fetch'[g], generation, post)
  <1>1. Harmless(NewFetch(pending), generation, post)
    BY NewFetchHarmless DEF PromptInv, PostsTyped, OpenIsPending
  <1> QED BY <1>1, SettledHarmless DEF SetFetch

(* Steps that leave the local turns and what the daemon has accepted alone *)
(* preserve the invariant when they keep the requests harmless.            *)
LEMMA FetchStep ==
    ASSUME PromptInv, UNCHANGED <<generation, pending, post>>, UNCHANGED accepted,
           UNCHANGED shown,
           DOMAIN fetch' = Fetchers, \A f \in Fetchers : Harmless(fetch'[f], generation, post)
    PROVE  PromptInv'
  BY DEF PromptInv, OwnPromptsShown, PostsTyped, OpenIsPending, AcceptedIsKept, FetchesHarmless, Open, Live

(* Steps that touch none of it.                                            *)
LEMMA OtherStep ==
    ASSUME PromptInv, UNCHANGED <<generation, pending, post, accepted, shown, fetch>>
    PROVE  PromptInv'
  BY FetchStep DEF PromptInv, FetchesHarmless

----------------------------------------------------------------------------
(* The steps that do change it.                                            *)

LEMMA AnswerStep ==
    ASSUME PromptInv, NEW f \in Fetchers, AnswerSnapshot(f)
    PROVE  PromptInv'
  <1>1. /\ DOMAIN fetch' = Fetchers
        /\ \A g \in Fetchers \ {f} : fetch'[g] = fetch[g]
        /\ fetch'[f].phase = "answered" /\ fetch'[f].own = accepted
        /\ fetch'[f].generation = fetch[f].generation /\ fetch'[f].pending = fetch[f].pending
    BY DEF AnswerSnapshot, PromptInv, FetchesHarmless
  <1>2. Harmless(fetch'[f], generation, post)
    BY <1>1 DEF AnswerSnapshot, PromptInv, FetchesHarmless, AcceptedIsKept, Harmless
  <1>3. \A g \in Fetchers : Harmless(fetch'[g], generation, post)
    BY <1>1, <1>2 DEF PromptInv, FetchesHarmless
  <1> QED
    BY <1>1, <1>3, FetchStep DEF AnswerSnapshot, daemonVars, copyVars, turnVars

(* An applied snapshot passed IsLocalTurnCurrent, so it holds every live   *)
(* prompt.                                                                 *)
LEMMA ApplyStep ==
    ASSUME PromptInv, NEW f \in Fetchers, ApplySnapshot(f)
    PROVE  PromptInv'
  <1>1. \A p \in Prompts : post[p] \in Live => p \in fetch[f].own
    BY DEF ApplySnapshot, IsLocalTurnCurrent, PromptInv, FetchesHarmless, Harmless
  <1>2. shown' = fetch[f].own /\ UNCHANGED <<generation, pending, post, accepted>>
    BY DEF ApplySnapshot, turnVars, daemonVars
  <1>3. SetFetch(Settled(<<fetch, queued>>, f))
    BY DEF ApplySnapshot
  <1>4. DOMAIN fetch' = Fetchers /\ \A g \in Fetchers : Harmless(fetch'[g], generation, post)
    BY <1>3, SettleKeepsHarmless DEF PromptInv, FetchesHarmless
  <1>5. OwnPromptsShown'
    BY <1>1, <1>2 DEF OwnPromptsShown, Live, Open
  <1>6. FetchesHarmless'
    BY <1>2, <1>4 DEF FetchesHarmless
  <1> QED
    BY <1>2, <1>5, <1>6 DEF PromptInv, PostsTyped, OpenIsPending, AcceptedIsKept

(* A new prompt's generation is one no request in flight was made under.   *)
LEMMA BeginStep ==
    ASSUME PromptInv, NEW p \in Prompts, BeginTurn(p)
    PROVE  PromptInv'
  <1>1. /\ DOMAIN post' = Prompts /\ post'[p] = "sent" /\ post[p] = "none"
        /\ \A q \in Prompts \ {p} : post'[q] = post[q]
        /\ generation' = p /\ pending' = pending \cup {p} /\ shown' = shown \cup {p}
        /\ UNCHANGED <<accepted, fetch>>
    BY DEF BeginTurn, PromptInv, PostsTyped, daemonVars, fetchVars
  <1>2. p # 0
    BY DEF Prompts
  <1>3. ASSUME NEW f \in Fetchers
        PROVE  Harmless(fetch'[f], generation', post')
    <2>1. Harmless(fetch[f], generation, post)
      BY DEF PromptInv, FetchesHarmless
    <2> QED BY <1>1, <1>2, <2>1 DEF Harmless
  <1>4. OwnPromptsShown' /\ PostsTyped' /\ OpenIsPending' /\ AcceptedIsKept'
    BY <1>1 DEF PromptInv, OwnPromptsShown, PostsTyped, OpenIsPending, AcceptedIsKept, Open
  <1> QED BY <1>1, <1>3, <1>4 DEF PromptInv, FetchesHarmless

LEMMA DecideStep ==
    ASSUME PromptInv, NEW p \in Prompts, DecidePrompt(p)
    PROVE  PromptInv'
  <1>1. /\ DOMAIN post' = Prompts /\ post[p] = "sent" /\ post'[p] \in {"accepted", "refused"}
        /\ \A q \in Prompts \ {p} : post'[q] = post[q]
        /\ post'[p] = "accepted" => p \in accepted'
        /\ accepted \subseteq accepted'
        /\ UNCHANGED <<generation, pending, shown, fetch>>
    BY DEF DecidePrompt, PromptInv, PostsTyped, copyVars, fetchVars
  <1>2. ASSUME NEW f \in Fetchers
        PROVE  Harmless(fetch'[f], generation', post')
    <2>1. Harmless(fetch[f], generation, post)
      BY DEF PromptInv, FetchesHarmless
    <2> QED BY <1>1, <2>1 DEF Harmless, Live, Open
  <1>3. OwnPromptsShown' /\ PostsTyped' /\ OpenIsPending' /\ AcceptedIsKept'
    BY <1>1 DEF PromptInv, OwnPromptsShown, PostsTyped, OpenIsPending, AcceptedIsKept, Open
  <1> QED BY <1>1, <1>2, <1>3 DEF PromptInv, FetchesHarmless

(* Answering a prompt settles it; the request the callback makes is for    *)
(* the prompts still pending then, of which there are none.                *)
LEMMA AnsweredStep ==
    ASSUME PromptInv, NEW p \in Prompts, PromptAnswered(p)
    PROVE  PromptInv'
  <1>1. /\ DOMAIN post' = Prompts /\ post[p] \in Open
        /\ \A q \in Prompts \ {p} : post'[q] = post[q]
        /\ \/ post'[p] = "done" /\ post[p] = "accepted" /\ shown' = shown
           \/ post'[p] = "failed" /\ shown' = shown \ {p}
        /\ pending' = pending \ {p}
        /\ UNCHANGED <<generation, accepted>>
    BY DEF PromptAnswered, SettleTurn, PromptInv, PostsTyped, Open, daemonVars
  <1>2. OwnPromptsShown' /\ PostsTyped' /\ OpenIsPending' /\ AcceptedIsKept'
    BY <1>1 DEF PromptInv, OwnPromptsShown, PostsTyped, OpenIsPending, AcceptedIsKept, Open
  <1>3. \A f \in Fetchers : Harmless(fetch[f], generation, post')
    BY <1>1 DEF PromptInv, FetchesHarmless, Harmless, Live, Open
  <1>4. DOMAIN fetch' = Fetchers /\ \A f \in Fetchers : Harmless(fetch'[f], generation, post')
    <2>1. CASE UNCHANGED fetch
      BY <1>3, <2>1 DEF PromptInv, FetchesHarmless
    <2>2. CASE SetFetch(Requested(<<fetch, queued>>, pending'))
      BY <1>1, <1>2, <1>3, <2>2, RequestKeepsHarmless
         DEF PromptInv, FetchesHarmless, PostsTyped, OpenIsPending
    <2> QED BY <2>1, <2>2 DEF PromptAnswered, SettleTurn
  <1> QED BY <1>1, <1>2, <1>4 DEF PromptInv, FetchesHarmless

LEMMA ForgetStep ==
    ASSUME PromptInv, ForgetSession
    PROVE  PromptInv'
  <1>1. /\ DOMAIN post' = Prompts
        /\ \A p \in Prompts : post'[p] = IF post[p] = "none" THEN "none" ELSE "dropped"
        /\ generation' = 0
        /\ UNCHANGED fetch
    BY DEF ForgetSession
  <1>2. \A f \in Fetchers : Harmless(fetch[f], 0, post')
    BY <1>1 DEF PromptInv, FetchesHarmless, Harmless, Live, Open
  <1> QED
    BY <1>1, <1>2 DEF PromptInv, OwnPromptsShown, PostsTyped, OpenIsPending, AcceptedIsKept,
                      FetchesHarmless, Open

(* Steps that only make or settle requests.                                *)
LEMMA ReceiveResyncStep ==
    ASSUME PromptInv, ReceiveResync
    PROVE  PromptInv'
  <1>1. SetFetch(Requested(<<fetch, queued>>, pending))
    BY DEF ReceiveResync
  <1>2. DOMAIN fetch' = Fetchers /\ \A f \in Fetchers : Harmless(fetch'[f], generation, post)
    BY <1>1, RequestKeepsHarmless DEF PromptInv, FetchesHarmless, PostsTyped, OpenIsPending
  <1> QED BY <1>2, FetchStep DEF ReceiveResync, daemonVars, copyVars, turnVars

LEMMA OpenSessionStep ==
    ASSUME PromptInv, OpenSession
    PROVE  PromptInv'
  <1>1. Harmless(NewFetch(pending), generation, post)
    BY NewFetchHarmless DEF PromptInv, PostsTyped, OpenIsPending
  <1>2. DOMAIN fetch' = Fetchers /\ \A f \in Fetchers : Harmless(fetch'[f], generation, post)
    BY <1>1 DEF OpenSession, PromptInv, FetchesHarmless, Fetchers
  <1> QED BY <1>2, FetchStep DEF OpenSession, daemonVars, copyVars, turnVars

LEMMA RecoverStep ==
    ASSUME PromptInv, RecoverStaleConnection
    PROVE  PromptInv'
  <1>1. CASE SetFetch(Requested(<<fetch, queued>>, pending))
    <2>1. DOMAIN fetch' = Fetchers /\ \A f \in Fetchers : Harmless(fetch'[f], generation, post)
      BY <1>1, RequestKeepsHarmless DEF PromptInv, FetchesHarmless, PostsTyped, OpenIsPending
    <2> QED BY <2>1, FetchStep DEF RecoverStaleConnection, daemonVars, copyVars, turnVars
  <1>2. CASE UNCHANGED fetch
    BY <1>2, OtherStep DEF RecoverStaleConnection, daemonVars, copyVars, turnVars
  <1> QED BY <1>1, <1>2 DEF RecoverStaleConnection

LEMMA SettleStep ==
    ASSUME PromptInv, NEW f \in Fetchers,
           SnapshotOfForgotten(f) \/ DropStaleSnapshot(f) \/ DeferSnapshot(f) \/ SnapshotFails(f)
    PROVE  PromptInv'
  <1>1. PICK fs, mark :
            /\ SetFetch(Settled(<<fs, mark>>, f))
            /\ <<fs, mark>> \in {<<fetch, queued>>, Requested(<<fetch, queued>>, pending)}
    <2>1. Requested(<<fetch, queued>>, pending) =
            <<Requested(<<fetch, queued>>, pending)[1], Requested(<<fetch, queued>>, pending)[2]>>
      BY DEF Requested
    <2> QED BY <2>1 DEF SnapshotOfForgotten, DropStaleSnapshot, DeferSnapshot, SnapshotFails
  <1>2. Harmless(NewFetch(pending), generation, post)
    BY NewFetchHarmless DEF PromptInv, PostsTyped, OpenIsPending
  <1>3. DOMAIN fs = Fetchers /\ \A g \in Fetchers : Harmless(fs[g], generation, post)
    BY <1>1, <1>2, RequestedHarmless DEF PromptInv, FetchesHarmless
  <1>4. DOMAIN fetch' = Fetchers /\ \A g \in Fetchers : Harmless(fetch'[g], generation, post)
    BY <1>1, <1>3, SettleKeepsHarmless
  <1>5. UNCHANGED <<generation, pending, post, accepted, shown>>
    BY DEF SnapshotOfForgotten, DropStaleSnapshot, DeferSnapshot, SnapshotFails,
           daemonVars, copyVars, turnVars
  <1> QED BY <1>4, <1>5, FetchStep

----------------------------------------------------------------------------

LEMMA InitPrompts == Init => PromptInv
  BY IdleHarmless DEF Init, PromptInv, OwnPromptsShown, PostsTyped, OpenIsPending,
                      AcceptedIsKept, FetchesHarmless, Open

LEMMA StepPrompts == PromptInv /\ [Next]_vars => PromptInv'
  <1> SUFFICES ASSUME PromptInv, [Next]_vars
               PROVE  PromptInv'
    OBVIOUS
  <1>1. ASSUME NEW kind \in Kinds, EmitEvent(kind)
        PROVE  PromptInv'
    BY <1>1, OtherStep DEF EmitEvent, copyVars, fetchVars, turnVars
  <1>2. CASE Restart \/ ConnectionLost
    BY <1>2, OtherStep DEF Restart, ConnectionLost, daemonVars, copyVars, fetchVars, turnVars
  <1>3. CASE ServeFrame \/ ReconnectTimer \/ ServerHello
    BY <1>3, OtherStep DEF ServeFrame, ReconnectTimer, ServerHello, daemonVars, copyVars,
                           fetchVars, turnVars
  <1>4. CASE ReceiveEvent
    BY <1>4, OtherStep DEF ReceiveEvent, daemonVars, fetchVars, turnVars
  <1>5. CASE ReceiveResync
    BY <1>5, ReceiveResyncStep
  <1>6. ASSUME NEW f \in Fetchers, Snapshots(f) \/ SnapshotFails(f)
        PROVE  PromptInv'
    BY <1>6, AnswerStep, ApplyStep, SettleStep DEF Snapshots
  <1>7. CASE OpenSession
    BY <1>7, OpenSessionStep
  <1>8. CASE RecoverStaleConnection
    BY <1>8, RecoverStep
  <1>9. CASE Evict \/ Relist
    BY <1>9, OtherStep DEF Evict, Relist, daemonVars, copyVars, fetchVars, turnVars
  <1>10. CASE ForgetSession
    BY <1>10, ForgetStep
  <1>11. ASSUME NEW p \in Prompts, BeginTurn(p) \/ DecidePrompt(p) \/ PromptAnswered(p)
         PROVE  PromptInv'
    BY <1>11, BeginStep, DecideStep, AnsweredStep
  <1>12. CASE UNCHANGED vars
    BY <1>12, OtherStep DEF vars, daemonVars, copyVars, fetchVars, turnVars
  <1> QED
    BY <1>1, <1>2, <1>3, <1>4, <1>5, <1>6, <1>7, <1>8, <1>9, <1>10, <1>11, <1>12
       DEF Next, Network

(* A prompt the user has sent stays in the transcript until the daemon     *)
(* refuses it, however many prompts, requests, resyncs and disturbances.   *)
THEOREM PromptsNeverWiped == Spec => []OwnPromptsShown
  <1>1. PromptInv => OwnPromptsShown
    BY DEF PromptInv
  <1> QED BY InitPrompts, StepPrompts, <1>1, PTL DEF Spec

----------------------------------------------------------------------------
(* A resync keeps a driver.  A session that is gone has no copy (knownEpoch *)
(* is cleared with it), so one that is listed again owes no resync.        *)

ResyncInv ==
    /\ ResyncHasDriver
    /\ DOMAIN fetch = Fetchers
    /\ ~known => knownEpoch = 0

(* A request leaves the runner busy, and so does settling a marked call.   *)
LEMMA NewFetchBusy == ASSUME NEW open PROVE NewFetch(open) # Idle
  BY DEF NewFetch, Idle

LEMMA RequestedBusy ==
    ASSUME NEW fs, NEW mark, NEW open, DOMAIN fs = Fetchers
    PROVE  LET fq == Requested(<<fs, mark>>, open) IN
             /\ DOMAIN fq[1] = Fetchers
             /\ fq[1].runner # Idle
             /\ fs.runner # Idle => fq[2] = TRUE
  BY NewFetchBusy DEF Requested, Fetchers

LEMMA SettledDomain ==
    ASSUME NEW fs, NEW mark, NEW f \in Fetchers, DOMAIN fs = Fetchers
    PROVE  DOMAIN Settled(<<fs, mark>>, f)[1] = Fetchers
  BY DEF Settled

(* A call that asks for another and then settles leaves the runner busy.   *)
LEMMA RetryBusy ==
    ASSUME NEW fs, NEW mark, NEW f \in Fetchers, DOMAIN fs = Fetchers, fs[f] # Idle
    PROVE  Settled(Requested(<<fs, mark>>, pending), f)[1].runner # Idle
  <1> DEFINE fq == Requested(<<fs, mark>>, pending)
  <1>1. CASE f = "runner"
    <2>1. DOMAIN fq[1] = Fetchers /\ fq[2] = TRUE
      BY <1>1, RequestedBusy
    <2>2. Settled(fq, f)[1] = [fq[1] EXCEPT ![f] = NewFetch(pending)]
      BY <1>1, <2>1 DEF Settled
    <2> QED BY <1>1, <2>1, <2>2, NewFetchBusy DEF Fetchers
  <1>2. CASE f # "runner"
    BY <1>2, RequestedBusy DEF Settled, Fetchers
  <1> QED BY <1>1, <1>2

(* Steps that leave requests, callback and copy alone.                     *)
LEMMA ResyncOtherStep ==
    ASSUME ResyncInv, UNCHANGED <<known, knownEpoch, fetch, settleCallback>>,
           UNCHANGED <<requiringSnapshot, gaveUp>>
    PROVE  ResyncInv'
  BY DEF ResyncInv, ResyncHasDriver

(* Steps after which the runner is busy.                                   *)
LEMMA ResyncRequestStep ==
    ASSUME ResyncInv, NEW open, SetFetch(Requested(<<fetch, queued>>, open)),
           UNCHANGED <<known, knownEpoch>>
    PROVE  ResyncInv'
  <1>1. DOMAIN fetch' = Fetchers /\ fetch'.runner # Idle
    BY RequestedBusy DEF SetFetch, ResyncInv
  <1> QED BY <1>1 DEF ResyncInv, ResyncHasDriver, Fetchers

LEMMA ResyncSettleStep ==
    ASSUME ResyncInv, NEW f \in Fetchers,
           \/ SnapshotOfForgotten(f) \/ DropStaleSnapshot(f) \/ DeferSnapshot(f)
           \/ ApplySnapshot(f) \/ SnapshotFails(f)
    PROVE  ResyncInv'
  <1>1. DOMAIN Requested(<<fetch, queued>>, pending)[1] = Fetchers
    BY RequestedBusy DEF ResyncInv
  <1>2. Requested(<<fetch, queued>>, pending) =
          <<Requested(<<fetch, queued>>, pending)[1], Requested(<<fetch, queued>>, pending)[2]>>
    BY DEF Requested
  <1>3. DOMAIN Settled(<<fetch, queued>>, f)[1] = Fetchers
    BY SettledDomain DEF ResyncInv
  <1>4. DOMAIN Settled(Requested(<<fetch, queued>>, pending), f)[1] = Fetchers
    BY <1>1, <1>2, SettledDomain
  <1>5. DOMAIN fetch' = Fetchers
    BY <1>3, <1>4 DEF SnapshotOfForgotten, DropStaleSnapshot, DeferSnapshot, ApplySnapshot,
                      SnapshotFails, SetFetch
  <1>6. CASE SnapshotOfForgotten(f)
    BY <1>5, <1>6 DEF SnapshotOfForgotten, copyVars, ResyncInv, ResyncHasDriver
  <1>7. CASE DropStaleSnapshot(f)
    BY <1>5, <1>7 DEF DropStaleSnapshot, IsStale, MustApply, copyVars, ResyncInv, ResyncHasDriver
  <1>8. CASE DeferSnapshot(f)
    <2>1. CASE pending # {}
      BY <1>5, <1>8, <2>1 DEF DeferSnapshot, copyVars, ResyncInv, ResyncHasDriver
    <2>2. CASE pending = {}
      <3>1. fetch[f] # Idle
        BY <1>8 DEF DeferSnapshot, Idle
      <3>2. fetch'.runner # Idle
        BY <1>8, <2>2, <3>1, RetryBusy DEF DeferSnapshot, SetFetch, ResyncInv
      <3> QED BY <1>5, <1>8, <3>2 DEF DeferSnapshot, copyVars, ResyncInv, ResyncHasDriver, Fetchers
    <2> QED BY <2>1, <2>2
  <1>9. CASE ApplySnapshot(f)
    BY <1>5, <1>9 DEF ApplySnapshot, ResyncInv, ResyncHasDriver
  <1>10. CASE SnapshotFails(f)
    BY <1>5, <1>10 DEF SnapshotFails, copyVars, ResyncInv, ResyncHasDriver
  <1> QED BY <1>6, <1>7, <1>8, <1>9, <1>10

LEMMA ResyncAnswerStep ==
    ASSUME ResyncInv, NEW f \in Fetchers, AnswerSnapshot(f)
    PROVE  ResyncInv'
  <1>1. /\ DOMAIN fetch' = Fetchers
        /\ \A g \in Fetchers \ {f} : fetch'[g] = fetch[g]
        /\ fetch'[f] # Idle
    BY DEF AnswerSnapshot, ResyncInv, Idle
  <1>2. \A g \in Fetchers : fetch[g] # Idle => fetch'[g] # Idle
    BY <1>1
  <1> QED BY <1>1, <1>2 DEF AnswerSnapshot, copyVars, turnVars, ResyncInv, ResyncHasDriver

LEMMA StepResync == ResyncInv /\ [Next]_vars => ResyncInv'
  <1> SUFFICES ASSUME ResyncInv, [Next]_vars
               PROVE  ResyncInv'
    OBVIOUS
  <1>1. ASSUME NEW kind \in Kinds, EmitEvent(kind)
        PROVE  ResyncInv'
    BY <1>1, ResyncOtherStep DEF EmitEvent, copyVars, fetchVars, turnVars
  <1>2. CASE Restart \/ ConnectionLost
    BY <1>2, ResyncOtherStep DEF Restart, ConnectionLost, copyVars, fetchVars, turnVars
  <1>3. CASE ServeFrame \/ ReconnectTimer \/ ServerHello
    BY <1>3, ResyncOtherStep DEF ServeFrame, ReconnectTimer, ServerHello, copyVars, fetchVars,
                                 turnVars
  <1>4. CASE ReceiveEvent
    BY <1>4, ResyncOtherStep DEF ReceiveEvent, fetchVars, turnVars
  <1>5. CASE ReceiveResync
    BY <1>5, ResyncRequestStep DEF ReceiveResync, copyVars
  <1>6. ASSUME NEW f \in Fetchers, Snapshots(f) \/ SnapshotFails(f)
        PROVE  ResyncInv'
    BY <1>6, ResyncAnswerStep, ResyncSettleStep DEF Snapshots
  <1>7. CASE OpenSession
    <2>1. DOMAIN fetch' = Fetchers /\ fetch'.direct # Idle
      BY <1>7, NewFetchBusy DEF OpenSession, ResyncInv, Fetchers
    <2> QED BY <1>7, <2>1 DEF OpenSession, copyVars, ResyncInv, ResyncHasDriver, Fetchers
  <1>8. CASE RecoverStaleConnection
    <2>1. CASE SetFetch(Requested(<<fetch, queued>>, pending))
      BY <1>8, <2>1, ResyncRequestStep DEF RecoverStaleConnection, copyVars
    <2>2. CASE UNCHANGED fetch
      BY <1>8, <2>2, ResyncOtherStep DEF RecoverStaleConnection, copyVars, turnVars
    <2> QED BY <1>8, <2>1, <2>2 DEF RecoverStaleConnection
  <1>9. CASE Evict
    BY <1>9, ResyncOtherStep DEF Evict, copyVars, fetchVars, turnVars
  <1>10. CASE ForgetSession
    BY <1>10 DEF ForgetSession, ResyncInv, ResyncHasDriver
  <1>11. CASE Relist
    BY <1>11 DEF Relist, fetchVars, turnVars, ResyncInv, ResyncHasDriver
  <1>12. ASSUME NEW p \in Prompts, BeginTurn(p) \/ DecidePrompt(p)
         PROVE  ResyncInv'
    BY <1>12, ResyncOtherStep DEF BeginTurn, DecidePrompt, copyVars, fetchVars
  <1>13. ASSUME NEW p \in Prompts, PromptAnswered(p)
         PROVE  ResyncInv'
    <2>1. CASE SetFetch(Requested(<<fetch, queued>>, pending'))
      BY <1>13, <2>1, ResyncRequestStep DEF PromptAnswered
    <2>2. CASE UNCHANGED <<settleCallback, fetch>>
      BY <1>13, <2>2, ResyncOtherStep DEF PromptAnswered
    <2> QED BY <1>13, <2>1, <2>2 DEF PromptAnswered, SettleTurn
  <1>14. CASE UNCHANGED vars
    BY <1>14, ResyncOtherStep DEF vars, copyVars, fetchVars, turnVars
  <1> QED
    BY <1>1, <1>2, <1>3, <1>4, <1>5, <1>6, <1>7, <1>8, <1>9, <1>10, <1>11, <1>12, <1>13, <1>14
       DEF Next, Network

(* Until a snapshot is applied or a request fails, a resync that was       *)
(* announced has a request in flight or a callback waiting for a prompt.   *)
THEOREM ResyncDriven == Spec => []ResyncHasDriver
  <1>1. Init => ResyncInv
    BY DEF Init, ResyncInv, ResyncHasDriver
  <1>2. ResyncInv => ResyncHasDriver
    BY DEF ResyncInv
  <1> QED BY <1>1, StepResync, <1>2, PTL DEF Spec

----------------------------------------------------------------------------
(* The daemon's journal only grows: what was true of an event of an epoch  *)
(* stays true.                                                             *)

Journal ==
    /\ log \in Seq(Kinds) /\ base \in Seq(Nat)
    /\ Epoch \in Nat \ {0}
    /\ \A e \in 1..Epoch : base[e] <= LogEnd
    /\ \A d, e \in 1..Epoch : d <= e => base[d] <= base[e]

LEMMA JournalTypes ==
    ASSUME Journal
    PROVE  /\ LogEnd \in Nat /\ Epoch \in Nat \ {0} /\ Epoch \in 1..Epoch
           /\ \A e \in 1..Epoch : base[e] \in Nat /\ base[e] <= LogEnd
           /\ \A i \in 1..LogEnd : log[i] \in Kinds
           /\ log # <<>> <=> LogEnd # 0
  <1>1. LogEnd \in Nat /\ Epoch \in Nat \ {0} /\ log \in Seq(Kinds) /\ base \in Seq(Nat)
    BY LenProperties DEF Journal, LogEnd
  <1>2. \A e \in 1..Epoch : base[e] \in Nat
    BY <1>1, ElementOfSeq DEF Epoch
  <1>3. \A i \in 1..LogEnd : log[i] \in Kinds
    BY <1>1, ElementOfSeq DEF LogEnd
  <1>4. log # <<>> <=> LogEnd # 0
    BY <1>1, EmptySeq DEF LogEnd
  <1> QED BY <1>1, <1>2, <1>3, <1>4 DEF Journal

Grows ==
    \/ log' = log /\ base' = base
    \/ base' = base /\ \E kind \in Kinds : log' = Append(log, kind)
    \/ log' = log /\ base' = Append(base, LogEnd)

LEMMA JournalGrows ==
    ASSUME Journal, Grows
    PROVE  /\ Journal'
           /\ Epoch' \in Nat /\ LogEnd' \in Nat /\ Epoch <= Epoch' /\ LogEnd <= LogEnd'
           /\ \A e \in 1..Epoch : base'[e] = base[e]
           /\ \A i \in 1..LogEnd : log'[i] = log[i]
  <1>1. /\ log \in Seq(Kinds) /\ base \in Seq(Nat)
        /\ LogEnd \in Nat /\ Epoch \in Nat \ {0}
        /\ \A e \in 1..Epoch : base[e] \in Nat /\ base[e] <= LogEnd
    BY JournalTypes DEF Journal
  <1>2. CASE log' = log /\ base' = base
    BY <1>1, <1>2 DEF Journal, Epoch, LogEnd
  <1>3. ASSUME NEW kind \in Kinds, base' = base, log' = Append(log, kind)
        PROVE  /\ Journal' /\ Epoch' = Epoch /\ LogEnd' = LogEnd + 1
               /\ \A i \in 1..LogEnd : log'[i] = log[i]
    <2>1. /\ log' \in Seq(Kinds) /\ Len(log') = Len(log) + 1
          /\ \A i \in 1..Len(log) : log'[i] = log[i]
      BY <1>1, <1>3, AppendProperties
    <2>2. Epoch' = Epoch /\ LogEnd' = LogEnd + 1
      BY <1>3, <2>1 DEF Epoch, LogEnd
    <2>3. \A e \in 1..Epoch : base[e] <= LogEnd + 1
      BY <1>1
    <2> QED BY <1>1, <1>3, <2>1, <2>2, <2>3 DEF Journal, LogEnd
  <1>4. ASSUME log' = log, base' = Append(base, LogEnd)
        PROVE  /\ Journal' /\ Epoch' = Epoch + 1 /\ LogEnd' = LogEnd
               /\ \A e \in 1..Epoch : base'[e] = base[e]
    <2>1. /\ base' \in Seq(Nat) /\ Len(base') = Len(base) + 1
          /\ \A e \in 1..Len(base) : base'[e] = base[e]
          /\ base'[Len(base) + 1] = LogEnd
      BY <1>1, <1>4, AppendProperties
    <2>2. /\ Epoch' = Epoch + 1 /\ LogEnd' = LogEnd
          /\ \A e \in 1..Epoch : base'[e] = base[e]
          /\ base'[Epoch + 1] = LogEnd
      BY <1>4, <2>1 DEF Epoch, LogEnd
    <2>3. \A e \in 1..Epoch' : e \in 1..Epoch \/ e = Epoch + 1
      BY <1>1, <2>2
    <2>4. \A e \in 1..Epoch' : base'[e] <= LogEnd'
      <3>1. \A e \in 1..Epoch : base'[e] <= LogEnd
        BY <1>1, <2>2
      <3>2. base'[Epoch + 1] <= LogEnd
        BY <1>1, <2>2
      <3> QED BY <2>2, <2>3, <3>1, <3>2
    <2>5. ASSUME NEW d \in 1..Epoch', NEW e \in 1..Epoch', d <= e
          PROVE  base'[d] <= base'[e]
      <3>1. CASE e \in 1..Epoch
        <4>1. d \in 1..Epoch
          BY <1>1, <2>2, <2>5, <3>1
        <4> QED BY <2>2, <2>5, <3>1, <4>1 DEF Journal
      <3>2. CASE e = Epoch + 1
        BY <2>2, <2>4, <3>2
      <3> QED BY <2>3, <3>1, <3>2
    <2>6. /\ log' \in Seq(Kinds) /\ base' \in Seq(Nat) /\ Epoch' \in Nat \ {0}
          /\ \A e \in 1..Epoch' : base'[e] <= LogEnd'
      <3>1. Epoch' \in Nat \ {0}
        BY <1>1, <2>2
      <3> QED BY <1>1, <1>4, <2>1, <2>4, <3>1
    <2>7. Journal'
      BY <2>5, <2>6 DEF Journal
    <2> QED BY <2>2, <2>7
  <1>5. CASE \E kind \in Kinds : base' = base /\ log' = Append(log, kind)
    <2>1. /\ Journal' /\ Epoch' = Epoch /\ LogEnd' = LogEnd + 1 /\ base' = base
          /\ \A i \in 1..LogEnd : log'[i] = log[i]
      BY <1>3, <1>5
    <2> QED BY <1>1, <2>1
  <1>6. CASE log' = log /\ base' = Append(base, LogEnd)
    <2>1. /\ Journal' /\ Epoch' = Epoch + 1 /\ LogEnd' = LogEnd /\ log' = log
          /\ \A e \in 1..Epoch : base'[e] = base[e]
      BY <1>4, <1>6
    <2> QED BY <1>1, <2>1
  <1> QED BY <1>1, <1>2, <1>5, <1>6 DEF Grows, Epoch, LogEnd, Journal

(* The same with ActiveAt.                                                 *)
LEMMA ActiveStays ==
    ASSUME Journal, Grows, NEW i \in 0..LogEnd, NEW e \in 1..Epoch
    PROVE  ActiveAt(i, e)' = ActiveAt(i, e)
  <1>1. /\ LogEnd \in Nat /\ base'[e] = base[e] /\ base[e] \in Nat
        /\ \A j \in 1..LogEnd : log'[j] = log[j]
    BY JournalTypes, JournalGrows
  <1>2. \A j \in base[e] + 1 .. i : /\ j \in 1..LogEnd /\ \A k \in j + 1 .. i : k \in 1..LogEnd
    BY <1>1
  <1>3. \A j \in base[e] + 1 .. i :
          log'[j] = log[j] /\ \A k \in j + 1 .. i : log'[k] = log[k]
    BY <1>1, <1>2
  <1> QED BY <1>1, <1>3 DEF ActiveAt

(* The events of the running epoch are the ones after its start.           *)
LEMMA EpochOfRecent ==
    ASSUME Journal, NEW i \in Nat, base[Epoch] < i
    PROVE  EpochOf(i) = Epoch
  <1>1. Epoch \in 1..Epoch /\ Epoch \in Nat
    BY JournalTypes
  <1>2. ASSUME NEW e \in 1..Epoch, base[e] < i, e = Epoch \/ i <= base[e + 1]
        PROVE  e = Epoch
    <2> SUFFICES ASSUME e # Epoch PROVE FALSE
      OBVIOUS
    <2>1. e + 1 \in 1..Epoch /\ e + 1 <= Epoch
      BY <1>1
    <2>2. base[e + 1] <= base[Epoch] /\ base[e + 1] \in Nat /\ base[Epoch] \in Nat
      BY <1>1, <2>1, JournalTypes DEF Journal
    <2> QED BY <1>2, <2>2
  <1> QED BY <1>1, <1>2 DEF EpochOf

----------------------------------------------------------------------------
(* The requests: a mark needs a call, and what the daemon answered was     *)
(* true of its journal.                                                    *)

RunnerTypes == DOMAIN fetch = Fetchers /\ queued \in BOOLEAN /\ (queued => fetch.runner # Idle)

Unanswered(r) == r.phase \in {"idle", "sent"}

(* A pair like <<fetch, queued>> with no request but those of fetch and    *)
(* new ones.                                                               *)
From(fs, mark) ==
    /\ DOMAIN fs = Fetchers /\ mark \in BOOLEAN /\ (mark => fs.runner # Idle)
    /\ \A f \in Fetchers : fs[f] = fetch[f] \/ Unanswered(fs[f])

FromFetch(fq) == From(fq[1], fq[2])

LEMMA FromPair == \A fs, mark : FromFetch(<<fs, mark>>) <=> From(fs, mark)
  BY DEF FromFetch

LEMMA RequestedFrom ==
    ASSUME NEW fs, NEW mark, NEW open, FromFetch(<<fs, mark>>)
    PROVE  FromFetch(Requested(<<fs, mark>>, open))
  <1>1. Unanswered(NewFetch(open)) /\ NewFetch(open) # Idle
    BY DEF Unanswered, NewFetch, Idle
  <1>2. CASE fs.runner = Idle
    <2>1. Requested(<<fs, mark>>, open) = <<[fs EXCEPT !.runner = NewFetch(open)], mark>>
      BY <1>2 DEF Requested
    <2>2. From([fs EXCEPT !.runner = NewFetch(open)], mark)
      BY <1>1, FromPair DEF From, Fetchers
    <2> QED BY <2>1, <2>2, FromPair
  <1>3. CASE fs.runner # Idle
    <2>1. Requested(<<fs, mark>>, open) = <<fs, TRUE>>
      BY <1>3 DEF Requested
    <2>2. From(fs, TRUE)
      BY <1>3, FromPair DEF From
    <2> QED BY <2>1, <2>2, FromPair
  <1> QED BY <1>2, <1>3

LEMMA SettledFrom ==
    ASSUME NEW fs, NEW mark, NEW f \in Fetchers, FromFetch(<<fs, mark>>)
    PROVE  FromFetch(Settled(<<fs, mark>>, f))
  <1>1. Unanswered(NewFetch(pending)) /\ NewFetch(pending) # Idle /\ Unanswered(Idle)
    BY DEF Unanswered, NewFetch, Idle
  <1>2. CASE f = "runner" /\ mark
    <2>1. Settled(<<fs, mark>>, f) = <<[fs EXCEPT ![f] = NewFetch(pending)], FALSE>>
      BY <1>2 DEF Settled
    <2>2. From([fs EXCEPT ![f] = NewFetch(pending)], FALSE)
      BY <1>1, FromPair DEF From
    <2> QED BY <2>1, <2>2, FromPair
  <1>3. CASE ~(f = "runner" /\ mark)
    <2>1. Settled(<<fs, mark>>, f) = <<[fs EXCEPT ![f] = Idle], mark>>
      BY <1>3 DEF Settled
    <2>2. mark => [fs EXCEPT ![f] = Idle].runner # Idle
      BY <1>3, FromPair DEF From, Fetchers
    <2>3. From([fs EXCEPT ![f] = Idle], mark)
      BY <1>1, <2>2, FromPair DEF From
    <2> QED BY <2>1, <2>3, FromPair
  <1> QED BY <1>2, <1>3

LEMMA RunnerSteps ==
    ASSUME RunnerTypes, [Next]_vars
    PROVE  \/ FromFetch(<<fetch', queued'>>)
           \/ queued' = queued /\ \E f \in Fetchers : AnswerSnapshot(f)
  <1> DEFINE now == <<fetch, queued>>
             asked(open) == Requested(now, open)
  <1>1. FromFetch(now)
    BY FromPair DEF RunnerTypes, From
  <1>2. \A open : FromFetch(asked(open))
    BY <1>1, RequestedFrom
  <1>3. ASSUME NEW f \in Fetchers
        PROVE  FromFetch(Settled(now, f)) /\ FromFetch(Settled(asked(pending), f))
    <2>1. asked(pending) = <<asked(pending)[1], asked(pending)[2]>>
      BY DEF Requested
    <2>2. FromFetch(<<asked(pending)[1], asked(pending)[2]>>)
      BY <1>2, <2>1
    <2>3. FromFetch(Settled(<<asked(pending)[1], asked(pending)[2]>>, f))
      BY <2>2, SettledFrom
    <2> QED BY <1>1, <2>1, <2>3, SettledFrom
  <1> HIDE DEF now, asked
  <1>4. ASSUME NEW fq, SetFetch(fq), FromFetch(fq)
        PROVE  FromFetch(<<fetch', queued'>>)
    BY <1>4, FromPair DEF SetFetch, FromFetch
  <1>5. ASSUME UNCHANGED <<fetch, queued>>
        PROVE  FromFetch(<<fetch', queued'>>)
    BY <1>1, <1>5 DEF now
  <1>6. CASE OpenSession
    <2>1. fetch' = [fetch EXCEPT !.direct = NewFetch(pending)] /\ queued' = queued
      BY <1>6 DEF OpenSession
    <2>2. Unanswered(NewFetch(pending))
      BY DEF Unanswered, NewFetch
    <2>3. From(fetch', queued')
      BY <2>1, <2>2 DEF RunnerTypes, From, Fetchers
    <2> QED BY <2>3, FromPair
  <1>7. ASSUME NEW f \in Fetchers,
               \/ SnapshotOfForgotten(f) \/ DropStaleSnapshot(f) \/ DeferSnapshot(f)
               \/ ApplySnapshot(f) \/ SnapshotFails(f)
        PROVE  FromFetch(<<fetch', queued'>>)
    <2>1. SetFetch(Settled(now, f)) \/ SetFetch(Settled(asked(pending), f))
      BY <1>7 DEF SnapshotOfForgotten, DropStaleSnapshot, DeferSnapshot, ApplySnapshot,
                  SnapshotFails, now, asked
    <2> QED BY <1>3, <1>4, <2>1
  <1>8. CASE ReceiveResync \/ RecoverStaleConnection
    <2>1. SetFetch(asked(pending)) \/ UNCHANGED <<fetch, queued>>
      BY <1>8 DEF ReceiveResync, RecoverStaleConnection, now, asked
    <2> QED BY <1>2, <1>4, <1>5, <2>1
  <1>9. ASSUME NEW p \in Prompts, PromptAnswered(p)
        PROVE  FromFetch(<<fetch', queued'>>)
    <2>1. CASE SetFetch(Requested(now, pending'))
      <3>1. FromFetch(Requested(now, pending'))
        BY <1>2 DEF asked
      <3> QED BY <1>4, <2>1, <3>1
    <2>2. CASE UNCHANGED <<fetch, queued>>
      BY <1>5, <2>2
    <2> QED BY <1>9, <2>1, <2>2 DEF PromptAnswered, SettleTurn, now
  <1>10. ASSUME NEW f \in Fetchers, AnswerSnapshot(f)
         PROVE  queued' = queued
    BY <1>10 DEF AnswerSnapshot
  <1>11. ASSUME \/ \E kind \in Kinds : EmitEvent(kind)
                \/ Restart \/ ConnectionLost \/ ServeFrame \/ ReconnectTimer \/ ServerHello
                \/ ReceiveEvent \/ Evict \/ ForgetSession \/ Relist
                \/ \E p \in Prompts : BeginTurn(p) \/ DecidePrompt(p)
                \/ UNCHANGED vars
         PROVE  UNCHANGED <<fetch, queued>>
    BY <1>11 DEF EmitEvent, Restart, ConnectionLost, ServeFrame, ReconnectTimer, ServerHello,
                 ReceiveEvent, Evict, ForgetSession, Relist, BeginTurn, DecidePrompt, vars, fetchVars
  <1> QED BY <1>5, <1>6, <1>7, <1>8, <1>9, <1>10, <1>11 DEF Next, Network, Snapshots

LEMMA RunnerStays ==
    ASSUME RunnerTypes, [Next]_vars
    PROVE  RunnerTypes'
  <1>1. CASE FromFetch(<<fetch', queued'>>)
    BY <1>1, FromPair DEF From, RunnerTypes
  <1>2. ASSUME NEW f \in Fetchers, AnswerSnapshot(f), queued' = queued
        PROVE  RunnerTypes'
    <2>1. /\ DOMAIN fetch' = Fetchers /\ \A g \in Fetchers \ {f} : fetch'[g] = fetch[g]
          /\ fetch'[f] # Idle
      BY <1>2 DEF AnswerSnapshot, RunnerTypes, Idle
    <2> QED BY <1>2, <2>1 DEF RunnerTypes, Fetchers
  <1> QED BY <1>1, <1>2, RunnerSteps

(* What the daemon read of its journal stays true of it.                   *)
SnapshotTrue(r) == r.phase = "answered" =>
    /\ r.epoch \in 1..Epoch /\ r.at \in 0..LogEnd /\ base[r.epoch] <= r.at
    /\ r.active = ActiveAt(r.at, r.epoch)
    /\ r.own \subseteq Prompts

SnapshotsTrue == \A f \in Fetchers : SnapshotTrue(fetch[f])

LEMMA JournalSteps ==
    ASSUME [Next]_vars
    PROVE  Grows
  <1> USE DEF daemonVars
  <1>1. ASSUME NEW kind \in Kinds, EmitEvent(kind) PROVE Grows
    BY <1>1 DEF EmitEvent, Grows
  <1>2. CASE Restart
    BY <1>2 DEF Restart, Grows
  <1>3. CASE ConnectionLost \/ Network \/ OpenSession \/ RecoverStaleConnection
    BY <1>3 DEF ConnectionLost, Network, ServeFrame, ReconnectTimer, ServerHello, ReceiveEvent,
                ReceiveResync, OpenSession, RecoverStaleConnection, Grows
  <1>4. ASSUME NEW f \in Fetchers, Snapshots(f) \/ SnapshotFails(f) PROVE Grows
    BY <1>4 DEF Snapshots, AnswerSnapshot, SnapshotOfForgotten, DropStaleSnapshot, DeferSnapshot,
                ApplySnapshot, SnapshotFails, Grows
  <1>5. CASE Evict \/ ForgetSession \/ Relist
    BY <1>5 DEF Evict, ForgetSession, Relist, Grows
  <1>6. ASSUME NEW p \in Prompts, BeginTurn(p) \/ DecidePrompt(p) \/ PromptAnswered(p) PROVE Grows
    BY <1>6 DEF BeginTurn, DecidePrompt, PromptAnswered, Grows
  <1>7. CASE UNCHANGED vars
    BY <1>7 DEF vars, Grows
  <1> QED BY <1>1, <1>2, <1>3, <1>4, <1>5, <1>6, <1>7 DEF Next

LEMMA SnapshotStays ==
    ASSUME Journal, Grows, NEW r, SnapshotTrue(r)
    PROVE  SnapshotTrue(r)'
  <1> SUFFICES ASSUME r.phase = "answered"
               PROVE  /\ r.epoch \in 1..Epoch' /\ r.at \in 0..LogEnd' /\ base'[r.epoch] <= r.at
                      /\ r.active = ActiveAt(r.at, r.epoch)'
                      /\ r.own \subseteq Prompts
    BY DEF SnapshotTrue, ActiveAt
  <1>1. /\ r.epoch \in 1..Epoch /\ r.at \in 0..LogEnd /\ base[r.epoch] <= r.at
        /\ r.active = ActiveAt(r.at, r.epoch)
        /\ r.own \subseteq Prompts
    BY DEF SnapshotTrue
  <1>2. /\ Epoch' \in Nat /\ LogEnd' \in Nat /\ Epoch <= Epoch' /\ LogEnd <= LogEnd'
        /\ \A e \in 1..Epoch : base'[e] = base[e]
        /\ Epoch \in Nat /\ LogEnd \in Nat
    BY JournalGrows, JournalTypes
  <1>3. ActiveAt(r.at, r.epoch)' = ActiveAt(r.at, r.epoch)
    <2>1. PICK i \in 0..LogEnd, e \in 1..Epoch : i = r.at /\ e = r.epoch
      BY <1>1
    <2>2. ActiveAt(i, e)' = ActiveAt(i, e)
      BY ActiveStays
    <2> QED BY <2>1, <2>2 DEF ActiveAt
  <1>4. r.epoch \in 1..Epoch' /\ r.at \in 0..LogEnd'
    BY <1>1, <1>2
  <1>5. base'[r.epoch] <= r.at
    BY <1>1, <1>2
  <1>6. r.active = ActiveAt(r.at, r.epoch)'
    BY <1>1, <1>3, Zenon
  <1> QED BY <1>1, <1>4, <1>5, <1>6, Zenon

LEMMA SnapshotsStay ==
    ASSUME Journal, RunnerTypes, SnapshotsTrue, accepted \subseteq Prompts, [Next]_vars
    PROVE  SnapshotsTrue'
  <1>1. Grows
    BY JournalSteps
  <1>2. \A r : SnapshotTrue(r) => SnapshotTrue(r)'
    BY <1>1, SnapshotStays
  <1>3. \A r : Unanswered(r) => SnapshotTrue(r)'
    BY DEF Unanswered, SnapshotTrue
  <1>4. ASSUME NEW f \in Fetchers
        PROVE  SnapshotTrue(fetch[f])'
    <2>1. CASE FromFetch(<<fetch', queued'>>)
      <3>1. PICK r : r = fetch'[f]
        OBVIOUS
      <3>2. r = fetch[f] \/ Unanswered(r)
        BY <2>1, <3>1, FromPair DEF From
      <3>3. SnapshotTrue(r)'
        BY <1>2, <1>3, <3>2 DEF SnapshotsTrue
      <3> QED BY <3>1, <3>3 DEF SnapshotTrue
    <2>2. ASSUME NEW g \in Fetchers, AnswerSnapshot(g)
          PROVE  SnapshotTrue(fetch[f])'
      <3>1. log' = log /\ base' = base
        BY <2>2 DEF AnswerSnapshot, daemonVars
      <3>2. PICK r : r = fetch'[f]
        OBVIOUS
      <3>3. CASE f = g
        <4>1. /\ r.at = LogEnd /\ r.epoch = Epoch /\ r.active = ActiveAt(LogEnd, Epoch)
              /\ r.own = accepted
          BY <2>2, <3>2, <3>3 DEF AnswerSnapshot, RunnerTypes
        <4>2. SnapshotTrue(r)
          <5>1. LogEnd \in 0..LogEnd /\ Epoch \in 1..Epoch /\ base[Epoch] <= LogEnd
            BY JournalTypes
          <5> QED BY <4>1, <5>1 DEF SnapshotTrue
        <4> QED BY <1>2, <3>2, <4>2 DEF SnapshotTrue
      <3>4. CASE f # g
        <4>1. r = fetch[f]
          BY <2>2, <3>2, <3>4 DEF AnswerSnapshot
        <4>2. SnapshotTrue(r)'
          BY <1>2, <4>1 DEF SnapshotsTrue
        <4> QED BY <3>2, <4>2 DEF SnapshotTrue
      <3> QED BY <3>3, <3>4
    <2> QED BY <2>1, <2>2, RunnerSteps
  <1> QED BY <1>4 DEF SnapshotsTrue

----------------------------------------------------------------------------
(* The connection.                                                         *)

DownFrames ==
    [type : {"event"}, at : Nat, seq : Nat, epoch : Nat] \cup [type : {"resync"}, seq : Nat, epoch : Nat]

UpFrames == [type : {"subscribe"}, seq : Nat, epoch : Nat] \cup [type : {"unsubscribe"}]

Transit == {down[i] : i \in 1..Len(down)}

(* What is in transit tells of the running epoch, and nothing that was not.*)
FrameTrue(m) ==
    /\ m.epoch = Epoch /\ base[Epoch] + m.seq <= LogEnd
    /\ m.type = "event" => m.at = base[Epoch] + m.seq /\ m.seq > 0

Wire ==
    /\ served \in BOOLEAN /\ skipped \in BOOLEAN /\ link \in {"none", "down", "opening", "up"}
    /\ down \in Seq(DownFrames) /\ up \in Seq(UpFrames)
    /\ link # "up" => down = <<>> /\ up = <<>>
    /\ \A m \in Transit : FrameTrue(m)

LEMMA TakenFrame ==
    ASSUME Wire, down # <<>>, down' = Tail(down)
    PROVE  /\ down' \in Seq(DownFrames) /\ Head(down) \in Transit /\ Head(down) \in DownFrames
           /\ Transit' \subseteq Transit /\ Transit \subseteq Transit' \cup {Head(down)}
           /\ down' # <<>> => down'[Len(down')] = down[Len(down)]
           /\ down' = <<>> => Head(down) = down[Len(down)]
  <1>1. /\ down \in Seq(DownFrames) /\ down' \in Seq(DownFrames)
        /\ Len(down) \in Nat \ {0} /\ Len(down') = Len(down) - 1
        /\ \A i \in 1..Len(down') : down'[i] = down[i + 1]
        /\ Head(down) = down[1] /\ Head(down) \in DownFrames
    BY HeadTailProperties, EmptySeq, LenProperties DEF Wire
  <1>2. down' = <<>> <=> Len(down') = 0
    BY <1>1, EmptySeq
  <1>3. Head(down) \in Transit
    BY <1>1 DEF Transit
  <1>4. Transit' \subseteq Transit
    <2>1. \A i \in 1..Len(down') : i + 1 \in 1..Len(down)
      BY <1>1
    <2> QED BY <1>1, <2>1 DEF Transit
  <1>5. Transit \subseteq Transit' \cup {Head(down)}
    <2> SUFFICES ASSUME NEW i \in 1..Len(down), i # 1
                 PROVE  down[i] \in Transit'
      BY <1>1 DEF Transit
    <2>1. i - 1 \in 1..Len(down') /\ down'[i - 1] = down[i]
      BY <1>1
    <2> QED BY <2>1 DEF Transit
  <1>6. down' # <<>> => down'[Len(down')] = down[Len(down)]
    BY <1>1, <1>2
  <1>7. down' = <<>> => Head(down) = down[Len(down)]
    <2>1. Len(down') = 0 => Len(down) = 1
      BY <1>1
    <2> QED BY <1>1, <1>2, <2>1
  <1> QED BY <1>1, <1>3, <1>4, <1>5, <1>6, <1>7

LEMMA PutFrame ==
    ASSUME Wire, NEW m \in DownFrames, down' = Append(down, m)
    PROVE  /\ down' \in Seq(DownFrames) /\ Transit' = Transit \cup {m}
           /\ down' # <<>> /\ down'[Len(down')] = m
  <1>1. /\ down \in Seq(DownFrames) /\ down' \in Seq(DownFrames)
        /\ Len(down) \in Nat /\ Len(down') = Len(down) + 1
        /\ \A i \in 1..Len(down) : down'[i] = down[i]
        /\ down'[Len(down) + 1] = m
    BY AppendProperties, LenProperties DEF Wire
  <1>2. \A i : i \in 1..Len(down') <=> i \in 1..Len(down) \/ i = Len(down) + 1
    BY <1>1
  <1>3. down' # <<>>
    <2>1. Len(down') # 0
      BY <1>1
    <2> QED BY <1>1, <2>1, EmptySeq
  <1> QED BY <1>1, <1>2, <1>3 DEF Transit

(* A replay.                                                               *)
Replayed(i) == [type |-> "event", at |-> i, seq |-> i - base[Epoch], epoch |-> Epoch]

LEMMA ReplayedTyped ==
    ASSUME Journal, NEW i \in Nat, base[Epoch] < i
    PROVE  Replayed(i) \in DownFrames
  <1>1. i - base[Epoch] \in Nat /\ Epoch \in Nat
    BY JournalTypes
  <1> QED BY <1>1 DEF Replayed, DownFrames

LEMMA ReplayedFrames ==
    ASSUME Journal, Wire, NEW seq \in Nat,
           down' = down \o [n \in 1..(Len(log) - base[Epoch] - seq) |->
                              EventFrame(base[Epoch] + seq + n)]
    PROVE  /\ down' \in Seq(DownFrames)
           /\ Transit' = Transit \cup {Replayed(i) : i \in base[Epoch] + seq + 1 .. LogEnd}
           /\ base[Epoch] + seq >= LogEnd => down' = down
           /\ base[Epoch] + seq < LogEnd => down' # <<>> /\ down'[Len(down')] = Replayed(LogEnd)
  <1>0. PICK b : b = base[Epoch]
    OBVIOUS
  <1>1. b \in Nat /\ LogEnd \in Nat /\ Epoch \in Nat /\ b <= LogEnd
    BY <1>0, JournalTypes
  <1> DEFINE k == LogEnd - b - seq
             replay == [n \in 1..k |-> EventFrame(b + seq + n)]
  <1>2. down' = down \o replay
    BY <1>0 DEF LogEnd
  <1>3. ASSUME NEW n \in 1..k
        PROVE  EventFrame(b + seq + n) = Replayed(b + seq + n) /\ EventFrame(b + seq + n) \in DownFrames
    <2>1. b + seq + n \in Nat /\ b < b + seq + n /\ b + seq + n - b \in Nat
      BY <1>1
    <2>2. EpochOf(b + seq + n) = Epoch
      BY <1>0, <2>1, EpochOfRecent
    <2>3. EventFrame(b + seq + n) = Replayed(b + seq + n)
      BY <2>2 DEF EventFrame, Replayed, SeqOf
    <2>4. Replayed(b + seq + n) \in DownFrames
      BY <1>0, <2>1, ReplayedTyped
    <2> QED BY <2>3, <2>4
  <1>4. replay \in [1..k -> DownFrames]
    BY <1>3
  <1>5. \A n \in 1..k : replay[n] = Replayed(b + seq + n)
    BY <1>3
  <1>6. down \in Seq(DownFrames) /\ Len(down) \in Nat /\ k \in Int
    BY <1>1, LenProperties DEF Wire
  <1> HIDE DEF replay
  <1>7. CASE k <= 0
    <2>1. 1..k = 1..0 /\ b + seq >= LogEnd /\ b + seq + 1 .. LogEnd = {}
      BY <1>1, <1>7
    <2>2. replay = <<>>
      <3>1. replay \in Seq(DownFrames)
        BY <1>4, <2>1, SeqDef
      <3>2. DOMAIN replay = 1..0 /\ DOMAIN replay = 1..Len(replay) /\ Len(replay) \in Nat
        BY <1>4, <2>1, <3>1, LenProperties
      <3>3. Len(replay) = 0
        BY <3>2
      <3> QED BY <3>1, <3>3, EmptySeq
    <2>3. down' = down
      BY <1>2, <1>6, <2>2, ConcatEmptySeq
    <2>4. Transit' = Transit
      BY <2>3 DEF Transit
    <2>5. {Replayed(i) : i \in b + seq + 1 .. LogEnd} = {}
      BY <2>1
    <2>6. ~(b + seq < LogEnd)
      BY <1>1, <2>1
    <2> QED BY <1>0, <1>6, <2>3, <2>4, <2>5, <2>6
  <1>8. CASE k > 0
    <2>1. k \in Nat /\ replay \in Seq(DownFrames) /\ Len(replay) = k
      <3>1. k \in Nat
        BY <1>6, <1>8
      <3>2. replay \in Seq(DownFrames)
        BY <1>4, <3>1, SeqDef
      <3>3. DOMAIN replay = 1..k /\ DOMAIN replay = 1..Len(replay) /\ Len(replay) \in Nat
        BY <1>4, <3>2, LenProperties
      <3> QED BY <3>1, <3>2, <3>3
    <2> HIDE DEF k
    <2>2. /\ down' \in Seq(DownFrames) /\ Len(down') = Len(down) + k
          /\ \A i \in 1 .. Len(down) + k :
                down'[i] = IF i <= Len(down) THEN down[i] ELSE replay[i - Len(down)]
      <3>1. /\ down \o replay \in Seq(DownFrames)
            /\ Len(down \o replay) = Len(down) + Len(replay)
            /\ \A i \in 1 .. Len(down) + Len(replay) : (down \o replay)[i] =
                  IF i <= Len(down) THEN down[i] ELSE replay[i - Len(down)]
        BY <1>6, <2>1, ConcatProperties
      <3> QED BY <1>2, <2>1, <3>1
    <2>3. /\ \A i \in 1..Len(down) : i \in 1 .. Len(down) + k /\ i <= Len(down)
          /\ \A n \in 1..k : /\ Len(down) + n \in 1 .. Len(down) + k
                             /\ ~(Len(down) + n <= Len(down)) /\ (Len(down) + n) - Len(down) = n
          /\ \A i \in 1 .. Len(down) + k : i \in 1..Len(down) \/ i - Len(down) \in 1..k
      BY <1>6, <2>1
    <2>4. /\ \A i \in 1..Len(down) : down'[i] = down[i]
          /\ \A n \in 1..k : down'[Len(down) + n] = Replayed(b + seq + n)
          /\ \A i \in 1 .. Len(down) + k :
                ~(i <= Len(down)) => down'[i] = Replayed(b + seq + (i - Len(down)))
      BY <1>5, <1>6, <2>2, <2>3
    <2>5. Transit' \subseteq Transit \cup {Replayed(i) : i \in b + seq + 1 .. LogEnd}
      <3> SUFFICES ASSUME NEW i \in 1 .. Len(down) + k
                   PROVE  down'[i] \in Transit \cup {Replayed(j) : j \in b + seq + 1 .. LogEnd}
        BY <2>2 DEF Transit
      <3>1. CASE i <= Len(down)
        <4>1. i \in 1..Len(down)
          BY <1>6, <3>1
        <4> QED BY <2>4, <4>1 DEF Transit
      <3>2. CASE ~(i <= Len(down))
        <4>1. b + seq + (i - Len(down)) \in b + seq + 1 .. LogEnd
          BY <1>1, <1>6, <2>1, <3>2 DEF k
        <4> QED BY <2>4, <3>2, <4>1
      <3> QED BY <3>1, <3>2
    <2>6. Transit \subseteq Transit'
      <3>1. \A i \in 1..Len(down) : i \in 1..Len(down') /\ down'[i] = down[i]
        BY <2>2, <2>3, <2>4
      <3> QED BY <3>1 DEF Transit
    <2>7. ASSUME NEW i \in b + seq + 1 .. LogEnd
          PROVE  Replayed(i) \in Transit'
      <3>1. i - b - seq \in 1..k /\ b + seq + (i - b - seq) = i
        BY <1>1 DEF k
      <3>2. down'[Len(down) + (i - b - seq)] = Replayed(i)
        BY <2>4, <3>1
      <3> QED BY <2>2, <2>3, <3>1, <3>2 DEF Transit
    <2>8. Transit' = Transit \cup {Replayed(i) : i \in b + seq + 1 .. LogEnd}
      BY <2>5, <2>6, <2>7
    <2>9. down' # <<>> /\ down'[Len(down')] = Replayed(LogEnd)
      <3>1. k \in 1..k /\ b + seq + k = LogEnd /\ Len(down) + k # 0
        BY <1>1, <1>6, <1>8, <2>1 DEF k
      <3> QED BY <2>2, <2>4, <3>1, EmptySeq
    <2>10. ~(b + seq >= LogEnd)
      BY <1>1, <1>8 DEF k
    <2> QED BY <1>0, <2>2, <2>8, <2>9, <2>10
  <1>9. k <= 0 \/ k > 0
    BY <1>6
  <1> QED BY <1>7, <1>8, <1>9

LEMMA TakenRequest ==
    ASSUME Wire, up # <<>>, up' = Tail(up)
    PROVE  /\ up' \in Seq(UpFrames) /\ Head(up) \in UpFrames
           /\ up' # <<>> => up'[Len(up')] = up[Len(up)]
           /\ up' = <<>> => Head(up) = up[Len(up)]
  <1>1. /\ up \in Seq(UpFrames) /\ up' \in Seq(UpFrames)
        /\ Len(up) \in Nat \ {0} /\ Len(up') = Len(up) - 1
        /\ \A i \in 1..Len(up') : up'[i] = up[i + 1]
        /\ Head(up) = up[1] /\ Head(up) \in UpFrames
    BY HeadTailProperties, EmptySeq, LenProperties DEF Wire
  <1>2. up' = <<>> <=> Len(up') = 0
    BY <1>1, EmptySeq
  <1>3. up' # <<>> => up'[Len(up')] = up[Len(up)]
    BY <1>1, <1>2
  <1>4. up' = <<>> => Head(up) = up[Len(up)]
    <2>1. Len(up') = 0 => Len(up) = 1
      BY <1>1
    <2> QED BY <1>1, <1>2, <2>1
  <1> QED BY <1>1, <1>3, <1>4

LEMMA PutRequest ==
    ASSUME Wire, NEW m \in UpFrames, up' = Append(up, m)
    PROVE  up' \in Seq(UpFrames) /\ up' # <<>> /\ up'[Len(up')] = m
  <1>1. /\ up' \in Seq(UpFrames) /\ Len(up) \in Nat /\ Len(up') = Len(up) + 1
        /\ up'[Len(up) + 1] = m
    BY AppendProperties, LenProperties DEF Wire
  <1>2. up' # <<>>
    <2>1. Len(up') # 0
      BY <1>1
    <2> QED BY <2>1, EmptySeq
  <1> QED BY <1>1, <1>2

----------------------------------------------------------------------------
(* The client's copy and its cursor.                                       *)

Cursors == [seq : Nat, epoch : Nat]

Copy ==
    /\ cursor \in Cursors /\ (cursor = NoCursor \/ cursor.epoch \in 1..Epoch)
    /\ retained \in BOOLEAN /\ requiringSnapshot \in BOOLEAN /\ turnActive \in BOOLEAN
    /\ lastSeq \in Nat /\ knownEpoch \in 0..Epoch /\ seen \subseteq 1..LogEnd
    /\ retained => cursor # NoCursor /\ knownEpoch # 0
    /\ cursor # NoCursor /\ ~requiringSnapshot => cursor.seq = lastSeq
    /\ knownEpoch = Epoch => base[Epoch] + lastSeq <= LogEnd
    /\ link = "none" => cursor = NoCursor

(* A retained session has its subscription on the connection or at the end *)
(* of what is on its way to the daemon.                                    *)
Subscribed ==
    link = "up" /\ retained =>
        IF up = <<>> THEN served ELSE up[Len(up)].type = "subscribe"

Now == ActiveAt(LogEnd, Epoch)

LastIsWork == LogEnd # 0 /\ log[LogEnd] = "work"

(* The daemon tells every connection of a change of work, so what comes    *)
(* last in transit tells of it.                                            *)
WorkComesLast ==
    LastIsWork /\ down # <<>> =>
        down[Len(down)].type = "resync" \/ down[Len(down)].at = LogEnd

ResyncComing == \E m \in Transit : m.type = "resync"

ToCome == {m.at : m \in {x \in Transit : x.type = "event"}}

TurnRight == LastIsWork /\ down = <<>> => turnActive = Now

(* Everything the daemon has is in the copy or in transit.                 *)
Streaming ==
    /\ knownEpoch = Epoch
    /\ 1..LogEnd \subseteq seen \cup ToCome
    /\ LogEnd = base[Epoch] + lastSeq \/ LogEnd \in ToCome
    /\ TurnRight

(* The copy has everything up to where this subscription starts, so the    *)
(* replay fills it up; one of another epoch is answered by a resync.       *)
Asking(m) ==
    m.epoch = Epoch =>
        /\ knownEpoch = Epoch
        /\ 1 .. base[Epoch] + m.seq \subseteq seen
        /\ m.seq <= lastSeq
        /\ base[Epoch] + m.seq = LogEnd => TurnRight

AskingLast == up # <<>> => Asking(up[Len(up)])

OnTrack ==
    retained /\ ~requiringSnapshot /\ ~skipped =>
        /\ link # "up" => CursorHonest
        /\ link = "up" /\ ~ResyncComing => (up = <<>> => Streaming) /\ AskingLast

Sync == Wire /\ Copy /\ Subscribed /\ WorkComesLast /\ OnTrack

LEMMA NowStays == ASSUME UNCHANGED <<log, base>> PROVE Now' = Now
  BY DEF Now, ActiveAt, LogEnd, Epoch

(* Steps that touch none of it.                                            *)
LEMMA SyncOtherStep ==
    ASSUME Sync, UNCHANGED <<log, base, served, link, down, up, skipped>>,
           UNCHANGED <<cursor, retained, lastSeq, knownEpoch, turnActive, seen, requiringSnapshot>>
    PROVE  Sync'
  <1>1. Epoch' = Epoch /\ LogEnd' = LogEnd /\ Transit' = Transit /\ Now' = Now
    BY NowStays DEF Epoch, LogEnd, Transit
  <1>2. Wire' /\ Copy' /\ Subscribed' /\ WorkComesLast'
    BY <1>1 DEF Sync, Wire, Copy, Subscribed, WorkComesLast, LastIsWork, FrameTrue
  <1>3. CursorHonest' = CursorHonest
    BY DEF CursorHonest, ActiveAt
  <1>4. OnTrack'
    BY <1>1, <1>3 DEF Sync, OnTrack, ResyncComing, Streaming, AskingLast, Asking, ToCome,
                      TurnRight, LastIsWork
  <1> QED BY <1>2, <1>4 DEF Sync

(* An honest cursor stays honest while the journal grows.                  *)
LEMMA HonestStays ==
    ASSUME Journal, Grows, Copy, CursorHonest,
           UNCHANGED <<cursor, requiringSnapshot, knownEpoch, seen, turnActive>>
    PROVE  CursorHonest'
  <1>1. CASE cursor = NoCursor \/ requiringSnapshot
    BY <1>1 DEF CursorHonest
  <1>2. CASE cursor # NoCursor /\ ~requiringSnapshot
    <2>1. PICK e, at : e = cursor.epoch /\ at = base[cursor.epoch] + cursor.seq
      OBVIOUS
    <2>2. e = knownEpoch /\ 1..at \subseteq seen /\ turnActive = ActiveAt(at, e)
      BY <1>2, <2>1 DEF CursorHonest
    <2>3. e \in 1..Epoch /\ at \in 0..LogEnd
      <3>1. e \in 1..Epoch /\ at \in Nat
        BY <1>2, <2>1, JournalTypes DEF Copy, Cursors
      <3>2. at # 0 => at \in 1..at
        BY <3>1
      <3>3. at # 0 => at \in 1..LogEnd
        BY <2>2, <3>2 DEF Copy
      <3> QED BY <3>1, <3>3, JournalTypes
    <2>4. ActiveAt(at, e)' = ActiveAt(at, e)
      BY <2>3, ActiveStays
    <2>5. base'[e] = base[e]
      BY <2>3, JournalGrows
    <2> QED BY <2>1, <2>2, <2>4, <2>5 DEF CursorHonest, ActiveAt
  <1> QED BY <1>1, <1>2

(* A connection that ends takes with it what was in transit; unless the    *)
(* cursor was honest that is recorded.                                     *)
LEMMA ClosedStep ==
    ASSUME Journal, Grows, log' = log, Sync, NEW next \in {"none", "down", "opening"},
           ConnectionClosed(next), next = "none" => link = "none",
           UNCHANGED <<cursor, retained, lastSeq, knownEpoch, turnActive, seen, requiringSnapshot>>
    PROVE  Sync'
  <1> USE DEF ConnectionClosed
  <1>1. /\ link' = next /\ link' # "up" /\ down' = <<>> /\ up' = <<>>
        /\ ~skipped' => CursorHonest
    OBVIOUS
  <1>2. /\ Epoch' \in Nat /\ LogEnd' = LogEnd /\ Epoch \in Nat /\ Epoch <= Epoch'
        /\ (base' = base /\ Epoch' = Epoch) \/ Epoch' # Epoch
    <2>1. LogEnd' = LogEnd
      BY DEF LogEnd
    <2>2. Epoch' \in Nat /\ Epoch \in Nat /\ Epoch <= Epoch'
      BY JournalTypes, JournalGrows
    <2>3. base' = base \/ base' = Append(base, LogEnd)
      BY DEF Grows
    <2>4. base' = base => Epoch' = Epoch
      BY DEF Epoch
    <2>5. base' = Append(base, LogEnd) => Epoch' = Epoch + 1
      BY JournalTypes, AppendProperties DEF Epoch, Journal
    <2>6. Epoch + 1 # Epoch
      BY <2>2
    <2> QED BY <2>1, <2>2, <2>3, <2>4, <2>5, <2>6
  <1>3. Wire'
    <2>1. Transit' = {}
      BY <1>1, EmptySeq DEF Transit
    <2> QED BY <1>1, <2>1, EmptySeq DEF Sync, Wire
  <1>4. Copy'
    <2>1. cursor' = NoCursor \/ cursor'.epoch \in 1..Epoch'
      BY <1>2 DEF Sync, Copy
    <2>2. knownEpoch' \in 0..Epoch'
      BY <1>2 DEF Sync, Copy
    <2>3. knownEpoch' = Epoch' => base'[Epoch'] + lastSeq' <= LogEnd'
      BY <1>2 DEF Sync, Copy
    <2> QED BY <1>1, <1>2, <2>1, <2>2, <2>3 DEF Sync, Copy
  <1>5. Subscribed' /\ WorkComesLast'
    BY <1>1 DEF Subscribed, WorkComesLast
  <1>6. ~skipped' => CursorHonest'
    BY <1>1, HonestStays DEF Sync
  <1>7. OnTrack'
    BY <1>1, <1>6 DEF OnTrack
  <1> QED BY <1>3, <1>4, <1>5, <1>7 DEF Sync

LEMMA ReconnectStep ==
    ASSUME Sync, ReconnectTimer
    PROVE  Sync'
  <1> USE DEF ReconnectTimer, daemonVars, cacheVars, copyVars, fetchVars
  <1>1. /\ link # "up" /\ link' # "up" /\ link' # "none" /\ down' = <<>> /\ up' = <<>>
        /\ link' \in {"none", "down", "opening", "up"}
    BY DEF Sync, Wire
  <1>2. Epoch' = Epoch /\ LogEnd' = LogEnd /\ Transit' = Transit
    BY DEF Epoch, LogEnd, Transit
  <1>3. Wire' /\ Copy' /\ Subscribed' /\ WorkComesLast'
    BY <1>1, <1>2 DEF Sync, Wire, Copy, Subscribed, WorkComesLast, FrameTrue
  <1>4. CursorHonest' = CursorHonest
    BY DEF CursorHonest, ActiveAt
  <1>5. OnTrack'
    BY <1>1, <1>4 DEF Sync, OnTrack
  <1> QED BY <1>3, <1>5 DEF Sync

(* client_hello subscribes from the cursor, which was honest all along.    *)
LEMMA HelloStep ==
    ASSUME Journal, Sync, ServerHello
    PROVE  Sync'
  <1> USE DEF ServerHello, daemonVars, cacheVars, copyVars, fetchVars
  <1>1. link = "opening" /\ link' = "up" /\ down = <<>> /\ down' = <<>>
    BY DEF Sync, Wire
  <1>2. Epoch' = Epoch /\ LogEnd' = LogEnd /\ Transit' = Transit /\ Now' = Now
    BY NowStays DEF Epoch, LogEnd, Transit
  <1> DEFINE m == [type |-> "subscribe", seq |-> cursor.seq, epoch |-> cursor.epoch]
  <1>3. CASE cursor = NoCursor
    <2>1. up' = <<>> /\ ~retained
      BY <1>3 DEF Sync, Copy
    <2>2. Wire'
      BY <1>1, <1>2, <2>1, EmptySeq DEF Sync, Wire, FrameTrue
    <2>3. Copy' /\ Subscribed' /\ WorkComesLast' /\ OnTrack'
      BY <1>1, <1>2, <2>1 DEF Sync, Copy, Subscribed, WorkComesLast, OnTrack
    <2> QED BY <2>2, <2>3 DEF Sync
  <1>4. CASE cursor # NoCursor
    <2>1. m \in UpFrames /\ m.type = "subscribe" /\ m.seq = cursor.seq /\ m.epoch = cursor.epoch
      BY DEF Sync, Copy, Cursors, UpFrames
    <2>2. up' = <<m>>
      BY <1>4
    <2> HIDE DEF m
    <2>3. up' \in Seq(UpFrames) /\ up' # <<>> /\ up'[Len(up')] = m
      <3>1. \A x \in UpFrames : <<x>> \in Seq(UpFrames) /\ <<x>> # <<>> /\ <<x>>[Len(<<x>>)] = x
        OBVIOUS
      <3> QED BY <2>1, <2>2, <3>1
    <2>4. Wire'
      BY <1>1, <1>2, <2>3 DEF Sync, Wire, FrameTrue
    <2>5. Copy' /\ Subscribed' /\ WorkComesLast'
      BY <1>1, <1>2, <2>1, <2>3 DEF Sync, Copy, Subscribed, WorkComesLast
    <2>6. ASSUME retained, ~requiringSnapshot, ~skipped, m.epoch = Epoch
          PROVE  /\ knownEpoch = Epoch
                 /\ 1 .. base[Epoch] + m.seq \subseteq seen
                 /\ m.seq = lastSeq
                 /\ base[Epoch] + m.seq = LogEnd => turnActive = Now
      <3>1. CursorHonest
        BY <1>1, <2>6 DEF Sync, OnTrack
      <3>2. /\ cursor.epoch = knownEpoch
            /\ 1 .. base[cursor.epoch] + cursor.seq \subseteq seen
            /\ turnActive = ActiveAt(base[cursor.epoch] + cursor.seq, cursor.epoch)
        BY <1>4, <2>6, <3>1 DEF CursorHonest
      <3>3. cursor.seq = lastSeq
        BY <1>4, <2>6 DEF Sync, Copy
      <3> QED BY <2>1, <2>6, <3>2, <3>3 DEF Now
    <2>7. OnTrack'
      <3> SUFFICES ASSUME retained, ~requiringSnapshot, ~skipped
                   PROVE  AskingLast'
        BY <1>1, <2>3 DEF OnTrack
      <3>1. m.seq = lastSeq => m.seq <= lastSeq
        BY DEF Sync, Copy
      <3>2. m.epoch = Epoch =>
              /\ knownEpoch' = Epoch'
              /\ 1 .. base'[Epoch'] + m.seq \subseteq seen'
              /\ m.seq <= lastSeq'
              /\ base'[Epoch'] + m.seq = LogEnd' => turnActive' = Now'
        BY <1>2, <2>6, <3>1
      <3> QED BY <1>2, <2>3, <3>2 DEF AskingLast, Asking, TurnRight
    <2> QED BY <2>4, <2>5, <2>7 DEF Sync
  <1> QED BY <1>3, <1>4

(* A durable event.                                                        *)
LEMMA EmitStep ==
    ASSUME Journal, Sync, NEW kind \in Kinds, EmitEvent(kind)
    PROVE  Sync'
  <1> USE DEF EmitEvent, cacheVars, copyVars, fetchVars
  <1>0. PICK b, e : b = base[Epoch] /\ e = Epoch
    OBVIOUS
  <1>1. /\ b \in Nat /\ e \in Nat /\ e \in 1..e /\ LogEnd \in Nat /\ b <= LogEnd
        /\ log \in Seq(Kinds)
    BY <1>0, JournalTypes DEF Journal
  <1>2. /\ base' = base /\ Epoch' = e /\ base'[Epoch'] = b
        /\ LogEnd' = LogEnd + 1 /\ log'[LogEnd'] = kind
    <2>1. Len(log') = Len(log) + 1 /\ log'[Len(log) + 1] = kind
      BY <1>1, AppendProperties
    <2> QED BY <1>0, <2>1 DEF Epoch, LogEnd
  <1>3. Grows
    BY DEF Grows
  <1>a. PICK event, resync :
          /\ event = [type |-> "event", at |-> LogEnd + 1, seq |-> LogEnd + 1 - b, epoch |-> e]
          /\ resync = [type |-> "resync", seq |-> LogEnd + 1 - b, epoch |-> e]
    OBVIOUS
  <1>4. /\ event \in DownFrames /\ resync \in DownFrames
        /\ event.type = "event" /\ event.at = LogEnd' /\ resync.type = "resync"
        /\ event.seq = LogEnd' - b /\ event.epoch = e /\ resync.seq = LogEnd' - b /\ resync.epoch = e
    <2>1. LogEnd + 1 - b \in Nat /\ LogEnd + 1 \in Nat
      BY <1>1
    <2> QED BY <1>a, <1>1, <1>2, <2>1 DEF DownFrames
  <1>5. \/ link = "up" /\ down' = Append(down, event)
        \/ link = "up" /\ down' = Append(down, resync)
        \/ down' = down /\ (link = "up" => ~served /\ kind # "work")
    BY <1>0, <1>a
  <1>6. \A m \in DownFrames : FrameTrue(m) => FrameTrue(m)'
    <2> SUFFICES ASSUME NEW m \in DownFrames, FrameTrue(m)
                 PROVE  /\ m.epoch = Epoch' /\ base'[Epoch'] + m.seq <= LogEnd'
                        /\ m.type = "event" => m.at = base'[Epoch'] + m.seq /\ m.seq > 0
      BY DEF FrameTrue
    <2>1. m.seq \in Nat
      BY DEF DownFrames
    <2>2. b + m.seq <= LogEnd + 1
      BY <1>0, <1>1, <2>1 DEF FrameTrue
    <2> QED BY <1>0, <1>2, <2>2 DEF FrameTrue
  <1>7. FrameTrue(event)' /\ FrameTrue(resync)'
    <2>1. /\ LogEnd' \in Nat /\ b + (LogEnd' - b) = LogEnd' /\ LogEnd' - b > 0
          /\ LogEnd' <= LogEnd'
      BY <1>1, <1>2
    <2>2. FrameTrue(event)'
      BY <1>2, <1>4, <2>1 DEF FrameTrue
    <2>3. FrameTrue(resync)'
      BY <1>2, <1>4, <2>1 DEF FrameTrue
    <2> QED BY <2>2, <2>3
  <1>8. Transit \subseteq DownFrames
    BY ElementOfSeq DEF Transit, Sync, Wire
  <1>9. /\ down' \in Seq(DownFrames)
        /\ \/ link = "up" /\ Transit' = Transit \cup {event} /\ down' # <<>> /\ down'[Len(down')] = event
           \/ link = "up" /\ Transit' = Transit \cup {resync} /\ down' # <<>> /\ down'[Len(down')] = resync
           \/ Transit' = Transit /\ down' = down /\ (link = "up" => ~served /\ kind # "work")
    <2>1. CASE link = "up" /\ down' = Append(down, event)
      BY <1>4, <2>1, PutFrame DEF Sync
    <2>2. CASE link = "up" /\ down' = Append(down, resync)
      BY <1>4, <2>2, PutFrame DEF Sync
    <2>3. CASE down' = down /\ (link = "up" => ~served /\ kind # "work")
      BY <2>3 DEF Sync, Wire, Transit
    <2> QED BY <1>5, <2>1, <2>2, <2>3
  <1>10. Wire'
    <2>1. \A m \in Transit' : FrameTrue(m)'
      BY <1>6, <1>7, <1>8, <1>9 DEF Sync, Wire
    <2>2. link' # "up" => down' = <<>> /\ up' = <<>>
      BY <1>9 DEF Sync, Wire
    <2>3. /\ served' \in BOOLEAN /\ skipped' \in BOOLEAN /\ link' \in {"none", "down", "opening", "up"}
          /\ up' \in Seq(UpFrames)
      BY DEF Sync, Wire
    <2> QED BY <1>9, <2>1, <2>2, <2>3 DEF Wire
  <1>11. Copy'
    <2>1. seen' \subseteq 1..LogEnd'
      BY <1>1, <1>2 DEF Sync, Copy
    <2>2. knownEpoch' = Epoch' => base'[Epoch'] + lastSeq' <= LogEnd'
      BY <1>0, <1>1, <1>2 DEF Sync, Copy
    <2> QED BY <1>0, <1>2, <2>1, <2>2 DEF Sync, Copy
  <1>12. Subscribed'
    BY DEF Sync, Subscribed
  <1>13. WorkComesLast'
    <2>1. CASE down' = down /\ (link = "up" => ~served /\ kind # "work")
      BY <1>2, <2>1 DEF Sync, Wire, WorkComesLast, LastIsWork
    <2> QED BY <1>4, <1>9, <2>1 DEF WorkComesLast
  <1>14. TurnRight' \/ link # "up"
    BY <1>2, <1>9 DEF TurnRight, LastIsWork
  <1>15. ASSUME retained, ~requiringSnapshot, ~skipped, link = "up", ~ResyncComing'
         PROVE  (up' = <<>> => Streaming') /\ AskingLast'
    <2>1. ~ResyncComing
      BY <1>9, <1>15 DEF ResyncComing
    <2>2. (up = <<>> => Streaming) /\ AskingLast
      BY <1>15, <2>1 DEF Sync, OnTrack
    <2>3. ASSUME up = <<>>
          PROVE  Streaming'
      <3>1. served
        BY <1>15, <2>3 DEF Sync, Subscribed
      <3>2. Transit' = Transit \cup {event}
        BY <1>4, <1>9, <1>15, <3>1 DEF ResyncComing
      <3>3. ToCome \subseteq ToCome' /\ LogEnd' \in ToCome'
        BY <1>4, <3>2 DEF ToCome
      <3>4. 1..LogEnd' \subseteq seen' \cup ToCome'
        <4>1. \A i \in 1..LogEnd' : i \in 1..LogEnd \/ i = LogEnd'
          BY <1>1, <1>2
        <4> QED BY <2>2, <2>3, <3>3, <4>1 DEF Streaming
      <3> QED BY <1>0, <1>2, <1>14, <1>15, <2>2, <2>3, <3>3, <3>4 DEF Streaming
    <2>4. ASSUME NEW m, Asking(m)
          PROVE  Asking(m)'
      BY <1>0, <1>2, <1>14, <1>15, <2>4 DEF Asking
    <2>5. ASSUME up # <<>>
          PROVE  Asking(up[Len(up)])'
      <3>1. PICK m : m = up[Len(up)]
        OBVIOUS
      <3>2. Asking(m)'
        BY <2>2, <2>4, <2>5, <3>1 DEF AskingLast
      <3> QED BY <3>1, <3>2 DEF Asking
    <2> QED BY <2>3, <2>5 DEF AskingLast
  <1>16. CursorHonest => CursorHonest'
    BY <1>3, HonestStays DEF Sync
  <1>17. OnTrack'
    BY <1>15, <1>16 DEF Sync, OnTrack
  <1> QED BY <1>10, <1>11, <1>12, <1>13, <1>17 DEF Sync

(* A subscription of the running epoch is answered by the events after it, *)
(* one of an earlier epoch by a resync.                                    *)
LEMMA ServeStep ==
    ASSUME Journal, Sync, ServeFrame
    PROVE  Sync'
  <1> USE DEF ServeFrame, daemonVars, cacheVars, copyVars, fetchVars
  <1>0. PICK m, b, e : m = Head(up) /\ b = base[Epoch] /\ e = Epoch
    OBVIOUS
  <1>1. /\ b \in Nat /\ e \in Nat /\ LogEnd \in Nat /\ b <= LogEnd
    BY <1>0, JournalTypes
  <1>2. Epoch' = e /\ LogEnd' = LogEnd /\ base'[Epoch'] = b /\ Now' = Now
    BY <1>0, NowStays DEF Epoch, LogEnd
  <1>3. /\ up' \in Seq(UpFrames) /\ m \in UpFrames
        /\ up' # <<>> => up'[Len(up')] = up[Len(up)]
        /\ up' = <<>> => m = up[Len(up)]
    BY <1>0, TakenRequest DEF Sync
  <1>4. link = "up" /\ link' = "up"
    BY DEF Sync, Wire
  <1>5. Copy'
    BY <1>0, <1>2 DEF Sync, Copy
  <1>6. \A x : FrameTrue(x) => FrameTrue(x)'
    BY <1>0, <1>2 DEF FrameTrue
  <1>7. CASE m.type = "unsubscribe"
    <2>1. down' = down /\ Transit' = Transit
      BY <1>0, <1>7 DEF Transit
    <2>2. Wire'
      BY <1>0, <1>3, <1>4, <1>6, <1>7, <2>1 DEF Sync, Wire
    <2>3. retained => up' # <<>>
      BY <1>3, <1>4, <1>7, EmptySeq DEF Sync, Subscribed
    <2>4. Subscribed' /\ WorkComesLast'
      BY <1>2, <1>3, <1>4, <2>1, <2>3 DEF Sync, Subscribed, WorkComesLast, LastIsWork
    <2>5. \A x : Asking(x) => Asking(x)'
      BY <1>0, <1>2, <2>1 DEF Asking, TurnRight, LastIsWork
    <2>6. ASSUME retained, ~requiringSnapshot, ~skipped, ~ResyncComing'
          PROVE  AskingLast'
      <3>1. PICK x : x = up[Len(up)]
        OBVIOUS
      <3>2. Asking(x)
        BY <1>4, <2>1, <2>6, <3>1 DEF Sync, OnTrack, AskingLast, ResyncComing
      <3>3. up'[Len(up')] = x
        BY <1>3, <2>3, <2>6, <3>1
      <3> QED BY <2>5, <3>2, <3>3 DEF AskingLast, Asking
    <2>7. OnTrack'
      BY <1>4, <2>3, <2>6 DEF OnTrack
    <2> QED BY <1>5, <2>2, <2>4, <2>7 DEF Sync
  <1>8. CASE m.type # "unsubscribe"
    <2>1. m.type = "subscribe" /\ m.seq \in Nat /\ served' = TRUE
      BY <1>0, <1>3, <1>8 DEF UpFrames
    <2>2. Subscribed'
      BY <1>3, <1>4, <2>1 DEF Sync, Subscribed
    <2>3. CASE m.epoch # e
      <3>1. PICK resync : resync = ResyncFrame
        OBVIOUS
      <3>2. /\ resync \in DownFrames /\ resync.type = "resync" /\ resync.epoch = e
            /\ b + resync.seq = LogEnd
        <4>1. LogEnd - b \in Nat /\ b + (LogEnd - b) = LogEnd
          BY <1>1
        <4> QED BY <1>0, <1>1, <3>1, <4>1 DEF ResyncFrame, SeqOf, DownFrames
      <3>3. down' = Append(down, resync)
        BY <1>0, <1>8, <2>3, <3>1
      <3>4. /\ down' \in Seq(DownFrames) /\ Transit' = Transit \cup {resync}
            /\ down' # <<>> /\ down'[Len(down')] = resync
        BY <3>2, <3>3, PutFrame DEF Sync
      <3>5. FrameTrue(resync)'
        <4>1. b + resync.seq <= LogEnd
          BY <1>1, <3>2
        <4> QED BY <1>2, <3>2, <4>1 DEF FrameTrue
      <3>6. Wire'
        <4>1. \A x \in Transit' : FrameTrue(x)'
          BY <1>6, <3>4, <3>5 DEF Sync, Wire
        <4> QED BY <1>3, <1>4, <2>1, <3>4, <4>1 DEF Sync, Wire
      <3>7. ResyncComing' /\ WorkComesLast'
        BY <3>2, <3>4 DEF ResyncComing, WorkComesLast
      <3>8. OnTrack'
        BY <1>4, <3>7 DEF OnTrack
      <3> QED BY <1>5, <2>2, <3>6, <3>7, <3>8 DEF Sync
    <2>4. CASE m.epoch = e
      <3>0. PICK seq \in Nat : seq = m.seq
        BY <2>1
      <3>1. down' = down \o [n \in 1..(Len(log) - base[Epoch] - seq) |->
                               EventFrame(base[Epoch] + seq + n)]
        BY <1>0, <1>8, <2>4, <3>0
      <3>2. /\ down' \in Seq(DownFrames)
            /\ Transit' = Transit \cup {Replayed(i) : i \in b + seq + 1 .. LogEnd}
            /\ b + seq >= LogEnd => down' = down
            /\ b + seq < LogEnd => down' # <<>> /\ down'[Len(down')] = Replayed(LogEnd)
        BY <1>0, <3>1, ReplayedFrames DEF Sync
      <3>3. ASSUME NEW i \in b + seq + 1 .. LogEnd
            PROVE  /\ FrameTrue(Replayed(i)) /\ Replayed(i).type = "event" /\ Replayed(i).at = i
        <4>1. i \in Nat /\ b + (i - b) = i /\ i <= LogEnd /\ i - b > 0
          BY <1>1, <3>0
        <4> QED BY <1>0, <4>1 DEF FrameTrue, Replayed
      <3>4. \A x \in Transit' : FrameTrue(x)'
        BY <1>6, <3>2, <3>3 DEF Sync, Wire
      <3>5. Wire'
        BY <1>3, <1>4, <2>1, <3>2, <3>4 DEF Sync, Wire
      <3>6. \/ b + seq >= LogEnd /\ down' = down
            \/ /\ b + seq < LogEnd /\ LogEnd \in b + seq + 1 .. LogEnd
               /\ down' # <<>> /\ down'[Len(down')] = Replayed(LogEnd)
        BY <1>1, <3>0, <3>2
      <3>7. WorkComesLast'
        <4>1. CASE down' = down
          BY <1>2, <4>1 DEF Sync, WorkComesLast, LastIsWork
        <4>2. CASE LogEnd \in b + seq + 1 .. LogEnd /\ down'[Len(down')] = Replayed(LogEnd)
          BY <1>2, <3>3, <4>2 DEF WorkComesLast
        <4> QED BY <3>6, <4>1, <4>2
      <3>8. ToCome \subseteq ToCome' /\ \A i \in b + seq + 1 .. LogEnd : i \in ToCome'
        BY <3>2, <3>3 DEF ToCome
      <3>9. TurnRight => TurnRight'
        BY <1>2, <3>6 DEF TurnRight, LastIsWork
      <3>10. b + seq < LogEnd => TurnRight'
        BY <1>1, <3>0, <3>6 DEF TurnRight
      <3>11. \A x : Asking(x) => Asking(x)'
        BY <1>0, <1>2, <3>9 DEF Asking
      <3>12. ASSUME retained, ~requiringSnapshot, ~skipped, ~ResyncComing'
             PROVE  (up' = <<>> => Streaming') /\ AskingLast'
        <4>1. PICK x : x = up[Len(up)]
          OBVIOUS
        <4>2. ~ResyncComing
          BY <3>2, <3>12 DEF ResyncComing
        <4>3. Asking(x)
          BY <1>4, <3>12, <4>1, <4>2 DEF Sync, OnTrack, AskingLast
        <4>4. AskingLast'
          BY <1>3, <3>11, <4>1, <4>3 DEF AskingLast, Asking
        <4>5. ASSUME up' = <<>>
              PROVE  Streaming'
          <5>1. m = x
            BY <1>3, <4>1, <4>5
          <5>2. /\ knownEpoch = Epoch /\ 1 .. b + seq \subseteq seen /\ seq <= lastSeq
                /\ b + seq = LogEnd => TurnRight
            BY <1>0, <2>4, <3>0, <4>3, <5>1 DEF Asking
          <5>3. \A i \in 1..LogEnd : i \in 1 .. b + seq \/ i \in b + seq + 1 .. LogEnd
            BY <1>1, <3>0
          <5>4. 1..LogEnd' \subseteq seen' \cup ToCome'
            BY <1>2, <3>8, <5>2, <5>3
          <5>5. lastSeq \in Nat /\ b + lastSeq <= LogEnd
            BY <1>0, <5>2 DEF Sync, Copy
          <5>6. b + seq >= LogEnd => b + seq = LogEnd /\ LogEnd = b + lastSeq
            BY <1>1, <3>0, <5>2, <5>5
          <5>7. LogEnd' = base'[Epoch'] + lastSeq' \/ LogEnd' \in ToCome'
            BY <1>2, <3>6, <3>8, <5>6
          <5>8. TurnRight'
            BY <3>6, <3>9, <3>10, <5>2, <5>6
          <5> QED BY <1>0, <1>2, <5>2, <5>4, <5>7, <5>8 DEF Streaming
        <4> QED BY <4>4, <4>5
      <3>13. OnTrack'
        BY <1>4, <3>12 DEF OnTrack
      <3> QED BY <1>5, <2>2, <3>5, <3>7, <3>13 DEF Sync
    <2> QED BY <2>3, <2>4
  <1> QED BY <1>7, <1>8

(* An event is taken into the copy; it is the last one exactly when the    *)
(* copy has heard of it all.                                               *)
LEMMA ReceiveEventStep ==
    ASSUME Journal, Sync, ReceiveEvent
    PROVE  Sync'
  <1> USE DEF ReceiveEvent, daemonVars, fetchVars
  <1>0. PICK m, b, e : m = Head(down) /\ b = base[Epoch] /\ e = Epoch
    OBVIOUS
  <1>1. b \in Nat /\ e \in Nat /\ e \in 1..e /\ LogEnd \in Nat /\ b <= LogEnd
    BY <1>0, JournalTypes
  <1>2. Epoch' = e /\ LogEnd' = LogEnd /\ base'[Epoch'] = b /\ Now' = Now
    BY <1>0, NowStays DEF Epoch, LogEnd
  <1>3. /\ down' \in Seq(DownFrames) /\ m \in Transit /\ m \in DownFrames
        /\ Transit' \subseteq Transit /\ Transit \subseteq Transit' \cup {m}
        /\ down' # <<>> => down'[Len(down')] = down[Len(down)]
        /\ down' = <<>> => m = down[Len(down)]
    BY <1>0, TakenFrame DEF Sync
  <1>4. link = "up" /\ link' = "up"
    BY DEF Sync, Wire
  <1>5. /\ m.type = "event" /\ m.epoch = e /\ m.seq \in Nat /\ m.at = b + m.seq
        /\ b + m.seq <= LogEnd /\ m.seq > 0
    BY <1>0, <1>3 DEF Sync, Wire, FrameTrue, DownFrames
  <1>6. Wire'
    <2>1. \A x : FrameTrue(x) => FrameTrue(x)'
      BY <1>0, <1>2 DEF FrameTrue
    <2> QED BY <1>3, <1>4, <2>1 DEF Sync, Wire
  <1>7. /\ seen' = seen \cup {m.at} /\ lastSeq' = IF m.seq > lastSeq THEN m.seq ELSE lastSeq
        /\ turnActive' = ActiveAt(m.at, m.epoch)
        /\ cursor' = IF cursor # NoCursor /\ m.seq > cursor.seq
                     THEN [seq |-> m.seq, epoch |-> m.epoch] ELSE cursor
    BY <1>0 DEF TrackCursor
  <1>8. lastSeq \in Nat /\ lastSeq' \in Nat /\ lastSeq <= lastSeq'
    BY <1>5, <1>7 DEF Sync, Copy
  <1>9. Copy'
    <2>1. /\ cursor' \in Cursors /\ (cursor' = NoCursor \/ cursor'.epoch \in 1..e)
          /\ cursor' = NoCursor <=> cursor = NoCursor
      <3>1. m.seq # 0
        BY <1>5
      <3> QED BY <1>0, <1>1, <1>5, <1>7, <3>1 DEF Sync, Copy, Cursors, NoCursor
    <2>2. turnActive' \in BOOLEAN
      BY <1>7 DEF ActiveAt
    <2>3. seen' \subseteq 1..LogEnd
      <3>1. m.at \in 1..LogEnd
        BY <1>1, <1>5
      <3> QED BY <1>7, <3>1 DEF Sync, Copy
    <2>4. cursor' # NoCursor /\ ~requiringSnapshot => cursor'.seq = lastSeq'
      BY <1>7, <2>1 DEF Sync, Copy
    <2>5. knownEpoch = e => b + lastSeq' <= LogEnd
      BY <1>0, <1>5, <1>7 DEF Sync, Copy
    <2> QED BY <1>0, <1>2, <1>4, <1>8, <2>1, <2>2, <2>3, <2>4, <2>5 DEF Sync, Copy
  <1>10. Subscribed' /\ WorkComesLast'
    BY <1>2, <1>3, <1>4 DEF Sync, Subscribed, WorkComesLast, LastIsWork
  <1>11. ToCome \subseteq ToCome' \cup {m.at}
    BY <1>3 DEF ToCome
  <1>12. TurnRight'
    <2> SUFFICES ASSUME LastIsWork', down' = <<>>
                 PROVE  turnActive' = Now'
      BY DEF TurnRight
    <2>1. LastIsWork
      BY <1>2 DEF LastIsWork
    <2>2. m.at = LogEnd
      BY <1>3, <1>5, <2>1 DEF Sync, WorkComesLast
    <2>3. turnActive' = Now
      BY <1>0, <1>5, <1>7, <2>2 DEF Now
    <2> QED BY <1>2, <2>3
  <1>13. ASSUME retained, ~requiringSnapshot, ~skipped, ~ResyncComing'
         PROVE  (up' = <<>> => Streaming') /\ AskingLast'
    <2>1. ~ResyncComing
      BY <1>3, <1>5, <1>13 DEF ResyncComing
    <2>2. (up = <<>> => Streaming) /\ AskingLast
      BY <1>4, <1>13, <2>1 DEF Sync, OnTrack
    <2>3. ASSUME up = <<>>
          PROVE  Streaming'
      <3>1. 1..LogEnd' \subseteq seen' \cup ToCome'
        BY <1>2, <1>7, <1>11, <2>2, <2>3 DEF Streaming
      <3>2. LogEnd = b + lastSeq => LogEnd = b + lastSeq'
        BY <1>1, <1>5, <1>7, <1>8
      <3>3. m.at = LogEnd => LogEnd = b + lastSeq'
        <4>1. knownEpoch = e
          BY <1>0, <2>2, <2>3 DEF Streaming
        <4>2. b + lastSeq <= LogEnd
          BY <1>0, <4>1 DEF Sync, Copy
        <4> QED BY <1>1, <1>5, <1>7, <1>8, <4>2
      <3>4. LogEnd' = base'[Epoch'] + lastSeq' \/ LogEnd' \in ToCome'
        BY <1>0, <1>2, <1>11, <2>2, <2>3, <3>2, <3>3 DEF Streaming
      <3> QED BY <1>0, <1>2, <1>12, <2>2, <2>3, <3>1, <3>4 DEF Streaming
    <2>4. ASSUME NEW x \in UpFrames, x.type = "subscribe", Asking(x)
          PROVE  Asking(x)'
      <3>1. x.seq \in Nat
        BY <2>4 DEF UpFrames
      <3>2. x.seq <= lastSeq => x.seq <= lastSeq'
        BY <1>8, <3>1
      <3> QED BY <1>0, <1>2, <1>7, <1>12, <2>4, <3>2 DEF Asking
    <2>5. ASSUME up # <<>>
          PROVE  Asking(up[Len(up)])'
      <3>1. PICK x : x = up[Len(up)]
        OBVIOUS
      <3>2. x \in UpFrames
        <4>1. up \in Seq(UpFrames) /\ Len(up) \in 1..Len(up)
          BY <2>5, EmptySeq DEF Sync, Wire
        <4> QED BY <3>1, <4>1, ElementOfSeq
      <3>3. x.type = "subscribe"
        BY <1>4, <1>13, <2>5, <3>1 DEF Sync, Subscribed
      <3>4. Asking(x)'
        BY <2>2, <2>4, <2>5, <3>1, <3>2, <3>3 DEF AskingLast
      <3> QED BY <3>1, <3>4 DEF Asking
    <2> QED BY <2>3, <2>5 DEF AskingLast
  <1>14. OnTrack'
    BY <1>4, <1>13 DEF OnTrack
  <1> QED BY <1>6, <1>9, <1>10, <1>14 DEF Sync

(* From here on a snapshot must be applied.                                *)
LEMMA ReceiveResyncKeepsSync ==
    ASSUME Journal, Sync, ReceiveResync
    PROVE  Sync'
  <1> USE DEF ReceiveResync, daemonVars, copyVars
  <1>0. PICK m, e : m = Head(down) /\ e = Epoch
    OBVIOUS
  <1>1. e \in Nat /\ e \in 1..e
    BY <1>0, JournalTypes
  <1>2. Epoch' = e /\ LogEnd' = LogEnd
    BY <1>0 DEF Epoch, LogEnd
  <1>3. /\ down' \in Seq(DownFrames) /\ m \in Transit /\ m \in DownFrames
        /\ Transit' \subseteq Transit
        /\ down' # <<>> => down'[Len(down')] = down[Len(down)]
    BY <1>0, TakenFrame DEF Sync
  <1>4. link = "up" /\ link' = "up"
    BY DEF Sync, Wire
  <1>5. m.epoch = e /\ m.seq \in Nat
    BY <1>0, <1>3 DEF Sync, Wire, FrameTrue, DownFrames
  <1>6. Wire'
    <2>1. \A x : FrameTrue(x) => FrameTrue(x)'
      BY <1>0, <1>2 DEF FrameTrue
    <2> QED BY <1>3, <1>4, <2>1 DEF Sync, Wire
  <1>7. Copy'
    <2>1. cursor' = [seq |-> m.seq, epoch |-> m.epoch]
      BY <1>0
    <2>2. cursor' \in Cursors /\ cursor'.epoch \in 1..e /\ cursor' # NoCursor
      BY <1>1, <1>5, <2>1 DEF Cursors, NoCursor
    <2> QED BY <1>0, <1>2, <1>4, <2>2 DEF Sync, Copy
  <1>8. Subscribed' /\ WorkComesLast'
    BY <1>2, <1>3, <1>4 DEF Sync, Subscribed, WorkComesLast, LastIsWork
  <1>9. OnTrack'
    BY DEF OnTrack
  <1> QED BY <1>6, <1>7, <1>8, <1>9 DEF Sync

(* The session leaves the subscriptions.                                   *)
LEMMA UnsubscribeStep ==
    ASSUME Journal, Sync, Evict \/ ForgetSession
    PROVE  Sync'
  <1> USE DEF daemonVars, copyVars, fetchVars, turnVars
  <1>1. /\ UNCHANGED <<log, base, served, link, down, skipped>>
        /\ cursor' = NoCursor /\ retained' = FALSE /\ Unsubscribe
    BY DEF Evict, ForgetSession, Unsubscribe
  <1>2. /\ lastSeq' \in {0, lastSeq} /\ knownEpoch' \in {0, knownEpoch}
        /\ turnActive' \in {FALSE, turnActive} /\ seen' \in {{}, seen}
        /\ requiringSnapshot' \in {FALSE, requiringSnapshot}
        /\ knownEpoch' = knownEpoch => lastSeq' = lastSeq \/ lastSeq' = 0
    BY DEF Evict, ForgetSession
  <1>3. Epoch' = Epoch /\ LogEnd' = LogEnd /\ Transit' = Transit
    BY <1>1 DEF Epoch, LogEnd, Transit
  <1>4. up' \in Seq(UpFrames) /\ (link # "up" => up' = <<>>)
    <2>1. [type |-> "unsubscribe"] \in UpFrames
      BY DEF UpFrames
    <2>2. CASE link = "up"
      BY <1>1, <2>1, <2>2, PutRequest DEF Sync, Unsubscribe
    <2>3. CASE link # "up"
      BY <1>1, <2>3 DEF Sync, Wire, Unsubscribe
    <2> QED BY <2>2, <2>3
  <1>5. Wire'
    BY <1>1, <1>3, <1>4 DEF Sync, Wire, FrameTrue
  <1>6. Copy'
    <2>1. base[Epoch] \in Nat /\ LogEnd \in Nat /\ Epoch \in Nat \ {0} /\ base[Epoch] + 0 <= LogEnd
      BY JournalTypes
    <2>2. knownEpoch' = Epoch => knownEpoch' = knownEpoch
      BY <1>2, <2>1
    <2>3. knownEpoch' = Epoch => base[Epoch] + lastSeq' <= LogEnd
      BY <1>2, <2>1, <2>2 DEF Sync, Copy
    <2>4. /\ cursor' \in Cursors /\ lastSeq' \in Nat /\ knownEpoch' \in 0..Epoch
          /\ seen' \subseteq 1..LogEnd /\ turnActive' \in BOOLEAN /\ requiringSnapshot' \in BOOLEAN
      <3>1. cursor' \in Cursors
        BY <1>1 DEF Cursors, NoCursor
      <3>2. lastSeq' \in Nat /\ knownEpoch' \in 0..Epoch
        BY <1>2, <2>1 DEF Sync, Copy
      <3>3. seen' \subseteq 1..LogEnd /\ turnActive' \in BOOLEAN /\ requiringSnapshot' \in BOOLEAN
        BY <1>2 DEF Sync, Copy
      <3> QED BY <3>1, <3>2, <3>3
    <2> QED BY <1>1, <1>3, <2>3, <2>4 DEF Copy
  <1>7. Subscribed' /\ WorkComesLast' /\ OnTrack'
    BY <1>1, <1>3 DEF Sync, Subscribed, WorkComesLast, LastIsWork, OnTrack
  <1> QED BY <1>5, <1>6, <1>7 DEF Sync

(* A snapshot puts copy and cursor where the daemon was when it read, and  *)
(* asks for what came after.                                               *)
LEMMA ApplyKeepsSync ==
    ASSUME Journal, SnapshotsTrue, Sync, NEW f \in Fetchers, ApplySnapshot(f)
    PROVE  Sync'
  <1>0. PICK b, e, at, seq, d :
          /\ b = base[Epoch] /\ e = fetch[f].epoch /\ at = fetch[f].at
          /\ d = base[fetch[f].epoch] /\ seq = SeqOf(fetch[f].at, fetch[f].epoch)
    OBVIOUS
  <1>1. /\ e \in 1..Epoch /\ at \in 0..LogEnd /\ d \in Nat /\ seq \in Nat /\ d + seq = at
        /\ fetch[f].active = ActiveAt(at, e) /\ seq = at - d
    <2>1. /\ e \in 1..Epoch /\ at \in 0..LogEnd /\ d <= at /\ fetch[f].active = ActiveAt(at, e)
      BY <1>0 DEF ApplySnapshot, SnapshotsTrue, SnapshotTrue
    <2>2. d \in Nat /\ LogEnd \in Nat
      BY <1>0, <2>1, JournalTypes
    <2>3. seq = at - d
      BY <1>0 DEF SeqOf
    <2>4. at - d \in Nat /\ d + (at - d) = at
      BY <2>1, <2>2
    <2> QED BY <2>1, <2>2, <2>3, <2>4
  <1>2. /\ lastSeq' = seq /\ knownEpoch' = e /\ seen' = 1..at /\ turnActive' = ActiveAt(at, e)
        /\ requiringSnapshot' = FALSE /\ skipped' = FALSE /\ retained' = TRUE
        /\ link' = IF link = "none" THEN "opening" ELSE link
        /\ Subscribe(seq, e)
        /\ UNCHANGED <<log, base, served, down>>
    BY <1>0, <1>1 DEF ApplySnapshot, daemonVars
  <1>3. Epoch' = Epoch /\ LogEnd' = LogEnd /\ Transit' = Transit /\ Now' = Now
    BY <1>2, NowStays DEF Epoch, LogEnd, Transit
  <1>4. PICK m : m = [type |-> "subscribe", seq |-> seq, epoch |-> e]
    OBVIOUS
  <1>5. /\ Epoch \in Nat /\ LogEnd \in Nat /\ e \in Nat
        /\ m \in UpFrames /\ m.type = "subscribe" /\ m.seq = seq /\ m.epoch = e
    <2>1. Epoch \in Nat /\ LogEnd \in Nat
      BY JournalTypes
    <2>2. e \in Nat
      BY <1>1, <2>1
    <2> QED BY <1>1, <1>4, <2>1, <2>2 DEF UpFrames
  <1>6. /\ cursor' = [seq |-> seq, epoch |-> e]
        /\ up' = IF link = "up" THEN Append(up, m) ELSE up
    BY <1>2, <1>4 DEF Subscribe
  <1>7. /\ link = "up" => up' \in Seq(UpFrames) /\ up' # <<>> /\ up'[Len(up')] = m
        /\ link # "up" => up' = <<>> /\ up' \in Seq(UpFrames) /\ down' = <<>>
        /\ (link' = "up" <=> link = "up") /\ link' \in {"down", "opening", "up"}
    <2>1. CASE link = "up"
      BY <1>2, <1>5, <1>6, <2>1, PutRequest DEF Sync
    <2>2. CASE link # "up"
      BY <1>2, <1>6, <2>2 DEF Sync, Wire
    <2> QED BY <2>1, <2>2
  <1>8. Wire'
    BY <1>2, <1>3, <1>7 DEF Sync, Wire, FrameTrue
  <1>9. Copy'
    <2>1. /\ cursor' \in Cursors /\ cursor'.epoch \in 1..Epoch /\ cursor'.seq = seq
          /\ cursor' # NoCursor
      BY <1>1, <1>5, <1>6 DEF Cursors, NoCursor
    <2>2. seen' \subseteq 1..LogEnd
      BY <1>1, <1>2, <1>5
    <2>3. turnActive' \in BOOLEAN
      BY <1>2 DEF ActiveAt
    <2>4. e \in 0..Epoch /\ e # 0
      BY <1>1, <1>5
    <2>5. e = Epoch => base[Epoch] + seq <= LogEnd
      BY <1>0, <1>1, <1>5
    <2> QED BY <1>1, <1>2, <1>3, <1>7, <2>1, <2>2, <2>3, <2>4, <2>5 DEF Copy
  <1>10. Subscribed' /\ WorkComesLast'
    BY <1>2, <1>3, <1>5, <1>7 DEF Sync, Subscribed, WorkComesLast, LastIsWork
  <1>11. CursorHonest'
    <2>1. ActiveAt(at, e)' = ActiveAt(at, e)
      BY <1>2 DEF ActiveAt
    <2>2. cursor'.epoch = e /\ base'[e] + cursor'.seq = at
      BY <1>0, <1>1, <1>2, <1>6
    <2> QED BY <1>2, <2>1, <2>2 DEF CursorHonest, ActiveAt
  <1>12. Asking(m)'
    <2> SUFFICES ASSUME e = Epoch
                 PROVE  /\ knownEpoch' = Epoch
                        /\ 1 .. b + seq \subseteq seen'
                        /\ seq <= lastSeq'
                        /\ b + seq = LogEnd => TurnRight'
      BY <1>0, <1>2, <1>3, <1>5 DEF Asking
    <2>1. b + seq = at
      BY <1>0, <1>1
    <2>2. at = LogEnd => turnActive' = Now'
      BY <1>2, <1>3 DEF Now
    <2> QED BY <1>1, <1>2, <2>1, <2>2 DEF TurnRight
  <1>13. OnTrack'
    BY <1>7, <1>11, <1>12 DEF OnTrack, AskingLast, Asking
  <1> QED BY <1>8, <1>9, <1>10, <1>13 DEF Sync

LEMMA SyncStep ==
    ASSUME Journal, SnapshotsTrue, Sync, [Next]_vars
    PROVE  Sync'
  <1>1. ASSUME NEW kind \in Kinds, EmitEvent(kind) PROVE Sync'
    BY <1>1, EmitStep
  <1>2. Grows
    BY JournalSteps
  <1>3. CASE Restart
    BY <1>2, <1>3, ClosedStep DEF Restart, cacheVars, copyVars, fetchVars
  <1>4. CASE ConnectionLost
    BY <1>2, <1>4, ClosedStep DEF ConnectionLost, daemonVars, cacheVars, copyVars, fetchVars
  <1>5. CASE RecoverStaleConnection
    BY <1>2, <1>5, ClosedStep DEF RecoverStaleConnection, daemonVars, cacheVars, copyVars
  <1>6. CASE Network
    BY <1>6, ServeStep, ReconnectStep, HelloStep, ReceiveEventStep, ReceiveResyncKeepsSync DEF Network
  <1>7. ASSUME NEW f \in Fetchers, ApplySnapshot(f) PROVE Sync'
    BY <1>7, ApplyKeepsSync
  <1>8. CASE Evict \/ ForgetSession
    BY <1>8, UnsubscribeStep
  <1>9. ASSUME NEW f \in Fetchers,
               \/ AnswerSnapshot(f) \/ SnapshotOfForgotten(f) \/ DropStaleSnapshot(f)
               \/ DeferSnapshot(f) \/ SnapshotFails(f)
        PROVE  Sync'
    BY <1>9, SyncOtherStep DEF AnswerSnapshot, SnapshotOfForgotten, DropStaleSnapshot, DeferSnapshot,
       SnapshotFails, daemonVars, wireVars, cacheVars, copyVars
  <1>10. CASE OpenSession \/ Relist
    BY <1>10, SyncOtherStep DEF OpenSession, Relist, daemonVars, wireVars, cacheVars, copyVars, fetchVars
  <1>11. ASSUME NEW p \in Prompts, BeginTurn(p) \/ DecidePrompt(p) \/ PromptAnswered(p) PROVE Sync'
    BY <1>11, SyncOtherStep DEF BeginTurn, DecidePrompt, PromptAnswered, daemonVars, wireVars,
       cacheVars, copyVars, fetchVars
  <1>12. CASE UNCHANGED vars
    BY <1>12, SyncOtherStep DEF vars, daemonVars, wireVars, cacheVars, copyVars, fetchVars
  <1> QED
    BY <1>1, <1>3, <1>4, <1>5, <1>6, <1>7, <1>8, <1>9, <1>10, <1>11, <1>12 DEF Next, Snapshots

----------------------------------------------------------------------------
(* The turn flag is the one of the point the copy has reached, unless the  *)
(* last event applied was an older one.                                    *)

FlagTrue == ~late /\ knownEpoch = Epoch => turnActive = ActiveAt(base[Epoch] + lastSeq, Epoch)

LEMMA FlagStep ==
    ASSUME Journal, SnapshotsTrue, Sync, FlagTrue, [Next]_vars
    PROVE  FlagTrue'
  <1>1. /\ Epoch \in 1..Epoch /\ Epoch \in Nat \ {0} /\ Epoch' \in Nat /\ Epoch <= Epoch'
        /\ base[Epoch] \in Nat /\ base'[Epoch] = base[Epoch] /\ Grows
    BY JournalSteps, JournalTypes, JournalGrows
  <1>2. knownEpoch \in 0..Epoch /\ lastSeq \in Nat
    BY DEF Sync, Copy
  <1>3. ASSUME UNCHANGED <<late, knownEpoch, turnActive, lastSeq>>
        PROVE  FlagTrue'
    <2> SUFFICES ASSUME ~late, knownEpoch = Epoch'
                 PROVE  turnActive = ActiveAt(base[Epoch] + lastSeq, Epoch)'
      BY <1>1, <1>2, <1>3 DEF FlagTrue, ActiveAt
    <2>1. Epoch' = Epoch /\ knownEpoch = Epoch
      BY <1>1, <1>2
    <2>2. base[Epoch] + lastSeq \in 0..LogEnd
      BY <1>1, <1>2, <2>1, JournalTypes DEF Sync, Copy
    <2>3. ActiveAt(base[Epoch] + lastSeq, Epoch)' = ActiveAt(base[Epoch] + lastSeq, Epoch)
      <3>1. PICK i \in 0..LogEnd : i = base[Epoch] + lastSeq
        BY <2>2
      <3>2. PICK e \in 1..Epoch : e = Epoch
        BY <1>1
      <3>3. ActiveAt(i, e)' = ActiveAt(i, e)
        BY <1>1, ActiveStays
      <3> QED BY <1>1, <1>3, <2>1, <3>1, <3>2, <3>3 DEF ActiveAt
    <2> QED BY <2>1, <2>3 DEF FlagTrue
  <1>4. CASE ReceiveEvent
    <2>1. PICK m : m = Head(down) /\ m.type = "event"
      BY <1>4 DEF ReceiveEvent
    <2>2. /\ late' = (m.seq < lastSeq) /\ lastSeq' = IF m.seq > lastSeq THEN m.seq ELSE lastSeq
          /\ turnActive' = ActiveAt(m.at, m.epoch) /\ UNCHANGED <<log, base, knownEpoch>>
      BY <1>4, <2>1 DEF ReceiveEvent, daemonVars
    <2>3. m.epoch = Epoch /\ m.at = base[Epoch] + m.seq /\ m.seq \in Nat
      <3>1. down # <<>> /\ down' = Tail(down)
        BY <1>4 DEF ReceiveEvent
      <3>2. m \in Transit /\ m \in DownFrames
        BY <2>1, <3>1, TakenFrame DEF Sync
      <3>3. FrameTrue(m)
        BY <3>2 DEF Sync, Wire
      <3>4. m.seq \in Nat
        BY <3>2 DEF DownFrames
      <3> QED BY <2>1, <3>3, <3>4 DEF FrameTrue
    <2>4. ~late' => lastSeq' = m.seq
      <3>1. ~late' => ~(m.seq < lastSeq)
        BY <2>2
      <3>2. ~(m.seq < lastSeq) => lastSeq' = m.seq
        <4>1. lastSeq' = IF m.seq > lastSeq THEN m.seq ELSE lastSeq
          BY <2>2
        <4> QED BY <1>2, <2>3, <4>1
      <3> QED BY <3>1, <3>2
    <2>5. Epoch' = Epoch
      BY <2>2 DEF Epoch
    <2> QED BY <2>2, <2>3, <2>4, <2>5 DEF FlagTrue, ActiveAt
  <1>5. ASSUME NEW f \in Fetchers, ApplySnapshot(f)
        PROVE  FlagTrue'
    <2>1. PICK e, at : e = fetch[f].epoch /\ at = fetch[f].at
      OBVIOUS
    <2>2. e \in 1..Epoch /\ at \in Nat /\ fetch[f].active = ActiveAt(at, e)
      BY <1>5, <2>1, JournalTypes DEF ApplySnapshot, SnapshotsTrue, SnapshotTrue
    <2>3. /\ lastSeq' = at - base[e] /\ knownEpoch' = e /\ turnActive' = ActiveAt(at, e)
          /\ UNCHANGED <<log, base>>
      BY <1>5, <2>1, <2>2 DEF ApplySnapshot, daemonVars, SeqOf
    <2>4. Epoch' = Epoch
      BY <2>3 DEF Epoch
    <2>5. e = Epoch => base[Epoch] + (at - base[e]) = at
      BY <1>1, <2>2
    <2> QED BY <2>3, <2>4, <2>5 DEF FlagTrue, ActiveAt
  <1>6. CASE ForgetSession
    <2>1. knownEpoch' = 0 /\ Epoch' = Epoch
      BY <1>6 DEF ForgetSession, daemonVars, Epoch
    <2> QED BY <1>1, <2>1 DEF FlagTrue
  <1>7. ASSUME \/ \E kind \in Kinds : EmitEvent(kind)
               \/ Restart \/ ConnectionLost \/ ServeFrame \/ ReconnectTimer \/ ServerHello
               \/ ReceiveResync \/ OpenSession \/ RecoverStaleConnection \/ Evict \/ Relist
               \/ UNCHANGED vars
        PROVE  UNCHANGED <<late, knownEpoch, turnActive, lastSeq>>
    BY <1>7 DEF EmitEvent, Restart, ConnectionLost, ServeFrame, ReconnectTimer, ServerHello,
       ReceiveResync, OpenSession, RecoverStaleConnection, Evict, Relist, vars, copyVars
  <1>8. ASSUME NEW f \in Fetchers,
               \/ AnswerSnapshot(f) \/ SnapshotOfForgotten(f) \/ DropStaleSnapshot(f)
               \/ DeferSnapshot(f) \/ SnapshotFails(f)
        PROVE  UNCHANGED <<late, knownEpoch, turnActive, lastSeq>>
    BY <1>8 DEF AnswerSnapshot, SnapshotOfForgotten, DropStaleSnapshot, DeferSnapshot,
       SnapshotFails, copyVars
  <1>9. ASSUME NEW p \in Prompts, BeginTurn(p) \/ DecidePrompt(p) \/ PromptAnswered(p)
        PROVE  UNCHANGED <<late, knownEpoch, turnActive, lastSeq>>
    BY <1>9 DEF BeginTurn, DecidePrompt, PromptAnswered, copyVars
  <1> QED
    BY <1>3, <1>4, <1>5, <1>6, <1>7, <1>8, <1>9 DEF Next, Network, Snapshots

----------------------------------------------------------------------------
(* The rest of the state's shape.                                          *)

LocalTypes ==
    /\ accepted \subseteq Prompts /\ pending \subseteq Prompts /\ shown \subseteq Prompts
    /\ generation \in Nat
    /\ {known, retryingStale, staleCursor, settleCallback, gaveUp} \subseteq BOOLEAN
    /\ settleCallback => pending # {}

LEMMA LocalStep ==
    ASSUME SnapshotsTrue, LocalTypes, [Next]_vars
    PROVE  LocalTypes'
  <1> USE DEF LocalTypes
  <1>1. ASSUME \/ \E kind \in Kinds : EmitEvent(kind)
               \/ Restart \/ ConnectionLost \/ ServeFrame \/ ReconnectTimer \/ ServerHello
               \/ ReceiveEvent \/ ReceiveResync \/ OpenSession \/ RecoverStaleConnection
               \/ \E f \in Fetchers : AnswerSnapshot(f) \/ SnapshotOfForgotten(f)
               \/ UNCHANGED vars
        PROVE  /\ UNCHANGED <<accepted, pending, shown, generation, known, retryingStale>>
               /\ UNCHANGED <<staleCursor, settleCallback, gaveUp>>
    BY <1>1 DEF EmitEvent, Restart, ConnectionLost, ServeFrame, ReconnectTimer, ServerHello,
       ReceiveEvent, ReceiveResync, OpenSession, RecoverStaleConnection, AnswerSnapshot,
       SnapshotOfForgotten, vars, daemonVars, wireVars, cacheVars, copyVars, fetchVars, turnVars
  <1>2. ASSUME NEW f \in Fetchers, DropStaleSnapshot(f) \/ DeferSnapshot(f) \/ SnapshotFails(f)
        PROVE  LocalTypes'
    <2>1. CASE DropStaleSnapshot(f)
      <3>1. retryingStale' \in BOOLEAN
        BY <2>1 DEF DropStaleSnapshot
      <3> QED BY <2>1, <3>1 DEF DropStaleSnapshot, daemonVars, cacheVars, copyVars, turnVars
    <2>2. CASE DeferSnapshot(f)
      <3>1. settleCallback' \in BOOLEAN /\ (settleCallback' => pending # {})
        BY <2>2 DEF DeferSnapshot
      <3> QED BY <2>2, <3>1 DEF DeferSnapshot, daemonVars, cacheVars, copyVars
    <2>3. CASE SnapshotFails(f)
      BY <2>3 DEF SnapshotFails, daemonVars, cacheVars, copyVars, turnVars
    <2> QED BY <1>2, <2>1, <2>2, <2>3
  <1>3. ASSUME NEW f \in Fetchers, ApplySnapshot(f)
        PROVE  LocalTypes'
    <2>1. fetch[f].own \subseteq Prompts
      BY <1>3 DEF ApplySnapshot, SnapshotsTrue, SnapshotTrue
    <2> QED BY <1>3, <2>1 DEF ApplySnapshot, daemonVars, turnVars
  <1>4. CASE Evict
    BY <1>4 DEF Evict, daemonVars, copyVars, fetchVars, turnVars
  <1>5. CASE ForgetSession
    BY <1>5 DEF ForgetSession, daemonVars
  <1>6. CASE Relist
    BY <1>6 DEF Relist, daemonVars, cacheVars, fetchVars, turnVars
  <1>7. ASSUME NEW p \in Prompts, BeginTurn(p)
        PROVE  LocalTypes'
    <2>1. p \in Nat
      BY DEF Prompts
    <2> QED BY <1>7, <2>1 DEF BeginTurn, daemonVars, cacheVars, fetchVars
  <1>8. ASSUME NEW p \in Prompts, DecidePrompt(p)
        PROVE  LocalTypes'
    BY <1>8 DEF DecidePrompt, cacheVars, copyVars, fetchVars
  <1>9. ASSUME NEW p \in Prompts, PromptAnswered(p)
        PROVE  LocalTypes'
    BY <1>9 DEF PromptAnswered, SettleTurn, daemonVars, cacheVars
  <1> QED BY <1>1, <1>2, <1>3, <1>4, <1>5, <1>6, <1>7, <1>8, <1>9 DEF Next, Network, Snapshots

SyncInv == Journal /\ RunnerTypes /\ SnapshotsTrue /\ Sync /\ FlagTrue /\ LocalTypes

LEMMA SyncStarts == Init => SyncInv
  <1> SUFFICES ASSUME Init PROVE SyncInv
    OBVIOUS
  <1> USE DEF Init
  <1>1. LogEnd = 0 /\ Epoch = 1 /\ base[1] = 0
    BY DEF LogEnd, Epoch
  <1>2. Journal
    BY <1>1, EmptySeq DEF Journal
  <1>3. Transit = {}
    BY EmptySeq DEF Transit
  <1>4. Wire /\ Copy /\ Subscribed /\ WorkComesLast /\ OnTrack
    <2>1. Wire
      BY <1>3, EmptySeq DEF Wire
    <2>2. Copy
      <3>1. cursor \in Cursors /\ cursor = NoCursor
        BY DEF Cursors, NoCursor
      <3>2. /\ retained = FALSE /\ requiringSnapshot = FALSE /\ turnActive = FALSE
            /\ lastSeq = 0 /\ knownEpoch = 0 /\ seen = {}
        OBVIOUS
      <3>3. knownEpoch \in 0..Epoch /\ knownEpoch # Epoch
        BY <1>1, <3>2
      <3> HIDE DEF Init
      <3>4. retained \in BOOLEAN /\ requiringSnapshot \in BOOLEAN /\ turnActive \in BOOLEAN
        BY <3>2
      <3>5. lastSeq \in Nat /\ seen \subseteq 1..LogEnd
        BY <3>2
      <3> QED BY <3>1, <3>2, <3>3, <3>4, <3>5 DEF Copy
    <2>3. Subscribed /\ WorkComesLast /\ OnTrack
      BY DEF Subscribed, WorkComesLast, OnTrack
    <2> QED BY <2>1, <2>2, <2>3
  <1>5. RunnerTypes /\ SnapshotsTrue /\ LocalTypes
    BY DEF RunnerTypes, SnapshotsTrue, SnapshotTrue, Idle, LocalTypes
  <1>6. FlagTrue
    BY <1>1 DEF FlagTrue
  <1> QED BY <1>2, <1>4, <1>5, <1>6 DEF SyncInv, Sync

LEMMA SyncInvStep == SyncInv /\ [Next]_vars => SyncInv'
  <1> SUFFICES ASSUME SyncInv, [Next]_vars PROVE SyncInv'
    OBVIOUS
  <1>1. Journal'
    BY JournalSteps, JournalGrows DEF SyncInv
  <1>2. RunnerTypes' /\ SnapshotsTrue'
    BY RunnerStays, SnapshotsStay DEF SyncInv, LocalTypes
  <1>3. Sync' /\ FlagTrue' /\ LocalTypes'
    BY SyncStep, FlagStep, LocalStep DEF SyncInv
  <1> QED BY <1>1, <1>2, <1>3 DEF SyncInv

LEMMA SyncHolds == Spec => []SyncInv
  BY SyncStarts, SyncInvStep, PTL DEF Spec

(* The state keeps its shape: above all, the copy holds nothing the daemon *)
(* does not have, a mark is left only on a call in flight, and a callback  *)
(* only while a prompt is.                                                 *)
THEOREM StateWellFormed == Spec => []TypeOK
  <1>1. SyncInv => TypeOK
    BY DEF SyncInv, Journal, RunnerTypes, Sync, Wire, Copy, Cursors, LocalTypes, TypeOK
  <1> QED BY <1>1, SyncHolds, PTL

(* When everything has settled the client's copy of a subscribed session   *)
(* equals the daemon's, however many epochs, lost connections, overflows,  *)
(* evictions and racing snapshots there were on the way; so does its turn  *)
(* flag, unless an older turn event came in after the last snapshot.       *)
THEOREM CopyConverges == Spec => []Converged
  <1>1. SyncInv /\ ResyncInv => Converged
    <2> SUFFICES ASSUME SyncInv, ResyncInv, Quiet, known, retained, ~gaveUp, ~skipped
                 PROVE  /\ seen = 1..LogEnd
                        /\ knownEpoch = Epoch
                        /\ lastSeq = SeqOf(LogEnd, Epoch)
                        /\ ~late \/ (log # <<>> /\ log[LogEnd] = "work") =>
                             turnActive = ActiveAt(LogEnd, Epoch)
      BY DEF Converged
    <2>1. ~settleCallback
      BY DEF Quiet, SyncInv, LocalTypes
    <2>2. knownEpoch # 0
      BY DEF SyncInv, Sync, Copy
    <2>3. ~requiringSnapshot
      BY <2>1, <2>2 DEF Quiet, ResyncInv, ResyncHasDriver, SyncInv, Sync, Copy
    <2>4. Transit = {}
      BY EmptySeq DEF Quiet, Transit
    <2>5. ~ResyncComing /\ ToCome = {}
      BY <2>4 DEF ResyncComing, ToCome
    <2>6. Streaming
      BY <2>3, <2>5 DEF Quiet, SyncInv, Sync, OnTrack
    <2>7. base[Epoch] \in Nat /\ LogEnd \in Nat /\ lastSeq \in Nat
      BY JournalTypes DEF SyncInv, Sync, Copy
    <2>8. lastSeq = SeqOf(LogEnd, Epoch)
      BY <2>5, <2>6, <2>7 DEF Streaming, SeqOf
    <2>9. seen = 1..LogEnd
      BY <2>5, <2>6 DEF Streaming, SyncInv, Sync, Copy
    <2>10. log # <<>> => LogEnd # 0
      BY JournalTypes DEF SyncInv
    <2>11. log # <<>> /\ log[LogEnd] = "work" => turnActive = Now
      BY <2>6, <2>10 DEF Streaming, TurnRight, LastIsWork, Quiet
    <2>12. ~late => turnActive = ActiveAt(LogEnd, Epoch)
      <3>1. base[Epoch] + lastSeq = LogEnd
        BY <2>5, <2>6, <2>7 DEF Streaming
      <3> QED BY <2>6, <3>1 DEF Streaming, SyncInv, FlagTrue
    <2> QED BY <2>6, <2>8, <2>9, <2>11, <2>12 DEF Streaming, Now
  <1>2. Init => ResyncInv
    BY DEF Init, ResyncInv, ResyncHasDriver
  <1> QED BY <1>1, <1>2, StepResync, SyncHolds, PTL DEF Spec

=============================================================================
