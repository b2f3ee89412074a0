----------------------- MODULE AgentProjector_proofs -----------------------
(***************************************************************************)
(* Proofs about AgentProjector, for all bounds: the types of its state,    *)
(* every turn end a client has heard of has run its side effects, the      *)
(* projector's log of the transcript is what the reducer renders, a bubble *)
(* holds the text of one step, none shows a failed attempt next to what    *)
(* followed it, and the text of a step is shown in order, without gaps or  *)
(* repetitions, and whole once the step has ended.                         *)
(***************************************************************************)
EXTENDS AgentProjector, TLAPS, SequenceTheorems, FiniteSetTheorems

Durables == {"turn.started", "turn.step.started", "tool.call.started", "tool.result",
             "turn.step.completed", "turn.step.retrying", "turn.step.interrupted", "turn.ended"}

Frames == [type : Durables \cup {"resync"}, seq : Nat, turn : Nat, step : Nat]
Deltas == [type : {"delta"}, seq : Nat, step : Nat, kind : Kinds, offset : Nat]

StepRecords == [turn : Nat, sent : [Kinds -> Nat], fate : {"live", "done", "retried", "cut"}]

Snapshots ==
    [phase : {"answered"}, at : 0..Len(journal), steps : Nat, turn : Nat,
     done : SUBSET DOMAIN steps, inFlight : BOOLEAN, toolOpen : BOOLEAN, sent : [Kinds -> Nat]]

(* The journal, the frames in transit and the snapshot request.            *)
DaemonTypes ==
    /\ journal \in Seq(Frames) /\ turn \in Nat
    /\ \A s \in DOMAIN journal : journal[s].seq = s /\ journal[s].type \in Durables
    /\ steps \in Seq(StepRecords)
    /\ phase \in {"step", "results"} => steps # <<>>
    /\ toolOpen \in BOOLEAN

(* A durable frame in transit is the journal's.                            *)
Genuine(m, j) == m.seq <= Len(j) /\ (m.type \in Durables => m.seq \in DOMAIN j /\ m = j[m.seq])

WireTypes ==
    /\ served \in BOOLEAN
    /\ down \in Seq(Frames \cup Deltas) /\ \A i \in DOMAIN down : Genuine(down[i], journal)
    /\ up \in Seq(Nat) /\ \A i \in DOMAIN up : up[i] <= Len(journal)
    /\ cursor \in 0..Len(journal)

FetchTypes ==
    /\ fetch \in {Idle, Sent} \cup Snapshots
    /\ queued \in BOOLEAN /\ required \in BOOLEAN /\ retryingStale \in BOOLEAN

CopyTypes ==
    /\ transcript \subseteq DOMAIN steps /\ kept \subseteq DOMAIN steps
    /\ lastSeq \in 0..Len(journal)
    /\ handled \subseteq DOMAIN journal

(* Everything but the messages.                                            *)
Types == DaemonTypes /\ WireTypes /\ FetchTypes /\ CopyTypes

----------------------------------------------------------------------------
(* A durable frame of the daemon keeps the types, whatever becomes of the  *)
(* current step.                                                           *)
LEMMA JournalTypes ==
    ASSUME Types, NEW type \in Durables, Journal(type),
           turn' \in Nat, toolOpen' \in BOOLEAN,
           steps' \in Seq(StepRecords),
           DOMAIN steps \subseteq DOMAIN steps',
           phase' \in {"step", "results"} => steps' # <<>>
    PROVE  Types'
  <1> DEFINE frame == [type |-> type, seq |-> Len(journal) + 1, turn |-> turn', step |-> Len(steps')]
  <1>1. journal \in Seq(Frames) /\ Len(journal) \in Nat /\ Len(steps') \in Nat
    BY DEF Types, DaemonTypes
  <1> DEFINE resync == [frame EXCEPT !.type = "resync"]
  <1>2. /\ frame \in Frames /\ frame.seq = Len(journal) + 1
        /\ resync \in Frames /\ resync.seq = Len(journal) + 1
    BY <1>1 DEF Frames, Durables
  <1>3. journal' = Append(journal, frame)
    BY DEF Journal
  <1>4. journal' \in Seq(Frames) /\ Len(journal') = Len(journal) + 1
        /\ DOMAIN journal \subseteq DOMAIN journal'
    BY <1>1, <1>2, <1>3
  <1>5. DaemonTypes'
    <2>1. frame.type \in Durables
      OBVIOUS
    <2> HIDE DEF frame
    <2>2. \A s \in DOMAIN journal : journal[s].seq = s /\ journal[s].type \in Durables
      BY DEF Types, DaemonTypes
    <2>3. \A s \in DOMAIN journal' : journal'[s].seq = s /\ journal'[s].type \in Durables
      BY <1>1, <1>2, <1>3, <1>4, <2>1, <2>2
    <2> QED BY <1>4, <2>3 DEF DaemonTypes
  <1>6. WireTypes'
    <2>1. down' \in {down, Append(down, frame), Append(down, resync)}
      BY DEF Journal
    <2>2. UNCHANGED <<served, up, cursor>>
      BY DEF Journal
    <2>3. down \in Seq(Frames \cup Deltas)
      BY DEF Types, WireTypes
    <2>3a. \A i \in DOMAIN down : Genuine(down[i], journal')
      <3> TAKE i \in DOMAIN down
      <3>1. Genuine(down[i], journal) /\ down[i].seq \in Nat
        BY DEF Types, WireTypes, Frames, Deltas
      <3>2. \A s \in DOMAIN journal : journal'[s] = journal[s]
        BY <1>1, <1>2, <1>3
      <3> QED BY <3>1, <3>2, <1>1, <1>4 DEF Genuine
    <2>4. ASSUME NEW m \in Frames, Genuine(m, journal')
          PROVE  /\ Append(down, m) \in Seq(Frames \cup Deltas)
                 /\ \A i \in DOMAIN Append(down, m) : Genuine(Append(down, m)[i], journal')
      <3>1. \A i \in DOMAIN Append(down, m) : (i \in DOMAIN down /\ Append(down, m)[i] = down[i]) \/ Append(down, m)[i] = m
        BY <2>3
      <3> QED BY <2>3, <2>3a, <2>4, <3>1
    <2>4a. Genuine(frame, journal') /\ Genuine(resync, journal')
      <3>1. resync.type \notin Durables
        BY DEF Durables
      <3> HIDE DEF frame, resync
      <3>2. frame = journal'[Len(journal) + 1]
        BY <1>1, <1>2, <1>3
      <3> QED BY <1>1, <1>2, <1>4, <3>1, <3>2 DEF Genuine
    <2>5. down' \in Seq(Frames \cup Deltas) /\ \A i \in DOMAIN down' : Genuine(down'[i], journal')
      <3> HIDE DEF frame, resync
      <3>1. CASE down' = down
        BY <3>1, <2>3, <2>3a
      <3>2. CASE down' = Append(down, frame)
        BY <3>2, <2>4, <2>4a, <1>2
      <3>3. CASE down' = Append(down, resync)
        BY <3>3, <2>4, <2>4a, <1>2
      <3> QED BY <3>1, <3>2, <3>3, <2>1
    <2> QED BY <2>2, <2>5, <1>1, <1>4 DEF Types, WireTypes
  <1>7. FetchTypes'
    <2>1. Snapshots \subseteq Snapshots'
      BY <1>1, <1>4 DEF Snapshots
    <2>2. UNCHANGED fetchVars
      BY DEF Journal
    <2> QED BY <2>1, <2>2 DEF Types, FetchTypes, fetchVars, Idle, Sent
  <1>8. CopyTypes'
    BY <1>1, <1>4 DEF Types, CopyTypes, Journal, copyVars
  <1> QED BY <1>5, <1>6, <1>7, <1>8 DEF Types

LEMMA LeaveTypes ==
    ASSUME Types, NEW fate \in {"done", "retried", "cut"}, Leave(fate)
    PROVE  /\ steps' \in Seq(StepRecords) /\ DOMAIN steps \subseteq DOMAIN steps'
           /\ phase \in {"step", "results"} => steps' # <<>>
  <1>1. steps \in Seq(StepRecords) /\ Len(steps) \in Nat
    BY DEF Types, DaemonTypes
  <1>2. CASE phase \in {"step", "results"}
    <2>1. Len(steps) \in 1..Len(steps)
      BY <1>1, <1>2 DEF Types, DaemonTypes
    <2>2. [steps[Len(steps)] EXCEPT !.fate = fate] \in StepRecords
      <3>1. steps[Len(steps)] \in StepRecords
        BY <1>1, <2>1
      <3> QED BY <3>1 DEF StepRecords
    <2>3. steps' = [steps EXCEPT ![Len(steps)] = [steps[Len(steps)] EXCEPT !.fate = fate]]
      BY <1>2 DEF Leave, Step
    <2>4. steps' \in Seq(StepRecords) /\ Len(steps') = Len(steps)
      BY <1>1, <2>1, <2>2, <2>3, ExceptSeq
    <2> QED BY <1>1, <2>1, <2>4
  <1> QED BY <1>1, <1>2 DEF Leave

(* The frames after a cursor.                                              *)
LEMMA ReplayOf ==
    ASSUME Types, NEW after \in 0..Len(journal)
    PROVE  /\ Replay(after) \in Seq(Frames \cup Deltas)
           /\ Len(Replay(after)) = Len(journal) - after
           /\ \A i \in 1..Len(Replay(after)) : Replay(after)[i] = journal[after + i]
           /\ \A i \in 1..Len(Replay(after)) :
                Replay(after)[i].seq = after + i /\ Genuine(Replay(after)[i], journal)
  <1> DEFINE S == Frames \cup Deltas
  <1>1. journal \in Seq(S) /\ Len(journal) \in Nat
        /\ \A s \in 1..Len(journal) : journal[s] \in S /\ journal[s].seq = s
    BY SeqMonotonic DEF Types, DaemonTypes
  <1>2. \A i \in (after + 1)..Len(journal) : journal[i] \in S
    BY <1>1
  <1>3. Len(Replay(after)) = IF after + 1 <= Len(journal) THEN Len(journal) - (after + 1) + 1 ELSE 0
    BY <1>1, <1>2, SubSeqProperties DEF Replay
  <1>4. \A i \in 1..(Len(journal) - (after + 1) + 1) : Replay(after)[i] = journal[(after + 1) + i - 1]
    BY <1>1, <1>2, SubSeqProperties DEF Replay
  <1>5. Replay(after) \in Seq(S)
    BY <1>1, <1>2, SubSeqProperties DEF Replay
  <1>6. Len(Replay(after)) = Len(journal) - after
    BY <1>1, <1>3
  <1>7. \A i \in 1..Len(Replay(after)) : Replay(after)[i] = journal[after + i] /\ after + i \in 1..Len(journal)
    BY <1>1, <1>4, <1>6
  <1>8. \A i \in 1..Len(Replay(after)) :
          Replay(after)[i].seq = after + i /\ Genuine(Replay(after)[i], journal)
    <2> TAKE i \in 1..Len(Replay(after))
    <2>1. Replay(after)[i] = journal[after + i] /\ after + i \in 1..Len(journal)
      BY <1>7
    <2>2. journal[after + i].seq = after + i
      BY <1>1, <2>1
    <2> QED BY <1>1, <2>1, <2>2 DEF Genuine
  <1> QED BY <1>5, <1>6, <1>7, <1>8

(* The frames after a cursor, appended to those in transit.                *)
LEMMA AppendReplay ==
    ASSUME Types, NEW after \in 0..Len(journal)
    PROVE  LET all == down \o Replay(after)
           IN  /\ all \in Seq(Frames \cup Deltas)
               /\ Len(all) = Len(down) + (Len(journal) - after)
               /\ \A i \in 1..Len(down) : all[i] = down[i]
               /\ \A i \in (Len(down) + 1)..Len(all) : all[i] = journal[after + i - Len(down)]
               /\ \A i \in DOMAIN all : Genuine(all[i], journal)
  <1> DEFINE S == Frames \cup Deltas
             old == Replay(after)
  <1>1. down \in Seq(S) /\ \A i \in 1..Len(down) : Genuine(down[i], journal)
    BY DEF Types, WireTypes
  <1>2. /\ old \in Seq(S) /\ Len(old) = Len(journal) - after
        /\ \A i \in 1..Len(old) : old[i] = journal[after + i] /\ Genuine(old[i], journal)
    BY ReplayOf
  <1>3. Len(journal) \in Nat
    BY DEF Types, DaemonTypes
  <1> HIDE DEF S, old
  <1>4. /\ down \o old \in Seq(S) /\ Len(down \o old) = Len(down) + Len(old)
        /\ \A i \in 1..(Len(down) + Len(old)) :
             (down \o old)[i] = IF i <= Len(down) THEN down[i] ELSE old[i - Len(down)]
    BY <1>1, <1>2, ConcatProperties
  <1>5. Len(down) \in Nat /\ Len(old) \in Nat
    BY <1>1, <1>2
  <1>6. \A i \in 1..Len(down) : (down \o old)[i] = down[i]
    BY <1>4, <1>5
  <1>7. \A i \in (Len(down) + 1)..Len(down \o old) :
          (down \o old)[i] = journal[after + i - Len(down)] /\ Genuine((down \o old)[i], journal)
    <2> TAKE i \in (Len(down) + 1)..Len(down \o old)
    <2>1. i - Len(down) \in 1..Len(old) /\ ~(i <= Len(down)) /\ i \in 1..(Len(down) + Len(old))
      BY <1>4, <1>5
    <2>2. (down \o old)[i] = old[i - Len(down)]
      BY <1>4, <2>1
    <2> QED BY <1>2, <1>5, <2>1, <2>2
  <1>8. \A i \in 1..Len(down \o old) : Genuine((down \o old)[i], journal)
    BY <1>1, <1>4, <1>5, <1>6, <1>7
  <1>9. DOMAIN (down \o old) = 1..Len(down \o old)
    BY <1>4, LenProperties
  <1> QED BY <1>2, <1>4, <1>6, <1>7, <1>8, <1>9 DEF S, old

(* What does not change keeps its types.                                   *)
LEMMA SameTypes ==
    ASSUME Types, UNCHANGED <<daemonVars, copyVars, fetchVars>>
    PROVE  DaemonTypes' /\ FetchTypes' /\ CopyTypes'
  <1>1. Snapshots' = Snapshots
    BY DEF daemonVars, Snapshots
  <1> QED BY <1>1 DEF Types, DaemonTypes, FetchTypes, CopyTypes, daemonVars, copyVars, fetchVars,
                      Idle, Sent

(* The daemon's own steps keep the types.                                  *)
LEMMA DaemonKeepsTypes == Types /\ Daemon => Types'
  <1> SUFFICES ASSUME Types, Daemon
               PROVE  Types'
    OBVIOUS
  <1>0. turn \in Nat /\ steps \in Seq(StepRecords) /\ toolOpen \in BOOLEAN
        /\ Len(steps) \in Nat /\ (phase \in {"step", "results"} => steps # <<>>)
    BY DEF Types, DaemonTypes
  <1>1. CASE StartTurn
    BY <1>0, <1>1, JournalTypes DEF StartTurn, Durables
  <1>2. CASE StartStep
    <2> DEFINE step == [turn |-> turn, sent |-> NoText, fate |-> "live"]
    <2>1. step \in StepRecords
      BY <1>0 DEF StepRecords, NoText
    <2>2. steps' = Append(steps, step) /\ turn' = turn /\ toolOpen' = toolOpen
      BY <1>2 DEF StartStep
    <2>3. steps' \in Seq(StepRecords) /\ DOMAIN steps \subseteq DOMAIN steps' /\ steps' # <<>>
      BY <1>0, <2>1, <2>2
    <2> QED BY <1>0, <1>2, <2>2, <2>3, JournalTypes DEF StartStep, Durables
  <1>3. ASSUME NEW k \in Kinds, StreamDelta(k)
        PROVE  Types'
    <2> DEFINE delta == [type |-> "delta", seq |-> Len(journal), step |-> Step,
                         kind |-> k, offset |-> steps[Step].sent[k]]
    <2>0. Step \in 1..Len(steps) /\ steps[Step] \in StepRecords
      BY <1>0, <1>3 DEF StreamDelta, Step
    <2>1. Len(journal) \in Nat
      BY DEF Types, DaemonTypes
    <2>2. delta \in Deltas /\ delta.seq = Len(journal)
      BY <2>0, <2>1 DEF Deltas, StepRecords
    <2>3. down' \in {down, Append(down, delta)}
      BY <1>3 DEF StreamDelta
    <2>4. UNCHANGED <<journal, turn, phase, toolOpen, served, up, cursor, copyVars, fetchVars>>
      BY <1>3 DEF StreamDelta
    <2>5. WireTypes'
      <3>1. down \in Seq(Frames \cup Deltas)
        BY DEF Types, WireTypes
      <3> HIDE DEF delta
      <3>2. Append(down, delta) \in Seq(Frames \cup Deltas)
            /\ \A i \in DOMAIN Append(down, delta) :
                  (i \in DOMAIN down /\ Append(down, delta)[i] = down[i]) \/ Append(down, delta)[i] = delta
        BY <3>1, <2>2
      <3>3. Genuine(delta, journal)
        BY <2>1, <2>2 DEF Genuine, Deltas, Durables
      <3>4. \A i \in DOMAIN Append(down, delta) : Genuine(Append(down, delta)[i], journal)
        BY <3>2, <3>3 DEF Types, WireTypes
      <3> QED BY <2>3, <2>4, <3>2, <3>4 DEF Types, WireTypes
    <2>6. steps' \in Seq(StepRecords) /\ DOMAIN steps' = DOMAIN steps
          /\ (phase \in {"step", "results"} => steps' # <<>>)
      <3> DEFINE grown == [steps[Step] EXCEPT !.sent[k] = @ + 1]
      <3>1. steps' = [steps EXCEPT ![Step] = grown]
        BY <1>3 DEF StreamDelta
      <3>2. grown \in StepRecords
        <4>1. steps[Step].sent \in [Kinds -> Nat]
          BY <2>0 DEF StepRecords
        <4>2. [steps[Step].sent EXCEPT ![k] = @ + 1] \in [Kinds -> Nat]
          BY <4>1
        <4> QED BY <2>0, <4>2 DEF StepRecords
      <3> QED BY <1>0, <2>0, <3>1, <3>2, ExceptSeq
    <2>7. Snapshots' = Snapshots
      BY <2>4, <2>6 DEF Snapshots
    <2> QED BY <2>4, <2>5, <2>6, <2>7
            DEF Types, DaemonTypes, FetchTypes, CopyTypes, copyVars, fetchVars, Idle, Sent
  <1>4. CASE CallTool
    BY <1>0, <1>4, JournalTypes DEF CallTool, Durables
  <1>5. CASE ToolResult
    BY <1>0, <1>5, JournalTypes DEF ToolResult, Durables
  <1>6. CASE CompleteStep
    BY <1>0, <1>6, JournalTypes, LeaveTypes DEF CompleteStep, Durables
  <1>7. CASE RetryStep
    BY <1>0, <1>7, JournalTypes, LeaveTypes DEF RetryStep, Durables
  <1>8. CASE InterruptStep
    BY <1>0, <1>8, JournalTypes, LeaveTypes DEF InterruptStep, Durables
  <1>9. CASE EndTurn
    BY <1>0, <1>9, JournalTypes, LeaveTypes DEF EndTurn, Durables
  <1>10. CASE ServeSubscribe
    <2>1. up \in Seq(Nat) /\ Head(up) \in 0..Len(journal)
          /\ Tail(up) \in Seq(Nat) /\ \A i \in DOMAIN Tail(up) : Tail(up)[i] <= Len(journal)
      BY <1>10, HeadTailProperties, SMTT(40) DEF ServeSubscribe, Types, WireTypes
    <2>2. UNCHANGED <<daemonVars, cursor, copyVars, fetchVars>>
      BY <1>10 DEF ServeSubscribe
    <2>3. down' \in Seq(Frames \cup Deltas) /\ \A i \in DOMAIN down' : Genuine(down'[i], journal)
      <3>1. down' = down \o Replay(Head(up))
        BY <1>10 DEF ServeSubscribe
      <3> QED BY <2>1, <3>1, AppendReplay
    <2>4. WireTypes'
      BY <1>10, <2>1, <2>2, <2>3 DEF ServeSubscribe, Types, WireTypes, daemonVars
    <2> QED BY <2>2, <2>4, SameTypes DEF daemonVars, Types
  <1>11. CASE AnswerSnapshot
    <2>1. UNCHANGED <<daemonVars, wireVars, copyVars, queued, required, retryingStale>>
      BY <1>11 DEF AnswerSnapshot
    <2>2. fetch' \in Snapshots
      <3> DEFINE text == IF phase \in {"step", "results"} THEN steps[Step].sent ELSE NoText
      <3>1. text \in [Kinds -> Nat]
        <4>1. CASE phase \in {"step", "results"}
          <5>1. Step \in 1..Len(steps) /\ steps[Step] \in StepRecords
            BY <1>0, <4>1 DEF Step
          <5>2. steps[Step].sent \in [Kinds -> Nat]
            BY <5>1 DEF StepRecords
          <5> QED BY <4>1, <5>2
        <4> QED BY <4>1 DEF NoText
      <3>2. Len(journal) \in 0..Len(journal) /\ Step \in Nat
        BY <1>0 DEF Types, DaemonTypes, Step
      <3>3. fetch' = [phase |-> "answered", at |-> Len(journal), steps |-> Step, turn |-> turn,
                      done |-> {a \in DOMAIN steps : steps[a].fate \in {"done", "cut"}},
                      inFlight |-> phase # "idle", toolOpen |-> toolOpen, sent |-> text]
        BY <1>11 DEF AnswerSnapshot
      <3> HIDE DEF text
      <3> QED BY <1>0, <3>1, <3>2, <3>3 DEF Snapshots
    <2>3. Snapshots' = Snapshots
      BY <2>1 DEF daemonVars, Snapshots
    <2> QED BY <2>1, <2>2, <2>3
            DEF Types, DaemonTypes, WireTypes, FetchTypes, CopyTypes, daemonVars, wireVars, copyVars
  <1> QED BY <1>1, <1>2, <1>3, <1>4, <1>5, <1>6, <1>7, <1>8, <1>9, <1>10, <1>11 DEF Daemon

----------------------------------------------------------------------------
(* What the first frame in transit is, and what taking it leaves.          *)
LEMMA TakenFrame ==
    ASSUME Types, NEW type, TakeFrame(type)
    PROVE  /\ Head(down) = down[1] /\ Head(down) \in Frames \cup Deltas /\ Head(down).type = type
           /\ Head(down).seq \in 0..Len(journal) /\ Genuine(Head(down), journal)
           /\ Len(down) \in Nat \ {0} /\ down' \in Seq(Frames \cup Deltas)
           /\ Len(down') = Len(down) - 1 /\ \A i \in 1..Len(down') : down'[i] = down[i + 1]
  <1>1. down \in Seq(Frames \cup Deltas) /\ down # <<>> /\ down' = Tail(down)
    BY DEF TakeFrame, Types, WireTypes
  <1>2. Len(down) \in Nat \ {0} /\ Head(down) = down[1] /\ down[1] \in Frames \cup Deltas
    BY <1>1
  <1>3. Genuine(down[1], journal) /\ down[1].seq \in 0..Len(journal)
    <2>1. down[1].seq \in Nat /\ Len(journal) \in Nat
      BY <1>2 DEF Types, DaemonTypes, Frames, Deltas
    <2>2. Genuine(down[1], journal)
      BY <1>1, <1>2 DEF Types, WireTypes
    <2> QED BY <2>1, <2>2 DEF Genuine
  <1> QED BY <1>1, <1>2, <1>3, HeadTailProperties DEF TakeFrame

LEMMA FrameKeepsTypes ==
    ASSUME Types, NEW type, TakeFrame(type),
           lastSeq' \in {lastSeq, Larger(lastSeq, Head(down).seq)},
           handled' \subseteq DOMAIN journal,
           \/ UNCHANGED fetchVars
           \/ Request /\ required' = TRUE /\ UNCHANGED retryingStale
    PROVE  Types'
  <1>1. UNCHANGED <<daemonVars, served, up, transcript, kept>>
        /\ cursor' \in {cursor, Larger(cursor, Head(down).seq)}
    BY DEF TakeFrame
  <1>2. cursor' \in 0..Len(journal) /\ lastSeq' \in 0..Len(journal)
    BY <1>1, TakenFrame DEF Types, WireTypes, CopyTypes, Larger
  <1>3. WireTypes'
    <2>1. \A i \in DOMAIN down' : Genuine(down'[i], journal)
      <3>1. Len(down) \in Nat /\ Len(down') = Len(down) - 1
            /\ \A i \in 1..Len(down') : down'[i] = down[i + 1]
        BY TakenFrame
      <3>2. DOMAIN down = 1..Len(down) /\ DOMAIN down' = 1..Len(down')
        BY TakenFrame DEF Types, WireTypes
      <3>3. \A i \in DOMAIN down : Genuine(down[i], journal)
        BY DEF Types, WireTypes
      <3>4. \A i \in 1..Len(down') : i + 1 \in DOMAIN down
        BY <3>1, <3>2
      <3> HIDE DEF Genuine
      <3>5. \A i \in DOMAIN down' : down'[i] = down[i + 1] /\ i + 1 \in DOMAIN down
        BY <3>1, <3>2, <3>4
      <3> QED BY <3>3, <3>5
    <2> QED BY <1>1, <1>2, <2>1, TakenFrame DEF Types, WireTypes, daemonVars
  <1>4. FetchTypes'
    <2>1. Snapshots' = Snapshots
      BY <1>1 DEF daemonVars, Snapshots
    <2> QED BY <2>1 DEF Types, FetchTypes, fetchVars, Request, Idle, Sent
  <1>5. DaemonTypes' /\ CopyTypes'
    BY <1>1, <1>2 DEF Types, DaemonTypes, CopyTypes, daemonVars
  <1> QED BY <1>3, <1>4, <1>5 DEF Types

(* The client's steps keep the types.                                      *)
LEMMA ClientKeepsTypes == Types /\ Client => Types'
  <1> SUFFICES ASSUME Types, Client
               PROVE  Types'
    OBVIOUS
  <1>0. handled \subseteq DOMAIN journal /\ DOMAIN journal = 1..Len(journal) /\ Len(journal) \in Nat
    BY DEF Types, CopyTypes, DaemonTypes
  <1>1. CASE ProjectTurnStarted
    BY <1>0, <1>1, FrameKeepsTypes DEF ProjectTurnStarted, Heard
  <1>2. CASE ProjectStepStarted
    BY <1>0, <1>2, FrameKeepsTypes DEF ProjectStepStarted, Heard
  <1>3. CASE ProjectNothing
    BY <1>0, <1>3, FrameKeepsTypes DEF ProjectNothing
  <1>4. CASE ProjectDelta
    BY <1>0, <1>4, FrameKeepsTypes DEF ProjectDelta, Heard
  <1>5. CASE ProjectGap
    BY <1>0, <1>5, FrameKeepsTypes DEF ProjectGap, Heard
  <1>6. CASE ProjectToolCall
    BY <1>0, <1>6, FrameKeepsTypes DEF ProjectToolCall, Heard
  <1>7. CASE ProjectToolResult
    BY <1>0, <1>7, FrameKeepsTypes DEF ProjectToolResult, Heard
  <1>8. CASE ProjectStepCompleted
    BY <1>0, <1>8, FrameKeepsTypes DEF ProjectStepCompleted, Heard
  <1>9. CASE ProjectStepRetrying
    BY <1>0, <1>9, FrameKeepsTypes DEF ProjectStepRetrying, Heard
  <1>10. CASE ProjectStepInterrupted
    BY <1>0, <1>10, FrameKeepsTypes DEF ProjectStepInterrupted
  <1>11. CASE ProjectTurnEnded
    <2>1. TakeFrame("turn.ended") /\ Heard(Head(down)) /\ UNCHANGED fetchVars
          /\ handled' \subseteq handled \cup {Head(down).seq}
      BY <1>11 DEF ProjectTurnEnded
    <2>2. Head(down).seq \in DOMAIN journal
      BY <2>1, TakenFrame DEF Genuine, Durables
    <2> QED BY <1>0, <2>1, <2>2, FrameKeepsTypes DEF Heard
  <1>12. CASE ReceiveResync
    <2>1. EndsUpTo(Head(down).seq) \subseteq DOMAIN journal
      BY <1>0, <1>12, TakenFrame DEF ReceiveResync, EndsUpTo
    <2> QED BY <1>0, <1>12, <2>1, FrameKeepsTypes DEF ReceiveResync
  <1>13. CASE DropStaleSnapshot
    <2>1. fetch' \in {Idle, Sent} /\ queued' \in BOOLEAN /\ retryingStale' \in BOOLEAN
          /\ UNCHANGED <<daemonVars, wireVars, copyVars, required>>
      BY <1>13 DEF DropStaleSnapshot, Settle
    <2> QED BY <2>1 DEF Types, DaemonTypes, WireTypes, FetchTypes, CopyTypes,
                        daemonVars, wireVars, copyVars
  <1>14. CASE ApplySnapshot
    <2>1. fetch \in Snapshots
      BY <1>14 DEF ApplySnapshot, Types, FetchTypes, Idle, Sent
    <2>2. fetch.at \in 0..Len(journal) /\ fetch.done \subseteq DOMAIN steps
      BY <2>1 DEF Snapshots
    <2>3. EndsUpTo(fetch.at) \subseteq DOMAIN journal
      BY <1>0, <2>2 DEF EndsUpTo
    <2>4. UNCHANGED <<daemonVars, served, down>>
      BY <1>14 DEF ApplySnapshot
    <2>5. CopyTypes'
      <3>1. kept' \subseteq DOMAIN steps
        BY <1>14 DEF ApplySnapshot, Merged
      <3>2. transcript' = fetch.done /\ lastSeq' = fetch.at
            /\ handled' = handled \cup EndsUpTo(fetch.at)
        BY <1>14 DEF ApplySnapshot
      <3> QED BY <1>0, <2>2, <2>3, <2>4, <3>1, <3>2 DEF CopyTypes, daemonVars
    <2>6. WireTypes'
      <3>1. up \in Seq(Nat) /\ \A i \in DOMAIN up : up[i] <= Len(journal)
        BY DEF Types, WireTypes
      <3>2. up' = Append(up, fetch.at) /\ cursor' = fetch.at
        BY <1>14 DEF ApplySnapshot
      <3>3. up' \in Seq(Nat) /\ \A i \in DOMAIN up' : up'[i] <= Len(journal)
        BY <1>0, <2>2, <3>1, <3>2
      <3> QED BY <2>2, <2>4, <3>2, <3>3 DEF Types, WireTypes, daemonVars
    <2>7. FetchTypes' /\ DaemonTypes'
      BY <1>14, <2>4 DEF ApplySnapshot, Settle, Types, FetchTypes, DaemonTypes, daemonVars
    <2> QED BY <2>5, <2>6, <2>7 DEF Types
  <1> QED BY <1>1, <1>2, <1>3, <1>4, <1>5, <1>6, <1>7, <1>8, <1>9, <1>10, <1>11, <1>12, <1>13,
             <1>14 DEF Client

(* Disturbances keep the types.                                            *)
LEMMA DisturbanceKeepsTypes == Types /\ Disturbance => Types'
  <1> SUFFICES ASSUME Types, Disturbance
               PROVE  Types'
    OBVIOUS
  <1>1. CASE Reconnect
    <2>1. UNCHANGED <<daemonVars, cursor, copyVars, fetchVars>> /\ down' = Replay(cursor)
          /\ served' = TRUE /\ up' = <<>>
      BY <1>1 DEF Reconnect
    <2>2. cursor \in 0..Len(journal) /\ Len(journal) \in Nat
      BY DEF Types, WireTypes, DaemonTypes
    <2>3. down' \in Seq(Frames \cup Deltas) /\ \A i \in DOMAIN down' : Genuine(down'[i], journal)
      <3>1. down' \in Seq(Frames \cup Deltas) /\ DOMAIN down' = 1..Len(Replay(cursor))
        BY <2>1, <2>2, ReplayOf
      <3> QED BY <2>1, <2>2, <3>1, ReplayOf
    <2>4. WireTypes'
      BY <2>1, <2>2, <2>3 DEF WireTypes, daemonVars
    <2> QED BY <2>1, <2>4, SameTypes DEF Types
  <1>2. ASSUME Refocus \/ SnapshotFails
        PROVE  Types'
    <2>1. UNCHANGED <<daemonVars, wireVars, copyVars, required, retryingStale>>
          /\ fetch' \in {fetch, Idle, Sent} /\ queued' \in BOOLEAN
      BY <1>2 DEF Refocus, SnapshotFails, Request, Settle, Types, FetchTypes
    <2>2. Snapshots' = Snapshots
      BY <2>1 DEF daemonVars, Snapshots
    <2> QED BY <2>1, <2>2 DEF Types, DaemonTypes, WireTypes, FetchTypes, CopyTypes,
                              daemonVars, wireVars, copyVars
  <1> QED BY <1>1, <1>2 DEF Disturbance

LEMMA TypesHold == Types /\ [Next]_vars => Types'
  <1>1. ASSUME Types, UNCHANGED vars
        PROVE  Types'
    <2>1. UNCHANGED <<daemonVars, wireVars, copyVars, fetchVars>>
      BY <1>1 DEF vars
    <2>2. WireTypes'
      BY <1>1, <2>1 DEF Types, WireTypes, daemonVars, wireVars
    <2> QED BY <1>1, <2>1, <2>2, SameTypes DEF Types
  <1> QED BY <1>1, DaemonKeepsTypes, ClientKeepsTypes, DisturbanceKeepsTypes DEF Next

----------------------------------------------------------------------------
(* Turn ends.  A frame stands for the end at s when handling it handles s: *)
(* the end itself, or a resync_required that jumps over it.                *)
StandsFor(m, s) ==
    \/ m.type = "turn.ended" /\ m.seq = s
    \/ m.type = "resync" /\ s <= m.seq

(* The frames in transit come in order: when one arrives, every earlier    *)
(* end was handled or is stood for by a frame before it or by itself.      *)
InOrder ==
    \A i \in DOMAIN down : \A s \in EndsUpTo(down[i].seq) :
        s \in handled \/ \E j \in 1..i : StandsFor(down[j], s)

(* Once subscribed, no end passes the client by.                           *)
NoneMissed ==
    served => \A s \in EndsUpTo(Len(journal)) :
                  s \in handled \/ \E j \in DOMAIN down : StandsFor(down[j], s)

EndInv ==
    /\ InOrder /\ NoneMissed
    /\ ~served => down = <<>>
    /\ EndsUpTo(cursor) \subseteq handled
    /\ \A i \in DOMAIN up : EndsUpTo(up[i]) \subseteq handled
    /\ EndsUpTo(lastSeq) \subseteq handled

LEMMA JournalKeepsEnds ==
    ASSUME Types, Types', EndInv, NEW type, Journal(type)
    PROVE  EndInv'
  <1> DEFINE frame == [type |-> type, seq |-> Len(journal) + 1, turn |-> turn', step |-> Len(steps')]
             resync == [frame EXCEPT !.type = "resync"]
  <1>1. journal \in Seq(Frames) /\ Len(journal) \in Nat /\ down \in Seq(Frames \cup Deltas)
        /\ \A i \in DOMAIN down : down[i].seq <= Len(journal) /\ down[i].seq \in Nat
    BY DEF Types, DaemonTypes, WireTypes, Genuine, Frames, Deltas
  <1>2. /\ journal' = Append(journal, frame) /\ UNCHANGED <<served, up, cursor, lastSeq, handled>>
        /\ \/ ~served /\ down' = down
           \/ served /\ down' \in {Append(down, frame), Append(down, resync)}
    BY DEF Journal, copyVars
  <1>3. ASSUME NEW s \in Nat, s <= Len(journal)
        PROVE  EndsUpTo(s)' = EndsUpTo(s)
    BY <1>1, <1>2, <1>3 DEF EndsUpTo
  <1>4. /\ \A s \in EndsUpTo(Len(journal))' : s \in EndsUpTo(Len(journal)) \/ s = Len(journal) + 1
        /\ Len(journal) + 1 \in EndsUpTo(Len(journal))' => type = "turn.ended"
    BY <1>1, <1>2 DEF EndsUpTo
  <1>5. CASE ~served
    <2>1. down = <<>> /\ down' = <<>> /\ ~served'
      BY <1>2, <1>5 DEF EndInv
    <2>2. cursor \in 0..Len(journal) /\ lastSeq \in 0..Len(journal)
          /\ \A i \in DOMAIN up : up[i] \in 0..Len(journal)
      BY DEF Types, WireTypes, CopyTypes
    <2> QED BY <1>2, <1>3, <2>1, <2>2 DEF EndInv, InOrder, NoneMissed
  <1>6. CASE served
    <2>1. PICK m : down' = Append(down, m) /\ m \in {frame, resync}
      BY <1>2, <1>6
    <2>2. m.seq = Len(journal) + 1 /\ (type = "turn.ended" => StandsFor(m, Len(journal) + 1))
      BY <1>1, <2>1 DEF StandsFor
    <2> HIDE DEF frame, resync
    <2>3. /\ Len(down') = Len(down) + 1 /\ DOMAIN down' = 1..Len(down') /\ DOMAIN down = 1..Len(down)
          /\ \A i \in DOMAIN down : down'[i] = down[i] /\ i \in DOMAIN down'
          /\ down'[Len(down')] = m /\ Len(down') \in DOMAIN down' /\ Len(down) \in Nat
      BY <1>1, <2>1
    <2>4. NoneMissed'
      <3> SUFFICES ASSUME NEW s \in EndsUpTo(Len(journal))'
                   PROVE  s \in handled \/ \E j \in DOMAIN down' : StandsFor(down'[j], s)
        BY <1>2 DEF NoneMissed
      <3>1. CASE s \in EndsUpTo(Len(journal))
        BY <1>6, <2>3, <3>1 DEF EndInv, NoneMissed
      <3>2. CASE s = Len(journal) + 1
        BY <1>4, <2>2, <2>3, <3>2
      <3> QED BY <1>4, <3>1, <3>2
    <2>5. InOrder'
      <3> SUFFICES ASSUME NEW i \in DOMAIN down', NEW s \in EndsUpTo(down[i].seq)'
                   PROVE  s \in handled \/ \E j \in 1..i : StandsFor(down'[j], s)
        BY <1>2 DEF InOrder
      <3>1. CASE i \in DOMAIN down
        <4>1. s \in EndsUpTo(down[i].seq)
          <5>1. down'[i] = down[i] /\ down[i].seq \in Nat /\ down[i].seq <= Len(journal)
            BY <1>1, <2>3, <3>1
          <5>2. s \in 1..down[i].seq /\ journal'[s].type = "turn.ended"
            BY <5>1 DEF EndsUpTo
          <5> QED BY <1>1, <1>2, <5>1, <5>2 DEF EndsUpTo
        <4> QED BY <2>3, <3>1, <4>1 DEF EndInv, InOrder
      <3>2. CASE i = Len(down')
        <4>1. s \in EndsUpTo(Len(journal))'
          BY <1>1, <1>2, <2>2, <2>3, <3>2 DEF EndsUpTo
        <4> QED BY <1>2, <2>3, <2>4, <3>2, <4>1, <1>6 DEF NoneMissed
      <3> QED BY <2>3, <3>1, <3>2
    <2>6. cursor \in 0..Len(journal) /\ lastSeq \in 0..Len(journal)
          /\ \A j \in DOMAIN up : up[j] \in 0..Len(journal)
      BY DEF Types, WireTypes, CopyTypes
    <2> QED BY <1>2, <1>3, <1>6, <2>4, <2>5, <2>6 DEF EndInv
  <1> QED BY <1>5, <1>6

LEMMA DaemonKeepsEnds == Types /\ Types' /\ EndInv /\ Daemon => EndInv'
  <1> SUFFICES ASSUME Types, Types', EndInv, Daemon
               PROVE  EndInv'
    OBVIOUS
  <1>1. ASSUME NEW type, Journal(type)
        PROVE  EndInv'
    BY <1>1, JournalKeepsEnds
  <1>2. ASSUME NEW k \in Kinds, StreamDelta(k)
        PROVE  EndInv'
    <2>1. UNCHANGED <<journal, served, up, cursor, lastSeq, handled>>
      BY <1>2 DEF StreamDelta, copyVars
    <2>2. CASE ~served
      <3>1. down' = down
        BY <1>2, <2>2 DEF StreamDelta
      <3> QED BY <2>1, <3>1 DEF EndInv, InOrder, NoneMissed, EndsUpTo
    <2>3. CASE served
      <3>1. PICK m : down' = Append(down, m) /\ m.seq = Len(journal)
        BY <1>2, <2>3 DEF StreamDelta
      <3>2. /\ Len(down') = Len(down) + 1 /\ DOMAIN down' = 1..Len(down') /\ DOMAIN down = 1..Len(down)
            /\ \A i \in DOMAIN down : down'[i] = down[i] /\ i \in DOMAIN down'
            /\ down'[Len(down')] = m /\ Len(down') \in DOMAIN down' /\ Len(down) \in Nat
        BY <3>1 DEF Types, WireTypes
      <3>3. \A s : EndsUpTo(s)' = EndsUpTo(s)
        BY <2>1 DEF EndsUpTo
      <3>4. NoneMissed'
        BY <2>1, <3>2, <3>3 DEF EndInv, NoneMissed
      <3>5. InOrder'
        <4> SUFFICES ASSUME NEW i \in DOMAIN down', NEW s \in EndsUpTo(down'[i].seq)
                     PROVE  s \in handled \/ \E j \in 1..i : StandsFor(down'[j], s)
          BY <2>1 DEF InOrder, EndsUpTo
        <4>1. CASE i \in DOMAIN down
          BY <3>2, <4>1 DEF EndInv, InOrder
        <4>2. CASE i = Len(down')
          BY <2>1, <2>3, <3>1, <3>2, <3>3, <3>4, <4>2 DEF NoneMissed
        <4> QED BY <3>2, <4>1, <4>2
      <3> QED BY <2>1, <2>3, <3>3, <3>4, <3>5 DEF EndInv
    <2> QED BY <2>2, <2>3
  <1>3. CASE ServeSubscribe
    <2>1. UNCHANGED <<journal, cursor, lastSeq, handled>> /\ served' = TRUE /\ up' = Tail(up)
          /\ down' = down \o Replay(Head(up)) /\ up # <<>>
      BY <1>3 DEF ServeSubscribe, daemonVars, copyVars
    <2>2. up \in Seq(Nat) /\ Head(up) \in 0..Len(journal) /\ EndsUpTo(Head(up)) \subseteq handled
          /\ Tail(up) \in Seq(Nat) /\ \A i \in DOMAIN Tail(up) : EndsUpTo(Tail(up)[i]) \subseteq handled
      BY <2>1, HeadTailProperties DEF Types, WireTypes, EndInv
    <2>3. \A s : EndsUpTo(s)' = EndsUpTo(s)
      BY <2>1 DEF EndsUpTo
    <2> DEFINE after == Head(up)
    <2>4. /\ down' \in Seq(Frames \cup Deltas) /\ Len(down') = Len(down) + (Len(journal) - after)
          /\ \A i \in 1..Len(down) : down'[i] = down[i]
          /\ \A i \in (Len(down) + 1)..Len(down') : down'[i] = journal[after + i - Len(down)]
      BY <2>1, <2>2, AppendReplay
    <2>5. Len(down) \in Nat /\ Len(journal) \in Nat /\ DOMAIN down' = 1..Len(down')
          /\ DOMAIN down = 1..Len(down)
          /\ \A s \in 1..Len(journal) : journal[s].seq = s
      BY <2>4, SMTT(40) DEF Types, DaemonTypes, WireTypes
    <2> HIDE DEF after
    <2>6. after \in 0..Len(journal) /\ EndsUpTo(after) \subseteq handled
      BY <2>2 DEF after
    (* An end after the cursor has its own place in the replay.            *)
    <2>7. ASSUME NEW s \in EndsUpTo(Len(journal)), s \notin handled
          PROVE  s + Len(down) - after \in DOMAIN down' /\ StandsFor(down'[s + Len(down) - after], s)
      <3>1. s \in 1..Len(journal) /\ journal[s].type = "turn.ended" /\ after < s
        BY <2>5, <2>6, <2>7 DEF EndsUpTo
      <3>2. s + Len(down) - after \in (Len(down) + 1)..Len(down')
        BY <2>4, <2>5, <2>6, <3>1
      <3>3. after + (s + Len(down) - after) - Len(down) = s
        BY <2>5, <2>6, <3>1
      <3>4. down'[s + Len(down) - after] = journal[s]
        BY <2>4, <3>2, <3>3
      <3> QED BY <2>5, <3>1, <3>2, <3>4 DEF StandsFor
    <2>8. NoneMissed'
      BY <2>1, <2>3, <2>7 DEF NoneMissed
    <2>9. InOrder'
      <3> SUFFICES ASSUME NEW i \in DOMAIN down', NEW s \in EndsUpTo(down'[i].seq)
                   PROVE  s \in handled \/ \E j \in 1..i : StandsFor(down'[j], s)
        BY <2>1, <2>3 DEF InOrder
      <3>1. CASE i \in 1..Len(down)
        BY <2>4, <2>5, <3>1 DEF EndInv, InOrder
      <3>2. CASE i \in (Len(down) + 1)..Len(down') /\ s \notin handled
        <4>1. down'[i].seq = after + i - Len(down) /\ after + i - Len(down) \in 1..Len(journal)
          BY <2>4, <2>5, <2>6, <3>2, SMTT(40)
        <4>2. s \in EndsUpTo(Len(journal)) /\ s <= after + i - Len(down) /\ s \in Nat
          BY <2>5, <4>1 DEF EndsUpTo
        <4>3. s + Len(down) - after \in 1..i
          BY <2>5, <2>6, <2>7, <3>2, <4>2
        <4> QED BY <2>7, <3>2, <4>2, <4>3
      <3> QED BY <2>5, <3>1, <3>2
    <2> QED BY <2>1, <2>2, <2>3, <2>8, <2>9 DEF EndInv
  <1>4. CASE AnswerSnapshot
    BY <1>4 DEF AnswerSnapshot, daemonVars, wireVars, copyVars, EndInv, InOrder, NoneMissed, EndsUpTo
  <1> QED BY <1>1, <1>2, <1>3, <1>4
          DEF Daemon, StartTurn, StartStep, CallTool, ToolResult, CompleteStep, RetryStep,
              InterruptStep, EndTurn

(* A frame that handles every end it stands for.                           *)
LEMMA FrameKeepsEnds ==
    ASSUME Types, EndInv, NEW type, TakeFrame(type),
           lastSeq' \in {lastSeq, Larger(lastSeq, Head(down).seq)},
           handled \subseteq handled',
           \A s \in EndsUpTo(Head(down).seq) : StandsFor(Head(down), s) => s \in handled'
    PROVE  EndInv'
  <1>1. UNCHANGED <<journal, served, up>> /\ cursor' \in {cursor, Larger(cursor, Head(down).seq)}
        /\ down # <<>>
    BY DEF TakeFrame, daemonVars
  <1>2. /\ Head(down) = down[1] /\ Len(down) \in Nat \ {0} /\ Len(down') = Len(down) - 1
        /\ DOMAIN down = 1..Len(down) /\ DOMAIN down' = 1..Len(down')
        /\ \A i \in 1..Len(down') : down'[i] = down[i + 1]
    BY TakenFrame DEF Types, WireTypes
  <1>3. \A s : EndsUpTo(s)' = EndsUpTo(s)
    BY <1>1 DEF EndsUpTo
  <1>4. EndsUpTo(down[1].seq) \subseteq handled'
    BY <1>2 DEF EndInv, InOrder
  <1>4a. ASSUME NEW n \in Nat, NEW s \in EndsUpTo(n), StandsFor(down[1], s)
         PROVE  s \in handled'
    BY <1>2, <1>4, <1>4a, TakenFrame DEF EndsUpTo, StandsFor
  <1>5. EndsUpTo(cursor)' \subseteq handled' /\ EndsUpTo(lastSeq)' \subseteq handled'
    BY <1>1, <1>2, <1>3, <1>4 DEF EndInv, Larger
  <1>6. InOrder'
    <2> SUFFICES ASSUME NEW i \in DOMAIN down', NEW s \in EndsUpTo(down'[i].seq), s \notin handled'
                 PROVE  \E j \in 1..i : StandsFor(down'[j], s)
      BY <1>1, <1>3 DEF InOrder
    <2>1. i + 1 \in DOMAIN down /\ down'[i] = down[i + 1] /\ i \in Nat
      BY <1>2
    <2>2. PICK j \in 1..(i + 1) : StandsFor(down[j], s)
      BY <2>1 DEF EndInv, InOrder
    <2>3. j # 1
      <3>1. down'[i].seq \in Nat
        BY <1>2, <2>1 DEF Types, WireTypes, Frames, Deltas
      <3> QED BY <1>4a, <2>2, <3>1
    <2>4. j - 1 \in 1..i /\ j - 1 \in 1..Len(down') /\ down'[j - 1] = down[j]
      BY <1>2, <2>1, <2>2, <2>3
    <2> QED BY <2>2, <2>4
  <1>7. NoneMissed'
    <2> SUFFICES ASSUME served, NEW s \in EndsUpTo(Len(journal)), s \notin handled'
                 PROVE  \E j \in DOMAIN down' : StandsFor(down'[j], s)
      BY <1>1, <1>3 DEF NoneMissed
    <2>1. PICK j \in DOMAIN down : StandsFor(down[j], s)
      BY DEF EndInv, NoneMissed
    <2>2. j # 1
      <3>1. Len(journal) \in Nat
        BY DEF Types, DaemonTypes
      <3> QED BY <1>4a, <2>1, <3>1
    <2>3. j - 1 \in DOMAIN down' /\ down'[j - 1] = down[j]
      BY <1>2, <2>1, <2>2
    <2> QED BY <2>1, <2>3
  <1> QED BY <1>1, <1>3, <1>5, <1>6, <1>7 DEF EndInv

LEMMA ClientKeepsEnds == Types /\ EndInv /\ Client => EndInv'
  <1> SUFFICES ASSUME Types, EndInv, Client
               PROVE  EndInv'
    OBVIOUS
  <1>1. ASSUME NEW type, type \notin {"turn.ended", "resync"}, TakeFrame(type),
               UNCHANGED handled, lastSeq' \in {lastSeq, Larger(lastSeq, Head(down).seq)}
        PROVE  EndInv'
    BY <1>1, TakenFrame, FrameKeepsEnds DEF StandsFor
  <1>2. CASE ProjectTurnEnded
    <2>1. TakeFrame("turn.ended") /\ Heard(Head(down))
      BY <1>2 DEF ProjectTurnEnded
    <2>2. handled' = (IF Head(down).seq > lastSeq THEN handled \cup {Head(down).seq} ELSE handled)
      BY <1>2 DEF ProjectTurnEnded, TurnEndFires, TurnEndedEvents
    <2>3. Head(down).seq \in Nat /\ lastSeq \in Nat /\ Head(down).type = "turn.ended"
      BY <2>1, TakenFrame DEF Types, CopyTypes
    <2>4. \A s \in EndsUpTo(Head(down).seq) : StandsFor(Head(down), s) => s \in handled'
      <3> SUFFICES ASSUME Head(down).seq \in EndsUpTo(Head(down).seq)
                   PROVE  Head(down).seq \in handled'
        BY <2>3 DEF StandsFor
      <3>1. CASE Head(down).seq > lastSeq
        BY <2>2, <3>1
      <3>2. CASE ~(Head(down).seq > lastSeq)
        <4>1. Head(down).seq \in EndsUpTo(lastSeq)
          BY <2>3, <3>2 DEF EndsUpTo
        <4> QED BY <2>2, <4>1 DEF EndInv
      <3> QED BY <3>1, <3>2
    <2> QED BY <2>1, <2>2, <2>4, FrameKeepsEnds DEF Heard
  <1>3. CASE ReceiveResync
    BY <1>3, FrameKeepsEnds DEF ReceiveResync
  <1>4. CASE DropStaleSnapshot
    BY <1>4 DEF DropStaleSnapshot, daemonVars, wireVars, copyVars, EndInv, InOrder, NoneMissed, EndsUpTo
  <1>5. CASE ApplySnapshot
    <2>1. UNCHANGED <<journal, served, down>> /\ cursor' = fetch.at /\ lastSeq' = fetch.at
          /\ up' = Append(up, fetch.at) /\ handled' = handled \cup EndsUpTo(fetch.at)
      BY <1>5 DEF ApplySnapshot, daemonVars
    <2>2. \A s : EndsUpTo(s)' = EndsUpTo(s)
      BY <2>1 DEF EndsUpTo
    <2>3. \A i \in DOMAIN up' : up'[i] = fetch.at \/ (i \in DOMAIN up /\ up'[i] = up[i])
      BY <2>1 DEF Types, WireTypes
    <2>4. InOrder'
      BY <2>1, <2>2 DEF EndInv, InOrder
    <2>5. NoneMissed'
      BY <2>1, <2>2 DEF EndInv, NoneMissed
    <2> QED BY <2>1, <2>2, <2>3, <2>4, <2>5 DEF EndInv
  <1> QED BY <1>1, <1>2, <1>3, <1>4, <1>5
          DEF Client, ProjectTurnStarted, ProjectStepStarted, ProjectNothing, ProjectDelta,
              ProjectGap, ProjectToolCall, ProjectToolResult, ProjectStepCompleted,
              ProjectStepRetrying, ProjectStepInterrupted, Heard

LEMMA DisturbanceKeepsEnds == Types /\ EndInv /\ Disturbance => EndInv'
  <1> SUFFICES ASSUME Types, EndInv, Disturbance
               PROVE  EndInv'
    OBVIOUS
  <1>1. CASE Reconnect
    <2>1. UNCHANGED <<journal, cursor, lastSeq, handled>> /\ down' = Replay(cursor)
          /\ served' = TRUE /\ up' = <<>>
      BY <1>1 DEF Reconnect, daemonVars, copyVars
    <2>2. cursor \in 0..Len(journal) /\ Len(journal) \in Nat
          /\ \A s \in 1..Len(journal) : journal[s].seq = s
      BY DEF Types, WireTypes, DaemonTypes
    <2>3. /\ Len(down') = Len(journal) - cursor /\ DOMAIN down' = 1..Len(down')
          /\ \A i \in 1..Len(down') : down'[i] = journal[cursor + i] /\ down'[i].seq = cursor + i
      <3>1. /\ Len(Replay(cursor)) = Len(journal) - cursor
            /\ Replay(cursor) \in Seq(Frames \cup Deltas)
            /\ \A i \in 1..Len(Replay(cursor)) : Replay(cursor)[i] = journal[cursor + i]
            /\ \A i \in 1..Len(Replay(cursor)) : Replay(cursor)[i].seq = cursor + i
        BY <2>2, ReplayOf
      <3>2. DOMAIN Replay(cursor) = 1..Len(Replay(cursor))
        BY <3>1, LenProperties
      <3> QED BY <2>1, <3>1, <3>2
    <2>4. \A s : EndsUpTo(s)' = EndsUpTo(s)
      BY <2>1 DEF EndsUpTo
    <2>5. ASSUME NEW s \in EndsUpTo(Len(journal)), s \notin handled
          PROVE  s - cursor \in 1..Len(down') /\ StandsFor(down'[s - cursor], s) /\ s \in Nat
      <3>1. s \in 1..Len(journal) /\ journal[s].type = "turn.ended" /\ cursor < s
        BY <2>2, <2>5 DEF EndInv, EndsUpTo
      <3>2. s - cursor \in 1..Len(down') /\ cursor + (s - cursor) = s
        BY <2>2, <2>3, <3>1
      <3> QED BY <2>2, <2>3, <3>1, <3>2 DEF StandsFor
    <2>6. NoneMissed'
      BY <2>1, <2>3, <2>4, <2>5 DEF NoneMissed
    <2>7. InOrder'
      <3> SUFFICES ASSUME NEW i \in DOMAIN down', NEW s \in EndsUpTo(down'[i].seq), s \notin handled
                   PROVE  \E j \in 1..i : StandsFor(down'[j], s)
        BY <2>1, <2>4 DEF InOrder
      <3>1. i \in 1..Len(down') /\ down'[i].seq = cursor + i /\ cursor + i <= Len(journal)
        BY <2>2, <2>3
      <3>2. s \in EndsUpTo(Len(journal)) /\ s <= cursor + i
        BY <2>2, <3>1 DEF EndsUpTo
      <3>3. s - cursor \in 1..i
        BY <2>2, <2>5, <3>1, <3>2
      <3> QED BY <2>5, <3>2, <3>3
    <2> QED BY <2>1, <2>4, <2>6, <2>7 DEF EndInv
  <1>2. ASSUME Refocus \/ SnapshotFails
        PROVE  EndInv'
    BY <1>2 DEF Refocus, SnapshotFails, daemonVars, wireVars, copyVars, EndInv, InOrder, NoneMissed,
                EndsUpTo
  <1> QED BY <1>1, <1>2 DEF Disturbance

----------------------------------------------------------------------------
(* Messages.  The bubble that deltas go to, and the one a retry refills,   *)
(* hold no tool result: a result has a message of its own.                 *)
NoResult(content) == \A p \in DOMAIN content : content[p].type # "toolResult"

MessageTypes ==
    /\ nextId \in Nat \ {0} /\ current \in 0..(nextId - 1) /\ reuse \in 0..(nextId - 1)
    /\ len \in [Kinds -> Nat]
    /\ IsMessages(log) /\ IsMessages(shown)
    /\ \A i \in {current, reuse} : i \in DOMAIN log => NoResult(log[i].content)

MessageInv == MessageTypes /\ LogIsShown

(* The parts of content that stay when there is nothing to stay.           *)
LEMMA StrippedEmpty ==
    ASSUME NEW content \in Seq(PartsType), NoResult(content)
    PROVE  Stripped(content) = <<>>
  <1> DEFINE rest == {i \in DOMAIN content : content[i].type \notin Kinds \cup {"toolUse"}}
  <1>1. rest = {}
    <2>1. \A i \in DOMAIN content : content[i] \in PartsType /\ content[i].type # "toolResult"
      BY DEF NoResult
    <2> QED BY <2>1 DEF PartsType, PartTypes
  <1>2. Cardinality(rest) = 0
    BY <1>1, FS_EmptySet
  <1> HIDE DEF rest
  <1>3. Stripped(content) =
          [n \in 1..Cardinality(rest) |-> content[Nth(rest, n)]]
    BY DEF Stripped, Without, ElementsAt, rest
  <1>4. DOMAIN Stripped(content) = {}
    BY <1>2, <1>3
  <1> QED BY <1>2, <1>3

(* What appendAssistantDelta returns.                                      *)
LEMMA AppendDeltaTypes ==
    ASSUME NEW content \in Seq(PartsType), NEW kind \in Kinds, NEW piece \in Nat \X Nat
    PROVE  /\ AppendDelta(content, kind, piece) \in Seq(PartsType)
           /\ NoResult(content) => NoResult(AppendDelta(content, kind, piece))
  <1>1. CASE content # <<>> /\ content[Len(content)].type = kind
    <2> DEFINE part == [content[Len(content)] EXCEPT !.body = Append(@, piece)]
    <2>1. Len(content) \in 1..Len(content) /\ content[Len(content)] \in PartsType
      BY <1>1
    <2>2. part \in PartsType /\ part.type = kind
      <3>1. content[Len(content)].body \in Seq(Nat \X Nat)
        BY <2>1 DEF PartsType
      <3>2. Append(content[Len(content)].body, piece) \in Seq(Nat \X Nat)
        BY <3>1
      <3> QED BY <1>1, <2>1, <3>2 DEF PartsType
    <2>3. AppendDelta(content, kind, piece) = [content EXCEPT ![Len(content)] = part]
      BY <1>1 DEF AppendDelta
    <2> HIDE DEF part
    <2>4. AppendDelta(content, kind, piece) \in Seq(PartsType)
          /\ Len(AppendDelta(content, kind, piece)) = Len(content)
          /\ \A j \in 1..Len(content) :
               AppendDelta(content, kind, piece)[j] = IF j = Len(content) THEN part ELSE content[j]
      BY <2>1, <2>2, <2>3, ExceptSeq
    <2> QED BY <2>2, <2>4 DEF NoResult, Kinds
  <1>2. CASE ~(content # <<>> /\ content[Len(content)].type = kind)
    <2> DEFINE part == Part(kind, <<piece>>)
    <2>1. part \in PartsType /\ part.type = kind
      BY DEF Part, PartsType, PartTypes
    <2>2. AppendDelta(content, kind, piece) = Append(content, part)
      BY <1>2 DEF AppendDelta
    <2> HIDE DEF part
    <2> QED BY <2>1, <2>2 DEF NoResult, Kinds
  <1> QED BY <1>1, <1>2

(* The reducer's copy of a delta is the projector's own append: the index  *)
(* that the event carries is the last part's.                              *)
LEMMA SameDelta ==
    ASSUME NEW content \in Seq(PartsType), NEW kind \in Kinds, NEW piece \in Nat \X Nat
    PROVE  ReduceDelta(content, Len(AppendDelta(content, kind, piece)), kind, piece)
             = AppendDelta(content, kind, piece)
  <1> DEFINE n == Len(content)
  <1>0. n \in Nat
    OBVIOUS
  <1>1. CASE content # <<>> /\ content[n].type = kind
    <2>1. n \in 1..n /\ AppendDelta(content, kind, piece) = [content EXCEPT ![n].body = Append(@, piece)]
      BY <1>1 DEF AppendDelta
    <2>2. Len(AppendDelta(content, kind, piece)) = n
      BY <2>1
    <2>3. content \o [i \in 1..(n - n) |-> Part("text", <<>>)] = content
      <3>1. [i \in 1..(n - n) |-> Part("text", <<>>)] = <<>>
        BY <1>0
      <3> QED BY <3>1, ConcatEmptySeq
    <2> QED BY <1>1, <2>1, <2>2, <2>3 DEF ReduceDelta
  <1>2. CASE ~(content # <<>> /\ content[n].type = kind)
    <2>1. AppendDelta(content, kind, piece) = Append(content, Part(kind, <<piece>>))
      BY <1>2 DEF AppendDelta
    <2>2. Len(AppendDelta(content, kind, piece)) = n + 1
      BY <2>1
    <2> DEFINE empty == Part("text", <<>>)
               padded == content \o [i \in 1..((n + 1) - n) |-> empty]
    <2>3. empty \in PartsType /\ empty = [type |-> "text", body |-> <<>>]
      BY DEF PartsType, PartTypes, Kinds, Part
    <2>4. padded = Append(content, empty)
      <3>1. (n + 1) - n = 1
        BY <1>0
      <3>2. [i \in 1..1 |-> empty] = <<empty>>
        OBVIOUS
      <3> HIDE DEF empty
      <3>3. padded = content \o <<empty>>
        BY <3>1, <3>2
      <3> QED BY <2>3, <3>3, AppendIsConcat
    <2>5. Len(padded) = n + 1 /\ padded[n + 1] = empty /\ DOMAIN padded = 1..(n + 1)
          /\ \A i \in 1..n : padded[i] = content[i]
      <3> HIDE DEF empty, padded
      <3> QED BY <2>3, <2>4, AppendProperties
    <2>6. [empty EXCEPT !.body = Append(@, piece)] = Part("text", <<piece>>)
      BY <2>3 DEF Part
    <2>7. ReduceDelta(content, n + 1, kind, piece) = [padded EXCEPT ![n + 1] = Part(kind, <<piece>>)]
      <3>1. ReduceDelta(content, n + 1, kind, piece) =
              IF padded[n + 1].type = kind
              THEN [padded EXCEPT ![n + 1].body = Append(@, piece)]
              ELSE [padded EXCEPT ![n + 1] = Part(kind, <<piece>>)]
        BY DEF ReduceDelta
      <3> HIDE DEF padded
      <3>2. CASE kind = "text"
        <4>1. [padded EXCEPT ![n + 1].body = Append(@, piece)]
                = [padded EXCEPT ![n + 1] = [empty EXCEPT !.body = Append(@, piece)]]
          BY <2>5
        <4> QED BY <2>3, <2>5, <2>6, <3>1, <3>2, <4>1
      <3>3. CASE kind # "text"
        BY <2>3, <2>5, <3>1, <3>3
      <3> QED BY <3>2, <3>3
    <2> DEFINE part == Part(kind, <<piece>>)
    <2>8. [padded EXCEPT ![n + 1] = part] = Append(content, part)
      <3>1. part \in PartsType
        BY DEF PartsType, PartTypes, Part
      <3> HIDE DEF part, empty
      <3>2. [padded EXCEPT ![n + 1] = part] \in Seq(PartsType)
            /\ Len([padded EXCEPT ![n + 1] = part]) = n + 1
            /\ \A i \in 1..(n + 1) :
                 [padded EXCEPT ![n + 1] = part][i] = IF i = n + 1 THEN part ELSE padded[i]
        <4>1. padded \in Seq(PartsType) /\ n + 1 \in 1..Len(padded)
          BY <1>0, <2>3, <2>4, <2>5
        <4> HIDE DEF padded
        <4> QED BY <2>5, <3>1, <4>1, ExceptSeq
      <3>3. Append(content, part) \in Seq(PartsType) /\ Len(Append(content, part)) = n + 1
            /\ \A i \in 1..(n + 1) : Append(content, part)[i] = IF i = n + 1 THEN part ELSE content[i]
        BY <1>0, <3>1
      <3> DEFINE left == [padded EXCEPT ![n + 1] = part]
                 right == Append(content, part)
      <3>4. left \in Seq(PartsType) /\ right \in Seq(PartsType) /\ Len(left) = Len(right)
            /\ Len(left) = n + 1
        BY <3>2, <3>3
      <3>5. \A i \in 1..(n + 1) : left[i] = right[i]
        <4> TAKE i \in 1..(n + 1)
        <4>1. CASE i = n + 1
          BY <3>2, <3>3, <4>1
        <4>2. CASE i # n + 1
          <5>1. i \in 1..n
            BY <1>0, <4>2
          <5> HIDE DEF padded
          <5> QED BY <2>5, <3>2, <3>3, <4>2, <5>1
        <4> QED BY <4>1, <4>2
      <3> HIDE DEF left, right, n
      <3>6. left = right
        BY <3>4, <3>5, SeqEqual
      <3> QED BY <3>6 DEF left, right
    <2> QED BY <2>1, <2>2, <2>7, <2>8
  <1> QED BY <1>1, <1>2

(* A new message, in both copies.                                          *)
LEMMA CreateKeepsCopies ==
    ASSUME MessageInv, NEW msg \in Messages, CreateMessage(msg)
    PROVE  /\ nextId' = nextId + 1 /\ IsMessages(log)' /\ IsMessages(shown)' /\ LogIsShown'
           /\ DOMAIN log' = DOMAIN log \cup {nextId} /\ log'[nextId] = msg
           /\ \A i \in DOMAIN log : log'[i] = log[i]
  <1>1. nextId \in Nat \ {0} /\ IsMessages(log) /\ IsMessages(shown) /\ LogIsShown
    BY DEF MessageInv, MessageTypes
  <1>2. nextId \notin DOMAIN log /\ nextId \notin DOMAIN shown
    BY <1>1 DEF IsMessages
  <1>3. nextId' = nextId + 1 /\ log' = Put(log, nextId, msg) /\ shown' = Put(shown, nextId, msg)
    BY <1>2 DEF CreateMessage
  <1>4. /\ DOMAIN log' = DOMAIN log \cup {nextId} /\ log'[nextId] = msg
        /\ \A i \in DOMAIN log : log'[i] = log[i]
    BY <1>2, <1>3 DEF Put
  <1>5. /\ DOMAIN shown' = DOMAIN shown \cup {nextId} /\ shown'[nextId] = msg
        /\ \A i \in DOMAIN shown : shown'[i] = shown[i]
    BY <1>2, <1>3 DEF Put
  <1>6. IsMessages(log)' /\ IsMessages(shown)'
    BY <1>1, <1>3, <1>4, <1>5 DEF IsMessages
  <1>7. LogIsShown'
    BY <1>1, <1>4, <1>5 DEF LogIsShown
  <1> QED BY <1>3, <1>4, <1>6, <1>7

(* New content for a message of the log, in both copies.                   *)
LEMMA NewContentKeepsCopies ==
    ASSUME MessageInv, NEW i \in DOMAIN log, NEW content \in Seq(PartsType), UNCHANGED nextId,
           log' = [log EXCEPT ![i].content = content],
           shown' = [shown EXCEPT ![i].content = content]
    PROVE  /\ IsMessages(log)' /\ IsMessages(shown)' /\ LogIsShown' /\ DOMAIN log' = DOMAIN log
           /\ log'[i].content = content /\ \A j \in DOMAIN log : j # i => log'[j] = log[j]
  <1>1. /\ IsMessages(log) /\ IsMessages(shown) /\ i \in DOMAIN shown /\ shown[i] = log[i]
        /\ log[i] \in Messages
    BY DEF MessageInv, MessageTypes, IsMessages, LogIsShown
  <1> DEFINE msg == [log[i] EXCEPT !.content = content]
  <1>2. msg \in Messages /\ msg.content = content
    BY <1>1 DEF Messages
  <1>3. log' = [log EXCEPT ![i] = msg] /\ shown' = [shown EXCEPT ![i] = msg]
    BY <1>1
  <1> HIDE DEF msg
  <1>4. /\ DOMAIN log' = DOMAIN log /\ DOMAIN shown' = DOMAIN shown
        /\ log'[i] = msg /\ shown'[i] = msg
        /\ \A j \in DOMAIN log : j # i => log'[j] = log[j]
        /\ \A j \in DOMAIN shown : j # i => shown'[j] = shown[j]
    BY <1>1, <1>3
  <1>5. IsMessages(log)' /\ IsMessages(shown)'
    BY <1>1, <1>2, <1>4 DEF IsMessages
  <1>6. LogIsShown'
    BY <1>1, <1>4 DEF LogIsShown, MessageInv
  <1> QED BY <1>2, <1>4, <1>5, <1>6

LEMMA UpdateKeepsCopies ==
    ASSUME MessageInv, NEW i \in DOMAIN log, NEW content \in Seq(PartsType), UNCHANGED nextId,
           UpdateMessage(i, content)
    PROVE  /\ IsMessages(log)' /\ IsMessages(shown)' /\ LogIsShown' /\ DOMAIN log' = DOMAIN log
           /\ log'[i].content = content /\ \A j \in DOMAIN log : j # i => log'[j] = log[j]
  <1>1. log' = [log EXCEPT ![i].content = content] /\ shown' = [shown EXCEPT ![i].content = content]
    BY DEF UpdateMessage, ReduceUpdated, MessageInv, LogIsShown
  <1> QED BY <1>1, NewContentKeepsCopies

(* The content of a seeded turn in flight.                                 *)
LEMMA SeedContentTypes ==
    ASSUME NEW snap \in Snapshots
    PROVE  SeedContent(snap) \in Seq(PartsType) /\ NoResult(SeedContent(snap))
  <1>1. snap.steps \in Nat /\ snap.sent \in [Kinds -> Nat]
    BY DEF Snapshots
  <1>2. ASSUME NEW k \in Kinds
        PROVE  SeedPart(snap, k) \in Seq(PartsType) /\ NoResult(SeedPart(snap, k))
    <2>1. SeedText(snap, k) \in Seq(Nat \X Nat)
      <3>1. snap.sent[k] \in Nat
        BY <1>1
      <3>2. \A n \in 1..snap.sent[k] : <<snap.steps, n - 1>> \in Nat \X Nat
        BY <1>1, <3>1
      <3> QED BY <3>1, <3>2 DEF SeedText
    <2>2. Part(k, SeedText(snap, k)) \in PartsType /\ Part(k, SeedText(snap, k)).type # "toolResult"
      BY <2>1 DEF Part, PartsType, PartTypes, Kinds
    <2> QED BY <2>2 DEF SeedPart, NoResult
  <1> DEFINE thinking == SeedPart(snap, "thinking")
             text == SeedPart(snap, "text")
             tool == IF snap.toolOpen THEN <<Part("toolUse", <<>>)>> ELSE <<>>
  <1>3. tool \in Seq(PartsType) /\ NoResult(tool)
    <2>1. Part("toolUse", <<>>) \in PartsType /\ Part("toolUse", <<>>).type # "toolResult"
      BY DEF Part, PartsType, PartTypes
    <2> QED BY <2>1 DEF NoResult
  <1>4. thinking \in Seq(PartsType) /\ text \in Seq(PartsType) /\ NoResult(thinking) /\ NoResult(text)
    BY <1>2 DEF Kinds
  <1>5. SeedContent(snap) = thinking \o text \o tool
    BY DEF SeedContent
  <1> HIDE DEF thinking, text, tool
  <1>6. ASSUME NEW a \in Seq(PartsType), NEW b \in Seq(PartsType), NoResult(a), NoResult(b)
        PROVE  a \o b \in Seq(PartsType) /\ NoResult(a \o b)
    BY <1>6, ConcatProperties DEF NoResult
  <1>7. thinking \o text \in Seq(PartsType) /\ NoResult(thinking \o text)
    BY <1>4, <1>6
  <1> QED BY <1>3, <1>5, <1>6, <1>7

(* The log's bubble that IsOpen speaks of.                                 *)
LEMMA OpenBubble ==
    ASSUME MessageInv, IsOpen
    PROVE  /\ current \in DOMAIN log /\ current \in DOMAIN shown
           /\ shown[current] = log[current]
           /\ log[current].content \in Seq(PartsType) /\ NoResult(log[current].content)
  BY DEF MessageInv, MessageTypes, IsOpen, IsMessages, Messages, LogIsShown

LEMMA ClientKeepsMessages == Types /\ MessageInv /\ Client => MessageInv'
  <1> SUFFICES ASSUME Types, MessageInv, Client
               PROVE  MessageInv'
    OBVIOUS
  <1>0. /\ nextId \in Nat \ {0} /\ current \in 0..(nextId - 1) /\ reuse \in 0..(nextId - 1)
        /\ len \in [Kinds -> Nat] /\ IsMessages(log) /\ IsMessages(shown) /\ LogIsShown
        /\ \A i \in {current, reuse} : i \in DOMAIN log => NoResult(log[i].content)
    BY DEF MessageInv, MessageTypes
  <1>n. NoText \in [Kinds -> Nat]
    BY DEF NoText
  (* Messages as they are, bubbles as they are or gone.                    *)
  <1>1. ASSUME KeepMessages, current' \in {current, reuse, 0}, reuse' \in {reuse, 0},
               len' \in [Kinds -> Nat]
        PROVE  MessageInv'
    <2>1. UNCHANGED <<log, shown, nextId>>
      BY <1>1 DEF KeepMessages
    <2>2. 0 \notin DOMAIN log
      BY <1>0 DEF IsMessages
    <2> QED BY <1>0, <1>1, <2>1, <2>2 DEF MessageInv, MessageTypes, IsMessages, LogIsShown
  (* The open bubble rewritten.                                            *)
  <1>2. ASSUME IsOpen, NEW content \in Seq(PartsType), NoResult(content),
               UNCHANGED nextId, UpdateMessage(current, content),
               current' \in {current, 0}, reuse' \in {reuse, current, 0}, len' \in [Kinds -> Nat]
        PROVE  MessageInv'
    <2>1. current \in DOMAIN log
      BY <1>2, OpenBubble
    <2>2. /\ IsMessages(log)' /\ IsMessages(shown)' /\ LogIsShown' /\ DOMAIN log' = DOMAIN log
          /\ log'[current].content = content /\ \A j \in DOMAIN log : j # current => log'[j] = log[j]
      BY <1>2, <2>1, UpdateKeepsCopies
    <2>3. 0 \notin DOMAIN log
      BY <1>0 DEF IsMessages
    <2>4. \A i \in {current', reuse'} : i \in DOMAIN log' => NoResult(log'[i].content)
      BY <1>0, <1>2, <2>2, <2>3
    <2> QED BY <1>0, <1>2, <2>2, <2>4 DEF MessageInv, MessageTypes
  (* A new message.                                                        *)
  <1>3. ASSUME NEW msg \in Messages, CreateMessage(msg),
               current' = 0 \/ (current' = nextId /\ NoResult(msg.content)),
               reuse' \in {reuse, 0}, len' \in [Kinds -> Nat]
        PROVE  MessageInv'
    <2>1. /\ nextId' = nextId + 1 /\ IsMessages(log)' /\ IsMessages(shown)' /\ LogIsShown'
          /\ DOMAIN log' = DOMAIN log \cup {nextId} /\ log'[nextId] = msg
          /\ \A i \in DOMAIN log : log'[i] = log[i]
      BY <1>3, CreateKeepsCopies
    <2>2. 0 \notin DOMAIN log /\ 0 # nextId /\ reuse # nextId
      BY <1>0 DEF IsMessages
    <2>3. \A i \in {current', reuse'} : i \in DOMAIN log' => NoResult(log'[i].content)
      BY <1>0, <1>3, <2>1, <2>2
    <2> QED BY <1>0, <1>3, <2>1, <2>3 DEF MessageInv, MessageTypes
  <1>4. CASE ProjectTurnStarted
    BY <1>1, <1>4, <1>n DEF ProjectTurnStarted
  <1>5. CASE ProjectStepStarted
    <2>1. CASE Reused # 0
      <3>1. Reused = reuse
        BY <2>1 DEF Reused
      <3> QED BY <1>1, <1>5, <1>n, <2>1, <3>1 DEF ProjectStepStarted
    <2>2. CASE Reused = 0
      <3> DEFINE msg == [turn |-> Head(down).turn, content |-> <<>>]
      <3>1. Head(down).turn \in Nat
        BY <1>5, TakenFrame DEF ProjectStepStarted, Frames, Deltas
      <3>2. msg \in Messages /\ NoResult(msg.content)
        BY <3>1 DEF Messages, NoResult
      <3>3. CreateMessage(msg) /\ current' = nextId /\ reuse' = 0 /\ len' = NoText
        BY <1>5, <2>2 DEF ProjectStepStarted
      <3> HIDE DEF msg
      <3> QED BY <1>3, <1>n, <3>2, <3>3
    <2> QED BY <2>1, <2>2
  <1>6. CASE ProjectNothing
    BY <1>0, <1>1, <1>6 DEF ProjectNothing, KeepBinding
  <1>7. CASE ProjectGap
    BY <1>0, <1>1, <1>7 DEF ProjectGap, KeepBinding
  <1>8. CASE ProjectDelta
    <2> DEFINE m == Head(down)
               content == AppendDelta(log[current].content, m.kind, Piece(m))
    <2>1. TakeFrame("delta") /\ IsOpen /\ UNCHANGED <<current, reuse, nextId>>
      BY <1>8 DEF ProjectDelta
    <2>2. m.kind \in Kinds /\ Piece(m) \in Nat \X Nat
      BY <2>1, TakenFrame DEF Frames, Durables, Deltas, Piece
    <2>3. /\ current \in DOMAIN log /\ current \in DOMAIN shown /\ shown[current] = log[current]
          /\ log[current].content \in Seq(PartsType) /\ NoResult(log[current].content)
      BY <2>1, OpenBubble
    <2>4. content \in Seq(PartsType) /\ NoResult(content)
      BY <2>2, <2>3, AppendDeltaTypes
    <2>5. ReduceDelta(log[current].content, Len(content), m.kind, Piece(m)) = content
      BY <2>2, <2>3, SameDelta
    <2>6. /\ log' = [log EXCEPT ![current].content = content]
          /\ shown' = [shown EXCEPT ![current].content = content]
      <3>1. log' = [log EXCEPT ![current].content = content]
        BY <1>8 DEF ProjectDelta
      <3>2. shown' = [shown EXCEPT ![current].content =
                        ReduceDelta(shown[current].content, Len(content), m.kind, Piece(m))]
        BY <1>8, <2>3 DEF ProjectDelta
      <3> QED BY <2>3, <2>5, <3>1, <3>2
    <2>7. len' \in [Kinds -> Nat]
      <3>1. len' = [len EXCEPT ![m.kind] = AlignedLen(m) + 1]
        BY <1>8 DEF ProjectDelta
      <3>2. AlignedLen(m) \in Nat
        BY <1>0, <2>2 DEF AlignedLen
      <3> QED BY <1>0, <2>2, <3>1, <3>2
    <2> HIDE DEF content, m
    <2>8. /\ IsMessages(log)' /\ IsMessages(shown)' /\ LogIsShown' /\ DOMAIN log' = DOMAIN log
          /\ log'[current].content = content /\ \A j \in DOMAIN log : j # current => log'[j] = log[j]
      BY <2>1, <2>3, <2>4, <2>6, NewContentKeepsCopies
    <2>9. \A i \in {current', reuse'} : i \in DOMAIN log' => NoResult(log'[i].content)
      BY <1>0, <2>1, <2>4, <2>8
    <2> QED BY <1>0, <2>1, <2>7, <2>8, <2>9 DEF MessageInv, MessageTypes
  <1>9. CASE ProjectToolCall
    <2>1. CASE IsOpen
      <3> DEFINE content == Append(log[current].content, Part("toolUse", <<>>))
      <3>1. Part("toolUse", <<>>) \in PartsType /\ Part("toolUse", <<>>).type # "toolResult"
        BY DEF Part, PartsType, PartTypes
      <3>2. content \in Seq(PartsType) /\ NoResult(content)
        BY <2>1, <3>1, OpenBubble DEF NoResult
      <3>3. UpdateMessage(current, content) /\ UNCHANGED <<nextId, current, reuse, len>>
        BY <1>9, <2>1 DEF ProjectToolCall, KeepBinding
      <3> HIDE DEF content
      <3> QED BY <1>0, <1>2, <2>1, <3>2, <3>3
    <2>2. CASE ~IsOpen
      BY <1>0, <1>1, <1>9, <2>2 DEF ProjectToolCall, KeepBinding, KeepMessages
    <2> QED BY <2>1, <2>2
  <1>10. CASE ProjectToolResult
    <2> DEFINE msg == [turn |-> Head(down).turn, content |-> <<Part("toolResult", <<>>)>>]
    <2>1. Head(down).turn \in Nat
      BY <1>10, TakenFrame DEF ProjectToolResult, Frames, Deltas
    <2>2. Part("toolResult", <<>>) \in PartsType
      BY DEF Part, PartsType, PartTypes
    <2>3. msg \in Messages
      BY <2>1, <2>2 DEF Messages
    <2>4. CreateMessage(msg) /\ current' = 0 /\ UNCHANGED <<reuse, len>>
      BY <1>10 DEF ProjectToolResult
    <2> HIDE DEF msg
    <2> QED BY <1>0, <1>3, <2>3, <2>4
  <1>11. CASE ProjectStepCompleted
    <2>1. CASE IsOpen
      <3>1. UpdateMessage(current, log[current].content) /\ UNCHANGED <<nextId, current, reuse, len>>
        BY <1>11, <2>1 DEF ProjectStepCompleted, KeepBinding
      <3> QED BY <1>0, <1>2, <2>1, <3>1, OpenBubble
    <2>2. CASE ~IsOpen
      BY <1>0, <1>1, <1>11, <2>2 DEF ProjectStepCompleted, KeepBinding, KeepMessages
    <2> QED BY <2>1, <2>2
  <1>12. CASE ProjectStepRetrying
    <2>1. CASE IsOpen
      <3>1. Stripped(log[current].content) = <<>>
        BY <2>1, OpenBubble, StrippedEmpty
      <3>2. <<>> \in Seq(PartsType) /\ NoResult(<<>>)
        BY DEF NoResult
      <3>3. UpdateMessage(current, <<>>) /\ UNCHANGED <<nextId, current>> /\ reuse' = current
            /\ len' = NoText
        BY <1>12, <2>1, <3>1 DEF ProjectStepRetrying
      <3> QED BY <1>2, <1>n, <2>1, <3>2, <3>3
    <2>2. CASE ~IsOpen
      BY <1>1, <1>12, <1>n, <2>2 DEF ProjectStepRetrying, KeepMessages
    <2> QED BY <2>1, <2>2
  <1>13. CASE ProjectStepInterrupted
    BY <1>0, <1>1, <1>13 DEF ProjectStepInterrupted
  <1>14. CASE ProjectTurnEnded
    <2>1. CASE IsOpen
      <3>1. UpdateMessage(current, log[current].content) /\ UNCHANGED nextId
            /\ current' = 0 /\ reuse' = 0 /\ len' = NoText
        BY <1>14, <2>1 DEF ProjectTurnEnded, ClearTurn
      <3> QED BY <1>2, <1>n, <2>1, <3>1, OpenBubble
    <2>2. CASE ~IsOpen
      BY <1>1, <1>14, <1>n, <2>2 DEF ProjectTurnEnded, ClearTurn, KeepMessages
    <2> QED BY <2>1, <2>2
  <1>15. CASE ReceiveResync
    <2>1. log' = NoMessages /\ current' = 0 /\ reuse' = 0 /\ len' = NoText /\ UNCHANGED <<shown, nextId>>
      BY <1>15 DEF ReceiveResync
    <2>2. DOMAIN log' = {}
      BY <2>1 DEF NoMessages
    <2> QED BY <1>0, <1>n, <2>1, <2>2 DEF MessageInv, MessageTypes, IsMessages, LogIsShown
  <1>16. CASE DropStaleSnapshot
    BY <1>0, <1>1, <1>16 DEF DropStaleSnapshot, projectVars, copyVars, KeepMessages
  <1>17. CASE ApplySnapshot
    <2>1. fetch \in Snapshots
      BY <1>17 DEF ApplySnapshot, Types, FetchTypes, Idle, Sent
    <2>2. /\ log' = Seeded(fetch) /\ shown' = Seeded(fetch) /\ current' \in {0, 1} /\ reuse' = 0
          /\ nextId' = 2 /\ len' \in {fetch.sent, NoText}
      BY <1>17 DEF ApplySnapshot
    <2>3. fetch.sent \in [Kinds -> Nat] /\ fetch.turn \in Nat
      BY <2>1 DEF Snapshots
    <2>4. \A i \in DOMAIN Seeded(fetch) : i = 1 /\ Seeded(fetch)[i] \in Messages
                                          /\ NoResult(Seeded(fetch)[i].content)
      <3> DEFINE msg == [turn |-> fetch.turn, content |-> SeedContent(fetch)]
      <3>1. msg \in Messages /\ NoResult(msg.content)
        BY <2>1, <2>3, SeedContentTypes DEF Messages
      <3>2. CASE fetch.inFlight
        <4>1. Seeded(fetch) = [i \in {1} |-> msg]
          BY <3>2 DEF Seeded
        <4> HIDE DEF msg
        <4> QED BY <3>1, <4>1
      <3>3. CASE ~fetch.inFlight
        BY <3>3 DEF Seeded, NoMessages
      <3> QED BY <3>2, <3>3
    <2> QED BY <1>n, <2>2, <2>3, <2>4 DEF MessageInv, MessageTypes, IsMessages, LogIsShown
  <1> QED BY <1>4, <1>5, <1>6, <1>7, <1>8, <1>9, <1>10, <1>11, <1>12, <1>13, <1>14, <1>15, <1>16,
             <1>17 DEF Client

LEMMA MessagesHold == Types /\ MessageInv /\ [Next]_vars => MessageInv'
  <1> SUFFICES ASSUME Types, MessageInv, [Next]_vars
               PROVE  MessageInv'
    OBVIOUS
  <1>1. ASSUME UNCHANGED <<projectVars, shown>>
        PROVE  MessageInv'
    BY <1>1 DEF projectVars, MessageInv, MessageTypes, IsMessages, LogIsShown
  <1>2. CASE Daemon
    BY <1>1, <1>2
       DEF Daemon, StartTurn, StartStep, StreamDelta, CallTool, ToolResult, CompleteStep, RetryStep,
           InterruptStep, EndTurn, Journal, ServeSubscribe, AnswerSnapshot, copyVars
  <1>3. CASE Disturbance
    BY <1>1, <1>3 DEF Disturbance, Reconnect, Refocus, SnapshotFails, copyVars
  <1>4. CASE UNCHANGED vars
    BY <1>1, <1>4 DEF vars, copyVars
  <1> QED BY <1>2, <1>3, <1>4, ClientKeepsMessages DEF Next

----------------------------------------------------------------------------
IInv == Types /\ EndInv /\ MessageInv

LEMMA InitHolds == Init => IInv
  <1> SUFFICES ASSUME Init
               PROVE  IInv
    OBVIOUS
  <1>1. journal = <<>> /\ turn = 0 /\ steps = <<>> /\ phase = "idle" /\ down = <<>> /\ up = <<>>
        /\ cursor = 0 /\ lastSeq = 0 /\ transcript = {} /\ kept = {} /\ handled = {} /\ fetch = Sent
    BY DEF Init
  <1>2. toolOpen \in BOOLEAN /\ served \in BOOLEAN /\ queued \in BOOLEAN
        /\ required \in BOOLEAN /\ retryingStale \in BOOLEAN
    BY DEF Init
  <1>3. DaemonTypes
    BY <1>1, <1>2 DEF DaemonTypes
  <1>4. WireTypes
    BY <1>1, <1>2 DEF WireTypes
  <1>5. FetchTypes /\ CopyTypes
    BY <1>1, <1>2 DEF FetchTypes, CopyTypes
  <1>6. EndInv
    BY DEF Init, EndInv, InOrder, NoneMissed, EndsUpTo
  <1>7. MessageInv
    BY DEF Init, NoMessages, NoText, MessageInv, MessageTypes, IsMessages, LogIsShown
  <1> QED BY <1>3, <1>4, <1>5, <1>6, <1>7 DEF IInv, Types

LEMMA StepHolds == IInv /\ [Next]_vars => IInv'
  <1> SUFFICES ASSUME Types, EndInv, MessageInv, [Next]_vars
               PROVE  Types' /\ EndInv' /\ MessageInv'
    BY DEF IInv
  <1>1. Types' /\ MessageInv'
    BY TypesHold, MessagesHold
  <1>2. CASE UNCHANGED vars
    <2>1. UNCHANGED <<journal, served, down, up, cursor, lastSeq, handled>>
      BY <1>2 DEF vars, daemonVars, wireVars, copyVars
    <2> QED BY <1>1, <2>1 DEF EndInv, InOrder, NoneMissed, EndsUpTo
  <1> QED BY <1>1, <1>2, DaemonKeepsEnds, ClientKeepsEnds, DisturbanceKeepsEnds DEF Next

(* The shape of the state (the records of agentEventProjector.ts and of    *)
(* eventReducer.ts), whatever the daemon and the network do.               *)
THEOREM TypesHeld == Spec => []TypeOK
  <1>1. IInv => TypeOK
    BY DEF IInv, Types, DaemonTypes, WireTypes, FetchTypes, CopyTypes, MessageInv, MessageTypes, TypeOK
  <1> QED BY <1>1, InitHolds, StepHolds, PTL DEF Spec

(* A client that has heard of a turn end has run its side effects, or took *)
(* a snapshot or a resync_required in its place: lastSeq never moves past  *)
(* an end before it (processEvent's gate and the order of turn.ended's     *)
(* events, useKimiWebClient.ts:966-990, agentEventProjector.ts:1083).      *)
THEOREM TurnEndsHandled == Spec => []EndsHandled
  <1>1. IInv => EndsHandled
    BY DEF IInv, Types, CopyTypes, EndInv, EndsUpTo, EndsHandled
  <1> QED BY <1>1, InitHolds, StepHolds, PTL DEF Spec

(* What is rendered of a message is what the projector holds: the two      *)
(* copies are written by different code, the reducer's by index            *)
(* (agentEventProjector.ts:376 and :417, eventReducer.ts:581), and stay    *)
(* equal through deltas, retries, snapshots and resets.                    *)
THEOREM LogShown == Spec => []LogIsShown
  <1>1. IInv => LogIsShown
    BY DEF IInv, MessageInv
  <1> QED BY <1>1, InitHolds, StepHolds, PTL DEF Spec

----------------------------------------------------------------------------
(* Text of one step.  The journal as the daemon writes it: the step and    *)
(* the turn begun by frame q, and where between and within turns q is.     *)
StepBy(q) == IF q = 0 THEN 0 ELSE journal[q].step
TurnBy(q) == IF q = 0 THEN 0 ELSE journal[q].turn

BetweenTurns(q) == q = 0 \/ journal[q].type = "turn.ended"
InStep(q) == q > 0 /\ journal[q].type \in {"turn.step.started", "tool.call.started"}
Retrying(q) == q > 0 /\ journal[q].type = "turn.step.retrying"
RetriedBy(q, a) == \E p \in 1..q : Retrying(p) /\ journal[p].step = a

(* What frame q of the journal may be, after the frame before it.          *)
Fits(q) ==
    LET type == journal[q].type
    IN  /\ \A p \in 1..q : journal[p].step <= journal[q].step
        /\ type = "turn.step.started" => \A p \in 1..(q - 1) : journal[p].step < journal[q].step
        /\ type # "turn.step.started" => journal[q].step = StepBy(q - 1)
        /\ type # "turn.started" => journal[q].turn = TurnBy(q - 1) /\ ~BetweenTurns(q - 1)
        /\ type = "turn.started" => BetweenTurns(q - 1)
        /\ Retrying(q) => InStep(q - 1)
        /\ type = "tool.call.started" => InStep(q - 1)
        /\ Retrying(q - 1) => type \in {"turn.step.started", "turn.step.interrupted", "turn.ended"}
        /\ InStep(q) => /\ ~RetriedBy(q, journal[q].step)
                        /\ journal[q].step \in DOMAIN steps
                        /\ steps[journal[q].step].turn = journal[q].turn

(* The daemon is where its journal ends.                                   *)
DaemonNow ==
    LET last == Len(journal)
    IN  /\ StepBy(last) = Step /\ TurnBy(last) = turn
        /\ phase = "idle" <=> BetweenTurns(last)
        /\ phase = "step" <=> InStep(last)
        /\ phase = "retry" <=> Retrying(last)
        /\ phase \in {"step", "results"} => steps[Step].turn = turn /\ ~RetriedBy(last, Step)
        /\ \A a \in DOMAIN steps : steps[a].fate = "retried" => RetriedBy(last, a)

JournalInv == (\A q \in DOMAIN journal : Fits(q)) /\ DaemonNow

(* The durable frame that the daemon had sent last when it sent m; and     *)
(* whether the durable frame q is among the first n.                       *)
IsDurable(m) == m.type # "delta"
SentAfter(m) == IF IsDurable(m) THEN m.seq - 1 ELSE m.seq
Arrives(frames, q, n) == \E j \in 1..n : IsDurable(frames[j]) /\ frames[j].seq = q

(* Each frame comes after the one it was sent after, up to the last, but   *)
(* for those that need not come: the ones in K.                            *)
Linked(frames, last, K) ==
    /\ \A i \in 1..Len(frames) :
         Arrives(frames, SentAfter(frames[i]), i - 1) \/ SentAfter(frames[i]) \in K
    /\ Arrives(frames, last, Len(frames)) \/ last \in K

(* What a client has heard of, itself or by the snapshot that it awaits.   *)
HeardOf == {q \in Nat : fetch.phase = "answered" => q <= cursor \/ q <= fetch.at}

(* A delta is of the step begun when it was sent; no later frame comes     *)
(* before it and every later one after it.                                 *)
DeltaInPlace(i) ==
    /\ InStep(down[i].seq) /\ down[i].step = journal[down[i].seq].step
    /\ \A j \in 1..(i - 1) : IsDurable(down[j]) => down[j].seq <= down[i].seq
    /\ \A q \in (down[i].seq + 1)..Len(journal) :
         \E j \in (i + 1)..Len(down) : IsDurable(down[j]) /\ down[j].seq = q

WireInv ==
    /\ served => Linked(down, Len(journal), HeardOf)
    /\ \A i \in DOMAIN down : IF IsDurable(down[i]) THEN down[i].seq > 0 ELSE DeltaInPlace(i)
    /\ ~repeated => ~ComeAgain(down)
    /\ fetch.phase = "answered" => \A i \in DOMAIN up : up[i] <= fetch.at

(* Since the last snapshot the client has missed nothing and heard nothing *)
(* twice: the frame after its cursor is the next to come.                  *)
Steady == ~misaligned /\ ~repeated

SteadyInv ==
    Steady => /\ served => Linked(down, Len(journal), {cursor})
              /\ ~served => \A i \in DOMAIN up : up[i] = cursor

(* A snapshot says what the journal says.                                  *)
SnapshotInv ==
    fetch.phase = "answered" =>
      /\ fetch.steps = StepBy(fetch.at) /\ fetch.turn = TurnBy(fetch.at)
      /\ fetch.inFlight <=> ~BetweenTurns(fetch.at)
      /\ (\E k \in Kinds : fetch.sent[k] > 0) =>
           /\ fetch.steps \in DOMAIN steps /\ steps[fetch.steps].turn = fetch.turn
           /\ ~RetriedBy(fetch.at, fetch.steps)

(* The steps that a message's content has text of.                         *)
StepsIn(content) ==
    {a \in Nat : \E p \in DOMAIN content : \E x \in DOMAIN content[p].body :
                    content[p].body[x][1] = a}

(* Rendered text is of one step and of the bubble's turn; the open bubble  *)
(* is that of the step at the cursor; a bubble waits to be refilled only   *)
(* between turn.step.retrying and the frame after it, and holds no text.   *)
BubbleInv ==
    Steady =>
      /\ \A i \in DOMAIN shown : \A a \in StepsIn(shown[i].content) :
           /\ StepsIn(shown[i].content) \subseteq {a}
           /\ a \in DOMAIN steps /\ steps[a].turn = shown[i].turn
      /\ IsOpen =>
           /\ ~BetweenTurns(cursor) /\ log[current].turn = TurnBy(cursor)
           /\ StepsIn(log[current].content) \subseteq {StepBy(cursor)}
      /\ reuse # 0 =>
           /\ Retrying(cursor) /\ reuse \in DOMAIN log
           /\ log[reuse].turn = TurnBy(cursor) /\ StepsIn(log[reuse].content) = {}

(* No text of a step whose retry has arrived; that of the step at the      *)
(* cursor, while it may be retried, is in the open bubble alone.           *)
AbandonedInv ==
    Steady /\ ~required =>
      /\ \A i \in DOMAIN shown : \A a \in StepsIn(shown[i].content) :
           /\ a <= StepBy(cursor) /\ ~RetriedBy(cursor, a)
           /\ InStep(cursor) /\ a = StepBy(cursor) => i = current
      /\ InStep(cursor) => IsOpen

(* The daemon forgets no step and moves none to another turn.              *)
StepsStay == \A a \in DOMAIN steps : a \in DOMAIN steps' /\ steps'[a].turn = steps[a].turn

(* The journal up to a frame is not changed by what follows.               *)
LEMMA PastStays ==
    ASSUME Types, NEW f, journal' = Append(journal, f), NEW q \in 0..Len(journal)
    PROVE  /\ StepBy(q)' = StepBy(q) /\ TurnBy(q)' = TurnBy(q)
           /\ BetweenTurns(q)' = BetweenTurns(q) /\ InStep(q)' = InStep(q)
           /\ Retrying(q)' = Retrying(q)
           /\ \A a : RetriedBy(q, a)' = RetriedBy(q, a)
  <1>1. journal \in Seq(Frames) /\ Len(journal) \in Nat
    BY DEF Types, DaemonTypes
  <1>2. \A p \in 1..Len(journal) : journal'[p] = journal[p]
    BY <1>1
  <1>3. q = 0 \/ journal'[q] = journal[q]
    BY <1>2
  <1>4. \A p \in 1..q : Retrying(p)' = Retrying(p) /\ journal'[p] = journal[p]
    BY <1>1, <1>2 DEF Retrying
  <1>5. \A a : RetriedBy(q, a)' = RetriedBy(q, a)
    BY <1>4 DEF RetriedBy
  <1> QED BY <1>3, <1>5 DEF StepBy, TurnBy, BetweenTurns, InStep, Retrying

(* A frame that fits goes on fitting.                                      *)
LEMMA FitsStays ==
    ASSUME Types, NEW f, journal' = Append(journal, f), StepsStay,
           NEW q \in 1..Len(journal), Fits(q)
    PROVE  Fits(q)'
  <1>1. Len(journal) \in Nat /\ q - 1 \in 0..Len(journal) /\ q \in 0..Len(journal) /\ journal \in Seq(Frames)
    BY DEF Types, DaemonTypes
  <1>2. \A p \in 1..q : journal'[p] = journal[p]
    BY <1>1
  <1>3. /\ InStep(q)' = InStep(q) /\ Retrying(q)' = Retrying(q)
        /\ \A a : RetriedBy(q, a)' = RetriedBy(q, a)
    BY <1>1, PastStays
  <1>4. /\ StepBy(q - 1)' = StepBy(q - 1) /\ TurnBy(q - 1)' = TurnBy(q - 1)
        /\ BetweenTurns(q - 1)' = BetweenTurns(q - 1) /\ InStep(q - 1)' = InStep(q - 1)
        /\ Retrying(q - 1)' = Retrying(q - 1)
    <2> DEFINE r == q - 1
    <2>1. r \in 0..Len(journal)
      BY <1>1
    <2> HIDE DEF r
    <2>2. /\ StepBy(r)' = StepBy(r) /\ TurnBy(r)' = TurnBy(r)
          /\ BetweenTurns(r)' = BetweenTurns(r) /\ InStep(r)' = InStep(r)
          /\ Retrying(r)' = Retrying(r)
      BY <2>1, PastStays
    <2> QED BY <2>2 DEF r
  <1>5. journal'[q] = journal[q]
    BY <1>1, <1>2
  <1>6. \A p \in 1..(q - 1) : journal'[p] = journal[p]
    BY <1>1, <1>2
  <1> QED BY <1>2, <1>3, <1>4, <1>5, <1>6 DEF Fits, StepsStay

(* A frame that fits the daemon's state fits the journal.                  *)
LEMMA JournalGrows ==
    ASSUME Types, JournalInv, NEW type \in Durables, Journal(type),
           turn' \in Nat, steps' \in Seq(StepRecords), StepsStay,
           type # "turn.step.started" => Len(steps') = Len(steps),
           type = "turn.step.started" =>
             Len(steps') = Len(steps) + 1 /\ steps'[Len(steps')].turn = turn',
           type # "turn.started" => turn' = turn /\ phase # "idle",
           type = "turn.started" => phase = "idle",
           type \in {"turn.step.retrying", "tool.call.started"} => phase = "step",
           phase = "retry" => type \in {"turn.step.started", "turn.step.interrupted", "turn.ended"}
    PROVE  /\ \A q \in DOMAIN journal' : Fits(q)'
           /\ StepBy(Len(journal))' = Len(steps') /\ TurnBy(Len(journal))' = turn'
           /\ BetweenTurns(Len(journal))' <=> type = "turn.ended"
           /\ InStep(Len(journal))' <=> type \in {"turn.step.started", "tool.call.started"}
           /\ Retrying(Len(journal))' <=> type = "turn.step.retrying"
           /\ \A a : RetriedBy(Len(journal), a)' <=>
                       RetriedBy(Len(journal), a) \/ (type = "turn.step.retrying" /\ a = Len(steps'))
  <1> PICK k : k = Len(steps')
    OBVIOUS
  <1> PICK f : f = [type |-> type, seq |-> Len(journal) + 1, turn |-> turn', step |-> k]
    OBVIOUS
  <1>1. journal' = Append(journal, f)
    BY DEF Journal
  <1>2. f.type = type /\ f.turn = turn' /\ f.step = k
    OBVIOUS
  <1>a. journal \in Seq(Frames) /\ steps \in Seq(StepRecords)
    BY DEF Types, DaemonTypes
  <1>3. Len(journal) \in Nat /\ Len(steps) \in Nat /\ k \in Nat /\ DOMAIN steps' = 1..k
    BY <1>a
  <1> PICK last : last = Len(journal)
    OBVIOUS
  <1> PICK n : n = last + 1
    OBVIOUS
  <1>4. Len(journal') = n /\ journal'[n] = f /\ \A p \in 1..last : journal'[p] = journal[p]
    BY <1>1, <1>3, <1>a, AppendProperties
  <1>6. /\ n \in Nat \ {0} /\ last \in Nat /\ n - 1 = last
        /\ DOMAIN journal' = 1..n /\ DOMAIN journal = 1..last
    <2>1. f \in Frames
      BY <1>3 DEF Frames
    <2>2. DOMAIN journal' = 1..Len(journal') /\ DOMAIN journal = 1..Len(journal)
      BY <1>1, <1>a, <2>1, AppendProperties, LenProperties
    <2> QED BY <1>3, <1>4, <2>2
  <1>5. \A q \in DOMAIN journal : Fits(q)'
    <2>1. \A q \in DOMAIN journal : Fits(q)
      BY DEF JournalInv
    <2> QED BY <1>1, <1>6, <2>1, FitsStays
  <1>7. /\ StepBy(n)' = k /\ TurnBy(n)' = turn'
        /\ BetweenTurns(n)' <=> type = "turn.ended"
        /\ InStep(n)' <=> type \in {"turn.step.started", "tool.call.started"}
        /\ Retrying(n)' <=> type = "turn.step.retrying"
    BY <1>2, <1>4, <1>6 DEF StepBy, TurnBy, BetweenTurns, InStep, Retrying
  <1>8. /\ StepBy(last) = Len(steps) /\ TurnBy(last) = turn
        /\ BetweenTurns(last) <=> phase = "idle"
        /\ InStep(last) <=> phase = "step"
        /\ Retrying(last) <=> phase = "retry"
        /\ phase = "step" => steps[Len(steps)].turn = turn /\ ~RetriedBy(last, Len(steps))
    BY DEF JournalInv, DaemonNow, Step
  <1>9. /\ StepBy(last)' = StepBy(last) /\ TurnBy(last)' = TurnBy(last)
        /\ BetweenTurns(last)' = BetweenTurns(last) /\ InStep(last)' = InStep(last)
        /\ Retrying(last)' = Retrying(last)
        /\ \A a : RetriedBy(last, a)' = RetriedBy(last, a)
    BY <1>1, <1>6, PastStays
  <1>10. \A a : RetriedBy(n, a)' <=>
                  RetriedBy(last, a) \/ (type = "turn.step.retrying" /\ a = k)
    <2>1. \A p \in 1..n : p = n \/ p \in 1..last
      BY <1>6
    <2>2. \A p \in 1..last : p \in 1..n
      BY <1>6
    <2>3. n \in 1..n
      BY <1>6
    <2>4. \A a : RetriedBy(n, a)' <=> RetriedBy(last, a)' \/ (Retrying(n)' /\ journal'[n].step = a)
      BY <2>1, <2>2, <2>3 DEF RetriedBy
    <2> QED BY <1>2, <1>4, <1>7, <1>9, <2>4
  <1>11. \A p \in 1..last : journal[p].step <= Len(steps) /\ journal[p].step \in Nat
    <2> SUFFICES ASSUME NEW p \in 1..last
                 PROVE  journal[p].step <= Len(steps) /\ journal[p].step \in Nat
      OBVIOUS
    <2>1. Fits(last) /\ last \in DOMAIN journal
      BY <1>6 DEF JournalInv
    <2>2. journal[last].step = Len(steps)
      BY <1>6, <1>8 DEF StepBy
    <2>3. journal[p] \in Frames
      BY <1>a
    <2> QED BY <2>1, <2>2, <2>3 DEF Fits, Frames
  <1>12. Fits(n)'
    <2>0. journal'[n].step = k /\ journal'[n].turn = turn' /\ journal'[n].type = type
      BY <1>2, <1>4
    <2>1. \A p \in 1..n : journal'[p].step <= journal'[n].step
      <3>1. \A p \in 1..n : p = n \/ p \in 1..last
        BY <1>6
      <3>2. k \in Nat /\ Len(steps) <= k /\ Len(steps) \in Nat
        BY <1>3
      <3>3. \A p \in 1..last : journal'[p].step <= k
        BY <1>4, <1>11, <3>2
      <3> QED BY <1>2, <1>4, <3>1, <3>2, <3>3
    <2>2. type = "turn.step.started" => \A p \in 1..last : journal'[p].step < journal'[n].step
      BY <1>2, <1>3, <1>4, <1>11
    <2>3. InStep(n)' => /\ ~RetriedBy(n, k)'
                        /\ k \in DOMAIN steps'
                        /\ steps'[k].turn = turn'
      <3> SUFFICES ASSUME type \in {"turn.step.started", "tool.call.started"}
                   PROVE  /\ ~RetriedBy(n, k)' /\ k \in DOMAIN steps'
                          /\ steps'[k].turn = turn'
        BY <1>7
      <3>1. CASE type = "turn.step.started"
        <4>1. ~RetriedBy(last, k)
          BY <1>3, <1>11, <3>1 DEF RetriedBy
        <4> QED BY <1>3, <1>10, <3>1, <4>1
      <3>2. CASE type = "tool.call.started"
        <4>1. Len(steps) \in 1..Len(steps)
          BY <1>3, <3>2 DEF Types, DaemonTypes
        <4> QED BY <1>3, <1>8, <1>10, <3>2, <4>1 DEF StepsStay
      <3> QED BY <3>1, <3>2
    <2>4. /\ type # "turn.step.started" => journal'[n].step = StepBy(last)'
          /\ type # "turn.started" => journal'[n].turn = TurnBy(last)' /\ ~BetweenTurns(last)'
          /\ type = "turn.started" => BetweenTurns(last)'
          /\ Retrying(n)' => InStep(last)'
          /\ type = "tool.call.started" => InStep(last)'
          /\ Retrying(last)' => type \in {"turn.step.started", "turn.step.interrupted", "turn.ended"}
      BY <1>2, <1>4, <1>7, <1>8, <1>9
    <2>5. InStep(n)' => \A a : a = journal'[n].step => ~RetriedBy(n, a)'
      BY <2>0, <2>3
    <2> QED BY <1>6, <2>0, <2>1, <2>2, <2>3, <2>4, <2>5 DEF Fits
  <1>13. \A q \in DOMAIN journal' : Fits(q)'
    <2> SUFFICES ASSUME NEW q \in DOMAIN journal'
                 PROVE  Fits(q)'
      OBVIOUS
    <2>1. q \in DOMAIN journal \/ q = n
      BY <1>6
    <2> QED BY <1>5, <1>12, <2>1
  <1> QED BY <1>4, <1>7, <1>10, <1>13

(* A step of the daemon without a durable frame.                           *)
LEMMA SameJournal ==
    ASSUME JournalInv, UNCHANGED <<journal, turn, phase>>, StepsStay, Len(steps') = Len(steps),
           DOMAIN steps' = DOMAIN steps,
           \A a \in DOMAIN steps : steps'[a].fate = steps[a].fate,
           phase \in {"step", "results"} => Len(steps) \in DOMAIN steps
    PROVE  JournalInv'
  <1>1. ASSUME NEW q
        PROVE  /\ StepBy(q)' = StepBy(q) /\ TurnBy(q)' = TurnBy(q)
               /\ BetweenTurns(q)' = BetweenTurns(q) /\ InStep(q)' = InStep(q)
               /\ Retrying(q)' = Retrying(q)
               /\ \A a : RetriedBy(q, a)' = RetriedBy(q, a)
    <2>1. \A p : Retrying(p)' = Retrying(p)
      BY DEF Retrying
    <2> QED BY <2>1 DEF StepBy, TurnBy, BetweenTurns, InStep, Retrying, RetriedBy
  <1>2. ASSUME NEW q \in DOMAIN journal
        PROVE  Fits(q)'
    <2>1. Fits(q)
      BY <1>2 DEF JournalInv
    <2> QED BY <1>1, <2>1 DEF Fits, StepsStay
  <1>3. DaemonNow'
    <2> PICK last : last = Len(journal)
      OBVIOUS
    <2>1. /\ StepBy(last) = Len(steps) /\ TurnBy(last) = turn
          /\ phase = "idle" <=> BetweenTurns(last)
          /\ phase = "step" <=> InStep(last)
          /\ phase = "retry" <=> Retrying(last)
          /\ phase \in {"step", "results"} => steps[Len(steps)].turn = turn /\ ~RetriedBy(last, Len(steps))
          /\ \A a \in DOMAIN steps : steps[a].fate = "retried" => RetriedBy(last, a)
      BY DEF JournalInv, DaemonNow, Step
    <2>2. Len(journal') = last
      OBVIOUS
    <2> QED BY <1>1, <2>1, <2>2 DEF DaemonNow, Step, StepsStay
  <1> QED BY <1>2, <1>3 DEF JournalInv

(* The agent leaves its step.                                              *)
LEMMA LeaveStays ==
    ASSUME Types, NEW fate, Leave(fate)
    PROVE  /\ StepsStay /\ Len(steps') = Len(steps) /\ DOMAIN steps' = DOMAIN steps
           /\ \A a \in DOMAIN steps : steps'[a].fate = steps[a].fate
                \/ (phase \in {"step", "results"} /\ a = Len(steps) /\ steps'[a].fate = fate)
  <1>1. steps \in Seq(StepRecords) /\ Len(steps) \in Nat
    BY DEF Types, DaemonTypes
  <1>2. CASE phase \in {"step", "results"}
    <2> DEFINE n == Len(steps)
               left == [steps[n] EXCEPT !.fate = fate]
    <2>1. n \in 1..Len(steps) /\ steps[n] \in StepRecords
      BY <1>1, <1>2 DEF Types, DaemonTypes
    <2>2. left.turn = steps[n].turn /\ left.fate = fate
      BY <2>1 DEF StepRecords
    <2>3. steps' = [steps EXCEPT ![n] = left]
      BY <1>2 DEF Leave, Step
    <2> HIDE DEF left
    <2>4. \A a \in DOMAIN steps : steps'[a] = IF a = n THEN left ELSE steps[a]
      BY <2>3
    <2>5. DOMAIN steps' = DOMAIN steps /\ Len(steps') = Len(steps)
      BY <1>1, <2>3
    <2> QED BY <1>2, <2>2, <2>4, <2>5 DEF StepsStay
  <1>3. CASE ~(phase \in {"step", "results"})
    BY <1>3 DEF Leave, StepsStay
  <1> QED BY <1>2, <1>3

(* A durable frame, and the agent where that frame leaves it.              *)
LEMMA DaemonFollows ==
    ASSUME Types, JournalInv, NEW type \in Durables, Journal(type),
           turn' \in Nat, steps' \in Seq(StepRecords), StepsStay,
           type # "turn.step.started" => Len(steps') = Len(steps),
           type = "turn.step.started" =>
             Len(steps') = Len(steps) + 1 /\ steps'[Len(steps')].turn = turn',
           type # "turn.started" => turn' = turn /\ phase # "idle",
           type = "turn.started" => phase = "idle",
           type \in {"turn.step.retrying", "tool.call.started"} => phase = "step",
           phase = "retry" => type \in {"turn.step.started", "turn.step.interrupted", "turn.ended"},
           phase' = "idle" <=> type = "turn.ended",
           phase' = "step" <=> type \in {"turn.step.started", "tool.call.started"},
           phase' = "retry" <=> type = "turn.step.retrying",
           phase' = "results" => phase = "step" /\ type = "tool.result",
           \A a \in DOMAIN steps' :
             steps'[a].fate = "retried" =>
               \/ a \in DOMAIN steps /\ steps[a].fate = "retried"
               \/ type = "turn.step.retrying" /\ a = Len(steps)
    PROVE  JournalInv'
  <1>1. /\ \A q \in DOMAIN journal' : Fits(q)'
        /\ StepBy(Len(journal))' = Len(steps') /\ TurnBy(Len(journal))' = turn'
        /\ BetweenTurns(Len(journal))' <=> type = "turn.ended"
        /\ InStep(Len(journal))' <=> type \in {"turn.step.started", "tool.call.started"}
        /\ Retrying(Len(journal))' <=> type = "turn.step.retrying"
        /\ \A a : RetriedBy(Len(journal), a)' <=>
                    RetriedBy(Len(journal), a) \/ (type = "turn.step.retrying" /\ a = Len(steps'))
    BY JournalGrows
  <1>2. \A a \in DOMAIN steps : steps[a].fate = "retried" => RetriedBy(Len(journal), a)
    BY DEF JournalInv, DaemonNow
  <1>3. phase' \in {"step", "results"} =>
          steps'[Len(steps')].turn = turn' /\ ~RetriedBy(Len(journal), Len(steps))'
    <2>0. steps \in Seq(StepRecords) /\ (phase = "step" => steps # <<>>)
      BY DEF Types, DaemonTypes
    <2>1. CASE type = "turn.step.started"
      <3> PICK n : n = Len(journal')
        OBVIOUS
      <3> PICK k : k = Len(steps')
        OBVIOUS
      <3>1. n \in DOMAIN journal' /\ n > 0
        <4>1. Len(journal) \in Nat /\ journal \in Seq(Frames)
          BY DEF Types, DaemonTypes
        <4>2. PICK f : journal' = Append(journal, f)
          BY DEF Journal
        <4> QED BY <4>1, <4>2
      <3>2. InStep(n)' /\ journal'[n].step = k
        BY <1>1, <2>1, <3>1 DEF StepBy, InStep
      <3>3. ~RetriedBy(n, k)'
        BY <1>1, <3>1, <3>2 DEF Fits
      <3> QED BY <2>1, <3>3
    <2>2. CASE type # "turn.step.started" /\ phase' \in {"step", "results"}
      <3>1. phase = "step" /\ type # "turn.step.retrying" /\ Len(steps') = Len(steps) /\ turn' = turn
        BY <2>2
      <3>2. steps[Len(steps)].turn = turn /\ ~RetriedBy(Len(journal), Len(steps))
        BY <3>1 DEF JournalInv, DaemonNow, Step
      <3>3. Len(steps) \in DOMAIN steps
        <4>1. steps \in Seq(StepRecords) /\ steps # <<>>
          BY <2>0, <3>1
        <4> QED BY <4>1, EmptySeq, LenProperties
      <3> QED BY <1>1, <3>1, <3>2, <3>3 DEF StepsStay
    <2> QED BY <2>1, <2>2
  <1>4. \A a \in DOMAIN steps' : steps'[a].fate = "retried" => RetriedBy(Len(journal), a)'
    BY <1>1, <1>2
  <1>5. DaemonNow'
    BY <1>1, <1>3, <1>4 DEF DaemonNow, Step
  <1> QED BY <1>1, <1>5 DEF JournalInv

LEMMA JournalHolds == Types /\ Types' /\ JournalInv /\ [Next]_vars => JournalInv'
  <1> SUFFICES ASSUME Types, Types', JournalInv, [Next]_vars
               PROVE  JournalInv'
    OBVIOUS
  <1>0. /\ turn \in Nat /\ turn' \in Nat /\ steps \in Seq(StepRecords) /\ steps' \in Seq(StepRecords)
        /\ phase \in {"step", "results"} => steps # <<>>
    BY DEF Types, DaemonTypes
  <1>l. Len(steps) \in Nat /\ DOMAIN steps = 1..Len(steps)
    BY <1>0
  <1>n. phase \in {"step", "results"} => Len(steps) \in DOMAIN steps
    BY <1>0, <1>l
  <1>1. ASSUME steps' = steps
        PROVE  StepsStay
    BY <1>1 DEF StepsStay
  <1>2. ASSUME UNCHANGED <<journal, turn, phase, steps>>
        PROVE  JournalInv'
    BY <1>1, <1>2, <1>n, SameJournal
  <1>3. CASE StartTurn
    <2>1. Journal("turn.started") /\ phase = "idle" /\ phase' = "turn" /\ steps' = steps
      BY <1>3 DEF StartTurn
    <2> QED BY <1>0, <1>1, <2>1, DaemonFollows DEF Durables
  <1>4. CASE StartStep
    <2> PICK step : step = [turn |-> turn, sent |-> NoText, fate |-> "live"]
      OBVIOUS
    <2>1. /\ Journal("turn.step.started") /\ phase \in {"turn", "retry"} /\ phase' = "step"
          /\ turn' = turn /\ steps' = Append(steps, step)
      BY <1>4 DEF StartStep
    <2>2. /\ Len(steps') = Len(steps) + 1 /\ steps'[Len(steps')] = step
          /\ DOMAIN steps' = 1..(Len(steps) + 1)
          /\ \A a \in DOMAIN steps : steps'[a] = steps[a]
      BY <1>0, <1>l, <2>1
    <2>3. StepsStay
      BY <1>l, <2>2 DEF StepsStay
    <2>4. \A a \in DOMAIN steps' : steps'[a].fate = "retried" =>
            a \in DOMAIN steps /\ steps[a].fate = "retried"
      <3>1. \A a \in DOMAIN steps' : a \in DOMAIN steps \/ a = Len(steps')
        BY <1>l, <2>2
      <3> QED BY <2>2, <3>1
    <2> QED BY <1>0, <2>1, <2>2, <2>3, <2>4, DaemonFollows DEF Durables
  <1>5. ASSUME NEW k \in Kinds, StreamDelta(k)
        PROVE  JournalInv'
    <2>1. /\ UNCHANGED <<journal, turn, phase>> /\ phase = "step"
          /\ steps' = [steps EXCEPT ![Step].sent[k] = @ + 1]
      BY <1>5 DEF StreamDelta
    <2> PICK n : n = Len(steps)
      OBVIOUS
    <2> PICK grown : grown = [steps[n] EXCEPT !.sent[k] = @ + 1]
      OBVIOUS
    <2>2. n \in DOMAIN steps /\ steps[n] \in StepRecords
      BY <1>0, <1>n, <2>1
    <2>3. grown.turn = steps[n].turn /\ grown.fate = steps[n].fate
      BY <2>2 DEF StepRecords
    <2>4. steps' = [steps EXCEPT ![n] = grown]
      BY <2>1 DEF Step
    <2>5. DOMAIN steps' = DOMAIN steps /\ Len(steps') = Len(steps)
      BY <1>0, <2>4
    <2>6. \A a \in DOMAIN steps : steps'[a].turn = steps[a].turn /\ steps'[a].fate = steps[a].fate
      BY <2>3, <2>4
    <2>7. StepsStay
      BY <2>5, <2>6 DEF StepsStay
    <2> QED BY <1>n, <2>1, <2>5, <2>6, <2>7, SameJournal
  <1>6. CASE CallTool
    BY <1>0, <1>1, <1>6, DaemonFollows DEF CallTool, Durables
  <1>7. CASE ToolResult
    BY <1>0, <1>1, <1>7, DaemonFollows DEF ToolResult, Durables
  <1>8. CASE CompleteStep
    <2>1. /\ Leave("done") /\ Journal("turn.step.completed") /\ phase' = "turn" /\ turn' = turn
          /\ phase \in {"step", "results"}
      BY <1>8 DEF CompleteStep
    <2>2. /\ StepsStay /\ Len(steps') = Len(steps) /\ DOMAIN steps' = DOMAIN steps
          /\ \A a \in DOMAIN steps : steps'[a].fate = steps[a].fate \/ steps'[a].fate = "done"
      BY <2>1, LeaveStays
    <2> QED BY <1>0, <2>1, <2>2, DaemonFollows DEF Durables
  <1>9. CASE RetryStep
    <2>1. /\ Leave("retried") /\ Journal("turn.step.retrying") /\ phase' = "retry" /\ turn' = turn
          /\ phase = "step"
      BY <1>9 DEF RetryStep
    <2>2. /\ StepsStay /\ Len(steps') = Len(steps) /\ DOMAIN steps' = DOMAIN steps
          /\ \A a \in DOMAIN steps : steps'[a].fate = steps[a].fate \/ a = Len(steps)
      BY <2>1, LeaveStays
    <2> QED BY <1>0, <2>1, <2>2, DaemonFollows DEF Durables
  <1>10. CASE InterruptStep
    <2>1. /\ Leave("cut") /\ Journal("turn.step.interrupted") /\ phase' = "turn" /\ turn' = turn
          /\ phase \in {"step", "retry"}
      BY <1>10 DEF InterruptStep
    <2>2. /\ StepsStay /\ Len(steps') = Len(steps) /\ DOMAIN steps' = DOMAIN steps
          /\ \A a \in DOMAIN steps : steps'[a].fate = steps[a].fate \/ steps'[a].fate = "cut"
      BY <2>1, LeaveStays
    <2> QED BY <1>0, <2>1, <2>2, DaemonFollows DEF Durables
  <1>11. CASE EndTurn
    <2>1. /\ Leave("cut") /\ Journal("turn.ended") /\ phase' = "idle" /\ turn' = turn
          /\ phase # "idle"
      BY <1>11 DEF EndTurn
    <2>2. /\ StepsStay /\ Len(steps') = Len(steps) /\ DOMAIN steps' = DOMAIN steps
          /\ \A a \in DOMAIN steps : steps'[a].fate = steps[a].fate \/ steps'[a].fate = "cut"
      BY <2>1, LeaveStays
    <2> QED BY <1>0, <2>1, <2>2, DaemonFollows DEF Durables
  <1>12. CASE ServeSubscribe \/ AnswerSnapshot
    BY <1>2, <1>12 DEF ServeSubscribe, AnswerSnapshot, daemonVars
  <1>13. CASE Client
    BY <1>2, <1>13
       DEF Client, ProjectTurnStarted, ProjectStepStarted, ProjectNothing, ProjectDelta, ProjectGap,
           ProjectToolCall, ProjectToolResult, ProjectStepCompleted, ProjectStepRetrying,
           ProjectStepInterrupted, ProjectTurnEnded, ReceiveResync, TakeFrame, DropStaleSnapshot,
           ApplySnapshot, daemonVars
  <1>14. CASE Disturbance
    BY <1>2, <1>14 DEF Disturbance, Reconnect, Refocus, SnapshotFails, daemonVars
  <1>15. CASE UNCHANGED vars
    BY <1>2, <1>15 DEF vars, daemonVars
  <1> QED BY <1>3, <1>4, <1>5, <1>6, <1>7, <1>8, <1>9, <1>10, <1>11, <1>12, <1>13, <1>14, <1>15
          DEF Next, Daemon

LEMMA StepsHold == Types /\ [Next]_vars => StepsStay
  <1> SUFFICES ASSUME Types, [Next]_vars
               PROVE  StepsStay
    OBVIOUS
  <1>0. steps \in Seq(StepRecords) /\ (phase = "step" => steps # <<>>)
    BY DEF Types, DaemonTypes
  <1>1. ASSUME steps' = steps
        PROVE  StepsStay
    BY <1>1 DEF StepsStay
  <1>2. CASE StartStep
    <2> PICK step : steps' = Append(steps, step)
      BY <1>2 DEF StartStep
    <2> QED BY <1>0, AppendProperties DEF StepsStay
  <1>3. ASSUME NEW k \in Kinds, StreamDelta(k)
        PROVE  StepsStay
    <2> PICK n : n = Len(steps)
      OBVIOUS
    <2>1. steps' = [steps EXCEPT ![n].sent[k] = @ + 1] /\ n \in DOMAIN steps
      BY <1>0, <1>3 DEF StreamDelta, Step
    <2>2. steps[n] \in StepRecords
      BY <1>0, <2>1
    <2> PICK grown : grown = [steps[n] EXCEPT !.sent[k] = @ + 1]
      OBVIOUS
    <2>3. grown.turn = steps[n].turn
      BY <2>2 DEF StepRecords
    <2>4. steps' = [steps EXCEPT ![n] = grown]
      BY <2>1
    <2> QED BY <2>3, <2>4 DEF StepsStay
  <1>4. ASSUME NEW fate, Leave(fate)
        PROVE  StepsStay
    BY <1>4, LeaveStays
  <1>5. CASE CompleteStep \/ RetryStep \/ InterruptStep \/ EndTurn
    BY <1>4, <1>5 DEF CompleteStep, RetryStep, InterruptStep, EndTurn
  <1>6. CASE StartTurn \/ CallTool \/ ToolResult \/ ServeSubscribe \/ AnswerSnapshot
    BY <1>1, <1>6 DEF StartTurn, CallTool, ToolResult, ServeSubscribe, AnswerSnapshot, daemonVars
  <1>7. CASE Client
    BY <1>1, <1>7
       DEF Client, ProjectTurnStarted, ProjectStepStarted, ProjectNothing, ProjectDelta, ProjectGap,
           ProjectToolCall, ProjectToolResult, ProjectStepCompleted, ProjectStepRetrying,
           ProjectStepInterrupted, ProjectTurnEnded, ReceiveResync, TakeFrame, DropStaleSnapshot,
           ApplySnapshot, daemonVars
  <1>8. CASE Disturbance
    BY <1>1, <1>8 DEF Disturbance, Reconnect, Refocus, SnapshotFails, daemonVars
  <1>9. CASE UNCHANGED vars
    BY <1>1, <1>9 DEF vars, daemonVars
  <1> QED BY <1>2, <1>3, <1>5, <1>6, <1>7, <1>8, <1>9 DEF Next, Daemon

----------------------------------------------------------------------------
(* Chains of frames: another one at the end, those of a replay, the first  *)
(* one gone.                                                               *)
LEMMA LinkedAppend ==
    ASSUME NEW S, NEW frames \in Seq(S), NEW last \in Nat, NEW K, NEW m,
           Linked(frames, last, K), SentAfter(m) = last
    PROVE  Linked(Append(frames, m), IF IsDurable(m) THEN m.seq ELSE last, K)
  <1> PICK n : n = Len(frames)
    OBVIOUS
  <1> PICK all : all = Append(frames, m)
    OBVIOUS
  <1>1. /\ n \in Nat /\ Len(all) = n + 1 /\ all[n + 1] = m
        /\ \A i \in 1..n : all[i] = frames[i]
    OBVIOUS
  <1>2. ASSUME NEW q, NEW k \in 0..n, Arrives(frames, q, k)
        PROVE  Arrives(all, q, k)
    BY <1>1, <1>2 DEF Arrives
  <1>3. ASSUME NEW i \in 1..(n + 1)
        PROVE  Arrives(all, SentAfter(all[i]), i - 1) \/ SentAfter(all[i]) \in K
    <2>1. CASE i \in 1..n
      <3>1. Arrives(frames, SentAfter(frames[i]), i - 1) \/ SentAfter(frames[i]) \in K
        BY <2>1 DEF Linked
      <3>2. i - 1 \in 0..n /\ all[i] = frames[i]
        BY <1>1, <2>1
      <3> QED BY <1>2, <3>1, <3>2
    <2>2. CASE i = n + 1
      <3>1. Arrives(frames, last, n) \/ last \in K
        BY DEF Linked
      <3>2. i - 1 = n /\ n \in 0..n /\ SentAfter(all[i]) = last
        BY <1>1, <2>2
      <3> QED BY <1>2, <3>1, <3>2
    <2> QED BY <1>1, <2>1, <2>2
  <1>4. CASE IsDurable(m)
    <2>1. Arrives(all, m.seq, n + 1)
      BY <1>1, <1>4 DEF Arrives
    <2> QED BY <1>1, <1>3, <1>4, <2>1 DEF Linked
  <1>5. CASE ~IsDurable(m)
    <2>1. Arrives(frames, last, n) \/ last \in K
      BY DEF Linked
    <2>2. Arrives(all, last, n) \/ last \in K
      BY <1>1, <1>2, <2>1
    <2>3. Arrives(all, last, n + 1) \/ last \in K
      BY <1>1, <2>2 DEF Arrives
    <2> QED BY <1>1, <1>3, <1>5, <2>3 DEF Linked
  <1> QED BY <1>4, <1>5

(* The frames in transit are linked without those of a replay, or there    *)
(* are none.                                                               *)
LEMMA LinkedReplay ==
    ASSUME Types, NEW after \in 0..Len(journal), NEW K, after \in K,
           Linked(down, Len(journal), K) \/ down = <<>>
    PROVE  Linked(down \o Replay(after), Len(journal), K)
  <1> PICK n : n = Len(down)
    OBVIOUS
  <1> PICK last : last = Len(journal)
    OBVIOUS
  <1> PICK all : all = down \o Replay(after)
    OBVIOUS
  <1>1. /\ n \in Nat /\ last \in Nat /\ after \in 0..last /\ Len(all) = n + (last - after)
        /\ \A i \in 1..n : all[i] = down[i]
        /\ \A i \in (n + 1)..Len(all) : all[i] = journal[after + i - n]
    <2>1. n \in Nat /\ last \in Nat
      BY DEF Types, DaemonTypes, WireTypes
    <2>2. /\ Len(all) = Len(down) + (Len(journal) - after)
          /\ \A i \in 1..Len(down) : all[i] = down[i]
          /\ \A i \in (Len(down) + 1)..Len(all) : all[i] = journal[after + i - Len(down)]
      BY AppendReplay
    <2> QED BY <2>1, <2>2
  <1>2. \A s \in 1..last : journal[s].seq = s /\ IsDurable(journal[s])
    <2>1. "delta" \notin Durables
      BY DEF Durables
    <2>2. DOMAIN journal = 1..last
      BY DEF Types, DaemonTypes
    <2> QED BY <2>1, <2>2 DEF Types, DaemonTypes, IsDurable
  <1>3. \A i \in (n + 1)..Len(all) : IsDurable(all[i]) /\ all[i].seq = after + i - n
    <2> SUFFICES ASSUME NEW i \in (n + 1)..Len(all)
                 PROVE  IsDurable(all[i]) /\ all[i].seq = after + i - n
      OBVIOUS
    <2>1. after + i - n \in 1..last
      BY <1>1
    <2> QED BY <1>1, <1>2, <2>1
  <1>4. ASSUME NEW i \in 1..Len(all)
        PROVE  Arrives(all, SentAfter(all[i]), i - 1) \/ SentAfter(all[i]) \in K
    <2>1. CASE i \in 1..n
      <3>1. down # <<>>
        BY <2>1
      <3>2. Arrives(down, SentAfter(down[i]), i - 1) \/ SentAfter(down[i]) \in K
        BY <2>1, <3>1 DEF Linked
      <3>3. \A j \in 1..(i - 1) : all[j] = down[j]
        BY <1>1, <2>1
      <3> QED BY <1>1, <2>1, <3>2, <3>3 DEF Arrives
    <2>2. CASE i = n + 1
      <3>1. IsDurable(all[i]) /\ all[i].seq = after + 1
        BY <1>1, <1>3, <2>2
      <3> QED BY <1>1, <3>1 DEF SentAfter
    <2>3. CASE i \in (n + 2)..Len(all)
      <3>1. i - 1 \in (n + 1)..Len(all) /\ i - 1 \in 1..(i - 1) /\ i \in (n + 1)..Len(all)
        BY <1>1, <2>3
      <3>2. all[i - 1].seq = after + (i - 1) - n /\ IsDurable(all[i - 1])
            /\ IsDurable(all[i]) /\ all[i].seq = after + i - n
        BY <1>3, <3>1
      <3>3. SentAfter(all[i]) = all[i - 1].seq
        BY <1>1, <2>3, <3>2 DEF SentAfter
      <3> QED BY <3>1, <3>2, <3>3 DEF Arrives
    <2> QED BY <1>1, <2>1, <2>2, <2>3
  <1>5. Arrives(all, last, Len(all)) \/ last \in K
    <2>1. CASE after = last
      BY <2>1
    <2>2. CASE after # last
      <3>1. Len(all) \in (n + 1)..Len(all) /\ Len(all) \in 1..Len(all)
        BY <1>1, <2>2
      <3>2. IsDurable(all[Len(all)]) /\ all[Len(all)].seq = last
        <4>1. IsDurable(all[Len(all)]) /\ all[Len(all)].seq = after + Len(all) - n
          BY <1>3, <3>1
        <4> QED BY <1>1, <4>1
      <3> QED BY <3>1, <3>2 DEF Arrives
    <2> QED BY <2>1, <2>2
  <1> QED BY <1>4, <1>5 DEF Linked

LEMMA LinkedTail ==
    ASSUME NEW S, NEW frames \in Seq(S), frames # <<>>, NEW last \in Nat, NEW K, NEW L,
           Linked(frames, last, K),
           IsDurable(frames[1]) => frames[1].seq \in L,
           \A i \in 2..Len(frames) : SentAfter(frames[i]) \in K => SentAfter(frames[i]) \in L,
           last \in K => last \in L
    PROVE  Linked(Tail(frames), last, L)
  <1> PICK n : n = Len(frames)
    OBVIOUS
  <1> PICK rest : rest = Tail(frames)
    OBVIOUS
  <1>1. n \in Nat \ {0} /\ Len(rest) = n - 1 /\ \A i \in 1..(n - 1) : rest[i] = frames[i + 1]
    BY HeadTailProperties
  <1>2. ASSUME NEW q, NEW k \in 1..n, Arrives(frames, q, k)
        PROVE  Arrives(rest, q, k - 1) \/ q \in L
    <2>1. PICK j \in 1..k : IsDurable(frames[j]) /\ frames[j].seq = q
      BY <1>2 DEF Arrives
    <2>2. CASE j = 1
      BY <2>1, <2>2
    <2>3. CASE j # 1
      <3>1. j - 1 \in 1..(k - 1) /\ j - 1 \in 1..(n - 1) /\ j - 1 + 1 = j
        BY <1>1, <2>3
      <3>2. rest[j - 1] = frames[j]
        BY <1>1, <3>1
      <3> QED BY <2>1, <3>1, <3>2 DEF Arrives
    <2> QED BY <2>2, <2>3
  <1>3. ASSUME NEW i \in 1..(n - 1)
        PROVE  Arrives(rest, SentAfter(rest[i]), i - 1) \/ SentAfter(rest[i]) \in L
    <2>1. i + 1 \in 2..n /\ i + 1 \in 1..n /\ (i + 1) - 1 = i /\ i \in 1..n /\ rest[i] = frames[i + 1]
      BY <1>1
    <2>2. Arrives(frames, SentAfter(frames[i + 1]), i) \/ SentAfter(frames[i + 1]) \in K
      BY <2>1 DEF Linked
    <2> QED BY <1>2, <2>1, <2>2
  <1>4. Arrives(rest, last, n - 1) \/ last \in L
    <2>1. Arrives(frames, last, n) \/ last \in K
      BY DEF Linked
    <2>2. n \in 1..n
      BY <1>1
    <2> QED BY <1>2, <2>1, <2>2
  <1> QED BY <1>1, <1>3, <1>4 DEF Linked

(* Other frames need not come.                                             *)
LEMMA LinkedTo ==
    ASSUME NEW frames, NEW last, NEW K, NEW L, Linked(frames, last, K),
           \A i \in 1..Len(frames) : SentAfter(frames[i]) \in K => SentAfter(frames[i]) \in L,
           last \in K => last \in L
    PROVE  Linked(frames, last, L)
  BY DEF Linked

----------------------------------------------------------------------------
LEMMA WireTyped ==
    ASSUME Types
    PROVE  /\ journal \in Seq(Frames) /\ Len(journal) \in Nat /\ DOMAIN journal = 1..Len(journal)
           /\ down \in Seq(Frames \cup Deltas) /\ Len(down) \in Nat /\ DOMAIN down = 1..Len(down)
           /\ \A i \in 1..Len(down) :
                /\ down[i].seq \in 0..Len(journal) /\ Genuine(down[i], journal)
                /\ ~IsDurable(down[i]) => down[i] \in Deltas
                /\ IsDurable(down[i]) => down[i] \in Frames
  <1>1. journal \in Seq(Frames) /\ Len(journal) \in Nat /\ DOMAIN journal = 1..Len(journal)
    BY DEF Types, DaemonTypes
  <1>2. down \in Seq(Frames \cup Deltas) /\ Len(down) \in Nat /\ DOMAIN down = 1..Len(down)
    BY DEF Types, WireTypes
  <1>3. \A i \in 1..Len(down) : down[i] \in Frames \cup Deltas /\ Genuine(down[i], journal)
    BY <1>2 DEF Types, WireTypes
  <1>4. \A i \in 1..Len(down) : down[i].seq \in 0..Len(journal)
    BY <1>1, <1>3 DEF Frames, Deltas, Genuine
  <1>5. \A i \in 1..Len(down) : /\ ~IsDurable(down[i]) => down[i] \in Deltas
                                /\ IsDurable(down[i]) => down[i] \in Frames
    BY <1>3 DEF Frames, Deltas, IsDurable, Durables
  <1> QED BY <1>1, <1>2, <1>3, <1>4, <1>5

(* One more frame in transit: a durable one at the end of the journal, or  *)
(* a delta.                                                                *)
LEMMA SendKeepsWire ==
    ASSUME Types, JournalInv, WireInv, served, NEW m, NEW last, last = Len(journal'),
           UNCHANGED <<served, up, cursor, fetchVars, repeated>>, down' = Append(down, m),
           \/ /\ IsDurable(m) /\ m.seq = Len(journal) + 1
              /\ \E f : journal' = Append(journal, f)
           \/ /\ ~IsDurable(m) /\ m.seq = Len(journal) /\ journal' = journal
              /\ InStep(Len(journal)) /\ m.step = journal[Len(journal)].step
    PROVE  WireInv'
  <1> PICK n : n = Len(down)
    OBVIOUS
  <1> PICK old : old = Len(journal)
    OBVIOUS
  <1> PICK K : K = HeardOf
    OBVIOUS
  <1>1. /\ n \in Nat /\ old \in Nat /\ DOMAIN down = 1..n /\ DOMAIN down' = 1..(n + 1)
        /\ Len(down') = n + 1 /\ down'[n + 1] = m /\ \A i \in 1..n : down'[i] = down[i]
        /\ \A i \in 1..n : down[i].seq \in 0..old
    BY WireTyped
  <1>2. last = IF IsDurable(m) THEN m.seq ELSE old
    <2>1. journal \in Seq(Frames)
      BY WireTyped
    <2> QED BY <2>1
  <1>3. Linked(down', last, K)
    <2>1. Linked(down, old, K) /\ SentAfter(m) = old
      BY <1>1 DEF WireInv, SentAfter
    <2>2. down \in Seq(Frames \cup Deltas)
      BY WireTyped
    <2> QED BY <1>1, <1>2, <2>1, <2>2, LinkedAppend
  <1>4. HeardOf' = K
    BY DEF HeardOf, fetchVars
  <1>5. ASSUME NEW q \in 0..old
        PROVE  InStep(q)' = InStep(q) /\ (q > 0 => journal'[q] = journal[q])
    <2>1. CASE journal' = journal
      BY <2>1 DEF InStep
    <2>2. ASSUME NEW f, journal' = Append(journal, f)
          PROVE  InStep(q)' = InStep(q) /\ (q > 0 => journal'[q] = journal[q])
      BY <1>1, <2>2, PastStays, WireTyped
    <2> QED BY <2>1, <2>2
  <1>6. ASSUME NEW i \in 1..n, ~IsDurable(down[i])
        PROVE  DeltaInPlace(i)'
    <2> PICK s : s = down[i].seq
      OBVIOUS
    <2>1. /\ InStep(s) /\ down[i].step = journal[s].step
          /\ \A j \in 1..(i - 1) : IsDurable(down[j]) => down[j].seq <= s
          /\ \A q \in (s + 1)..old :
               \E j \in (i + 1)..n : IsDurable(down[j]) /\ down[j].seq = q
      BY <1>1, <1>6 DEF WireInv, DeltaInPlace
    <2>2. s \in 0..old /\ down'[i] = down[i] /\ i \in Nat
      BY <1>1
    <2>3. s > 0
      BY <2>1 DEF InStep
    <2>4. InStep(s)' /\ down'[i].step = journal'[s].step
      BY <1>5, <2>1, <2>2, <2>3
    <2>5. \A j \in 1..(i - 1) : down'[j] = down[j]
      BY <1>1
    <2>6. ASSUME NEW q \in (s + 1)..last
          PROVE  \E j \in (i + 1)..(n + 1) : IsDurable(down'[j]) /\ down'[j].seq = q
      <3>1. CASE q \in (s + 1)..old
        <4>1. PICK j \in (i + 1)..n : IsDurable(down[j]) /\ down[j].seq = q
          BY <2>1, <3>1
        <4>2. j \in 1..n /\ j \in (i + 1)..(n + 1)
          BY <1>1, <2>2
        <4> QED BY <1>1, <4>1, <4>2
      <3>2. CASE q \notin (s + 1)..old
        <4>1. IsDurable(m) /\ m.seq = q /\ n + 1 \in (i + 1)..(n + 1)
          BY <1>1, <1>2, <2>2, <3>2
        <4> QED BY <1>1, <4>1
      <3> QED BY <3>1, <3>2
    <2>7. \A j \in 1..(i - 1) : IsDurable(down'[j]) => down'[j].seq <= s
      BY <2>1, <2>5
    <2>8. down'[i].seq = s /\ Len(down') = n + 1 /\ last = Len(journal')
      BY <1>1, <2>2
    <2> QED BY <2>4, <2>6, <2>7, <2>8 DEF DeltaInPlace
  <1>7. ASSUME ~IsDurable(m)
        PROVE  DeltaInPlace(n + 1)'
    <2>1. m.seq = old /\ InStep(old) /\ m.step = journal[old].step /\ journal' = journal /\ last = old
      BY <1>7
    <2>2. InStep(old)' /\ journal'[old] = journal[old]
      BY <2>1 DEF InStep
    <2>3. \A j \in 1..((n + 1) - 1) : IsDurable(down'[j]) => down'[j].seq <= old
      BY <1>1
    <2>4. (old + 1)..last = {}
      BY <1>1, <2>1
    <2> QED BY <1>1, <2>1, <2>2, <2>3, <2>4 DEF DeltaInPlace
  <1>8. \A i \in DOMAIN down' : IF IsDurable(down'[i]) THEN down'[i].seq > 0 ELSE DeltaInPlace(i)'
    <2> SUFFICES ASSUME NEW i \in 1..(n + 1)
                 PROVE  IF IsDurable(down'[i]) THEN down'[i].seq > 0 ELSE DeltaInPlace(i)'
      BY <1>1
    <2>1. CASE i = n + 1
      BY <1>1, <1>7, <2>1
    <2>2. CASE i \in 1..n
      <3>1. IsDurable(down[i]) => down[i].seq > 0
        BY <1>1, <2>2 DEF WireInv
      <3> QED BY <1>1, <1>6, <2>2, <3>1
    <2> QED BY <1>1, <2>1, <2>2
  <1>9. ~repeated => ~ComeAgain(down')
    <2> SUFFICES ASSUME ~repeated, NEW i \in 1..(n + 1), NEW j \in 1..(n + 1), i < j,
                        IsDurable(down'[i]), IsDurable(down'[j]), down'[j].seq <= down'[i].seq
                 PROVE  FALSE
      BY <1>1 DEF ComeAgain, IsDurable
    <2>1. CASE j = n + 1
      BY <1>1, <2>1
    <2>2. CASE j # n + 1
      <3>1. i \in 1..n /\ j \in 1..n
        <4>1. i \in Nat /\ j \in Nat /\ 1 <= i /\ 1 <= j /\ j <= n + 1 /\ n \in Nat
          BY <1>1
        <4>2. j <= n
          BY <2>2, <4>1
        <4> QED BY <4>1, <4>2
      <3> QED BY <1>1, <3>1 DEF WireInv, ComeAgain, IsDurable
    <2> QED BY <2>1, <2>2
  <1>10. fetch'.phase = "answered" => \A i \in DOMAIN up' : up'[i] <= fetch'.at
    BY DEF WireInv, fetchVars
  <1> QED BY <1>3, <1>4, <1>8, <1>9, <1>10 DEF WireInv

(* A replay behind the frames in transit, or in their place.               *)
LEMMA ReplayedFrames ==
    ASSUME Types, NEW after \in 0..Len(journal)
    PROVE  /\ \A i \in 1..Len(Replay(after)) :
                IsDurable(Replay(after)[i]) /\ Replay(after)[i].seq = after + i
           /\ ~ComeAgain(Replay(after))
           /\ \A K : after \in K => Linked(Replay(after), Len(journal), K)
  <1> PICK frames : frames = Replay(after)
    OBVIOUS
  <1> PICK n : n = Len(frames)
    OBVIOUS
  <1>1. /\ Len(journal) \in Nat /\ n = Len(journal) - after
        /\ DOMAIN frames = 1..n
        /\ \A i \in 1..n : frames[i] = journal[after + i] /\ frames[i].seq = after + i
    <2>1. frames \in Seq(Frames \cup Deltas) /\ n = Len(journal) - after
          /\ \A i \in 1..n : frames[i] = journal[after + i] /\ frames[i].seq = after + i
      BY ReplayOf
    <2>2. DOMAIN frames = 1..n
      BY <2>1, LenProperties
    <2> QED BY <2>1, <2>2, WireTyped
  <1>2. \A s \in 1..Len(journal) : IsDurable(journal[s])
    <2>1. "delta" \notin Durables
      BY DEF Durables
    <2> QED BY <2>1 DEF Types, DaemonTypes, IsDurable
  <1>3. \A i \in 1..n : IsDurable(frames[i])
    BY <1>1, <1>2
  <1>4. ~ComeAgain(frames)
    BY <1>1, SMTT(30) DEF ComeAgain
  <1>5. ASSUME NEW K, after \in K
        PROVE  Linked(frames, Len(journal), K)
    <2> PICK last : last = Len(journal)
      OBVIOUS
    <2>1. n = last - after /\ last \in Nat /\ after \in 0..last
      BY <1>1
    <2>2. ASSUME NEW i \in 1..n
          PROVE  Arrives(frames, SentAfter(frames[i]), i - 1) \/ SentAfter(frames[i]) \in K
      <3>1. SentAfter(frames[i]) = after + i - 1
        BY <1>1, <1>3, <2>1 DEF SentAfter
      <3>2. CASE i = 1
        BY <1>5, <2>1, <3>1, <3>2
      <3>3. CASE i # 1
        <4>1. i - 1 \in 1..(i - 1) /\ i - 1 \in 1..n /\ after + (i - 1) = after + i - 1
          BY <2>1, <3>3
        <4> QED BY <1>1, <1>3, <3>1, <4>1 DEF Arrives
      <3> QED BY <3>2, <3>3
    <2>3. Arrives(frames, last, n) \/ last \in K
      <3>1. CASE n = 0
        BY <1>5, <2>1, <3>1
      <3>2. CASE n # 0
        <4>1. n \in 1..n /\ after + n = last
          BY <2>1, <3>2
        <4> QED BY <1>1, <1>3, <4>1 DEF Arrives
      <3> QED BY <3>1, <3>2
    <2> QED BY <2>2, <2>3 DEF Linked
  <1> QED BY <1>1, <1>3, <1>4, <1>5

LEMMA ServeKeepsWire ==
    ASSUME Types, EndInv, WireInv, ServeSubscribe
    PROVE  WireInv'
  <1> PICK after : after = Head(up)
    OBVIOUS
  <1> PICK n : n = Len(down)
    OBVIOUS
  <1> PICK last : last = Len(journal)
    OBVIOUS
  <1> PICK K : K = HeardOf
    OBVIOUS
  <1>0. /\ UNCHANGED <<journal, cursor, fetch>> /\ served' = TRUE /\ up' = Tail(up) /\ up # <<>>
        /\ down' = down \o Replay(after)
        /\ repeated' = (repeated \/ (served /\ after < last))
    BY DEF ServeSubscribe, daemonVars, fetchVars
  <1>1. /\ up \in Seq(Nat) /\ 1 \in DOMAIN up /\ after = up[1] /\ after \in 0..last
        /\ \A i \in DOMAIN up' : i + 1 \in DOMAIN up /\ up'[i] = up[i + 1]
    <2>1. up \in Seq(Nat) /\ up # <<>> /\ \A i \in DOMAIN up : up[i] <= last
      BY <1>0 DEF Types, WireTypes
    <2>2. after = up[1] /\ 1 \in DOMAIN up /\ up[1] \in Nat
      BY <2>1
    <2>3. \A i \in DOMAIN up' : i + 1 \in DOMAIN up /\ up'[i] = up[i + 1]
      BY <1>0, <2>1, HeadTailProperties
    <2> QED BY <2>1, <2>2, <2>3, WireTyped
  <1>2. fetch.phase = "answered" => \A i \in DOMAIN up : up[i] <= fetch.at
    BY DEF WireInv
  <1>3. after \in K
    BY <1>1, <1>2 DEF HeardOf
  <1>4. Linked(down', last, K)
    <2>1. Linked(down, last, K) \/ down = <<>>
      BY DEF WireInv, EndInv
    <2> QED BY <1>0, <1>1, <1>3, <2>1, LinkedReplay
  <1>5. HeardOf' = K
    BY <1>0 DEF HeardOf
  <1>6. /\ n \in Nat /\ last \in Nat /\ DOMAIN down = 1..n /\ DOMAIN down' = 1..Len(down')
        /\ Len(down') = n + (last - after)
        /\ \A i \in 1..n : down'[i] = down[i]
        /\ \A i \in (n + 1)..Len(down') : IsDurable(down'[i]) /\ down'[i].seq = after + i - n
    <2>1. /\ down' \in Seq(Frames \cup Deltas) /\ Len(down') = n + (last - after)
          /\ \A i \in 1..n : down'[i] = down[i]
          /\ \A i \in (n + 1)..Len(down') : down'[i] = journal[after + i - n]
      BY <1>0, <1>1, AppendReplay
    <2>2. /\ Len(Replay(after)) = last - after
          /\ \A i \in 1..(last - after) : Replay(after)[i] = journal[after + i]
                /\ IsDurable(Replay(after)[i]) /\ Replay(after)[i].seq = after + i
      BY <1>1, ReplayOf, ReplayedFrames
    <2>3. n \in Nat /\ last \in Nat /\ DOMAIN down = 1..n
      BY WireTyped
    <2>4. \A i \in (n + 1)..Len(down') : IsDurable(down'[i]) /\ down'[i].seq = after + i - n
      <3> SUFFICES ASSUME NEW i \in (n + 1)..Len(down')
                   PROVE  IsDurable(down'[i]) /\ down'[i].seq = after + i - n
        OBVIOUS
      <3> PICK k : k = i - n
        OBVIOUS
      <3>1. k \in 1..(last - after) /\ after + k = after + i - n
        BY <1>1, <2>1, <2>3
      <3>2. down'[i] = Replay(after)[k] /\ Replay(after)[k].seq = after + k
        BY <2>1, <2>2, <3>1
      <3> QED BY <2>2, <3>1, <3>2
    <2>5. DOMAIN down' = 1..Len(down')
      BY <2>1, LenProperties
    <2> QED BY <2>1, <2>3, <2>4, <2>5
  <1>a. after \in Nat /\ after <= last
    BY <1>1, <1>6
  <1>7. \A i \in DOMAIN down' : IF IsDurable(down'[i]) THEN down'[i].seq > 0 ELSE DeltaInPlace(i)'
    <2> SUFFICES ASSUME NEW i \in 1..Len(down')
                 PROVE  IF IsDurable(down'[i]) THEN down'[i].seq > 0 ELSE DeltaInPlace(i)'
      BY <1>6
    <2>1. CASE i \in (n + 1)..Len(down')
      <3>1. IsDurable(down'[i]) /\ down'[i].seq = after + i - n
        BY <1>6, <2>1
      <3>2. after + i - n > 0
        <4>1. i \in Nat /\ i > n /\ n \in Nat /\ after \in Nat
          BY <1>a, <1>6, <2>1
        <4> QED BY <4>1
      <3> QED BY <3>1, <3>2
    <2>2. CASE i \in 1..n /\ IsDurable(down[i])
      BY <1>6, <2>2 DEF WireInv
    <2>3. CASE i \in 1..n /\ ~IsDurable(down[i])
      <3> PICK s : s = down[i].seq
        OBVIOUS
      <3>1. /\ InStep(s) /\ down[i].step = journal[s].step
            /\ \A j \in 1..(i - 1) : IsDurable(down[j]) => down[j].seq <= s
            /\ \A q \in (s + 1)..last :
                 \E j \in (i + 1)..n : IsDurable(down[j]) /\ down[j].seq = q
        BY <1>6, <2>3 DEF WireInv, DeltaInPlace
      <3>2. InStep(s)' /\ down'[i] = down[i]
        BY <1>0, <1>6, <2>3, <3>1 DEF InStep
      <3>3. \A j \in 1..(i - 1) : down'[j] = down[j]
        BY <1>6, <2>3
      <3>4. \A q \in (s + 1)..last :
              \E j \in (i + 1)..Len(down') : IsDurable(down'[j]) /\ down'[j].seq = q
        <4> SUFFICES ASSUME NEW q \in (s + 1)..last
                     PROVE  \E j \in (i + 1)..Len(down') : IsDurable(down'[j]) /\ down'[j].seq = q
          OBVIOUS
        <4>1. PICK j \in (i + 1)..n : IsDurable(down[j]) /\ down[j].seq = q
          BY <3>1
        <4>2. j \in (i + 1)..Len(down') /\ j \in 1..n
          BY <1>1, <1>6, <2>3
        <4> QED BY <1>6, <4>1, <4>2
      <3>5. journal' = journal /\ ~IsDurable(down'[i])
        BY <1>0, <2>3, <3>2
      <3> QED BY <3>1, <3>2, <3>3, <3>4, <3>5 DEF DeltaInPlace
    <2> QED BY <1>1, <1>6, <2>1, <2>2, <2>3
  <1>8. ~repeated' => ~ComeAgain(down')
    <2>1. CASE ~served
      <3>1. down = <<>> /\ (~repeated => ~ComeAgain(down))
        BY <2>1 DEF EndInv, WireInv
      <3>2. Replay(after) \in Seq(Frames \cup Deltas)
        BY <1>1, ReplayOf
      <3>3. down' = Replay(after)
        BY <1>0, <3>1, <3>2, ConcatEmptySeq
      <3> QED BY <1>1, <3>3, ReplayedFrames
    <2>2. CASE served /\ ~repeated'
      <3>1. after = last /\ ~repeated
        <4>1. ~repeated /\ ~(after < last)
          BY <1>0, <2>2
        <4> QED BY <1>a, <1>6, <4>1
      <3>2. Len(down') = n
        BY <1>6, <3>1
      <3> QED BY <1>6, <3>1, <3>2 DEF WireInv, ComeAgain
    <2> QED BY <2>1, <2>2
  <1>9. fetch'.phase = "answered" => \A i \in DOMAIN up' : up'[i] <= fetch'.at
    BY <1>0, <1>1, <1>2
  <1> QED BY <1>0, <1>4, <1>5, <1>7, <1>8, <1>9 DEF WireInv

LEMMA ReconnectKeepsWire ==
    ASSUME Types, WireInv, Reconnect
    PROVE  WireInv'
  <1> PICK after : after = cursor
    OBVIOUS
  <1> PICK K : K = HeardOf
    OBVIOUS
  <1>0. /\ UNCHANGED <<journal, cursor, fetch, repeated>> /\ served' = TRUE /\ up' = <<>>
        /\ down' = Replay(after)
    BY DEF Reconnect, daemonVars, fetchVars
  <1>1. after \in 0..Len(journal) /\ after \in K
    BY DEF Types, WireTypes, HeardOf
  <1>2. HeardOf' = K
    BY <1>0 DEF HeardOf
  <1>3. /\ down' \in Seq(Frames \cup Deltas) /\ DOMAIN down' = 1..Len(down')
        /\ \A i \in 1..Len(down') : IsDurable(down'[i]) /\ down'[i].seq = after + i
        /\ ~ComeAgain(down')
    <2>1. down' \in Seq(Frames \cup Deltas)
      BY <1>0, <1>1, ReplayOf
    <2> QED BY <1>0, <1>1, <2>1, ReplayedFrames, LenProperties
  <1>4. Linked(down', Len(journal), K)
    BY <1>0, <1>1, ReplayedFrames
  <1>5. \A i \in DOMAIN down' : IsDurable(down'[i]) /\ down'[i].seq > 0
    BY <1>1, <1>3
  <1> QED BY <1>0, <1>2, <1>3, <1>4, <1>5 DEF WireInv

LEMMA TakeKeepsWire ==
    ASSUME Types, WireInv, NEW type, TakeFrame(type), fetch' \in {fetch, Sent}
    PROVE  WireInv'
  <1> PICK n : n = Len(down)
    OBVIOUS
  <1> PICK last : last = Len(journal)
    OBVIOUS
  <1> PICK K : K = HeardOf
    OBVIOUS
  <1> PICK L : L = HeardOf'
    OBVIOUS
  <1>0. /\ UNCHANGED <<journal, served, up, repeated>> /\ down # <<>> /\ down' = Tail(down)
        /\ cursor' = IF IsDurable(Head(down)) THEN Larger(cursor, Head(down).seq) ELSE cursor
    BY DEF TakeFrame, daemonVars, historyVars, IsDurable
  <1>1. /\ n \in Nat \ {0} /\ last \in Nat /\ DOMAIN down = 1..n /\ DOMAIN down' = 1..(n - 1)
        /\ Len(down') = n - 1 /\ Head(down) = down[1]
        /\ \A i \in 1..(n - 1) : down'[i] = down[i + 1] /\ i + 1 \in 1..n
        /\ \A i \in 1..n : down[i].seq \in 0..last
    <2>1. down \in Seq(Frames \cup Deltas) /\ down' \in Seq(Frames \cup Deltas) /\ n \in Nat \ {0}
          /\ Len(down') = n - 1 /\ Head(down) = down[1]
          /\ \A i \in 1..Len(down') : down'[i] = down[i + 1]
      BY TakenFrame, WireTyped
    <2> QED BY <2>1, WireTyped, LenProperties
  <1>2. \A q \in K : q \in L
    <2>1. cursor \in Nat /\ cursor' \in Nat /\ cursor <= cursor'
      BY <1>0, <1>1 DEF Types, WireTypes, Larger
    <2>2. fetch' = fetch \/ fetch'.phase # "answered"
      BY DEF Sent
    <2> QED BY <2>1, <2>2 DEF HeardOf
  <1>3. IsDurable(down[1]) => down[1].seq \in L
    <2> SUFFICES ASSUME IsDurable(down[1])
                 PROVE  down[1].seq \in L
      OBVIOUS
    <2>1. down[1].seq \in Nat /\ cursor \in Nat
      BY <1>1 DEF Types, WireTypes
    <2>2. down[1].seq <= cursor'
      BY <1>0, <1>1, <2>1 DEF Larger
    <2> QED BY <2>1, <2>2 DEF HeardOf
  <1>4. served => Linked(down', last, L)
    <2> SUFFICES ASSUME served
                 PROVE  Linked(Tail(down), last, L)
      BY <1>0
    <2>1. Linked(down, last, K) /\ down \in Seq(Frames \cup Deltas)
      BY WireTyped DEF WireInv
    <2> QED BY <1>0, <1>1, <1>2, <1>3, <2>1, LinkedTail
  <1>5. \A i \in DOMAIN down' : IF IsDurable(down'[i]) THEN down'[i].seq > 0 ELSE DeltaInPlace(i)'
    <2> SUFFICES ASSUME NEW i \in 1..(n - 1)
                 PROVE  IF IsDurable(down'[i]) THEN down'[i].seq > 0 ELSE DeltaInPlace(i)'
      BY <1>1
    <2>1. i + 1 \in DOMAIN down /\ down'[i] = down[i + 1]
      BY <1>1
    <2>2. CASE IsDurable(down[i + 1])
      BY <2>1, <2>2 DEF WireInv
    <2>3. CASE ~IsDurable(down[i + 1])
      <3> PICK s : s = down[i + 1].seq
        OBVIOUS
      <3> PICK k : k = i + 1
        OBVIOUS
      <3>0. k - 1 = i /\ k \in 2..n
        BY <1>1
      <3>1. /\ InStep(s) /\ down[k].step = journal[s].step
            /\ \A j \in 1..i : IsDurable(down[j]) => down[j].seq <= s
            /\ \A q \in (s + 1)..last :
                 \E j \in (k + 1)..n : IsDurable(down[j]) /\ down[j].seq = q
        BY <1>1, <2>1, <2>3, <3>0 DEF WireInv, DeltaInPlace
      <3>2. InStep(s)'
        BY <1>0, <3>1 DEF InStep
      <3>3. \A j \in 1..(i - 1) : IsDurable(down'[j]) => down'[j].seq <= s
        <4> SUFFICES ASSUME NEW j \in 1..(i - 1), IsDurable(down'[j])
                     PROVE  down'[j].seq <= s
          OBVIOUS
        <4>1. j + 1 \in 1..i /\ down'[j] = down[j + 1]
          BY <1>1
        <4> QED BY <3>1, <4>1
      <3>4. \A q \in (s + 1)..last :
              \E j \in (i + 1)..(n - 1) : IsDurable(down'[j]) /\ down'[j].seq = q
        <4> SUFFICES ASSUME NEW q \in (s + 1)..last
                     PROVE  \E j \in (i + 1)..(n - 1) : IsDurable(down'[j]) /\ down'[j].seq = q
          OBVIOUS
        <4>1. PICK j \in (k + 1)..n : IsDurable(down[j]) /\ down[j].seq = q
          BY <3>1
        <4>2. j - 1 \in (i + 1)..(n - 1) /\ j - 1 \in 1..(n - 1) /\ (j - 1) + 1 = j
          BY <1>1, <3>0
        <4>3. down'[j - 1] = down[j]
          BY <1>1, <4>2
        <4> QED BY <4>1, <4>2, <4>3
      <3>5. journal' = journal /\ ~IsDurable(down'[i]) /\ Len(down') = n - 1 /\ down'[i].seq = s
            /\ down'[i].step = journal[s].step
        BY <1>0, <1>1, <2>1, <2>3, <3>1
      <3> QED BY <3>2, <3>3, <3>4, <3>5 DEF DeltaInPlace
    <2> QED BY <2>2, <2>3
  <1>6. ~repeated => ~ComeAgain(down')
    <2> SUFFICES ASSUME ~repeated, NEW i \in 1..(n - 1), NEW j \in 1..(n - 1), i < j,
                        IsDurable(down'[i]), IsDurable(down'[j]), down'[j].seq <= down'[i].seq
                 PROVE  FALSE
      BY <1>1 DEF ComeAgain, IsDurable
    <2>1. i + 1 \in DOMAIN down /\ j + 1 \in DOMAIN down /\ i + 1 < j + 1
          /\ down'[i] = down[i + 1] /\ down'[j] = down[j + 1]
      BY <1>1
    <2> QED BY <2>1 DEF WireInv, ComeAgain, IsDurable
  <1>7. fetch'.phase = "answered" => \A i \in DOMAIN up' : up'[i] <= fetch'.at
    BY <1>0 DEF WireInv, Sent
  <1> QED BY <1>0, <1>4, <1>5, <1>6, <1>7 DEF WireInv

(* A snapshot that comes, or is no longer awaited.                         *)
LEMMA FetchKeepsWire ==
    ASSUME Types, WireInv, UNCHANGED <<journal, served, down, repeated>>,
           \/ fetch' \in {fetch, Idle, Sent} /\ UNCHANGED <<up, cursor>>
           \/ AnswerSnapshot
    PROVE  WireInv'
  <1>1. \A q \in Nat : q \in HeardOf /\ q <= Len(journal) => q \in HeardOf'
    BY DEF HeardOf, Idle, Sent, AnswerSnapshot
  <1>2. served => Linked(down, Len(journal), HeardOf')
    <2> SUFFICES ASSUME served
                 PROVE  Linked(down, Len(journal), HeardOf')
      OBVIOUS
    <2>1. \A i \in 1..Len(down) : SentAfter(down[i]) \in HeardOf => SentAfter(down[i]) <= Len(journal)
      BY WireTyped DEF SentAfter
    <2>2. Len(journal) \in Nat /\ Linked(down, Len(journal), HeardOf)
      BY WireTyped DEF WireInv
    <2>3. \A q \in HeardOf : q \in Nat
      BY DEF HeardOf
    <2> PICK K : K = HeardOf
      OBVIOUS
    <2> PICK L : L = HeardOf'
      OBVIOUS
    <2>4. \A i \in 1..Len(down) : SentAfter(down[i]) \in K => SentAfter(down[i]) \in L
      BY <1>1, <2>1, <2>3
    <2>5. Len(journal) \in K => Len(journal) \in L
      BY <1>1, <2>2
    <2> QED BY <2>2, <2>4, <2>5, LinkedTo
  <1>3. \A q : InStep(q)' = InStep(q)
    BY DEF InStep
  <1>4. \A i : DeltaInPlace(i)' = DeltaInPlace(i)
    BY <1>3 DEF DeltaInPlace
  <1>5. fetch'.phase = "answered" => \A i \in DOMAIN up' : up'[i] <= fetch'.at
    <2>1. \A i \in DOMAIN up : up[i] <= Len(journal)
      BY DEF Types, WireTypes
    <2> QED BY <2>1 DEF WireInv, Idle, Sent, AnswerSnapshot, wireVars
  <1> QED BY <1>2, <1>4, <1>5 DEF WireInv

LEMMA ApplyKeepsWire ==
    ASSUME Types, WireInv, ApplySnapshot
    PROVE  WireInv'
  <1>0. /\ UNCHANGED <<journal, served, down>> /\ fetch' \in {Idle, Sent}
        /\ repeated' = ComeAgain(down)
    BY DEF ApplySnapshot, Settle, daemonVars
  <1>1. HeardOf' = Nat
    BY <1>0 DEF HeardOf, Idle, Sent
  <1>2. served => Linked(down, Len(journal), Nat)
    <2>1. \A q \in HeardOf : q \in Nat
      BY DEF HeardOf
    <2> PICK K : K = HeardOf
      OBVIOUS
    <2>2. served => Linked(down, Len(journal), K)
      BY DEF WireInv
    <2> QED BY <2>1, <2>2, LinkedTo
  <1>3. \A q : InStep(q)' = InStep(q)
    BY <1>0 DEF InStep
  <1>4. \A i : DeltaInPlace(i)' = DeltaInPlace(i)
    BY <1>0, <1>3 DEF DeltaInPlace
  <1> QED BY <1>0, <1>1, <1>2, <1>4 DEF WireInv, Idle, Sent

LEMMA WireHolds == Types /\ EndInv /\ JournalInv /\ WireInv /\ [Next]_vars => WireInv'
  <1> SUFFICES ASSUME Types, EndInv, JournalInv, WireInv, [Next]_vars
               PROVE  WireInv'
    OBVIOUS
  <1>0. Len(journal) \in Nat /\ journal \in Seq(Frames)
    BY WireTyped
  <1>1. ASSUME NEW type \in Durables, Journal(type)
        PROVE  WireInv'
    <2> PICK f : f = [type |-> type, seq |-> Len(journal) + 1, turn |-> turn', step |-> Len(steps')]
      OBVIOUS
    <2> PICK r : r = [f EXCEPT !.type = "resync"]
      OBVIOUS
    <2>1. /\ journal' = Append(journal, f) /\ UNCHANGED <<served, up, cursor, fetchVars, repeated>>
          /\ \/ down' = IF served THEN Append(down, f) ELSE down
             \/ served /\ down' = Append(down, r)
      BY <1>1 DEF Journal, historyVars
    <2>2. \A m \in {f, r} : IsDurable(m) /\ m.seq = Len(journal) + 1
      BY DEF IsDurable, Durables
    <2>3. CASE served
      <3>1. PICK m \in {f, r} : down' = Append(down, m)
        BY <2>1, <2>3
      <3> QED BY <2>1, <2>2, <2>3, <3>1, SendKeepsWire
    <2>4. CASE ~served
      <3>1. down = <<>> /\ down' = <<>>
        BY <2>1, <2>4 DEF EndInv
      <3> QED BY <2>1, <2>4, <3>1 DEF WireInv, ComeAgain, fetchVars
    <2> QED BY <2>3, <2>4
  <1>2. ASSUME NEW k \in Kinds, StreamDelta(k)
        PROVE  WireInv'
    <2>1. UNCHANGED <<journal, served, up, cursor, fetchVars, repeated>> /\ phase = "step"
      BY <1>2 DEF StreamDelta
    <2>2. CASE served
      <3>1. PICK m : down' = Append(down, m) /\ m.type = "delta" /\ m.seq = Len(journal)
                     /\ m.step = Step
        BY <1>2, <2>2 DEF StreamDelta
      <3>2. InStep(Len(journal)) /\ journal[Len(journal)].step = Step
        BY <2>1 DEF JournalInv, DaemonNow, InStep, StepBy
      <3> QED BY <2>1, <2>2, <3>1, <3>2, SendKeepsWire DEF IsDurable
    <2>3. CASE ~served
      <3>1. down' = down
        BY <1>2, <2>3 DEF StreamDelta
      <3> QED BY <2>1, <3>1, FetchKeepsWire DEF fetchVars
    <2> QED BY <2>2, <2>3
  <1>3. CASE StartTurn \/ StartStep \/ CallTool \/ ToolResult \/ CompleteStep \/ RetryStep
             \/ InterruptStep \/ EndTurn
    BY <1>1, <1>3 DEF StartTurn, StartStep, CallTool, ToolResult, CompleteStep, RetryStep,
                      InterruptStep, EndTurn, Durables
  <1>4. CASE ServeSubscribe
    BY <1>4, ServeKeepsWire
  <1>5. CASE AnswerSnapshot
    BY <1>5, FetchKeepsWire DEF AnswerSnapshot, daemonVars, wireVars, historyVars
  <1>6. ASSUME NEW type, TakeFrame(type), UNCHANGED fetchVars \/ Request
        PROVE  WireInv'
    BY <1>6, TakeKeepsWire DEF fetchVars, Request
  <1>7. CASE ApplySnapshot
    BY <1>7, ApplyKeepsWire
  <1>8. CASE DropStaleSnapshot \/ Refocus \/ SnapshotFails
    <2>1. UNCHANGED <<daemonVars, wireVars, historyVars>> /\ fetch' \in {fetch, Idle, Sent}
      BY <1>8 DEF DropStaleSnapshot, Refocus, SnapshotFails, Settle, Request
    <2> QED BY <2>1, FetchKeepsWire DEF daemonVars, wireVars, historyVars
  <1>9. CASE Reconnect
    BY <1>9, ReconnectKeepsWire
  <1>10. CASE UNCHANGED vars
    BY <1>10, FetchKeepsWire DEF vars, daemonVars, wireVars, fetchVars, historyVars
  <1>11. CASE Client
    BY <1>6, <1>7, <1>8, <1>11
       DEF Client, ProjectTurnStarted, ProjectStepStarted, ProjectNothing, ProjectDelta, ProjectGap,
           ProjectToolCall, ProjectToolResult, ProjectStepCompleted, ProjectStepRetrying,
           ProjectStepInterrupted, ProjectTurnEnded, ReceiveResync
  <1> QED BY <1>2, <1>3, <1>4, <1>5, <1>8, <1>9, <1>10, <1>11 DEF Next, Daemon, Disturbance

----------------------------------------------------------------------------
(* The first frame in transit when nothing was missed nor repeated: the    *)
(* journal's next, or a delta of the step at the cursor.                   *)
LEMMA NextFrame ==
    ASSUME Types, EndInv, WireInv, SteadyInv, Steady, NEW type, TakeFrame(type)
    PROVE  /\ served /\ UNCHANGED <<journal, served, up, misaligned, repeated>>
           /\ type # "delta" => /\ Head(down).seq = cursor + 1 /\ cursor' = cursor + 1
                                /\ cursor + 1 \in 1..Len(journal)
           /\ type \in Durables => Head(down) = journal[cursor + 1]
           /\ type = "delta" => /\ Head(down).seq = cursor /\ cursor' = cursor
                                /\ InStep(cursor) /\ Head(down).step = StepBy(cursor)
  <1> PICK m : m = Head(down)
    OBVIOUS
  <1>0. /\ down # <<>> /\ UNCHANGED <<journal, served, up, misaligned, repeated>> /\ m.type = type
        /\ cursor' = IF type = "delta" THEN cursor ELSE Larger(cursor, m.seq)
    BY DEF TakeFrame, daemonVars, historyVars
  <1>1. /\ Len(down) \in Nat \ {0} /\ m = down[1] /\ 1 \in DOMAIN down /\ Genuine(m, journal)
        /\ cursor \in 0..Len(journal) /\ Len(journal) \in Nat /\ m.seq \in 0..Len(journal)
    BY TakenFrame, WireTyped DEF Types, WireTypes
  <1>2. served
    BY <1>0 DEF EndInv
  <1>3. SentAfter(m) = cursor
    <2>1. Linked(down, Len(journal), {cursor})
      BY <1>2 DEF SteadyInv
    <2>2. Arrives(down, SentAfter(down[1]), 1 - 1) \/ SentAfter(down[1]) \in {cursor}
      BY <1>1, <2>1 DEF Linked
    <2>3. ~Arrives(down, SentAfter(down[1]), 1 - 1)
      BY DEF Arrives
    <2> QED BY <1>1, <2>2, <2>3
  <1>4. IF IsDurable(m) THEN m.seq > 0 ELSE DeltaInPlace(1)
    BY <1>1 DEF WireInv
  <1>5. CASE type # "delta"
    <2>1. IsDurable(m) /\ m.seq - 1 = cursor
      BY <1>0, <1>3, <1>5 DEF IsDurable, SentAfter
    <2>2. m.seq = cursor + 1
      BY <1>1, <2>1
    <2>3. cursor' = cursor + 1
      BY <1>0, <1>1, <1>5, <2>2 DEF Larger
    <2>4. type \in Durables => m = journal[cursor + 1]
      BY <1>0, <1>1, <2>2 DEF Genuine
    <2> QED BY <1>0, <1>1, <1>2, <1>5, <2>2, <2>3, <2>4
  <1>6. CASE type = "delta"
    <2>1. ~IsDurable(m) /\ m.seq = cursor /\ DeltaInPlace(1)
      BY <1>0, <1>3, <1>4, <1>6 DEF IsDurable, SentAfter
    <2>2. InStep(cursor) /\ m.step = journal[cursor].step
      BY <1>1, <2>1 DEF DeltaInPlace
    <2>3. m.step = StepBy(cursor)
      BY <2>2 DEF StepBy, InStep
    <2> QED BY <1>0, <1>2, <1>6, <2>1, <2>2, <2>3 DEF Durables
  <1> QED BY <1>5, <1>6

LEMMA TakeKeepsSteady ==
    ASSUME Types, EndInv, WireInv, SteadyInv, NEW type, TakeFrame(type)
    PROVE  SteadyInv'
  <1> SUFFICES ASSUME Steady
               PROVE  Linked(down', Len(journal), {cursor'}) /\ served'
    BY NextFrame DEF SteadyInv, Steady, TakeFrame, historyVars, daemonVars
  <1> PICK last : last = Len(journal)
    OBVIOUS
  <1> PICK next : next = cursor'
    OBVIOUS
  <1>0. served /\ served' /\ down # <<>> /\ down' = Tail(down)
    BY NextFrame DEF TakeFrame
  <1>1. /\ down \in Seq(Frames \cup Deltas) /\ Len(down) \in Nat /\ DOMAIN down = 1..Len(down)
        /\ last \in Nat /\ cursor \in Nat /\ Head(down) = down[1] /\ 1 \in DOMAIN down
        /\ \A i \in DOMAIN down : down[i].seq \in Nat
    BY <1>0, WireTyped, TakenFrame DEF Types, WireTypes
  <1>2. Linked(down, last, {cursor})
    BY <1>0 DEF SteadyInv
  <1>3. CASE type = "delta"
    <2>1. next = cursor /\ ~IsDurable(down[1])
      BY <1>1, <1>3, NextFrame, TakenFrame DEF IsDurable
    <2>2. Linked(Tail(down), last, {next})
      BY <1>0, <1>1, <1>2, <2>1, LinkedTail
    <2> QED BY <1>0, <2>2
  <1>4. CASE type # "delta"
    <2>1. /\ next = cursor + 1 /\ IsDurable(down[1]) /\ down[1].seq = cursor + 1
          /\ cursor + 1 \in 1..last
      <3>1. Head(down).type = type
        BY TakenFrame
      <3>2. Head(down).seq = cursor + 1 /\ next = cursor + 1 /\ cursor + 1 \in 1..last
        BY <1>4, NextFrame
      <3> QED BY <1>1, <1>4, <3>1, <3>2 DEF IsDurable
    <2>2. ASSUME NEW i \in 2..Len(down), SentAfter(down[i]) = cursor
          PROVE  FALSE
      <3>0. i \in DOMAIN down /\ 1 \in 1..(i - 1) /\ 1 < i
        BY <1>1
      <3>1. CASE IsDurable(down[i])
        <4>1. down[i].seq = cursor + 1
          BY <1>1, <2>2, <3>0, <3>1 DEF SentAfter
        <4>2. down[i].seq <= down[1].seq
          BY <1>1, <2>1, <4>1
        <4>3. ~ComeAgain(down)
          BY DEF WireInv, Steady
        <4> QED BY <1>1, <2>1, <3>0, <3>1, <4>2, <4>3 DEF ComeAgain, IsDurable
      <3>2. CASE ~IsDurable(down[i])
        <4>1. down[i].seq = cursor /\ DeltaInPlace(i)
          BY <2>2, <3>0, <3>2 DEF SentAfter, WireInv
        <4>2. down[1].seq <= down[i].seq
          BY <2>1, <3>0, <4>1 DEF DeltaInPlace
        <4> QED BY <1>1, <2>1, <4>1, <4>2
      <3> QED BY <3>1, <3>2
    <2>3. last # cursor
      BY <1>1, <2>1
    <2>4. Linked(Tail(down), last, {next})
      BY <1>0, <1>1, <1>2, <2>1, <2>2, <2>3, LinkedTail
    <2> QED BY <1>0, <2>4
  <1> QED BY <1>3, <1>4

(* A snapshot that meets the stream: the next frame is the one after it.   *)
LEMMA MeetKeepsSteady ==
    ASSUME Types, WireInv, ApplySnapshot, Steady'
    PROVE  /\ served => Linked(down, Len(journal), {fetch.at})
           /\ ~served => \A i \in DOMAIN up' : up'[i] = fetch.at
  <1> PICK at : at = fetch.at
    OBVIOUS
  <1> PICK last : last = Len(journal)
    OBVIOUS
  <1>0. /\ Meets(fetch) /\ ~ComeAgain(down) /\ up' = Append(up, at) /\ fetch.phase = "answered"
        /\ at \in 0..last
    <2>1. /\ misaligned' = ~Meets(fetch) /\ repeated' = ComeAgain(down) /\ up' = Append(up, at)
          /\ fetch.phase = "answered"
      BY DEF ApplySnapshot
    <2>2. Meets(fetch) /\ ~ComeAgain(down)
      <3>1. ~misaligned' /\ ~repeated'
        BY DEF Steady
      <3> HIDE DEF Meets, ComeAgain
      <3> QED BY <2>1, <3>1
    <2>3. fetch \in Snapshots
      BY <2>1 DEF Types, FetchTypes, Idle, Sent
    <2> QED BY <2>1, <2>2, <2>3 DEF Snapshots
  <1>1. /\ last \in Nat /\ DOMAIN down = 1..Len(down) /\ Len(down) \in Nat /\ cursor \in Nat
        /\ \A i \in 1..Len(down) : down[i].seq \in Nat
    BY WireTyped DEF Types, WireTypes
  <1>a. at \in Nat /\ at <= last
    BY <1>0, <1>1
  <1>2. \A q \in HeardOf : q \in Nat /\ q <= at
    BY <1>0, <1>1, <1>a DEF HeardOf, Meets
  <1>3. \A i \in 1..Len(down) : IsDurable(down[i]) => down[i].seq > at
    BY <1>0, <1>1, <1>a DEF Meets, Older, IsDurable
  <1>4. ASSUME NEW i \in 1..Len(down), SentAfter(down[i]) \in HeardOf
        PROVE  SentAfter(down[i]) = at
    <2> PICK s : s = down[i].seq
      OBVIOUS
    <2>1. CASE IsDurable(down[i])
      <3>1. s > at /\ s - 1 <= at /\ s \in Nat
        BY <1>1, <1>2, <1>3, <1>4, <2>1 DEF SentAfter
      <3> QED BY <1>a, <2>1, <3>1 DEF SentAfter
    <2>2. CASE ~IsDurable(down[i])
      <3>1. s <= at /\ s \in Nat
        BY <1>1, <1>2, <1>4, <2>2 DEF SentAfter
      <3>2. CASE s < at
        <4>1. at \in (s + 1)..last
          BY <1>a, <1>1, <3>1, <3>2
        <4>2. DeltaInPlace(i)
          BY <1>1, <2>2 DEF WireInv
        <4>3. PICK j \in (i + 1)..Len(down) : IsDurable(down[j]) /\ down[j].seq = at
          BY <4>1, <4>2 DEF DeltaInPlace
        <4>4. j \in 1..Len(down)
          BY <1>1
        <4> QED BY <1>a, <1>3, <4>3, <4>4
      <3> QED BY <1>a, <2>2, <3>1, <3>2 DEF SentAfter
    <2> QED BY <2>1, <2>2
  <1>5. served => Linked(down, last, {at})
    <2> SUFFICES ASSUME served
                 PROVE  Linked(down, last, {at})
      OBVIOUS
    <2> PICK K : K = HeardOf
      OBVIOUS
    <2>1. Linked(down, last, K)
      BY DEF WireInv
    <2>2. last \in K => last = at
      BY <1>1, <1>2, <1>a
    <2> QED BY <1>4, <2>1, <2>2, LinkedTo
  <1>6. \A i \in DOMAIN up' : up'[i] = at
    <2>1. up \in Seq(Nat) /\ \A i \in DOMAIN up : up[i] >= at /\ up[i] <= at
      BY <1>0 DEF Types, WireTypes, Meets, WireInv
    <2>2. \A i \in DOMAIN up : up[i] = at
      BY <1>a, <2>1
    <2> QED BY <1>0, <1>a, <2>1, <2>2
  <1> QED BY <1>5, <1>6

LEMMA ServeKeepsSteady ==
    ASSUME Types, EndInv, WireInv, SteadyInv, ServeSubscribe
    PROVE  SteadyInv'
  <1> PICK after : after = Head(up)
    OBVIOUS
  <1> PICK last : last = Len(journal)
    OBVIOUS
  <1>0. /\ UNCHANGED <<journal, cursor, misaligned>> /\ served' = TRUE /\ up # <<>>
        /\ down' = down \o Replay(after)
        /\ repeated' = (repeated \/ (served /\ after < last))
    BY DEF ServeSubscribe, daemonVars
  <1> SUFFICES ASSUME Steady, ~repeated'
               PROVE  Linked(down', last, {cursor})
    BY <1>0 DEF SteadyInv, Steady
  <1>1. 1 \in DOMAIN up /\ after = up[1] /\ after \in 0..last /\ last \in Nat
    <2>1. up \in Seq(Nat) /\ up # <<>> /\ \A i \in DOMAIN up : up[i] <= last
      BY <1>0 DEF Types, WireTypes
    <2>2. after = up[1] /\ 1 \in DOMAIN up /\ up[1] \in Nat
      BY <2>1
    <2> QED BY <2>1, <2>2, WireTyped
  <1>2. CASE ~served
    <2>1. down = <<>> /\ after = cursor
      BY <1>1, <1>2 DEF EndInv, SteadyInv
    <2> QED BY <1>0, <1>1, <2>1, LinkedReplay
  <1>3. CASE served
    <2>1. after = last
      <3>1. ~(after < last)
        BY <1>0, <1>3
      <3>2. after \in Nat /\ after <= last
        BY <1>1
      <3> QED BY <1>1, <3>1, <3>2
    <2>2. Linked(down, last, {cursor}) /\ down \in Seq(Frames \cup Deltas)
      BY <1>3, WireTyped DEF SteadyInv
    <2>3. Replay(after) = <<>>
      <3>1. Replay(after) \in Seq(Frames \cup Deltas) /\ Len(Replay(after)) = 0
        BY <1>1, <2>1, ReplayOf
      <3> QED BY <3>1, EmptySeq
    <2>4. down' = down
      BY <1>0, <2>2, <2>3, ConcatEmptySeq
    <2> QED BY <2>2, <2>4
  <1> QED BY <1>2, <1>3

LEMMA SteadyHolds ==
    Types /\ EndInv /\ JournalInv /\ WireInv /\ SteadyInv /\ [Next]_vars => SteadyInv'
  <1> SUFFICES ASSUME Types, EndInv, JournalInv, WireInv, SteadyInv, [Next]_vars
               PROVE  SteadyInv'
    OBVIOUS
  <1>0. Len(journal) \in Nat /\ journal \in Seq(Frames) /\ down \in Seq(Frames \cup Deltas)
        /\ cursor \in 0..Len(journal)
    BY WireTyped DEF Types, WireTypes
  <1>1. ASSUME NEW type \in Durables, Journal(type)
        PROVE  SteadyInv'
    <2> PICK f : f = [type |-> type, seq |-> Len(journal) + 1, turn |-> turn', step |-> Len(steps')]
      OBVIOUS
    <2> PICK r : r = [f EXCEPT !.type = "resync"]
      OBVIOUS
    <2> PICK last : last = Len(journal')
      OBVIOUS
    <2>1. /\ journal' = Append(journal, f)
          /\ UNCHANGED <<served, up, cursor, misaligned, repeated>>
          /\ \/ down' = IF served THEN Append(down, f) ELSE down
             \/ served /\ down' = Append(down, r)
      BY <1>1 DEF Journal, historyVars
    <2>2. \A m \in {f, r} : IsDurable(m) /\ m.seq = Len(journal) + 1
      BY DEF IsDurable, Durables
    <2>3. last = Len(journal) + 1
      BY <1>0, <2>1
    <2>4. CASE served /\ Steady
      <3>1. PICK m \in {f, r} : down' = Append(down, m)
        BY <2>1, <2>4
      <3>2. IsDurable(m) /\ m.seq = last /\ SentAfter(m) = Len(journal)
        BY <1>0, <2>2, <2>3 DEF SentAfter
      <3>3. Linked(down, Len(journal), {cursor})
        BY <2>4 DEF SteadyInv
      <3>4. Linked(down', last, {cursor})
        BY <1>0, <3>1, <3>2, <3>3, LinkedAppend
      <3> QED BY <2>1, <2>4, <3>4 DEF SteadyInv
    <2>5. CASE ~(served /\ Steady)
      BY <2>1, <2>5 DEF SteadyInv, Steady
    <2> QED BY <2>4, <2>5
  <1>2. ASSUME NEW k \in Kinds, StreamDelta(k)
        PROVE  SteadyInv'
    <2>1. UNCHANGED <<journal, served, up, cursor, misaligned, repeated>>
      BY <1>2 DEF StreamDelta
    <2>2. CASE served /\ Steady
      <3>1. PICK m : down' = Append(down, m) /\ m.type = "delta" /\ m.seq = Len(journal)
        BY <1>2, <2>2 DEF StreamDelta
      <3>2. ~IsDurable(m) /\ SentAfter(m) = Len(journal)
        BY <3>1 DEF IsDurable, SentAfter
      <3>3. Linked(down, Len(journal), {cursor})
        BY <2>2 DEF SteadyInv
      <3>4. Linked(down', Len(journal), {cursor})
        BY <1>0, <3>1, <3>2, <3>3, LinkedAppend
      <3> QED BY <2>1, <2>2, <3>4 DEF SteadyInv
    <2>3. CASE ~(served /\ Steady)
      BY <2>1, <2>3 DEF SteadyInv, Steady
    <2> QED BY <2>2, <2>3
  <1>3. CASE StartTurn \/ StartStep \/ CallTool \/ ToolResult \/ CompleteStep \/ RetryStep
             \/ InterruptStep \/ EndTurn
    BY <1>1, <1>3 DEF StartTurn, StartStep, CallTool, ToolResult, CompleteStep, RetryStep,
                      InterruptStep, EndTurn, Durables
  <1>4. CASE ServeSubscribe
    BY <1>4, ServeKeepsSteady
  <1>5. ASSUME UNCHANGED <<journal, served, down, up, cursor, misaligned, repeated>>
        PROVE  SteadyInv'
    BY <1>5 DEF SteadyInv, Steady
  <1>6. ASSUME NEW type, TakeFrame(type)
        PROVE  SteadyInv'
    BY <1>6, TakeKeepsSteady
  <1>7. CASE ApplySnapshot
    <2>1. UNCHANGED <<journal, served, down>> /\ cursor' = fetch.at
      BY <1>7 DEF ApplySnapshot, daemonVars
    <2>2. Steady' => /\ served' => Linked(down', Len(journal'), {cursor'})
                     /\ ~served' => \A i \in DOMAIN up' : up'[i] = cursor'
      BY <1>7, <2>1, MeetKeepsSteady
    <2> QED BY <2>2 DEF SteadyInv
  <1>8. CASE DropStaleSnapshot \/ Refocus \/ SnapshotFails \/ AnswerSnapshot
    BY <1>5, <1>8 DEF DropStaleSnapshot, Refocus, SnapshotFails, AnswerSnapshot, daemonVars,
                      wireVars, historyVars
  <1>9. CASE Reconnect
    <2>1. UNCHANGED <<journal, cursor, misaligned, repeated>> /\ served' = TRUE
          /\ down' = Replay(cursor)
      BY <1>9 DEF Reconnect, daemonVars
    <2>2. Linked(Replay(cursor), Len(journal), {cursor})
      BY <1>0, ReplayedFrames
    <2> QED BY <2>1, <2>2 DEF SteadyInv
  <1>10. CASE UNCHANGED vars
    BY <1>5, <1>10 DEF vars, daemonVars, wireVars, historyVars
  <1>11. CASE Client
    BY <1>6, <1>7, <1>8, <1>11
       DEF Client, ProjectTurnStarted, ProjectStepStarted, ProjectNothing, ProjectDelta, ProjectGap,
           ProjectToolCall, ProjectToolResult, ProjectStepCompleted, ProjectStepRetrying,
           ProjectStepInterrupted, ProjectTurnEnded, ReceiveResync
  <1> QED BY <1>2, <1>3, <1>4, <1>8, <1>9, <1>10, <1>11 DEF Next, Daemon, Disturbance

----------------------------------------------------------------------------
(* No step of the system changes the past.                                 *)
LEMMA PastHolds ==
    ASSUME Types, [Next]_vars, NEW q \in 0..Len(journal)
    PROVE  /\ StepBy(q)' = StepBy(q) /\ TurnBy(q)' = TurnBy(q)
           /\ BetweenTurns(q)' = BetweenTurns(q) /\ InStep(q)' = InStep(q)
           /\ Retrying(q)' = Retrying(q)
           /\ \A a : RetriedBy(q, a)' = RetriedBy(q, a)
  <1>1. CASE journal' = journal
    <2>1. \A p : Retrying(p)' = Retrying(p)
      BY <1>1 DEF Retrying
    <2> QED BY <1>1, <2>1 DEF StepBy, TurnBy, BetweenTurns, InStep, Retrying, RetriedBy
  <1>2. ASSUME NEW type, Journal(type)
        PROVE  \E f : journal' = Append(journal, f)
    BY <1>2 DEF Journal
  <1>3. CASE \E f : journal' = Append(journal, f)
    BY <1>3, PastStays
  <1>4. journal' = journal \/ \E f : journal' = Append(journal, f)
    <2>1. CASE StartTurn \/ StartStep \/ CallTool \/ ToolResult \/ CompleteStep \/ RetryStep
               \/ InterruptStep \/ EndTurn
      BY <1>2, <2>1 DEF StartTurn, StartStep, CallTool, ToolResult, CompleteStep, RetryStep,
                        InterruptStep, EndTurn
    <2>2. CASE (\E k \in Kinds : StreamDelta(k)) \/ ServeSubscribe \/ AnswerSnapshot
      BY <2>2 DEF StreamDelta, ServeSubscribe, AnswerSnapshot, daemonVars
    <2>3. CASE Client
      BY <2>3
         DEF Client, ProjectTurnStarted, ProjectStepStarted, ProjectNothing, ProjectDelta, ProjectGap,
             ProjectToolCall, ProjectToolResult, ProjectStepCompleted, ProjectStepRetrying,
             ProjectStepInterrupted, ProjectTurnEnded, ReceiveResync, TakeFrame, DropStaleSnapshot,
             ApplySnapshot, daemonVars
    <2>4. CASE Disturbance \/ UNCHANGED vars
      BY <2>4 DEF Disturbance, Reconnect, Refocus, SnapshotFails, daemonVars, vars
    <2> QED BY <2>1, <2>2, <2>3, <2>4 DEF Next, Daemon
  <1> QED BY <1>1, <1>3, <1>4

LEMMA FetchSteps == [Next]_vars => fetch' \in {fetch, Idle, Sent} \/ AnswerSnapshot
  <1> SUFFICES ASSUME [Next]_vars, ~AnswerSnapshot
               PROVE  fetch' \in {fetch, Idle, Sent}
    OBVIOUS
  <1>1. CASE Daemon
    BY <1>1 DEF Daemon, StartTurn, StartStep, StreamDelta, CallTool, ToolResult, CompleteStep,
                RetryStep, InterruptStep, EndTurn, Journal, ServeSubscribe, fetchVars
  <1>2. CASE Client
    BY <1>2
       DEF Client, ProjectTurnStarted, ProjectStepStarted, ProjectNothing, ProjectDelta, ProjectGap,
           ProjectToolCall, ProjectToolResult, ProjectStepCompleted, ProjectStepRetrying,
           ProjectStepInterrupted, ProjectTurnEnded, ReceiveResync, DropStaleSnapshot,
           ApplySnapshot, fetchVars, Request, Settle
  <1>3. CASE Disturbance \/ UNCHANGED vars
    BY <1>3 DEF Disturbance, Reconnect, Refocus, SnapshotFails, Request, Settle, fetchVars, vars
  <1> QED BY <1>1, <1>2, <1>3 DEF Next

LEMMA SnapshotHolds ==
    Types /\ JournalInv /\ SnapshotInv /\ [Next]_vars => SnapshotInv'
  <1> SUFFICES ASSUME Types, JournalInv, SnapshotInv, [Next]_vars, fetch'.phase = "answered"
               PROVE  SnapshotInv'
    BY DEF SnapshotInv
  <1>1. CASE AnswerSnapshot
    <2> PICK last : last = Len(journal)
      OBVIOUS
    <2>1. UNCHANGED <<journal, steps>>
      BY <1>1 DEF AnswerSnapshot, daemonVars
    <2>2. /\ fetch'.at = last /\ fetch'.steps = Len(steps) /\ fetch'.turn = turn
          /\ fetch'.inFlight <=> phase # "idle"
          /\ fetch'.sent = IF phase \in {"step", "results"} THEN steps[Len(steps)].sent ELSE NoText
      BY <1>1 DEF AnswerSnapshot, Step
    <2>3. /\ StepBy(last) = Len(steps) /\ TurnBy(last) = turn
          /\ phase = "idle" <=> BetweenTurns(last)
          /\ phase \in {"step", "results"} =>
               steps[Len(steps)].turn = turn /\ ~RetriedBy(last, Len(steps))
      BY DEF JournalInv, DaemonNow, Step
    <2>4. phase \in {"step", "results"} => Len(steps) \in DOMAIN steps
      <3>1. steps \in Seq(StepRecords) /\ (phase \in {"step", "results"} => steps # <<>>)
        BY DEF Types, DaemonTypes
      <3> QED BY <3>1, EmptySeq, LenProperties
    <2>5. (\E k \in Kinds : fetch'.sent[k] > 0) => phase \in {"step", "results"}
      BY <2>2 DEF NoText
    <2>6. /\ StepBy(last)' = StepBy(last) /\ TurnBy(last)' = TurnBy(last)
          /\ BetweenTurns(last)' = BetweenTurns(last)
          /\ \A a : RetriedBy(last, a)' = RetriedBy(last, a)
      BY PastHolds, WireTyped
    <2> QED BY <2>1, <2>2, <2>3, <2>4, <2>5, <2>6 DEF SnapshotInv
  <1>2. CASE fetch' = fetch
    <2> PICK q : q = fetch.at
      OBVIOUS
    <2>1. q \in 0..Len(journal)
      BY <1>2 DEF Types, FetchTypes, Idle, Sent, Snapshots
    <2>2. /\ fetch.steps = StepBy(q) /\ fetch.turn = TurnBy(q)
          /\ fetch.inFlight <=> ~BetweenTurns(q)
          /\ (\E k \in Kinds : fetch.sent[k] > 0) =>
               /\ fetch.steps \in DOMAIN steps /\ steps[fetch.steps].turn = fetch.turn
               /\ ~RetriedBy(q, fetch.steps)
      BY <1>2 DEF SnapshotInv
    <2>3. /\ StepBy(q)' = StepBy(q) /\ TurnBy(q)' = TurnBy(q)
          /\ BetweenTurns(q)' = BetweenTurns(q)
          /\ \A a : RetriedBy(q, a)' = RetriedBy(q, a)
      BY <2>1, PastHolds
    <2> QED BY <1>2, <2>2, <2>3, StepsHold DEF SnapshotInv, StepsStay
  <1> QED BY <1>1, <1>2, FetchSteps DEF Idle, Sent

----------------------------------------------------------------------------
(* The steps of content after it was rewritten.                            *)
LEMMA StepsOfEmpty ==
    /\ StepsIn(<<>>) = {}
    /\ StepsIn(<<Part("toolResult", <<>>)>>) = {}
  BY DEF StepsIn, Part

LEMMA StepsOfCard ==
    ASSUME NEW content \in Seq(PartsType)
    PROVE  StepsIn(Append(content, Part("toolUse", <<>>))) \subseteq StepsIn(content)
  <1> PICK part : part = Part("toolUse", <<>>)
    OBVIOUS
  <1>1. DOMAIN part.body = {}
    BY DEF Part
  <1>2. \A p \in DOMAIN Append(content, part) :
          Append(content, part)[p] = part \/ (p \in DOMAIN content /\ Append(content, part)[p] = content[p])
    OBVIOUS
  <1> QED BY <1>1, <1>2 DEF StepsIn

LEMMA StepsOfDelta ==
    ASSUME NEW content \in Seq(PartsType), NEW kind, NEW piece \in Nat \X Nat
    PROVE  StepsIn(AppendDelta(content, kind, piece)) \subseteq StepsIn(content) \cup {piece[1]}
  <1>1. CASE content # <<>> /\ content[Len(content)].type = kind
    <2> PICK n : n = Len(content)
      OBVIOUS
    <2>0. n \in DOMAIN content /\ content[n].body \in Seq(Nat \X Nat)
      <3>1. n \in DOMAIN content
        BY <1>1, EmptySeq, LenProperties
      <3>2. content[n] \in PartsType
        BY <3>1
      <3> QED BY <3>1, <3>2 DEF PartsType
    <2> PICK old : old = content[n].body
      OBVIOUS
    <2> PICK body : body = Append(old, piece)
      OBVIOUS
    <2>1. \A x \in DOMAIN body : body[x] = piece
            \/ (x \in DOMAIN content[n].body /\ body[x] = content[n].body[x])
      <3>1. /\ DOMAIN body = 1..(Len(old) + 1) /\ body[Len(old) + 1] = piece
            /\ DOMAIN old = 1..Len(old) /\ Len(old) \in Nat
            /\ \A x \in 1..Len(old) : body[x] = old[x]
        BY <2>0, AppendProperties, LenProperties
      <3> QED BY <3>1
    <2> PICK new : new = AppendDelta(content, kind, piece)
      OBVIOUS
    <2>2. new = [content EXCEPT ![n].body = body]
      <3>1. new = [content EXCEPT ![n].body = Append(@, piece)]
        BY <1>1 DEF AppendDelta
      <3> QED BY <2>0, <3>1
    <2>3. DOMAIN new = DOMAIN content
          /\ \A p \in DOMAIN content : p # n => new[p] = content[p]
      BY <2>2
    <2>4. new[n].body = body
      <3>1. content[n] \in PartsType
        BY <2>0
      <3> QED BY <2>0, <2>2, <3>1 DEF PartsType
    <2>5. ASSUME NEW p \in DOMAIN new, NEW x \in DOMAIN new[p].body
          PROVE  \/ new[p].body[x] = piece
                 \/ p \in DOMAIN content /\ x \in DOMAIN content[p].body
                      /\ new[p].body[x] = content[p].body[x]
      <3>1. CASE p = n
        BY <2>0, <2>1, <2>4, <2>5, <3>1
      <3>2. CASE p # n
        BY <2>3, <2>5, <3>2
      <3> QED BY <3>1, <3>2
    <2>6. ASSUME NEW a \in StepsIn(new)
          PROVE  a \in StepsIn(content) \cup {piece[1]}
      <3>1. PICK p \in DOMAIN new : \E x \in DOMAIN new[p].body : new[p].body[x][1] = a
        BY <2>6 DEF StepsIn
      <3>2. PICK x \in DOMAIN new[p].body : new[p].body[x][1] = a
        BY <3>1
      <3>3. a \in Nat
        BY <2>6 DEF StepsIn
      <3>4. CASE new[p].body[x] = piece
        BY <3>2, <3>4
      <3>5. CASE /\ p \in DOMAIN content /\ x \in DOMAIN content[p].body
                 /\ new[p].body[x] = content[p].body[x]
        <4>1. content[p].body[x][1] = a
          BY <3>2, <3>5
        <4>2. a \in StepsIn(content)
          BY <3>3, <3>5, <4>1 DEF StepsIn
        <4> QED BY <4>2
      <3> QED BY <2>5, <3>4, <3>5
    <2> QED BY <2>6
  <1>2. CASE ~(content # <<>> /\ content[Len(content)].type = kind)
    <2> PICK part : part = Part(kind, <<piece>>)
      OBVIOUS
    <2>1. AppendDelta(content, kind, piece) = Append(content, part)
      BY <1>2 DEF AppendDelta
    <2>2. \A x \in DOMAIN part.body : part.body[x] = piece
      BY DEF Part
    <2>3. \A p \in DOMAIN Append(content, part) :
            Append(content, part)[p] = part \/ (p \in DOMAIN content /\ Append(content, part)[p] = content[p])
      OBVIOUS
    <2> QED BY <2>1, <2>2, <2>3 DEF StepsIn
  <1> QED BY <1>1, <1>2

LEMMA StepsOfConcat ==
    ASSUME NEW s \in Seq(PartsType), NEW t \in Seq(PartsType)
    PROVE  StepsIn(s \o t) \subseteq StepsIn(s) \cup StepsIn(t)
  <1>1. \A p \in DOMAIN (s \o t) : \/ p \in DOMAIN s /\ (s \o t)[p] = s[p]
                                   \/ \E j \in DOMAIN t : (s \o t)[p] = t[j]
    <2>1. /\ Len(s) \in Nat /\ Len(t) \in Nat /\ DOMAIN (s \o t) = 1..(Len(s) + Len(t))
          /\ DOMAIN s = 1..Len(s) /\ DOMAIN t = 1..Len(t)
          /\ \A p \in 1..(Len(s) + Len(t)) : (s \o t)[p] = IF p <= Len(s) THEN s[p] ELSE t[p - Len(s)]
      BY ConcatProperties, LenProperties
    <2>2. \A p \in 1..(Len(s) + Len(t)) : p <= Len(s) \/ p - Len(s) \in DOMAIN t
      BY <2>1
    <2> QED BY <2>1, <2>2
  <1> QED BY <1>1 DEF StepsIn

LEMMA StepsOfThree ==
    ASSUME NEW s \in Seq(PartsType), NEW t \in Seq(PartsType), NEW u \in Seq(PartsType)
    PROVE  StepsIn((s \o t) \o u) \subseteq (StepsIn(s) \cup StepsIn(t)) \cup StepsIn(u)
  <1>1. s \o t \in Seq(PartsType)
    BY ConcatProperties
  <1>2. StepsIn((s \o t) \o u) \subseteq StepsIn(s \o t) \cup StepsIn(u)
    BY <1>1, StepsOfConcat
  <1>3. StepsIn(s \o t) \subseteq StepsIn(s) \cup StepsIn(t)
    BY StepsOfConcat
  <1> QED BY <1>2, <1>3

(* A seeded message has text of the snapshot's step, if of any.            *)
LEMMA StepsOfSeed ==
    ASSUME NEW snap \in Snapshots
    PROVE  /\ StepsIn(SeedContent(snap)) \subseteq {snap.steps}
           /\ StepsIn(SeedContent(snap)) # {} => \E k \in Kinds : snap.sent[k] > 0
  <1>0. snap.steps \in Nat /\ snap.sent \in [Kinds -> Nat]
    BY DEF Snapshots
  <1>1. ASSUME NEW k \in Kinds
        PROVE  /\ SeedPart(snap, k) \in Seq(PartsType)
               /\ StepsIn(SeedPart(snap, k)) \subseteq {snap.steps}
               /\ StepsIn(SeedPart(snap, k)) # {} => snap.sent[k] > 0
    <2>1. CASE snap.sent[k] = 0
      BY <2>1, StepsOfEmpty DEF SeedPart
    <2>2. CASE snap.sent[k] # 0
      <3> PICK text : text = SeedText(snap, k)
        OBVIOUS
      <3>1. /\ text \in Seq(Nat \X Nat)
            /\ \A x \in DOMAIN text : text[x][1] = snap.steps
        BY <1>0 DEF SeedText
      <3> PICK part : part = Part(k, text)
        OBVIOUS
      <3>2. part \in PartsType /\ part.body = text
        BY <3>1 DEF Part, PartsType, PartTypes
      <3>3. SeedPart(snap, k) = <<part>>
        BY <2>2 DEF SeedPart
      <3>4. StepsIn(<<part>>) \subseteq {snap.steps}
        BY <3>1, <3>2 DEF StepsIn
      <3> QED BY <1>0, <2>2, <3>2, <3>3, <3>4
    <2> QED BY <2>1, <2>2
  <1> PICK card : card = IF snap.toolOpen THEN <<Part("toolUse", <<>>)>> ELSE <<>>
    OBVIOUS
  <1>2. card \in Seq(PartsType) /\ StepsIn(card) = {}
    <2> PICK part : part = Part("toolUse", <<>>)
      OBVIOUS
    <2>1. part \in PartsType /\ DOMAIN part.body = {}
      BY DEF Part, PartsType, PartTypes
    <2>2. <<part>> \in Seq(PartsType) /\ StepsIn(<<part>>) = {}
      BY <2>1 DEF StepsIn
    <2>3. <<>> \in Seq(PartsType)
      OBVIOUS
    <2> QED BY <2>2, <2>3, StepsOfEmpty
  <1> PICK thinking : thinking = SeedPart(snap, "thinking")
    OBVIOUS
  <1> PICK text : text = SeedPart(snap, "text")
    OBVIOUS
  <1>3. SeedContent(snap) = (thinking \o text) \o card
    BY DEF SeedContent
  <1>4. thinking \o text \in Seq(PartsType) /\ thinking \in Seq(PartsType) /\ text \in Seq(PartsType)
    BY <1>1, ConcatProperties DEF Kinds
  <1>5. StepsIn(SeedContent(snap)) \subseteq StepsIn(thinking) \cup StepsIn(text)
    BY <1>2, <1>3, <1>4, StepsOfThree
  <1> QED BY <1>1, <1>5 DEF Kinds

----------------------------------------------------------------------------
(* Text after one step of the client.  No message has more text than       *)
(* before.                                                                 *)
NoMoreText ==
    \A i \in DOMAIN shown' :
      \/ StepsIn(shown'[i].content) = {}
      \/ /\ i \in DOMAIN shown /\ shown'[i].turn = shown[i].turn
         /\ StepsIn(shown'[i].content) \subseteq StepsIn(shown[i].content)

LEMMA CreatedText ==
    ASSUME MessageInv, NEW msg, CreateMessage(msg), StepsIn(msg.content) = {}
    PROVE  NoMoreText
  <1>1. /\ \A i \in DOMAIN shown : i # nextId
        /\ shown' = IF nextId \in DOMAIN shown THEN shown ELSE Put(shown, nextId, msg)
    BY DEF CreateMessage, MessageInv, MessageTypes, IsMessages
  <1>2. shown' = Put(shown, nextId, msg)
    BY <1>1
  <1>3. \A i \in DOMAIN shown' : shown'[i] = msg \/ (i \in DOMAIN shown /\ shown'[i] = shown[i])
    BY <1>2 DEF Put
  <1> QED BY <1>3 DEF NoMoreText

LEMMA UpdatedText ==
    ASSUME MessageInv, NEW content, UpdateMessage(current, content), IsOpen,
           StepsIn(content) \subseteq StepsIn(log[current].content)
    PROVE  /\ NoMoreText
           /\ shown'[current].content = content
           /\ \A i \in DOMAIN shown' : i # current => i \in DOMAIN shown /\ shown'[i] = shown[i]
  <1>1. /\ current \in DOMAIN shown /\ shown[current] = log[current]
        /\ shown' = [shown EXCEPT ![current].content = content]
    BY OpenBubble DEF UpdateMessage, ReduceUpdated
  <1>2. shown[current] \in Messages
    BY <1>1 DEF MessageInv, MessageTypes, IsMessages
  <1>3. /\ DOMAIN shown' = DOMAIN shown
        /\ shown'[current].content = content /\ shown'[current].turn = shown[current].turn
        /\ \A i \in DOMAIN shown : i # current => shown'[i] = shown[i]
    <2> PICK msg : msg = [shown[current] EXCEPT !.content = content]
      OBVIOUS
    <2>1. msg.content = content /\ msg.turn = shown[current].turn
      BY <1>2 DEF Messages
    <2>2. shown' = [shown EXCEPT ![current] = msg]
      BY <1>1
    <2> QED BY <1>1, <2>1, <2>2
  <1> QED BY <1>1, <1>3 DEF NoMoreText

(* A durable frame that comes next, where the one before it was.           *)
LEMMA NextDurable ==
    ASSUME Types, EndInv, JournalInv, WireInv, SteadyInv, Steady,
           NEW type \in Durables, TakeFrame(type),
           NEW q, q = cursor + 1, NEW f, f = Head(down)
    PROVE  /\ cursor' = q /\ UNCHANGED <<journal, steps, misaligned, repeated>>
           /\ f.type = type /\ f.step \in Nat
           /\ StepBy(q) = f.step /\ TurnBy(q) = f.turn
           /\ BetweenTurns(q) <=> type = "turn.ended"
           /\ InStep(q) <=> type \in {"turn.step.started", "tool.call.started"}
           /\ Retrying(q) <=> type = "turn.step.retrying"
           /\ \A a : RetriedBy(q, a) <=>
                       RetriedBy(cursor, a) \/ (type = "turn.step.retrying" /\ f.step = a)
           /\ type # "turn.step.started" => f.step = StepBy(cursor)
           /\ StepBy(cursor) \in Nat /\ StepBy(cursor) <= f.step
           /\ type = "turn.step.started" => StepBy(cursor) < f.step
           /\ type # "turn.started" => f.turn = TurnBy(cursor) /\ ~BetweenTurns(cursor)
           /\ type = "turn.started" => BetweenTurns(cursor)
           /\ type \in {"turn.step.retrying", "tool.call.started"} => InStep(cursor)
           /\ Retrying(cursor) =>
                type \in {"turn.step.started", "turn.step.interrupted", "turn.ended"}
  <1>0. /\ cursor' = q /\ q \in 1..Len(journal) /\ f = journal[q] /\ f.type = type
        /\ UNCHANGED <<journal, steps, misaligned, repeated>>
    <2>1. "delta" \notin Durables
      BY DEF Durables
    <2>2. UNCHANGED steps
      BY DEF TakeFrame, daemonVars
    <2> QED BY <2>1, <2>2, NextFrame, TakenFrame
  <1>1. /\ q \in Nat \ {0} /\ cursor \in Nat /\ q - 1 = cursor /\ cursor \in 0..Len(journal)
        /\ journal \in Seq(Frames) /\ DOMAIN journal = 1..Len(journal) /\ Len(journal) \in Nat
    BY <1>0, WireTyped DEF Types, WireTypes
  <1>2. Fits(q)
    BY <1>0, <1>1 DEF JournalInv
  <1>3. /\ \A p \in 1..q : journal[p].step <= f.step
        /\ type = "turn.step.started" => \A p \in 1..cursor : journal[p].step < f.step
        /\ type # "turn.step.started" => f.step = StepBy(cursor)
        /\ type # "turn.started" => f.turn = TurnBy(cursor) /\ ~BetweenTurns(cursor)
        /\ type = "turn.started" => BetweenTurns(cursor)
        /\ Retrying(q) => InStep(cursor)
        /\ type = "tool.call.started" => InStep(cursor)
        /\ Retrying(cursor) => type \in {"turn.step.started", "turn.step.interrupted", "turn.ended"}
    BY <1>0, <1>1, <1>2 DEF Fits
  <1>4. /\ StepBy(q) = f.step /\ TurnBy(q) = f.turn
        /\ BetweenTurns(q) <=> type = "turn.ended"
        /\ InStep(q) <=> type \in {"turn.step.started", "tool.call.started"}
        /\ Retrying(q) <=> type = "turn.step.retrying"
    BY <1>0, <1>1 DEF StepBy, TurnBy, BetweenTurns, InStep, Retrying
  <1>5. \A a : RetriedBy(q, a) <=>
                 RetriedBy(cursor, a) \/ (type = "turn.step.retrying" /\ f.step = a)
    <2>1. \A p : p \in 1..q <=> p = q \/ p \in 1..cursor
      BY <1>1
    <2>2. \A a : RetriedBy(q, a) <=> RetriedBy(cursor, a) \/ (Retrying(q) /\ journal[q].step = a)
      BY <2>1 DEF RetriedBy
    <2> QED BY <1>0, <1>4, <2>2
  <1>6. /\ f.step \in Nat /\ StepBy(cursor) \in Nat /\ StepBy(cursor) <= f.step
        /\ type = "turn.step.started" => StepBy(cursor) < f.step
    <2>1. \A p \in 1..Len(journal) : journal[p].step \in Nat
      <3>1. \A p \in 1..Len(journal) : journal[p] \in Frames
        BY <1>1
      <3> QED BY <3>1 DEF Frames
    <2>2. CASE cursor = 0
      <3>1. StepBy(cursor) = 0 /\ BetweenTurns(cursor)
        BY <2>2 DEF StepBy, BetweenTurns
      <3> QED BY <1>0, <1>3, <2>1, <3>1
    <2>3. CASE cursor # 0
      <3>1. cursor \in 1..cursor /\ cursor \in 1..q /\ StepBy(cursor) = journal[cursor].step
            /\ cursor \in 1..Len(journal)
        BY <1>0, <1>1, <2>3 DEF StepBy
      <3> QED BY <1>0, <1>3, <2>1, <3>1
    <2> QED BY <2>2, <2>3
  <1> QED BY <1>0, <1>3, <1>4, <1>5, <1>6

(* The journal's past when it stays as it is.                              *)
LEMMA SamePast ==
    ASSUME UNCHANGED journal, NEW q
    PROVE  /\ StepBy(q)' = StepBy(q) /\ TurnBy(q)' = TurnBy(q)
           /\ BetweenTurns(q)' = BetweenTurns(q) /\ InStep(q)' = InStep(q)
           /\ Retrying(q)' = Retrying(q)
           /\ \A a : RetriedBy(q, a)' = RetriedBy(q, a)
  <1>1. \A p : Retrying(p)' = Retrying(p)
    BY DEF Retrying
  <1> QED BY <1>1 DEF StepBy, TurnBy, BetweenTurns, InStep, Retrying, RetriedBy

(* What a durable frame may do to the messages.                            *)
LEMMA DurableKeepsText ==
    ASSUME Types, EndInv, JournalInv, WireInv, SteadyInv, Steady, BubbleInv, AbandonedInv,
           NEW type \in Durables, TakeFrame(type), NEW f, f = Head(down), required' = required,
           NoMoreText,
           IsOpen' => /\ type # "turn.ended" /\ log'[current'].turn = f.turn
                      /\ StepsIn(log'[current'].content) \subseteq {f.step},
           reuse' # 0 => /\ type = "turn.step.retrying" /\ reuse' \in DOMAIN log'
                         /\ log'[reuse'].turn = f.turn
                         /\ StepsIn(log'[reuse'].content) = {},
           ~required /\ type \in {"turn.step.started", "tool.call.started"} => IsOpen',
           ~required /\ type = "tool.call.started" => current' = current,
           ~required /\ type = "turn.step.retrying" /\ current \in DOMAIN shown' =>
             StepsIn(shown'[current].content) = {}
    PROVE  BubbleInv' /\ AbandonedInv'
  <1> PICK q : q = cursor + 1
    OBVIOUS
  <1>0. /\ cursor' = q /\ UNCHANGED <<journal, steps, misaligned, repeated>>
        /\ f.step \in Nat /\ StepBy(q) = f.step /\ TurnBy(q) = f.turn
        /\ BetweenTurns(q) <=> type = "turn.ended"
        /\ InStep(q) <=> type \in {"turn.step.started", "tool.call.started"}
        /\ Retrying(q) <=> type = "turn.step.retrying"
        /\ \A a : RetriedBy(q, a) <=>
                    RetriedBy(cursor, a) \/ (type = "turn.step.retrying" /\ f.step = a)
        /\ type # "turn.step.started" => f.step = StepBy(cursor)
        /\ StepBy(cursor) \in Nat /\ StepBy(cursor) <= f.step
        /\ type = "turn.step.started" => StepBy(cursor) < f.step
        /\ type \in {"turn.step.retrying", "tool.call.started"} => InStep(cursor)
    BY NextDurable
  <1>1. /\ StepBy(q)' = StepBy(q) /\ TurnBy(q)' = TurnBy(q)
        /\ BetweenTurns(q)' = BetweenTurns(q) /\ InStep(q)' = InStep(q)
        /\ Retrying(q)' = Retrying(q)
        /\ \A a : RetriedBy(q, a)' = RetriedBy(q, a)
    BY <1>0, SamePast
  <1>2. ASSUME NEW i \in DOMAIN shown', NEW a \in StepsIn(shown'[i].content)
        PROVE  /\ i \in DOMAIN shown /\ a \in StepsIn(shown[i].content)
               /\ shown'[i].turn = shown[i].turn
               /\ StepsIn(shown'[i].content) \subseteq StepsIn(shown[i].content)
    BY <1>2 DEF NoMoreText
  <1>3. BubbleInv'
    <2>1. ASSUME NEW i \in DOMAIN shown', NEW a \in StepsIn(shown'[i].content)
          PROVE  /\ StepsIn(shown'[i].content) \subseteq {a}
                 /\ a \in DOMAIN steps' /\ steps'[a].turn = shown'[i].turn
      <3>1. /\ StepsIn(shown[i].content) \subseteq {a}
            /\ a \in DOMAIN steps /\ steps[a].turn = shown[i].turn
        BY <1>2, <2>1 DEF BubbleInv
      <3> QED BY <1>0, <1>2, <2>1, <3>1
    <2> QED BY <1>0, <1>1, <2>1 DEF BubbleInv
  <1>4. AbandonedInv'
    <2> SUFFICES ASSUME ~required
                 PROVE  /\ \A i \in DOMAIN shown' : \A a \in StepsIn(shown'[i].content) :
                             /\ a <= StepBy(q) /\ ~RetriedBy(q, a)
                             /\ InStep(q) /\ a = StepBy(q) => i = current'
                        /\ InStep(q) => IsOpen'
      BY <1>0, <1>1 DEF AbandonedInv
    <2>1. ASSUME NEW i \in DOMAIN shown', NEW a \in StepsIn(shown'[i].content)
          PROVE  /\ a <= StepBy(q) /\ ~RetriedBy(q, a)
                 /\ InStep(q) /\ a = StepBy(q) => i = current'
      <3>1. /\ a <= StepBy(cursor) /\ ~RetriedBy(cursor, a)
            /\ InStep(cursor) /\ a = StepBy(cursor) => i = current
        BY <1>2, <2>1 DEF AbandonedInv
      <3>2. a \in Nat
        BY <2>1 DEF StepsIn
      <3>3. a <= StepBy(q)
        BY <1>0, <3>1, <3>2
      <3>4. ~RetriedBy(q, a)
        <4>1. ASSUME type = "turn.step.retrying", f.step = a
              PROVE  FALSE
          BY <1>0, <2>1, <3>1, <4>1
        <4> QED BY <1>0, <3>1, <4>1
      <3>5. InStep(q) /\ a = StepBy(q) => i = current'
        BY <1>0, <3>1, <3>2
      <3> QED BY <3>3, <3>4, <3>5
    <2> QED BY <1>0, <2>1
  <1> QED BY <1>3, <1>4

(* The bubbles when a durable frame comes next.                            *)
LEMMA BubblesNow ==
    ASSUME Types, EndInv, JournalInv, WireInv, SteadyInv, Steady, BubbleInv, AbandonedInv,
           NEW type \in Durables, TakeFrame(type), NEW f, f = Head(down)
    PROVE  /\ IsOpen => /\ type # "turn.started" /\ log[current].turn = f.turn
                        /\ type # "turn.step.started" => StepsIn(log[current].content) \subseteq {f.step}
           /\ reuse # 0 => /\ type \in {"turn.step.started", "turn.step.interrupted", "turn.ended"}
                           /\ reuse \in DOMAIN log /\ log[reuse].turn = f.turn
                           /\ StepsIn(log[reuse].content) = {}
           /\ ~required /\ type \in {"turn.step.retrying", "tool.call.started"} => IsOpen
  <1> PICK q : q = cursor + 1
    OBVIOUS
  <1>1. /\ type # "turn.step.started" => f.step = StepBy(cursor)
        /\ type # "turn.started" => f.turn = TurnBy(cursor) /\ ~BetweenTurns(cursor)
        /\ type = "turn.started" => BetweenTurns(cursor)
        /\ type \in {"turn.step.retrying", "tool.call.started"} => InStep(cursor)
        /\ Retrying(cursor) =>
             type \in {"turn.step.started", "turn.step.interrupted", "turn.ended"}
    BY NextDurable
  <1>2. /\ IsOpen => /\ ~BetweenTurns(cursor) /\ log[current].turn = TurnBy(cursor)
                     /\ StepsIn(log[current].content) \subseteq {StepBy(cursor)}
        /\ reuse # 0 => /\ Retrying(cursor) /\ reuse \in DOMAIN log
                        /\ log[reuse].turn = TurnBy(cursor) /\ StepsIn(log[reuse].content) = {}
    BY DEF BubbleInv
  <1>3. ~required /\ InStep(cursor) => IsOpen
    BY DEF AbandonedInv
  <1> QED BY <1>1, <1>2, <1>3

LEMMA DurableFrames ==
    ASSUME Types, EndInv, JournalInv, WireInv, SteadyInv, Steady, MessageInv,
           BubbleInv, AbandonedInv,
           \/ ProjectTurnStarted \/ ProjectStepStarted \/ ProjectToolCall \/ ProjectToolResult
           \/ ProjectStepCompleted \/ ProjectStepRetrying \/ ProjectStepInterrupted
           \/ ProjectTurnEnded
    PROVE  BubbleInv' /\ AbandonedInv'
  <1> PICK f : f = Head(down)
    OBVIOUS
  <1>0. /\ nextId \in Nat \ {0} /\ 0 \notin DOMAIN log /\ nextId \notin DOMAIN log
    BY DEF MessageInv, MessageTypes, IsMessages
  (* Messages as they are.                                                 *)
  <1>1. ASSUME KeepMessages
        PROVE  NoMoreText /\ UNCHANGED <<log, shown>>
    BY <1>1 DEF KeepMessages, NoMoreText
  (* The open bubble rewritten, its content no longer in steps.            *)
  <1>2. ASSUME IsOpen, NEW content, UpdateMessage(current, content),
               StepsIn(content) \subseteq StepsIn(log[current].content)
        PROVE  /\ NoMoreText /\ shown'[current].content = content
               /\ DOMAIN log' = DOMAIN log
               /\ log'[current].turn = log[current].turn /\ log'[current].content = content
    <2>1. current \in DOMAIN log /\ log[current] \in Messages
      BY <1>2 DEF IsOpen, MessageInv, MessageTypes, IsMessages
    <2>2. log' = [log EXCEPT ![current].content = content]
      BY <1>2 DEF UpdateMessage
    <2> PICK msg : msg = [log[current] EXCEPT !.content = content]
      OBVIOUS
    <2>3. msg.content = content /\ msg.turn = log[current].turn
      BY <2>1 DEF Messages
    <2>4. log' = [log EXCEPT ![current] = msg]
      BY <2>2
    <2>5. DOMAIN log' = DOMAIN log /\ log'[current] = msg
      BY <2>1, <2>4
    <2> QED BY <1>2, <2>3, <2>5, UpdatedText
  (* A new message without text.                                           *)
  <1>3. ASSUME NEW msg, CreateMessage(msg), StepsIn(msg.content) = {}
        PROVE  NoMoreText /\ nextId \in DOMAIN log' /\ log'[nextId] = msg
    BY <1>0, <1>3, CreatedText DEF CreateMessage, Put
  <1>4. CASE ProjectTurnStarted
    <2>1. TakeFrame("turn.started") /\ KeepMessages /\ UNCHANGED <<current, reuse, required>>
      BY <1>4 DEF ProjectTurnStarted, fetchVars
    <2>2. ~IsOpen /\ reuse = 0
      BY <2>1, BubblesNow DEF Durables
    <2>3. ~IsOpen' /\ NoMoreText
      BY <1>1, <2>1, <2>2 DEF IsOpen
    <2> QED BY <2>1, <2>2, <2>3, DurableKeepsText DEF Durables
  <1>5. CASE ProjectStepStarted
    <2>1. TakeFrame("turn.step.started") /\ reuse' = 0 /\ UNCHANGED required
      BY <1>5 DEF ProjectStepStarted, fetchVars
    <2>2. CASE Reused # 0
      <3>1. current' = reuse /\ reuse # 0 /\ KeepMessages
        BY <1>5, <2>2 DEF ProjectStepStarted, Reused
      <3>2. reuse \in DOMAIN log /\ log[reuse].turn = f.turn /\ StepsIn(log[reuse].content) = {}
        BY <2>1, <3>1, BubblesNow DEF Durables
      <3>3. IsOpen' /\ NoMoreText /\ log' = log
        BY <1>1, <3>1, <3>2 DEF IsOpen
      <3> QED BY <2>1, <3>1, <3>2, <3>3, DurableKeepsText DEF Durables
    <2>3. CASE Reused = 0
      <3> PICK msg : msg = [turn |-> f.turn, content |-> <<>>]
        OBVIOUS
      <3>1. current' = nextId /\ CreateMessage(msg)
        BY <1>5, <2>3 DEF ProjectStepStarted
      <3>2. msg.turn = f.turn /\ StepsIn(msg.content) = {}
        BY StepsOfEmpty
      <3>3. NoMoreText /\ nextId \in DOMAIN log' /\ log'[nextId] = msg
        BY <1>3, <3>1, <3>2
      <3>4. IsOpen' /\ log'[current'] = msg
        BY <1>0, <3>1, <3>3 DEF IsOpen
      <3> QED BY <2>1, <3>2, <3>3, <3>4, DurableKeepsText DEF Durables
    <2> QED BY <2>2, <2>3
  <1>6. CASE ProjectToolCall
    <2>1. TakeFrame("tool.call.started") /\ UNCHANGED <<current, reuse, required>>
      BY <1>6 DEF ProjectToolCall, KeepBinding, fetchVars
    <2>2. /\ reuse = 0
          /\ ~required => IsOpen
          /\ IsOpen => /\ log[current].turn = f.turn
                       /\ StepsIn(log[current].content) \subseteq {f.step}
      BY <2>1, BubblesNow DEF Durables
    <2>3. CASE IsOpen
      <3> PICK content : content = Append(log[current].content, Part("toolUse", <<>>))
        OBVIOUS
      <3>1. UpdateMessage(current, content)
        BY <1>6, <2>3 DEF ProjectToolCall
      <3>2. StepsIn(content) \subseteq StepsIn(log[current].content)
        BY <2>3, OpenBubble, StepsOfCard
      <3>3. /\ NoMoreText /\ DOMAIN log' = DOMAIN log
            /\ log'[current].turn = log[current].turn /\ log'[current].content = content
        BY <1>2, <2>3, <3>1, <3>2
      <3>4. IsOpen'
        BY <2>1, <2>3, <3>3 DEF IsOpen
      <3> QED BY <2>1, <2>2, <2>3, <3>2, <3>3, <3>4, DurableKeepsText DEF Durables
    <2>4. CASE ~IsOpen
      <3>1. UNCHANGED <<log, shown>>
        BY <1>6, <2>4 DEF ProjectToolCall
      <3>2. NoMoreText /\ ~IsOpen'
        BY <2>1, <2>4, <3>1 DEF NoMoreText, IsOpen
      <3> QED BY <2>1, <2>2, <2>4, <3>2, DurableKeepsText DEF Durables
    <2> QED BY <2>3, <2>4
  <1>7. CASE ProjectToolResult
    <2> PICK msg : msg = [turn |-> f.turn, content |-> <<Part("toolResult", <<>>)>>]
      OBVIOUS
    <2>1. /\ TakeFrame("tool.result") /\ CreateMessage(msg) /\ current' = 0
          /\ UNCHANGED <<reuse, required>>
      BY <1>7 DEF ProjectToolResult, fetchVars
    <2>2. StepsIn(msg.content) = {}
      BY StepsOfEmpty
    <2>3. NoMoreText /\ ~IsOpen'
      BY <1>3, <2>1, <2>2 DEF IsOpen
    <2>4. reuse = 0
      BY <2>1, BubblesNow DEF Durables
    <2> QED BY <2>1, <2>3, <2>4, DurableKeepsText DEF Durables
  <1>8. CASE ProjectStepCompleted
    <2>1. TakeFrame("turn.step.completed") /\ UNCHANGED <<current, reuse, required>>
      BY <1>8 DEF ProjectStepCompleted, KeepBinding, fetchVars
    <2>2. /\ reuse = 0
          /\ IsOpen => /\ log[current].turn = f.turn
                       /\ StepsIn(log[current].content) \subseteq {f.step}
      BY <2>1, BubblesNow DEF Durables
    <2>3. CASE IsOpen
      <3> PICK content : content = log[current].content
        OBVIOUS
      <3>1. UpdateMessage(current, content)
        BY <1>8, <2>3 DEF ProjectStepCompleted
      <3>3. /\ NoMoreText /\ DOMAIN log' = DOMAIN log
            /\ log'[current].turn = log[current].turn /\ log'[current].content = content
        BY <1>2, <2>3, <3>1
      <3>4. IsOpen'
        BY <2>1, <2>3, <3>3 DEF IsOpen
      <3> QED BY <2>1, <2>2, <2>3, <3>3, <3>4, DurableKeepsText DEF Durables
    <2>4. CASE ~IsOpen
      <3>1. UNCHANGED <<log, shown>>
        BY <1>8, <2>4 DEF ProjectStepCompleted
      <3>2. NoMoreText /\ ~IsOpen'
        BY <2>1, <2>4, <3>1 DEF NoMoreText, IsOpen
      <3> QED BY <2>1, <2>2, <3>2, DurableKeepsText DEF Durables
    <2> QED BY <2>3, <2>4
  <1>9. CASE ProjectStepRetrying
    <2>1. TakeFrame("turn.step.retrying") /\ UNCHANGED <<current, required>>
      BY <1>9 DEF ProjectStepRetrying, fetchVars
    <2>2. /\ reuse = 0
          /\ ~required => IsOpen
          /\ IsOpen => log[current].turn = f.turn
      BY <2>1, BubblesNow DEF Durables
    <2>3. CASE IsOpen
      <3> PICK content : content = Stripped(log[current].content)
        OBVIOUS
      <3>1. UpdateMessage(current, content) /\ reuse' = current
        BY <1>9, <2>3 DEF ProjectStepRetrying
      <3>2. StepsIn(content) = {}
        BY <2>3, OpenBubble, StrippedEmpty, StepsOfEmpty
      <3>3. /\ NoMoreText /\ DOMAIN log' = DOMAIN log /\ shown'[current].content = content
            /\ log'[current].turn = log[current].turn /\ log'[current].content = content
        BY <1>2, <2>3, <3>1, <3>2
      <3>4. IsOpen' /\ reuse' \in DOMAIN log'
        BY <2>1, <2>3, <3>1, <3>3 DEF IsOpen
      <3> QED BY <2>1, <2>2, <2>3, <3>1, <3>2, <3>3, <3>4, DurableKeepsText DEF Durables
    <2>4. CASE ~IsOpen
      <3>1. UNCHANGED <<log, shown, reuse>>
        BY <1>9, <2>4 DEF ProjectStepRetrying
      <3>2. NoMoreText /\ ~IsOpen'
        BY <2>1, <2>4, <3>1 DEF NoMoreText, IsOpen
      <3> QED BY <2>1, <2>2, <2>4, <3>1, <3>2, DurableKeepsText DEF Durables
    <2> QED BY <2>3, <2>4
  <1>10. CASE ProjectStepInterrupted
    <2>1. /\ TakeFrame("turn.step.interrupted") /\ KeepMessages /\ current' = 0 /\ reuse' = 0
          /\ UNCHANGED required
      BY <1>10 DEF ProjectStepInterrupted, fetchVars
    <2>2. NoMoreText /\ ~IsOpen'
      BY <1>1, <2>1 DEF IsOpen
    <2> QED BY <2>1, <2>2, DurableKeepsText DEF Durables
  <1>11. CASE ProjectTurnEnded
    <2>1. /\ TakeFrame("turn.ended") /\ current' = 0 /\ reuse' = 0 /\ UNCHANGED required
      BY <1>11 DEF ProjectTurnEnded, ClearTurn, fetchVars
    <2>2. NoMoreText
      <3>1. CASE IsOpen
        <4>1. UpdateMessage(current, log[current].content)
          BY <1>11, <3>1 DEF ProjectTurnEnded
        <4> QED BY <1>2, <3>1, <4>1
      <3>2. CASE ~IsOpen
        BY <1>11, <3>2 DEF ProjectTurnEnded, NoMoreText
      <3> QED BY <3>1, <3>2
    <2>3. ~IsOpen'
      BY <2>1 DEF IsOpen
    <2> QED BY <2>1, <2>2, <2>3, DurableKeepsText DEF Durables
  <1> QED BY <1>4, <1>5, <1>6, <1>7, <1>8, <1>9, <1>10, <1>11

(* A delta, appended or not.                                               *)
LEMMA DeltaKeepsText ==
    ASSUME Types, EndInv, JournalInv, WireInv, SteadyInv, Steady, MessageInv,
           BubbleInv, AbandonedInv, ProjectNothing \/ ProjectDelta \/ ProjectGap
    PROVE  BubbleInv' /\ AbandonedInv'
  <1> PICK m : m = Head(down)
    OBVIOUS
  <1> PICK q : q = cursor
    OBVIOUS
  <1> PICK a : a = StepBy(q)
    OBVIOUS
  <1>0. TakeFrame("delta") /\ UNCHANGED <<current, reuse>>
    BY DEF ProjectNothing, ProjectDelta, ProjectGap, KeepBinding
  <1>1. /\ UNCHANGED <<journal, steps, misaligned, repeated>> /\ cursor' = q
        /\ InStep(q) /\ m.step = a
    <2>1. UNCHANGED steps
      BY <1>0 DEF TakeFrame, daemonVars
    <2> QED BY <1>0, <2>1, NextFrame
  <1>2. /\ StepBy(q)' = a /\ TurnBy(q)' = TurnBy(q)
        /\ BetweenTurns(q)' = BetweenTurns(q) /\ InStep(q)' = InStep(q)
        /\ Retrying(q)' = Retrying(q)
        /\ \A b : RetriedBy(q, b)' = RetriedBy(q, b)
    BY <1>1, SamePast
  <1>3. /\ q \in 1..Len(journal) /\ a = journal[q].step /\ a \in Nat
        /\ a \in DOMAIN steps /\ steps[a].turn = TurnBy(q) /\ ~RetriedBy(q, a)
    <2>1. q \in 1..Len(journal) /\ DOMAIN journal = 1..Len(journal) /\ journal \in Seq(Frames)
      BY <1>1, WireTyped DEF InStep, Types, WireTypes
    <2>2. a = journal[q].step /\ TurnBy(q) = journal[q].turn /\ Fits(q)
      BY <2>1 DEF StepBy, TurnBy, JournalInv
    <2>3. journal[q] \in Frames
      BY <2>1
    <2> QED BY <1>1, <2>1, <2>2, <2>3 DEF Fits, Frames
  <1>4. CASE ProjectNothing \/ ProjectGap
    <2>1. /\ UNCHANGED <<log, shown>> /\ IsOpen' = IsOpen
          /\ required' = required \/ required' = TRUE
      BY <1>0, <1>4 DEF ProjectNothing, ProjectGap, KeepMessages, fetchVars, IsOpen
    <2>2. BubbleInv'
      BY <1>0, <1>1, <1>2, <2>1 DEF BubbleInv, Steady
    <2>3. AbandonedInv'
      BY <1>0, <1>1, <1>2, <2>1 DEF AbandonedInv, Steady
    <2> QED BY <2>2, <2>3
  <1>5. CASE ProjectDelta
    <2> PICK content : content = AppendDelta(log[current].content, m.kind, Piece(m))
      OBVIOUS
    <2>1. IsOpen /\ UNCHANGED <<nextId, required>>
      BY <1>5 DEF ProjectDelta, fetchVars
    <2>2. m.kind \in Kinds /\ Piece(m) \in Nat \X Nat /\ Piece(m)[1] = a
      BY <1>0, <1>1, TakenFrame DEF Frames, Durables, Deltas, Piece
    <2>3. /\ current \in DOMAIN log /\ current \in DOMAIN shown /\ shown[current] = log[current]
          /\ log[current].content \in Seq(PartsType) /\ shown[current] \in Messages
          /\ current # 0
      BY <2>1, OpenBubble DEF IsOpen, MessageInv, MessageTypes, IsMessages
    <2>4. /\ log' = [log EXCEPT ![current].content = content]
          /\ shown' = [shown EXCEPT ![current].content = content]
      <3>1. log' = [log EXCEPT ![current].content = content]
        BY <1>5 DEF ProjectDelta
      <3>2. shown' = [shown EXCEPT ![current].content =
                        ReduceDelta(shown[current].content, Len(content), m.kind, Piece(m))]
        BY <1>5, <2>3 DEF ProjectDelta
      <3>3. ReduceDelta(log[current].content, Len(content), m.kind, Piece(m)) = content
        BY <2>2, <2>3, SameDelta
      <3> QED BY <2>3, <3>1, <3>2, <3>3
    <2> PICK msg : msg = [log[current] EXCEPT !.content = content]
      OBVIOUS
    <2>5. msg.content = content /\ msg.turn = log[current].turn
      BY <2>3 DEF Messages
    <2>6. /\ DOMAIN log' = DOMAIN log /\ DOMAIN shown' = DOMAIN shown
          /\ log'[current] = msg /\ shown'[current] = msg
          /\ \A i \in DOMAIN log : i # current => log'[i] = log[i]
          /\ \A i \in DOMAIN shown : i # current => shown'[i] = shown[i]
      <3>1. log' = [log EXCEPT ![current] = msg] /\ shown' = [shown EXCEPT ![current] = msg]
        BY <2>3, <2>4
      <3> QED BY <2>3, <3>1
    <2>7. StepsIn(content) \subseteq StepsIn(log[current].content) \cup {a}
      BY <2>2, <2>3, StepsOfDelta
    <2>8. /\ ~BetweenTurns(q) /\ log[current].turn = TurnBy(q)
          /\ StepsIn(log[current].content) \subseteq {a}
      BY <2>1 DEF BubbleInv
    <2>9. StepsIn(content) \subseteq {a}
      BY <2>7, <2>8
    <2>10. reuse = 0
      BY <1>1 DEF BubbleInv, InStep, Retrying
    <2>11. BubbleInv'
      <3>1. ASSUME NEW i \in DOMAIN shown', NEW b \in StepsIn(shown'[i].content)
            PROVE  /\ StepsIn(shown'[i].content) \subseteq {b}
                   /\ b \in DOMAIN steps' /\ steps'[b].turn = shown'[i].turn
        <4>1. CASE i = current
          <5>1. /\ shown'[i].content = content /\ shown'[i].turn = TurnBy(q)
                /\ StepsIn(content) \subseteq {a}
            BY <2>5, <2>6, <2>8, <2>9, <4>1
          <5>2. b = a
            BY <3>1, <5>1
          <5>3. a \in DOMAIN steps' /\ steps'[a].turn = TurnBy(q)
            BY <1>1, <1>3
          <5> QED BY <5>1, <5>2, <5>3
        <4>2. CASE i # current
          BY <1>1, <2>6, <3>1, <4>2 DEF BubbleInv
        <4> QED BY <4>1, <4>2
      <3>2. /\ log'[current'].turn = TurnBy(q) /\ StepsIn(log'[current'].content) \subseteq {a}
        BY <1>0, <2>5, <2>6, <2>8, <2>9
      <3>3. reuse' = 0
        BY <1>0, <2>10
      <3> QED BY <1>1, <1>2, <2>8, <3>1, <3>2, <3>3 DEF BubbleInv
    <2>12. AbandonedInv'
      <3> SUFFICES ASSUME ~required
                   PROVE  /\ \A i \in DOMAIN shown' : \A b \in StepsIn(shown'[i].content) :
                               /\ b <= a /\ ~RetriedBy(q, b)
                               /\ b = a => i = current
                          /\ IsOpen'
        BY <1>0, <1>1, <1>2, <2>1 DEF AbandonedInv
      <3>1. ASSUME NEW i \in DOMAIN shown', NEW b \in StepsIn(shown'[i].content)
            PROVE  /\ b <= a /\ ~RetriedBy(q, b)
                   /\ b = a => i = current
        <4>1. CASE i = current
          <5>1. b = a
            BY <2>5, <2>6, <2>9, <3>1, <4>1
          <5> QED BY <1>3, <4>1, <5>1
        <4>2. CASE i # current
          BY <1>1, <2>6, <3>1, <4>2 DEF AbandonedInv
        <4> QED BY <4>1, <4>2
      <3>2. IsOpen'
        BY <1>0, <2>3, <2>6 DEF IsOpen
      <3> QED BY <3>1, <3>2
    <2> QED BY <2>11, <2>12
  <1> QED BY <1>4, <1>5

(* The transcript of a snapshot that meets the stream.                     *)
LEMMA ApplyKeepsText ==
    ASSUME Types, SnapshotInv, ApplySnapshot
    PROVE  BubbleInv' /\ AbandonedInv'
  <1> PICK at : at = fetch.at
    OBVIOUS
  <1> PICK snap : snap = fetch
    OBVIOUS
  <1>0. /\ UNCHANGED <<journal, steps>> /\ cursor' = at /\ fetch.phase = "answered"
        /\ log' = Seeded(snap) /\ shown' = Seeded(snap) /\ reuse' = 0
        /\ current' = IF snap.inFlight THEN 1 ELSE 0
    BY DEF ApplySnapshot, daemonVars
  <1>1. /\ StepBy(at)' = StepBy(at) /\ TurnBy(at)' = TurnBy(at)
        /\ BetweenTurns(at)' = BetweenTurns(at) /\ InStep(at)' = InStep(at)
        /\ Retrying(at)' = Retrying(at)
        /\ \A a : RetriedBy(at, a)' = RetriedBy(at, a)
    BY <1>0, SamePast
  <1>2. snap \in Snapshots
    BY <1>0 DEF Types, FetchTypes, Idle, Sent
  <1>3. /\ snap.steps = StepBy(at) /\ snap.turn = TurnBy(at)
        /\ snap.inFlight <=> ~BetweenTurns(at)
    BY <1>0 DEF SnapshotInv
  <1> PICK content : content = SeedContent(snap)
    OBVIOUS
  <1>4. /\ StepsIn(content) \subseteq {snap.steps}
        /\ StepsIn(content) # {} => /\ snap.steps \in DOMAIN steps
                                    /\ steps[snap.steps].turn = snap.turn
                                    /\ ~RetriedBy(at, snap.steps)
    BY <1>0, <1>2, StepsOfSeed DEF SnapshotInv
  <1> PICK msg : msg = [turn |-> snap.turn, content |-> content]
    OBVIOUS
  <1>5. /\ \A i \in DOMAIN Seeded(snap) : i = 1 /\ snap.inFlight /\ Seeded(snap)[i] = msg
        /\ snap.inFlight => 1 \in DOMAIN Seeded(snap) /\ Seeded(snap)[1] = msg
    BY DEF Seeded, NoMessages
  <1>6. msg.turn = snap.turn /\ msg.content = content
    OBVIOUS
  <1>7. /\ IsOpen' => snap.inFlight /\ log'[current'] = msg
        /\ snap.inFlight => IsOpen'
    BY <1>0, <1>5 DEF IsOpen
  <1>8. StepBy(at) \in Nat
    BY <1>2, <1>3 DEF Snapshots
  <1>9. BubbleInv'
    BY <1>0, <1>1, <1>3, <1>4, <1>5, <1>6, <1>7 DEF BubbleInv
  <1>10. AbandonedInv'
    <2>1. ASSUME NEW i \in DOMAIN shown', NEW a \in StepsIn(shown'[i].content)
          PROVE  a <= StepBy(at) /\ ~RetriedBy(at, a) /\ i = current'
      BY <1>0, <1>3, <1>4, <1>5, <1>6, <1>8, <2>1
    <2>2. InStep(at) => IsOpen'
      BY <1>3, <1>7 DEF InStep, BetweenTurns
    <2> QED BY <1>0, <1>1, <2>1, <2>2 DEF AbandonedInv
  <1> QED BY <1>9, <1>10

LEMMA TextHolds ==
    Types /\ EndInv /\ MessageInv /\ JournalInv /\ WireInv /\ SteadyInv /\ SnapshotInv
      /\ BubbleInv /\ AbandonedInv /\ [Next]_vars => BubbleInv' /\ AbandonedInv'
  <1> SUFFICES ASSUME Types, EndInv, MessageInv, JournalInv, WireInv, SteadyInv, SnapshotInv,
                      BubbleInv, AbandonedInv, [Next]_vars
               PROVE  BubbleInv' /\ AbandonedInv'
    OBVIOUS
  (* Steps that leave the client's messages alone.                         *)
  <1>1. ASSUME UNCHANGED <<projectVars, shown, cursor, required, misaligned>>, repeated => repeated'
        PROVE  BubbleInv' /\ AbandonedInv'
    <2> PICK q : q = cursor
      OBVIOUS
    <2>1. /\ UNCHANGED <<log, shown, current, reuse, required>> /\ cursor' = q /\ IsOpen' = IsOpen
          /\ Steady' => Steady
      BY <1>1 DEF projectVars, IsOpen, Steady
    <2>2. /\ StepBy(q)' = StepBy(q) /\ TurnBy(q)' = TurnBy(q)
          /\ BetweenTurns(q)' = BetweenTurns(q) /\ InStep(q)' = InStep(q)
          /\ Retrying(q)' = Retrying(q)
          /\ \A a : RetriedBy(q, a)' = RetriedBy(q, a)
      <3>1. q \in 0..Len(journal)
        BY DEF Types, WireTypes
      <3> QED BY <3>1, PastHolds
    <2>3. \A a \in DOMAIN steps : a \in DOMAIN steps' /\ steps'[a].turn = steps[a].turn
      BY StepsHold DEF StepsStay
    <2>4. BubbleInv'
      BY <2>1, <2>2, <2>3 DEF BubbleInv
    <2>5. AbandonedInv'
      BY <2>1, <2>2 DEF AbandonedInv
    <2> QED BY <2>4, <2>5
  <1>2. CASE Daemon
    BY <1>1, <1>2
       DEF Daemon, StartTurn, StartStep, StreamDelta, CallTool, ToolResult, CompleteStep, RetryStep,
           InterruptStep, EndTurn, Journal, ServeSubscribe, AnswerSnapshot, copyVars, fetchVars,
           wireVars, historyVars
  <1>3. CASE Disturbance \/ DropStaleSnapshot \/ UNCHANGED vars
    BY <1>1, <1>3 DEF Disturbance, Reconnect, Refocus, SnapshotFails, DropStaleSnapshot, copyVars,
                      fetchVars, wireVars, historyVars, vars
  <1>4. CASE ReceiveResync
    <2>1. /\ TakeFrame("resync") /\ UNCHANGED shown /\ reuse' = 0 /\ ~IsOpen' /\ required' = TRUE
      BY <1>4 DEF ReceiveResync, IsOpen
    <2>2. UNCHANGED <<steps, misaligned, repeated>>
      BY <2>1 DEF TakeFrame, daemonVars, historyVars
    <2> QED BY <2>1, <2>2 DEF BubbleInv, AbandonedInv, Steady
  <1>5. CASE \/ ProjectTurnStarted \/ ProjectStepStarted \/ ProjectToolCall \/ ProjectToolResult
             \/ ProjectStepCompleted \/ ProjectStepRetrying \/ ProjectStepInterrupted
             \/ ProjectTurnEnded \/ ProjectNothing \/ ProjectDelta \/ ProjectGap
    <2>1. CASE ~Steady
      <3>1. UNCHANGED <<misaligned, repeated>>
        BY <1>5 DEF ProjectTurnStarted, ProjectStepStarted, ProjectNothing, ProjectDelta, ProjectGap,
                    ProjectToolCall, ProjectToolResult, ProjectStepCompleted, ProjectStepRetrying,
                    ProjectStepInterrupted, ProjectTurnEnded, TakeFrame, historyVars
      <3>2. ~Steady'
        BY <2>1, <3>1 DEF Steady
      <3> QED BY <3>2 DEF BubbleInv, AbandonedInv
    <2>2. CASE Steady
      BY <1>5, <2>2, DurableFrames, DeltaKeepsText
    <2> QED BY <2>1, <2>2
  <1>6. CASE ApplySnapshot
    BY <1>6, ApplyKeepsText
  <1> QED BY <1>2, <1>3, <1>4, <1>5, <1>6 DEF Next, Client

----------------------------------------------------------------------------
TextInv ==
    IInv /\ JournalInv /\ WireInv /\ SteadyInv /\ SnapshotInv /\ BubbleInv /\ AbandonedInv

LEMMA TextInitHolds == Init => TextInv
  <1> SUFFICES ASSUME Init
               PROVE  TextInv
    OBVIOUS
  <1>1. /\ journal = <<>> /\ turn = 0 /\ phase = "idle" /\ steps = <<>> /\ ~served
        /\ down = <<>> /\ up = <<>> /\ cursor = 0 /\ log = NoMessages /\ current = 0 /\ reuse = 0
        /\ shown = NoMessages /\ fetch = Sent
    BY DEF Init
  <1>2. /\ DOMAIN journal = {} /\ Len(journal) = 0 /\ Len(steps) = 0 /\ DOMAIN steps = {}
        /\ DOMAIN down = {} /\ DOMAIN up = {} /\ DOMAIN shown = {}
    BY <1>1 DEF NoMessages
  <1>3. JournalInv
    BY <1>1, <1>2 DEF JournalInv, DaemonNow, Step, StepBy, TurnBy, BetweenTurns, InStep, Retrying
  <1>4. WireInv
    BY <1>1, <1>2 DEF WireInv, ComeAgain, Sent
  <1>5. SteadyInv /\ SnapshotInv
    BY <1>1, <1>2 DEF SteadyInv, SnapshotInv, Sent
  <1>6. BubbleInv /\ AbandonedInv
    BY <1>1, <1>2 DEF BubbleInv, AbandonedInv, IsOpen, InStep
  <1> QED BY <1>3, <1>4, <1>5, <1>6, InitHolds DEF TextInv

LEMMA TextStepHolds == TextInv /\ [Next]_vars => TextInv'
  <1> SUFFICES ASSUME TextInv, [Next]_vars
               PROVE  TextInv'
    OBVIOUS
  <1>1. /\ IInv /\ Types /\ EndInv /\ MessageInv /\ JournalInv /\ WireInv /\ SteadyInv
        /\ SnapshotInv /\ BubbleInv /\ AbandonedInv
    BY DEF TextInv, IInv
  <1>2. IInv' /\ Types'
    BY <1>1, StepHolds, TypesHold
  <1>3. JournalInv'
    BY <1>1, <1>2, JournalHolds
  <1>4. WireInv'
    BY <1>1, WireHolds
  <1>5. SteadyInv' /\ SnapshotInv'
    BY <1>1, SteadyHolds, SnapshotHolds
  <1>6. BubbleInv' /\ AbandonedInv'
    BY <1>1, TextHolds
  <1> QED BY <1>2, <1>3, <1>4, <1>5, <1>6 DEF TextInv

(* A bubble holds the text of one step, of the turn it was opened for      *)
(* (turn.step.retrying, turn.ended and startAssistantMessage,              *)
(* agentEventProjector.ts): a retry refills its own bubble and never that  *)
(* of a later prompt, whatever overflows or reconnects come in between.    *)
THEOREM OneStepPerBubble == Spec => []BubbleOfOneStep
  <1>1. TextInv => BubbleOfOneStep
    <2> SUFFICES ASSUME TextInv, Steady, NEW i \in DOMAIN shown,
                        NEW p \in DOMAIN shown[i].content, NEW r \in DOMAIN shown[i].content,
                        NEW x \in DOMAIN shown[i].content[p].body,
                        NEW y \in DOMAIN shown[i].content[r].body
                 PROVE  /\ shown[i].content[p].body[x][1] = shown[i].content[r].body[y][1]
                        /\ steps[shown[i].content[p].body[x][1]].turn = shown[i].turn
      BY DEF BubbleOfOneStep, Steady
    <2>1. shown[i].content \in Seq(PartsType)
      BY DEF TextInv, IInv, MessageInv, MessageTypes, IsMessages, Messages
    <2>2. \A s \in DOMAIN shown[i].content : shown[i].content[s].body \in Seq(Nat \X Nat)
      <3>1. \A s \in DOMAIN shown[i].content : shown[i].content[s] \in PartsType
        BY <2>1
      <3> QED BY <3>1 DEF PartsType
    <2> PICK a : a = shown[i].content[p].body[x][1]
      OBVIOUS
    <2> PICK b : b = shown[i].content[r].body[y][1]
      OBVIOUS
    <2>3. a \in Nat /\ b \in Nat
      <3> PICK left : left = shown[i].content[p].body
        OBVIOUS
      <3> PICK right : right = shown[i].content[r].body
        OBVIOUS
      <3>1. /\ left \in Seq(Nat \X Nat) /\ x \in DOMAIN left /\ a = left[x][1]
            /\ right \in Seq(Nat \X Nat) /\ y \in DOMAIN right /\ b = right[y][1]
        BY <2>2
      <3>2. left[x] \in Nat \X Nat
        BY <3>1
      <3>3. right[y] \in Nat \X Nat
        BY <3>1
      <3> QED BY <3>1, <3>2, <3>3
    <2>4. a \in StepsIn(shown[i].content) /\ b \in StepsIn(shown[i].content)
      BY <2>3 DEF StepsIn
    <2> QED BY <2>4 DEF TextInv, BubbleInv
  <1> QED BY <1>1, TextInitHolds, TextStepHolds, PTL DEF Spec

LEMMA PlacesSteps ==
    ASSUME MessageInv, NEW a \in Nat, NEW k, Places(a, k) # {}
    PROVE  \E i \in DOMAIN shown : a \in StepsIn(shown[i].content)
  <1>1. PICK s \in AllPlaces : StepAt(s) = a
    BY DEF Places
  <1>2. PICK i \in DOMAIN shown : \E p \in DOMAIN shown[i].content :
               \E j \in DOMAIN shown[i].content[p].body : s = <<i, p, j>>
    BY <1>1 DEF AllPlaces
  <1> PICK p \in DOMAIN shown[i].content : \E j \in DOMAIN shown[i].content[p].body : s = <<i, p, j>>
    BY <1>2
  <1>a. PICK j \in DOMAIN shown[i].content[p].body : s = <<i, p, j>>
    OBVIOUS
  <1>3. shown[i].content[p].body[j][1] = a
    BY <1>1, <1>a DEF StepAt, PartAt
  <1>4. a \in StepsIn(shown[i].content)
    BY <1>3 DEF StepsIn
  <1> QED BY <1>4

(* The text of a failed attempt is gone from the screen before the first   *)
(* text of a later step is on it (turn.step.retrying in                    *)
(* agentEventProjector.ts strips it, a snapshot leaves it out), unless a   *)
(* repair is pending, the stream was not taken up where it stopped or the  *)
(* merge with a snapshot kept the attempt's bubble.                        *)
THEOREM NothingAbandonedShown == Spec => []AbandonedHidden
  <1>1. TextInv => AbandonedHidden
    <2> SUFFICES ASSUME TextInv, Steady, ~required, NEW a \in DOMAIN steps, NEW b \in DOMAIN steps,
                        steps[a].fate = "retried", a \notin kept, a < b,
                        NEW k \in Kinds, Places(b, k) # {}, NEW l \in Kinds, Places(a, l) # {}
                 PROVE  FALSE
      BY DEF AbandonedHidden, Steady
    <2>0. Types /\ MessageInv /\ JournalInv /\ AbandonedInv
      BY DEF TextInv, IInv
    <2>1. a \in Nat /\ b \in Nat /\ b > 0
      BY <2>0 DEF Types, DaemonTypes
    <2>2. PICK i \in DOMAIN shown : b \in StepsIn(shown[i].content)
      BY <2>0, <2>1, PlacesSteps
    <2>3. b <= StepBy(cursor)
      BY <2>0, <2>2 DEF AbandonedInv
    <2>4. ~RetriedBy(cursor, a)
      <3>1. PICK j \in DOMAIN shown : a \in StepsIn(shown[j].content)
        BY <2>0, <2>1, PlacesSteps
      <3> QED BY <2>0, <3>1 DEF AbandonedInv
    <2>5. RetriedBy(Len(journal), a)
      BY <2>0 DEF JournalInv, DaemonNow
    <2>6. PICK p \in 1..Len(journal) : Retrying(p) /\ journal[p].step = a
      BY <2>5 DEF RetriedBy
    <2>7. cursor \in 0..Len(journal) /\ Len(journal) \in Nat /\ DOMAIN journal = 1..Len(journal)
          /\ \A s \in 1..Len(journal) : journal[s] \in Frames
      BY <2>0, WireTyped DEF Types, WireTypes
    <2>8. cursor # 0 /\ cursor < p
      <3>1. cursor # 0
        BY <2>1, <2>3 DEF StepBy
      <3>2. p \notin 1..cursor
        BY <2>4, <2>6 DEF RetriedBy
      <3> QED BY <2>7, <3>1, <3>2
    <2>9. Fits(p) /\ cursor \in 1..p /\ cursor \in 1..Len(journal)
      BY <2>0, <2>7, <2>8 DEF JournalInv
    <2>10. journal[cursor].step <= a /\ StepBy(cursor) = journal[cursor].step
      BY <2>6, <2>8, <2>9 DEF Fits, StepBy
    <2>11. journal[cursor].step \in Nat
      BY <2>7, <2>9 DEF Frames
    <2> QED BY <2>1, <2>3, <2>10, <2>11
  <1> QED BY <1>1, TextInitHolds, TextStepHolds, PTL DEF Spec

----------------------------------------------------------------------------
(* Streams whole.  Piece j of part p of a message's content, and whether   *)
(* it is of step a's stream k.                                             *)
At(content, p, j) == p \in DOMAIN content /\ j \in DOMAIN content[p].body
Offset(content, p, j) == content[p].body[j][2]
Of(content, a, k, p, j) ==
    At(content, p, j) /\ content[p].type = k /\ content[p].body[j][1] = a

Before(p, j, q, x) == p < q \/ (p = q /\ j < x)

Holds(content, a, k) == \E p, j : Of(content, a, k, p, j)

(* The content has the first n pieces of the stream, each once, in order.  *)
IsStream(content, a, k, n) ==
    /\ \A p, j : Of(content, a, k, p, j) => Offset(content, p, j) < n
    /\ \A p, j, q, x : Of(content, a, k, p, j) /\ Of(content, a, k, q, x) =>
         (Before(p, j, q, x) <=> Offset(content, p, j) < Offset(content, q, x))
    /\ \A o \in 0..(n - 1) :
         \E p, j : Of(content, a, k, p, j) /\ Offset(content, p, j) = o

(* Nothing of a stream; the same pieces of a stream as before.             *)
NoStreams(content) == \A a : \A k \in Kinds : ~Holds(content, a, k)
SameStream(old, new, a, k) ==
    \A p, j : /\ Of(new, a, k, p, j) <=> Of(old, a, k, p, j)
              /\ Of(old, a, k, p, j) => Offset(new, p, j) = Offset(old, p, j)

LEMMA SameStreamKeeps ==
    ASSUME NEW old, NEW new, NEW a, NEW k, SameStream(old, new, a, k)
    PROVE  /\ Holds(new, a, k) <=> Holds(old, a, k)
           /\ \A n : IsStream(old, a, k, n) => IsStream(new, a, k, n)
  <1> HIDE DEF Of, Offset
  <1>1. \A p, j : /\ Of(new, a, k, p, j) <=> Of(old, a, k, p, j)
                  /\ Of(old, a, k, p, j) => Offset(new, p, j) = Offset(old, p, j)
    BY DEF SameStream
  <1>2. Holds(new, a, k) <=> Holds(old, a, k)
    BY <1>1 DEF Holds
  <1>3. ASSUME NEW n, IsStream(old, a, k, n)
        PROVE  IsStream(new, a, k, n)
    BY <1>1, <1>3 DEF IsStream
  <1> QED BY <1>2, <1>3

(* Content of the right type: its pieces are numbers.                      *)
LEMMA PieceTypes ==
    ASSUME NEW content \in Seq(PartsType), NEW a, NEW k, NEW p, NEW j, Of(content, a, k, p, j)
    PROVE  /\ p \in 1..Len(content) /\ j \in 1..Len(content[p].body) /\ a \in Nat
           /\ Offset(content, p, j) \in Nat
  <1>1. p \in DOMAIN content /\ j \in DOMAIN content[p].body /\ content[p].body[j][1] = a
    BY DEF Of, At
  <1>2. p \in 1..Len(content) /\ content[p] \in PartsType
    BY <1>1
  <1> PICK body : body = content[p].body
    OBVIOUS
  <1>3. body \in Seq(Nat \X Nat)
    BY <1>2 DEF PartsType
  <1>4. j \in 1..Len(body) /\ body[j] \in Nat \X Nat
    BY <1>1, <1>3
  <1> QED BY <1>1, <1>2, <1>4 DEF Offset

(* A stream of no pieces.                                                  *)
LEMMA NoPieces ==
    ASSUME NEW content \in Seq(PartsType), NEW a, NEW k,
           \A p, j : Of(content, a, k, p, j) => Offset(content, p, j) < 0
    PROVE  ~Holds(content, a, k) /\ IsStream(content, a, k, 0)
  <1>1. \A p, j : ~Of(content, a, k, p, j)
    <2> SUFFICES ASSUME NEW p, NEW j, Of(content, a, k, p, j)
                 PROVE  FALSE
      OBVIOUS
    <2>1. Offset(content, p, j) \in Nat /\ Offset(content, p, j) < 0
      BY PieceTypes
    <2> QED BY <2>1
  <1>2. 0..(0 - 1) = {}
    OBVIOUS
  <1> QED BY <1>1, <1>2 DEF Holds, IsStream

(* appendAssistantDelta adds one piece behind all others.                  *)
LEMMA AppendedPiece ==
    ASSUME NEW content \in Seq(PartsType), NEW kind, NEW piece \in Nat \X Nat,
           NEW new, new = AppendDelta(content, kind, piece)
    PROVE  \E r, y :
             /\ r \in Nat /\ y \in Nat
             /\ At(new, r, y) /\ new[r].type = kind /\ new[r].body[y] = piece
             /\ \A p, j : At(new, p, j) => At(content, p, j) \/ (p = r /\ j = y)
             /\ \A p, j : At(content, p, j) =>
                  /\ At(new, p, j) /\ new[p].type = content[p].type
                  /\ new[p].body[j] = content[p].body[j]
                  /\ Before(p, j, r, y) /\ ~Before(r, y, p, j)
  <1> PICK n : n = Len(content)
    OBVIOUS
  <1>0. n \in Nat /\ DOMAIN content = 1..n
    OBVIOUS
  <1>1. CASE content # <<>> /\ content[Len(content)].type = kind
    <2>1. n \in 1..n /\ n \in DOMAIN content /\ content[n] \in PartsType
      <3>1. n \in DOMAIN content
        BY <1>1, EmptySeq, LenProperties
      <3> QED BY <1>0, <3>1
    <2> PICK old : old = content[n].body
      OBVIOUS
    <2> PICK body : body = Append(old, piece)
      OBVIOUS
    <2>2. old \in Seq(Nat \X Nat)
      BY <2>1 DEF PartsType
    <2> PICK y : y = Len(old) + 1
      OBVIOUS
    <2>3. /\ DOMAIN body = 1..y /\ body[y] = piece /\ DOMAIN old = 1..(y - 1) /\ y \in Nat \ {0}
          /\ \A x \in 1..(y - 1) : body[x] = old[x]
      <3>1. Len(old) \in Nat /\ DOMAIN old = 1..Len(old) /\ Len(old) = y - 1
        BY <2>2, LenProperties
      <3>2. DOMAIN body = 1..y /\ body[y] = piece /\ \A x \in 1..Len(old) : body[x] = old[x]
        BY <2>2, AppendProperties, LenProperties
      <3> QED BY <3>1, <3>2
    <2> PICK part : part = [content[n] EXCEPT !.body = body]
      OBVIOUS
    <2>4. part.body = body /\ part.type = kind
      BY <1>1, <2>1 DEF PartsType
    <2>5. new = [content EXCEPT ![n] = part]
      <3>1. new = [content EXCEPT ![n].body = Append(@, piece)]
        BY <1>1 DEF AppendDelta
      <3> QED BY <2>1, <3>1
    <2>6. /\ DOMAIN new = DOMAIN content /\ new[n] = part
          /\ \A p \in DOMAIN content : p # n => new[p] = content[p]
      BY <2>1, <2>5
    <2>a. /\ new[n].type = kind /\ new[n].body = body
          /\ \A j : At(new, n, j) <=> j \in 1..y
          /\ \A j : At(content, n, j) <=> j \in 1..(y - 1)
      <3>1. new[n].type = kind /\ new[n].body = body
        BY <2>4, <2>6
      <3>2. n \in DOMAIN new
        BY <2>1, <2>6
      <3> QED BY <2>1, <2>3, <3>1, <3>2 DEF At
    <2>7. At(new, n, y) /\ new[n].type = kind /\ new[n].body[y] = piece
      <3>1. y \in 1..y
        BY <2>3
      <3>2. new[n].body[y] = piece
        BY <2>3, <2>a
      <3> QED BY <2>a, <3>1, <3>2
    <2>8. ASSUME NEW p, NEW j, At(new, p, j)
          PROVE  At(content, p, j) \/ (p = n /\ j = y)
      <3>1. CASE p = n
        <4>1. j \in 1..y /\ (j \in 1..(y - 1) \/ j = y)
          BY <2>3, <2>8, <2>a, <3>1
        <4> QED BY <2>a, <3>1, <4>1
      <3>2. CASE p # n
        BY <2>6, <2>8, <3>2 DEF At
      <3> QED BY <3>1, <3>2
    <2>9. ASSUME NEW p, NEW j, At(content, p, j)
          PROVE  /\ At(new, p, j) /\ new[p].type = content[p].type
                 /\ new[p].body[j] = content[p].body[j]
                 /\ Before(p, j, n, y) /\ ~Before(n, y, p, j)
      <3>1. CASE p = n
        <4>1. j \in 1..(y - 1)
          BY <2>9, <2>a, <3>1
        <4>2. j \in 1..y /\ j < y /\ ~(y < j)
          BY <2>3, <4>1
        <4>3. new[p].type = content[p].type
          BY <1>1, <2>a, <3>1
        <4>4. new[p].body[j] = content[p].body[j]
          <5>1. body[j] = old[j]
            BY <2>3, <4>1
          <5> QED BY <2>a, <3>1, <5>1
        <4>5. At(new, p, j)
          BY <2>a, <3>1, <4>2
        <4>6. Before(p, j, n, y) /\ ~Before(n, y, p, j)
          BY <1>0, <3>1, <4>2 DEF Before
        <4> QED BY <4>3, <4>4, <4>5, <4>6
      <3>2. CASE p # n
        <4>1. p \in DOMAIN content /\ p \in 1..n /\ p < n /\ ~(n < p)
          BY <1>0, <2>9, <3>2 DEF At
        <4> QED BY <2>6, <2>9, <3>2, <4>1 DEF At, Before
      <3> QED BY <3>1, <3>2
    <2> QED BY <2>1, <2>3, <2>7, <2>8, <2>9
  <1>2. CASE ~(content # <<>> /\ content[Len(content)].type = kind)
    <2> PICK part : part = Part(kind, <<piece>>)
      OBVIOUS
    <2>1. part.type = kind /\ part.body = <<piece>> /\ DOMAIN part.body = {1}
      BY DEF Part
    <2>2. new = Append(content, part)
      BY <1>2 DEF AppendDelta
    <2>3. /\ DOMAIN new = 1..(n + 1) /\ new[n + 1] = part
          /\ \A p \in 1..n : new[p] = content[p]
      BY <1>0, <2>2
    <2>4. At(new, n + 1, 1) /\ new[n + 1].type = kind /\ new[n + 1].body[1] = piece
      BY <1>0, <2>1, <2>3 DEF At
    <2>5. ASSUME NEW p, NEW j, At(new, p, j)
          PROVE  At(content, p, j) \/ (p = n + 1 /\ j = 1)
      <3>1. p \in 1..n \/ p = n + 1
        BY <1>0, <2>3, <2>5 DEF At
      <3> QED BY <1>0, <2>1, <2>3, <2>5, <3>1 DEF At
    <2>6. ASSUME NEW p, NEW j, At(content, p, j)
          PROVE  /\ At(new, p, j) /\ new[p].type = content[p].type
                 /\ new[p].body[j] = content[p].body[j]
                 /\ Before(p, j, n + 1, 1) /\ ~Before(n + 1, 1, p, j)
      <3>1. p \in 1..n /\ p \in 1..(n + 1) /\ p < n + 1 /\ ~(n + 1 < p) /\ p # n + 1
        BY <1>0, <2>6 DEF At
      <3> QED BY <2>3, <2>6, <3>1 DEF At, Before
    <2> QED BY <1>0, <2>4, <2>5, <2>6
  <1> QED BY <1>1, <1>2

(* The next piece of a stream makes it longer by one.                      *)
LEMMA AppendedStream ==
    ASSUME NEW content \in Seq(PartsType), NEW k, NEW a \in Nat, NEW o \in Nat,
           NEW new, new = AppendDelta(content, k, <<a, o>>), IsStream(content, a, k, o)
    PROVE  IsStream(new, a, k, o + 1) /\ Holds(new, a, k)
  <1> PICK piece : piece = <<a, o>>
    OBVIOUS
  <1>0. piece \in Nat \X Nat /\ piece[1] = a /\ piece[2] = o
    OBVIOUS
  <1>1. PICK r, y :
             /\ r \in Nat /\ y \in Nat
             /\ At(new, r, y) /\ new[r].type = k /\ new[r].body[y] = piece
             /\ \A p, j : At(new, p, j) => At(content, p, j) \/ (p = r /\ j = y)
             /\ \A p, j : At(content, p, j) =>
                  /\ At(new, p, j) /\ new[p].type = content[p].type
                  /\ new[p].body[j] = content[p].body[j]
                  /\ Before(p, j, r, y) /\ ~Before(r, y, p, j)
    BY <1>0, AppendedPiece
  <1>2. Of(new, a, k, r, y) /\ Offset(new, r, y) = o
    BY <1>0, <1>1 DEF Of, Offset
  <1>3. \A p, j : Of(new, a, k, p, j) => Of(content, a, k, p, j) \/ (p = r /\ j = y)
    <2> SUFFICES ASSUME NEW p, NEW j, Of(new, a, k, p, j), ~(p = r /\ j = y)
                 PROVE  Of(content, a, k, p, j)
      OBVIOUS
    <2>1. At(new, p, j) /\ new[p].type = k /\ new[p].body[j][1] = a
      BY DEF Of
    <2> HIDE DEF At
    <2>2. /\ At(content, p, j) /\ new[p].type = content[p].type
          /\ new[p].body[j] = content[p].body[j]
      BY <1>1, <2>1
    <2> QED BY <2>1, <2>2 DEF Of
  <1>4. \A p, j : Of(content, a, k, p, j) =>
          /\ Of(new, a, k, p, j) /\ Offset(new, p, j) = Offset(content, p, j)
          /\ Before(p, j, r, y) /\ ~Before(r, y, p, j)
    <2> SUFFICES ASSUME NEW p, NEW j, Of(content, a, k, p, j)
                 PROVE  /\ Of(new, a, k, p, j) /\ Offset(new, p, j) = Offset(content, p, j)
                        /\ Before(p, j, r, y) /\ ~Before(r, y, p, j)
      OBVIOUS
    <2>1. At(content, p, j) /\ content[p].type = k /\ content[p].body[j][1] = a
      BY DEF Of
    <2> HIDE DEF At
    <2>2. /\ At(new, p, j) /\ new[p].type = content[p].type
          /\ new[p].body[j] = content[p].body[j]
          /\ Before(p, j, r, y) /\ ~Before(r, y, p, j)
      BY <1>1, <2>1
    <2> QED BY <2>1, <2>2 DEF Of, Offset
  <1>5. /\ \A p, j : Of(content, a, k, p, j) => Offset(content, p, j) < o
        /\ \A p, j, q, x : Of(content, a, k, p, j) /\ Of(content, a, k, q, x) =>
             (Before(p, j, q, x) <=> Offset(content, p, j) < Offset(content, q, x))
        /\ \A s \in 0..(o - 1) :
             \E p, j : Of(content, a, k, p, j) /\ Offset(content, p, j) = s
    BY DEF IsStream
  <1>6. \A p, j : Of(content, a, k, p, j) => Offset(content, p, j) \in Nat
    BY PieceTypes
  <1>7. ~Before(r, y, r, y)
    BY <1>1 DEF Before
  <1> QED BY <1>2, <1>3, <1>4, <1>5, <1>6, <1>7 DEF IsStream, Holds

(* Another stream keeps its pieces.                                        *)
LEMMA AppendedOther ==
    ASSUME NEW content \in Seq(PartsType), NEW kind, NEW piece \in Nat \X Nat,
           NEW new, new = AppendDelta(content, kind, piece),
           NEW a, NEW k, ~(a = piece[1] /\ k = kind)
    PROVE  SameStream(content, new, a, k)
  <1>1. PICK r, y :
             /\ r \in Nat /\ y \in Nat
             /\ At(new, r, y) /\ new[r].type = kind /\ new[r].body[y] = piece
             /\ \A p, j : At(new, p, j) => At(content, p, j) \/ (p = r /\ j = y)
             /\ \A p, j : At(content, p, j) =>
                  /\ At(new, p, j) /\ new[p].type = content[p].type
                  /\ new[p].body[j] = content[p].body[j]
                  /\ Before(p, j, r, y) /\ ~Before(r, y, p, j)
    BY AppendedPiece
  <1>2. ASSUME NEW p, NEW j
        PROVE  /\ Of(new, a, k, p, j) <=> Of(content, a, k, p, j)
               /\ Of(content, a, k, p, j) => Offset(new, p, j) = Offset(content, p, j)
    <2> HIDE DEF At
    <2>1. CASE At(content, p, j)
      <3>1. /\ At(new, p, j) /\ new[p].type = content[p].type
            /\ new[p].body[j] = content[p].body[j]
        BY <1>1, <2>1
      <3> QED BY <2>1, <3>1 DEF Of, Offset
    <2>2. CASE ~At(content, p, j)
      <3>1. ASSUME At(new, p, j), new[p].type = k, new[p].body[j][1] = a
            PROVE  FALSE
        <4>1. p = r /\ j = y
          BY <1>1, <2>2, <3>1
        <4>2. k = kind /\ a = piece[1]
          BY <1>1, <3>1, <4>1
        <4> QED BY <4>2
      <3> QED BY <2>2, <3>1 DEF Of
    <2> QED BY <2>1, <2>2
  <1> QED BY <1>2 DEF SameStream

(* A tool card, and content without text.                                  *)
LEMMA CardKeepsStreams ==
    ASSUME NEW content \in Seq(PartsType), NEW a, NEW k \in Kinds
    PROVE  SameStream(content, Append(content, Part("toolUse", <<>>)), a, k)
  <1> PICK part : part = Part("toolUse", <<>>)
    OBVIOUS
  <1> PICK new : new = Append(content, part)
    OBVIOUS
  <1> PICK n : n = Len(content)
    OBVIOUS
  <1>1. part.type = "toolUse"
    BY DEF Part
  <1>2. /\ n \in Nat /\ DOMAIN content = 1..n /\ DOMAIN new = 1..(n + 1) /\ new[n + 1] = part
        /\ \A p \in 1..n : new[p] = content[p]
    OBVIOUS
  <1>3. ASSUME NEW p, NEW j
        PROVE  /\ Of(new, a, k, p, j) <=> Of(content, a, k, p, j)
               /\ Of(content, a, k, p, j) => Offset(new, p, j) = Offset(content, p, j)
    <2>1. CASE p \in 1..n
      <3>1. new[p] = content[p] /\ p \in DOMAIN new /\ p \in DOMAIN content
        BY <1>2, <2>1
      <3> QED BY <3>1 DEF Of, At, Offset
    <2>2. CASE p = n + 1
      <3>1. p \notin DOMAIN content /\ new[p].type # k
        BY <1>1, <1>2, <2>2 DEF Kinds
      <3> QED BY <3>1 DEF Of, At
    <2>3. CASE p \notin 1..n /\ p # n + 1
      <3>1. p \notin DOMAIN content /\ p \notin DOMAIN new
        BY <1>2, <2>3
      <3> QED BY <3>1 DEF Of, At
    <2> QED BY <2>1, <2>2, <2>3
  <1> QED BY <1>3 DEF SameStream

LEMMA NoStreamsEmpty == NoStreams(<<>>) /\ NoStreams(<<Part("toolResult", <<>>)>>)
  <1>1. DOMAIN <<>> = {}
    OBVIOUS
  <1>2. NoStreams(<<>>)
    BY <1>1 DEF NoStreams, Holds, Of, At
  <1> PICK part : part = Part("toolResult", <<>>)
    OBVIOUS
  <1>3. part.type \notin Kinds
    BY DEF Part, Kinds
  <1>4. DOMAIN <<part>> = {1} /\ <<part>>[1] = part
    OBVIOUS
  <1>5. NoStreams(<<part>>)
    BY <1>3, <1>4 DEF NoStreams, Holds, Of, At
  <1> QED BY <1>2, <1>5

(* A seeded message has the snapshot's streams as far as it tells them.    *)
LEMMA SeededParts ==
    ASSUME NEW snap \in Snapshots, NEW k \in Kinds
    PROVE  \E r \in Nat :
             /\ \A p \in DOMAIN SeedContent(snap) : SeedContent(snap)[p].type = k =>
                  p = r /\ SeedContent(snap)[p].body = SeedText(snap, k) /\ snap.sent[k] > 0
             /\ snap.sent[k] > 0 =>
                  /\ r \in DOMAIN SeedContent(snap) /\ SeedContent(snap)[r].type = k
                  /\ SeedContent(snap)[r].body = SeedText(snap, k)
  <1>0. snap.steps \in Nat /\ snap.sent \in [Kinds -> Nat]
    BY DEF Snapshots
  <1> PICK s : s = SeedPart(snap, "thinking")
    OBVIOUS
  <1> PICK t : t = SeedPart(snap, "text")
    OBVIOUS
  <1> PICK c : c = IF snap.toolOpen THEN <<Part("toolUse", <<>>)>> ELSE <<>>
    OBVIOUS
  <1> PICK all : all = SeedContent(snap)
    OBVIOUS
  <1>1. ASSUME NEW l \in Kinds
        PROVE  /\ SeedPart(snap, l) \in Seq(PartsType)
               /\ Len(SeedPart(snap, l)) = IF snap.sent[l] > 0 THEN 1 ELSE 0
               /\ snap.sent[l] > 0 =>
                    /\ SeedPart(snap, l)[1].type = l
                    /\ SeedPart(snap, l)[1].body = SeedText(snap, l)
    <2>1. SeedText(snap, l) \in Seq(Nat \X Nat)
      <3>1. snap.sent[l] \in Nat
        BY <1>0
      <3>2. \A n \in 1..snap.sent[l] : <<snap.steps, n - 1>> \in Nat \X Nat
        BY <1>0, <3>1
      <3> QED BY <3>1, <3>2 DEF SeedText
    <2> PICK text : text = SeedText(snap, l)
      OBVIOUS
    <2> PICK part : part = Part(l, text)
      OBVIOUS
    <2>2. part \in PartsType /\ part.type = l /\ part.body = text
      BY <2>1 DEF Part, PartsType, PartTypes
    <2>3. SeedPart(snap, l) = IF snap.sent[l] = 0 THEN <<>> ELSE <<part>>
      BY DEF SeedPart
    <2>4. snap.sent[l] \in Nat
      BY <1>0
    <2> QED BY <2>2, <2>3, <2>4
  <1>2. /\ c \in Seq(PartsType) /\ Len(c) \in {0, 1}
        /\ Len(c) = 1 => c[1].type = "toolUse"
    <2> PICK part : part = Part("toolUse", <<>>)
      OBVIOUS
    <2>1. part \in PartsType /\ part.type = "toolUse"
      BY DEF Part, PartsType, PartTypes
    <2>2. c = <<part>> \/ c = <<>>
      OBVIOUS
    <2> QED BY <2>1, <2>2
  <1>3. /\ s \in Seq(PartsType) /\ t \in Seq(PartsType)
        /\ Len(s) = IF snap.sent["thinking"] > 0 THEN 1 ELSE 0
        /\ Len(t) = IF snap.sent["text"] > 0 THEN 1 ELSE 0
        /\ snap.sent["thinking"] > 0 =>
             s[1].type = "thinking" /\ s[1].body = SeedText(snap, "thinking")
        /\ snap.sent["text"] > 0 => t[1].type = "text" /\ t[1].body = SeedText(snap, "text")
    BY <1>1 DEF Kinds
  <1>4. all = (s \o t) \o c
    BY DEF SeedContent
  <1>5. /\ Len(s) \in {0, 1} /\ Len(t) \in {0, 1}
        /\ DOMAIN all = 1..(Len(s) + Len(t) + Len(c))
        /\ Len(s) = 1 => all[1] = s[1]
        /\ Len(t) = 1 => all[Len(s) + 1] = t[1]
        /\ Len(c) = 1 => all[Len(s) + Len(t) + 1] = c[1]
    <2>1. /\ s \o t \in Seq(PartsType) /\ Len(s \o t) = Len(s) + Len(t)
          /\ \A i \in 1..(Len(s) + Len(t)) : (s \o t)[i] = IF i <= Len(s) THEN s[i] ELSE t[i - Len(s)]
      BY <1>3, ConcatProperties
    <2> PICK u : u = s \o t
      OBVIOUS
    <2>2. /\ all \in Seq(PartsType) /\ Len(all) = Len(u) + Len(c)
          /\ \A i \in 1..(Len(u) + Len(c)) : all[i] = IF i <= Len(u) THEN u[i] ELSE c[i - Len(u)]
      BY <1>2, <1>4, <2>1, ConcatProperties
    <2>3. Len(s) \in {0, 1} /\ Len(t) \in {0, 1} /\ Len(c) \in {0, 1}
          /\ Len(u) = Len(s) + Len(t)
      BY <1>2, <1>3, <2>1
    <2>4. Len(s) = 1 => u[1] = s[1] /\ all[1] = u[1]
      <3> SUFFICES ASSUME Len(s) = 1
                   PROVE  u[1] = s[1] /\ all[1] = u[1]
        OBVIOUS
      <3>1. 1 \in 1..(Len(s) + Len(t)) /\ 1 <= Len(s)
        BY <2>3
      <3>2. 1 \in 1..(Len(u) + Len(c)) /\ 1 <= Len(u)
        BY <2>3
      <3> QED BY <2>1, <2>2, <3>1, <3>2
    <2>5. Len(t) = 1 => u[Len(s) + 1] = t[1] /\ all[Len(s) + 1] = u[Len(s) + 1]
      <3> PICK r : r = Len(s) + 1
        OBVIOUS
      <3> SUFFICES ASSUME Len(t) = 1
                   PROVE  u[r] = t[1] /\ all[r] = u[r]
        OBVIOUS
      <3>1. r \in 1..(Len(s) + Len(t)) /\ ~(r <= Len(s)) /\ r - Len(s) = 1
        BY <2>3
      <3>2. r \in 1..(Len(u) + Len(c)) /\ r <= Len(u)
        BY <2>3
      <3> QED BY <2>1, <2>2, <3>1, <3>2
    <2>6. Len(c) = 1 => all[Len(s) + Len(t) + 1] = c[1]
      BY <1>2, <2>2, <2>3
    <2>7. DOMAIN all = 1..Len(all)
      BY <2>2, LenProperties
    <2> QED BY <2>2, <2>3, <2>4, <2>5, <2>6, <2>7
  <1>6. ASSUME NEW p \in DOMAIN all
        PROVE  \/ p = 1 /\ Len(s) = 1 /\ all[p] = s[1]
               \/ p = Len(s) + 1 /\ Len(t) = 1 /\ all[p] = t[1]
               \/ Len(c) = 1 /\ all[p] = c[1]
    <2>1. Len(s) \in {0, 1} /\ Len(t) \in {0, 1} /\ Len(c) \in {0, 1}
          /\ p \in 1..(Len(s) + Len(t) + Len(c))
      BY <1>2, <1>5, <1>6
    <2>2. \/ p = 1 /\ Len(s) = 1
          \/ p = Len(s) + 1 /\ Len(t) = 1
          \/ p = Len(s) + Len(t) + 1 /\ Len(c) = 1
      <3>1. ASSUME NEW x \in {0, 1}, NEW y \in {0, 1}, NEW z \in {0, 1}, p \in 1..(x + y + z)
            PROVE  (p = 1 /\ x = 1) \/ (p = x + 1 /\ y = 1) \/ (p = x + y + 1 /\ z = 1)
        BY <3>1
      <3> QED BY <2>1, <3>1
    <2> QED BY <1>5, <2>2
  <1>7. snap.sent["thinking"] \in Nat /\ snap.sent["text"] \in Nat
    BY <1>0 DEF Kinds
  <1>8. CASE k = "thinking"
    <2>1. ASSUME NEW p \in DOMAIN all, all[p].type = k
          PROVE  p = 1 /\ all[p].body = SeedText(snap, k) /\ snap.sent[k] > 0
      <3>1. p = 1 /\ Len(s) = 1 /\ all[p] = s[1]
        <4>1. Len(t) = 1 => t[1].type = "text"
          BY <1>3
        <4> QED BY <1>2, <1>6, <1>8, <2>1, <4>1
      <3> QED BY <1>3, <1>8, <3>1
    <2>2. ASSUME snap.sent[k] > 0
          PROVE  1 \in DOMAIN all /\ all[1].type = k /\ all[1].body = SeedText(snap, k)
      <3>1. Len(s) = 1
        BY <1>3, <1>8, <2>2
      <3>2. 1 \in DOMAIN all
        BY <1>2, <1>5, <3>1
      <3> QED BY <1>3, <1>5, <1>8, <2>2, <3>1, <3>2
    <2> QED BY <2>1, <2>2
  <1>9. CASE k = "text"
    <2> PICK r : r = Len(s) + 1
      OBVIOUS
    <2>1. ASSUME NEW p \in DOMAIN all, all[p].type = k
          PROVE  p = r /\ all[p].body = SeedText(snap, k) /\ snap.sent[k] > 0
      <3>1. p = r /\ Len(t) = 1 /\ all[p] = t[1]
        <4>1. Len(s) = 1 => s[1].type = "thinking"
          BY <1>3
        <4> QED BY <1>2, <1>6, <1>9, <2>1, <4>1
      <3> QED BY <1>3, <1>9, <3>1
    <2>2. ASSUME snap.sent[k] > 0
          PROVE  r \in DOMAIN all /\ all[r].type = k /\ all[r].body = SeedText(snap, k)
      <3>1. Len(t) = 1
        BY <1>3, <1>9, <2>2
      <3>2. r \in DOMAIN all
        BY <1>2, <1>5, <3>1
      <3> QED BY <1>3, <1>5, <1>9, <2>2, <3>1, <3>2
    <2>3. r \in Nat
      BY <1>5
    <2> QED BY <2>1, <2>2, <2>3
  <1> QED BY <1>8, <1>9 DEF Kinds

LEMMA SeededStreams ==
    ASSUME NEW snap \in Snapshots, NEW k \in Kinds
    PROVE  /\ IsStream(SeedContent(snap), snap.steps, k, snap.sent[k])
           /\ \A a : Holds(SeedContent(snap), a, k) => a = snap.steps /\ snap.sent[k] > 0
  <1> PICK content : content = SeedContent(snap)
    OBVIOUS
  <1> PICK text : text = SeedText(snap, k)
    OBVIOUS
  <1> PICK n : n = snap.sent[k]
    OBVIOUS
  <1>0. snap.steps \in Nat /\ n \in Nat
    BY DEF Snapshots
  <1>1. PICK r \in Nat :
          /\ \A p \in DOMAIN content : content[p].type = k =>
               p = r /\ content[p].body = text /\ n > 0
          /\ n > 0 => r \in DOMAIN content /\ content[r].type = k /\ content[r].body = text
    BY SeededParts
  <1>2. DOMAIN text = 1..n /\ \A x \in 1..n : text[x][1] = snap.steps /\ text[x][2] = x - 1
    BY DEF SeedText
  <1>3. ASSUME NEW a, NEW p, NEW j, Of(content, a, k, p, j)
        PROVE  /\ p = r /\ j \in 1..n /\ a = snap.steps /\ n > 0
               /\ Offset(content, p, j) = j - 1
    <2>1. /\ p \in DOMAIN content /\ content[p].type = k /\ j \in DOMAIN content[p].body
          /\ content[p].body[j][1] = a
      BY <1>3 DEF Of, At
    <2>2. p = r /\ content[p].body = text /\ n > 0
      BY <1>1, <2>1
    <2> QED BY <1>2, <2>1, <2>2 DEF Offset
  <1>4. ASSUME NEW o \in 0..(n - 1)
        PROVE  \E p, j : Of(content, snap.steps, k, p, j) /\ Offset(content, p, j) = o
    <2>1. n > 0 /\ o + 1 \in 1..n /\ (o + 1) - 1 = o
      BY <1>0
    <2>2. r \in DOMAIN content /\ content[r].type = k /\ content[r].body = text
      BY <1>1, <2>1
    <2>3. Of(content, snap.steps, k, r, o + 1) /\ Offset(content, r, o + 1) = o
      BY <1>2, <2>1, <2>2 DEF Of, At, Offset
    <2> QED BY <2>3
  <1>5. IsStream(content, snap.steps, k, n)
    <2>1. ASSUME NEW p, NEW j, Of(content, snap.steps, k, p, j)
          PROVE  Offset(content, p, j) < n
      BY <1>0, <1>3, <2>1
    <2>2. ASSUME NEW p, NEW j, NEW q, NEW x,
                 Of(content, snap.steps, k, p, j), Of(content, snap.steps, k, q, x)
          PROVE  Before(p, j, q, x) <=> Offset(content, p, j) < Offset(content, q, x)
      <3>1. /\ p = r /\ q = r /\ j \in 1..n /\ x \in 1..n
            /\ Offset(content, p, j) = j - 1 /\ Offset(content, q, x) = x - 1
        BY <1>3, <2>2
      <3> QED BY <1>0, <3>1 DEF Before
    <2> QED BY <1>4, <2>1, <2>2 DEF IsStream
  <1>6. \A a : Holds(content, a, k) => a = snap.steps /\ n > 0
    BY <1>3 DEF Holds
  <1> QED BY <1>5, <1>6

----------------------------------------------------------------------------
(* The daemon's steps.  One is live while the daemon is in it; how it      *)
(* ended is told by the journal, after whose frame none is in the step.    *)
FateInv ==
    /\ \A a \in DOMAIN steps : steps[a].fate = "live" <=> a = Step /\ phase \in {"step", "results"}
    /\ \A q \in DOMAIN journal :
         /\ journal[q].type = "turn.step.completed" =>
              journal[q].step \in DOMAIN steps /\ steps[journal[q].step].fate = "done"
         /\ Retrying(q) =>
              journal[q].step \in DOMAIN steps /\ steps[journal[q].step].fate = "retried"
         /\ InStep(q) => \A p \in 1..q :
              journal[p].type = "turn.step.completed" => journal[p].step # journal[q].step

(* Fates are final, and of no step less has been sent.                     *)
FatesStay ==
    \A a \in DOMAIN steps : a \in DOMAIN steps'
                              /\ (steps[a].fate # "live" => steps'[a].fate = steps[a].fate)
SentStays ==
    \A a \in DOMAIN steps : a \in DOMAIN steps'
                              /\ \A k \in Kinds : steps[a].sent[k] <= steps'[a].sent[k]

LEMMA StepsTyped ==
    ASSUME Types
    PROVE  /\ steps \in Seq(StepRecords) /\ Len(steps) \in Nat /\ DOMAIN steps = 1..Len(steps)
           /\ phase \in {"step", "results"} => Len(steps) \in DOMAIN steps
           /\ \A a \in DOMAIN steps : /\ a \in Nat /\ steps[a] \in StepRecords
                                      /\ steps[a].sent \in [Kinds -> Nat]
                                      /\ \A k \in Kinds : steps[a].sent[k] \in Nat
  <1>1. steps \in Seq(StepRecords) /\ (phase \in {"step", "results"} => steps # <<>>)
    BY DEF Types, DaemonTypes
  <1>2. Len(steps) \in Nat /\ DOMAIN steps = 1..Len(steps)
    BY <1>1
  <1>3. \A a \in DOMAIN steps : steps[a] \in StepRecords
    BY <1>1
  <1>4. \A a \in DOMAIN steps : steps[a].sent \in [Kinds -> Nat]
    BY <1>3 DEF StepRecords
  <1>5. phase \in {"step", "results"} => Len(steps) \in DOMAIN steps
    BY <1>1, <1>2, EmptySeq
  <1> QED BY <1>1, <1>2, <1>3, <1>4, <1>5

(* What leaving a step does to the records of steps.                       *)
LEMMA LeftFates ==
    ASSUME Types, NEW fate, Leave(fate)
    PROVE  /\ Len(steps') = Len(steps) /\ DOMAIN steps' = DOMAIN steps
           /\ \A a \in DOMAIN steps :
                /\ steps'[a].sent = steps[a].sent
                /\ steps'[a].fate = IF phase \in {"step", "results"} /\ a = Len(steps)
                                    THEN fate ELSE steps[a].fate
  <1>1. /\ steps \in Seq(StepRecords) /\ \A a \in DOMAIN steps : steps[a] \in StepRecords
        /\ phase \in {"step", "results"} => Len(steps) \in DOMAIN steps
    BY StepsTyped
  <1>2. CASE phase \in {"step", "results"}
    <2> PICK n : n = Len(steps)
      OBVIOUS
    <2> PICK left : left = [steps[n] EXCEPT !.fate = fate]
      OBVIOUS
    <2>1. left.sent = steps[n].sent /\ left.fate = fate
      BY <1>1, <1>2 DEF StepRecords
    <2>2. steps' = [steps EXCEPT ![n] = left] /\ n \in DOMAIN steps
      BY <1>1, <1>2 DEF Leave, Step
    <2>3. /\ DOMAIN steps' = DOMAIN steps
          /\ \A a \in DOMAIN steps : steps'[a] = IF a = n THEN left ELSE steps[a]
      BY <2>2
    <2>4. Len(steps') = Len(steps)
      BY LeaveStays
    <2> QED BY <1>2, <2>1, <2>3, <2>4
  <1>3. CASE ~(phase \in {"step", "results"})
    BY <1>3 DEF Leave
  <1> QED BY <1>2, <1>3

(* A durable frame told of the step it ended or began.                     *)
LEMMA FateGrows ==
    ASSUME Types, FateInv, NEW type \in Durables, Journal(type), FatesStay,
           NEW n, n = Len(steps'),
           \A a \in DOMAIN steps' :
             steps'[a].fate = "live" <=> a = n /\ phase' \in {"step", "results"},
           type = "turn.step.completed" => n \in DOMAIN steps' /\ steps'[n].fate = "done",
           type = "turn.step.retrying" => n \in DOMAIN steps' /\ steps'[n].fate = "retried",
           type \in {"turn.step.started", "tool.call.started"} => steps'[n].fate = "live"
    PROVE  FateInv'
  <1> PICK last : last = Len(journal) + 1
    OBVIOUS
  <1> PICK frame : frame = [type |-> type, seq |-> last, turn |-> turn', step |-> n]
    OBVIOUS
  <1>1. journal' = Append(journal, frame) /\ frame.type = type /\ frame.step = n
    BY DEF Journal
  <1>2. /\ journal \in Seq(Frames) /\ last \in Nat /\ DOMAIN journal = 1..(last - 1)
        /\ DOMAIN journal' = 1..last /\ journal'[last] = frame
        /\ \A q \in 1..(last - 1) : journal'[q] = journal[q]
    <2>1. journal \in Seq(Frames) /\ Len(journal) \in Nat /\ DOMAIN journal = 1..Len(journal)
      BY WireTyped
    <2> QED BY <1>1, <2>1
  <1>3. \A q \in 1..(last - 1) : InStep(q)' = InStep(q) /\ Retrying(q)' = Retrying(q)
    BY <1>2 DEF InStep, Retrying
  <1>4. ASSUME NEW p \in 1..(last - 1), journal[p].type = "turn.step.completed"
        PROVE  journal[p].step \in DOMAIN steps' /\ steps'[journal[p].step].fate = "done"
    BY <1>2, <1>4 DEF FateInv, FatesStay
  <1>5. ASSUME NEW q \in 1..(last - 1)
        PROVE  /\ journal'[q].type = "turn.step.completed" =>
                    journal'[q].step \in DOMAIN steps' /\ steps'[journal'[q].step].fate = "done"
               /\ Retrying(q)' =>
                    journal'[q].step \in DOMAIN steps' /\ steps'[journal'[q].step].fate = "retried"
               /\ InStep(q)' => \A p \in 1..q :
                    journal'[p].type = "turn.step.completed" => journal'[p].step # journal'[q].step
    <2>1. /\ Retrying(q) =>
               journal[q].step \in DOMAIN steps /\ steps[journal[q].step].fate = "retried"
          /\ InStep(q) => \A p \in 1..q :
               journal[p].type = "turn.step.completed" => journal[p].step # journal[q].step
      BY <1>2 DEF FateInv
    <2>2. Retrying(q) => journal[q].step \in DOMAIN steps' /\ steps'[journal[q].step].fate = "retried"
      BY <2>1 DEF FatesStay
    <2>3. \A p \in 1..q : p \in 1..(last - 1)
      BY <1>2
    <2> QED BY <1>2, <1>3, <1>4, <2>1, <2>2, <2>3
  <1>6. /\ journal'[last].type = "turn.step.completed" =>
             journal'[last].step \in DOMAIN steps' /\ steps'[journal'[last].step].fate = "done"
        /\ Retrying(last)' =>
             journal'[last].step \in DOMAIN steps' /\ steps'[journal'[last].step].fate = "retried"
    BY <1>1, <1>2 DEF Retrying
  <1>7. ASSUME InStep(last)', NEW p \in 1..last, journal'[p].type = "turn.step.completed"
        PROVE  journal'[p].step # journal'[last].step
    <2>1. type \in {"turn.step.started", "tool.call.started"}
      BY <1>1, <1>2, <1>7 DEF InStep
    <2>2. p \in 1..(last - 1)
      BY <1>1, <1>2, <1>7, <2>1
    <2>3. steps'[journal[p].step].fate = "done" /\ steps'[n].fate = "live"
      BY <1>2, <1>4, <1>7, <2>1, <2>2
    <2> QED BY <1>1, <1>2, <2>2, <2>3
  <1>8. \A q \in DOMAIN journal' : q \in 1..(last - 1) \/ q = last
    BY <1>2
  <1> QED BY <1>5, <1>6, <1>7, <1>8 DEF FateInv, Step

(* The daemon's durable frames, and what they do to the steps.             *)
DurableStep ==
    \/ StartTurn \/ StartStep \/ CallTool \/ ToolResult
    \/ CompleteStep \/ RetryStep \/ InterruptStep \/ EndTurn

LEMMA DurableSteps ==
    ASSUME Types, FateInv, DurableStep
    PROVE  /\ \E type \in Durables : Journal(type)
           /\ FatesStay /\ FateInv'
           /\ \A a \in DOMAIN steps : steps'[a].sent = steps[a].sent
           /\ \A a \in DOMAIN steps' : a \in DOMAIN steps \/ steps'[a].sent = NoText
  <1>0. /\ steps \in Seq(StepRecords) /\ Len(steps) \in Nat /\ DOMAIN steps = 1..Len(steps)
        /\ phase \in {"step", "results"} => Len(steps) \in DOMAIN steps
        /\ \A a \in DOMAIN steps :
             steps[a].fate = "live" <=> a = Len(steps) /\ phase \in {"step", "results"}
    BY StepsTyped DEF FateInv, Step
  <1> DEFINE Goal == /\ \E type \in Durables : Journal(type)
                     /\ FatesStay /\ FateInv'
                     /\ \A a \in DOMAIN steps : steps'[a].sent = steps[a].sent
                     /\ \A a \in DOMAIN steps' : a \in DOMAIN steps \/ steps'[a].sent = NoText
  <1>1. ASSUME steps' = steps, NEW type \in Durables \ {"turn.step.completed", "turn.step.retrying"},
               Journal(type), phase' \in {"step", "results"} <=> phase \in {"step", "results"},
               type = "tool.call.started" => phase = "step", type # "turn.step.started"
        PROVE  Goal
    <2>1. FatesStay
      BY <1>1 DEF FatesStay
    <2>2. FateInv'
      BY <1>0, <1>1, <2>1, FateGrows
    <2> QED BY <1>1, <2>1, <2>2
  <1>2. ASSUME NEW fate \in {"done", "retried", "cut"}, Leave(fate), NEW type \in Durables,
               Journal(type), ~(phase' \in {"step", "results"}),
               type = "turn.step.completed" => fate = "done" /\ phase \in {"step", "results"},
               type = "turn.step.retrying" => fate = "retried" /\ phase \in {"step", "results"},
               type \notin {"turn.step.started", "tool.call.started"}
        PROVE  Goal
    <2>1. /\ Len(steps') = Len(steps) /\ DOMAIN steps' = DOMAIN steps
          /\ \A a \in DOMAIN steps :
               /\ steps'[a].sent = steps[a].sent
               /\ steps'[a].fate = IF phase \in {"step", "results"} /\ a = Len(steps)
                                   THEN fate ELSE steps[a].fate
      BY <1>2, LeftFates
    <2>2. FatesStay
      BY <1>0, <2>1 DEF FatesStay
    <2>3. \A a \in DOMAIN steps' : steps'[a].fate # "live"
      BY <1>0, <1>2, <2>1
    <2>4. FateInv'
      BY <1>0, <1>2, <2>1, <2>2, <2>3, FateGrows
    <2> QED BY <1>2, <2>1, <2>2, <2>4
  <1>3. CASE StartTurn
    BY <1>1, <1>3 DEF StartTurn, Durables
  <1>4. CASE StartStep
    <2> PICK n : n = Len(steps) + 1
      OBVIOUS
    <2> PICK step : step = [turn |-> turn, sent |-> NoText, fate |-> "live"]
      OBVIOUS
    <2>1. /\ steps' = Append(steps, step) /\ Journal("turn.step.started") /\ phase' = "step"
          /\ ~(phase \in {"step", "results"})
      BY <1>4 DEF StartStep
    <2>2. /\ Len(steps') = n /\ DOMAIN steps' = 1..n /\ steps'[n] = step /\ n \in DOMAIN steps'
          /\ \A a \in DOMAIN steps : steps'[a] = steps[a] /\ a # n
          /\ \A a \in DOMAIN steps' : a \in DOMAIN steps \/ a = n
      BY <1>0, <2>1
    <2>3. step.sent = NoText /\ step.fate = "live"
      OBVIOUS
    <2>4. FatesStay
      BY <1>0, <2>2 DEF FatesStay
    <2>5. \A a \in DOMAIN steps' : steps'[a].fate = "live" <=> a = n
      BY <1>0, <2>1, <2>2, <2>3
    <2>6. FateInv'
      BY <2>1, <2>2, <2>3, <2>4, <2>5, FateGrows DEF Durables
    <2> QED BY <2>1, <2>2, <2>3, <2>4, <2>6 DEF Durables
  <1>5. CASE CallTool
    BY <1>1, <1>5 DEF CallTool, Durables
  <1>6. CASE ToolResult
    BY <1>1, <1>6 DEF ToolResult, Durables
  <1>7. CASE CompleteStep
    BY <1>2, <1>7 DEF CompleteStep, Durables
  <1>8. CASE RetryStep
    BY <1>2, <1>8 DEF RetryStep, Durables
  <1>9. CASE InterruptStep
    BY <1>2, <1>9 DEF InterruptStep, Durables
  <1>10. CASE EndTurn
    BY <1>2, <1>10 DEF EndTurn, Durables
  <1> QED BY <1>3, <1>4, <1>5, <1>6, <1>7, <1>8, <1>9, <1>10 DEF DurableStep

(* A piece streamed: the step at work has sent one more.                   *)
LEMMA StreamedSteps ==
    ASSUME Types, FateInv, NEW k \in Kinds, StreamDelta(k)
    PROVE  /\ Step \in DOMAIN steps /\ DOMAIN steps' = DOMAIN steps /\ Len(steps') = Len(steps)
           /\ phase = "step" /\ steps[Step].fate = "live"
           /\ \A a \in DOMAIN steps : steps'[a].fate = steps[a].fate
           /\ \A a \in DOMAIN steps : \A l \in Kinds :
                steps'[a].sent[l] = IF a = Step /\ l = k THEN steps[a].sent[l] + 1
                                    ELSE steps[a].sent[l]
           /\ FateInv'
  <1> PICK n : n = Step
    OBVIOUS
  <1>0. /\ steps \in Seq(StepRecords) /\ n = Len(steps) /\ DOMAIN steps = 1..n /\ n \in DOMAIN steps
        /\ steps[n] \in StepRecords /\ steps[n].sent \in [Kinds -> Nat] /\ phase = "step"
    BY StepsTyped DEF StreamDelta, Step
  <1> PICK sent : sent = [steps[n].sent EXCEPT ![k] = @ + 1]
    OBVIOUS
  <1> PICK grown : grown = [steps[n] EXCEPT !.sent = sent]
    OBVIOUS
  <1>1. grown.fate = steps[n].fate /\ grown.sent = sent
    BY <1>0 DEF StepRecords
  <1>2. \A l \in Kinds : sent[l] = IF l = k THEN steps[n].sent[l] + 1 ELSE steps[n].sent[l]
    BY <1>0
  <1>3. steps' = [steps EXCEPT ![n] = grown]
    <2>1. steps' = [steps EXCEPT ![n].sent[k] = @ + 1]
      BY DEF StreamDelta
    <2> QED BY <1>0, <2>1
  <1>4. /\ DOMAIN steps' = DOMAIN steps /\ Len(steps') = Len(steps)
        /\ \A a \in DOMAIN steps : steps'[a] = IF a = n THEN grown ELSE steps[a]
    <2>1. /\ DOMAIN steps' = DOMAIN steps
          /\ \A a \in DOMAIN steps : steps'[a] = IF a = n THEN grown ELSE steps[a]
      BY <1>3, Zenon
    <2>2. Len(steps') = Len(steps)
      BY <1>0, <2>1, LenProperties
    <2> QED BY <2>1, <2>2
  <1>5. \A a \in DOMAIN steps : steps'[a].fate = steps[a].fate
    BY <1>1, <1>4
  <1>6. \A a \in DOMAIN steps : \A l \in Kinds :
          steps'[a].sent[l] = IF a = n /\ l = k THEN steps[a].sent[l] + 1 ELSE steps[a].sent[l]
    <2> TAKE a \in DOMAIN steps
    <2>1. CASE a = n
      <3>1. steps'[a].sent = sent
        BY <1>1, <1>4, <2>1
      <3> QED BY <1>2, <2>1, <3>1
    <2>2. CASE a # n
      <3>1. steps'[a] = steps[a]
        BY <1>4, <2>2
      <3> QED BY <2>2, <3>1
    <2> QED BY <2>1, <2>2
  <1>7. FateInv'
    <2>1. UNCHANGED <<journal, phase>>
      BY DEF StreamDelta
    <2>2. \A q : InStep(q)' = InStep(q) /\ Retrying(q)' = Retrying(q)
      BY <2>1 DEF InStep, Retrying
    <2> QED BY <1>0, <1>4, <1>5, <2>1, <2>2 DEF FateInv, Step
  <1>8. steps[n].fate = "live"
    BY <1>0 DEF FateInv
  <1> QED BY <1>0, <1>4, <1>5, <1>6, <1>7, <1>8

(* The kinds of steps of the system.  A quiet one changes no more than the *)
(* snapshot request.                                                       *)
Quiet ==
    /\ UNCHANGED <<daemonVars, wireVars, projectVars, copyVars, required, historyVars>>
    /\ fetch' \in {fetch, Idle, Sent}

Projects ==
    \/ ProjectTurnStarted \/ ProjectStepStarted \/ ProjectNothing \/ ProjectDelta \/ ProjectGap
    \/ ProjectToolCall \/ ProjectToolResult \/ ProjectStepCompleted \/ ProjectStepRetrying
    \/ ProjectStepInterrupted \/ ProjectTurnEnded \/ ReceiveResync

LEMMA StepKinds ==
    ASSUME [Next]_vars
    PROVE  \/ DurableStep \/ (\E k \in Kinds : StreamDelta(k)) \/ ServeSubscribe \/ Reconnect
           \/ AnswerSnapshot \/ Quiet \/ Projects \/ ApplySnapshot
  <1>1. CASE UNCHANGED vars
    BY <1>1 DEF vars, Quiet, fetchVars
  <1>2. CASE DropStaleSnapshot \/ Refocus \/ SnapshotFails
    BY <1>2 DEF DropStaleSnapshot, Refocus, SnapshotFails, Quiet, Request, Settle
  <1> QED BY <1>1, <1>2 DEF Next, Daemon, Client, Disturbance, DurableStep, Projects

LEMMA ProjectsTake == Projects => \E type : TakeFrame(type)
  BY DEF Projects, ProjectTurnStarted, ProjectStepStarted, ProjectNothing, ProjectDelta, ProjectGap,
         ProjectToolCall, ProjectToolResult, ProjectStepCompleted, ProjectStepRetrying,
         ProjectStepInterrupted, ProjectTurnEnded, ReceiveResync

LEMMA SameDaemon ==
    ASSUME FateInv, UNCHANGED <<journal, phase, steps>>
    PROVE  FateInv'
  <1>1. \A q : InStep(q)' = InStep(q) /\ Retrying(q)' = Retrying(q)
    BY DEF InStep, Retrying
  <1> QED BY <1>1 DEF FateInv, Step

LEMMA FateHolds ==
    ASSUME Types, FateInv, [Next]_vars
    PROVE  FateInv' /\ FatesStay /\ SentStays
  <1>0. \A a \in DOMAIN steps : \A k \in Kinds : steps[a].sent[k] \in Nat
    BY StepsTyped
  <1>1. CASE UNCHANGED daemonVars
    BY <1>0, <1>1, SameDaemon DEF daemonVars, FatesStay, SentStays
  <1>2. CASE DurableStep
    <2>1. FatesStay /\ FateInv' /\ \A a \in DOMAIN steps : steps'[a].sent = steps[a].sent
      BY <1>2, DurableSteps
    <2> QED BY <1>0, <2>1 DEF FatesStay, SentStays
  <1>3. ASSUME NEW k \in Kinds, StreamDelta(k)
        PROVE  FateInv' /\ FatesStay /\ SentStays
    <2>1. /\ FateInv' /\ DOMAIN steps' = DOMAIN steps
          /\ \A a \in DOMAIN steps : steps'[a].fate = steps[a].fate
          /\ \A a \in DOMAIN steps : \A l \in Kinds :
               \/ steps'[a].sent[l] = steps[a].sent[l]
               \/ steps'[a].sent[l] = steps[a].sent[l] + 1
      BY <1>3, StreamedSteps
    <2>2. \A a \in DOMAIN steps : \A l \in Kinds : steps[a].sent[l] <= steps'[a].sent[l]
      BY <1>0, <2>1
    <2> QED BY <2>1, <2>2 DEF FatesStay, SentStays
  <1>4. Projects => UNCHANGED daemonVars
    BY ProjectsTake DEF TakeFrame
  <1>5. ServeSubscribe \/ Reconnect \/ AnswerSnapshot \/ Quiet \/ ApplySnapshot => UNCHANGED daemonVars
    BY DEF ServeSubscribe, Reconnect, AnswerSnapshot, Quiet, ApplySnapshot
  <1> QED BY <1>1, <1>2, <1>3, <1>4, <1>5, StepKinds

----------------------------------------------------------------------------
(* Deltas in transit are in the order of their stream, and so is what has  *)
(* been streamed and rendered.                                             *)
SameStreamAs(m, d) == ~IsDurable(d) /\ d.step = m.step /\ d.kind = m.kind

DeltaInv ==
    \A i \in DOMAIN down : ~IsDurable(down[i]) =>
      /\ down[i].step \in DOMAIN steps /\ down[i].offset < steps[down[i].step].sent[down[i].kind]
      /\ \A j \in 1..(i - 1) : SameStreamAs(down[i], down[j]) => down[j].offset < down[i].offset

(* No delta is in transit that was not so before, in the same place.       *)
NoNewDelta ==
    /\ DOMAIN down' = 1..Len(down')
    /\ \A i \in DOMAIN down' : IsDurable(down'[i]) \/ (i \in DOMAIN down /\ down'[i] = down[i])

LEMMA DurableIsDurable == \A m : m.type \in Durables \cup {"resync"} => IsDurable(m)
  BY DEF Durables, IsDurable

LEMMA OneMore ==
    ASSUME Types, NEW m, down' = Append(down, m)
    PROVE  /\ DOMAIN down' = 1..(Len(down) + 1) /\ Len(down') = Len(down) + 1
           /\ down'[Len(down) + 1] = m /\ \A i \in DOMAIN down : down'[i] = down[i]
           /\ \A i \in DOMAIN down' : i \in DOMAIN down \/ i = Len(down) + 1
           /\ \A i \in DOMAIN down : i \in DOMAIN down'
  <1>1. down \in Seq(Frames \cup Deltas) /\ Len(down) \in Nat /\ DOMAIN down = 1..Len(down)
    BY WireTyped
  <1> QED BY <1>1

LEMMA FewDeltas ==
    ASSUME Types, Types'
    PROVE  /\ \A type \in Durables : Journal(type) => NoNewDelta
           /\ ServeSubscribe \/ Reconnect \/ AnswerSnapshot \/ Quiet \/ ApplySnapshot => NoNewDelta
           /\ ServeSubscribe => \A i \in DOMAIN down : i \in DOMAIN down' /\ down'[i] = down[i]
           /\ Reconnect => \A i \in DOMAIN down' : IsDurable(down'[i])
  <1>0. /\ DOMAIN down' = 1..Len(down') /\ DOMAIN down = 1..Len(down) /\ Len(down) \in Nat
        /\ Len(journal) \in Nat
    <2>1. down' \in Seq(Frames \cup Deltas)'
      BY DEF Types, WireTypes
    <2> QED BY <2>1, WireTyped, LenProperties
  <1>1. ASSUME NEW type \in Durables, Journal(type)
        PROVE  NoNewDelta
    <2> PICK n : n = Len(down)
      OBVIOUS
    <2>1. PICK m : (down' = Append(down, m) /\ m.type \in Durables \cup {"resync"}) \/ down' = down
      <3> PICK frame : frame = [type |-> type, seq |-> Len(journal) + 1, turn |-> turn',
                                step |-> Len(steps')]
        OBVIOUS
      <3>1. frame.type = type /\ [frame EXCEPT !.type = "resync"].type = "resync"
        OBVIOUS
      <3>2. down' \in {down, Append(down, frame), Append(down, [frame EXCEPT !.type = "resync"])}
        BY <1>1 DEF Journal
      <3> QED BY <3>1, <3>2
    <2>2. CASE down' = down
      BY <1>0, <2>2 DEF NoNewDelta
    <2>3. CASE down' = Append(down, m) /\ m.type \in Durables \cup {"resync"}
      <3>1. IsDurable(m)
        BY <2>3, DurableIsDurable
      <3> QED BY <1>0, <2>3, <3>1, OneMore DEF NoNewDelta
    <2> QED BY <2>1, <2>2, <2>3
  <1>2. ASSUME ServeSubscribe
        PROVE  NoNewDelta /\ \A i \in DOMAIN down : i \in DOMAIN down' /\ down'[i] = down[i]
    <2> PICK after : after = Head(up)
      OBVIOUS
    <2> PICK n : n = Len(down)
      OBVIOUS
    <2>1. after \in 0..Len(journal) /\ down' = down \o Replay(after)
      <3>1. up \in Seq(Nat) /\ up # <<>> /\ \A i \in DOMAIN up : up[i] <= Len(journal)
        BY <1>2 DEF ServeSubscribe, Types, WireTypes
      <3>2. after = up[1] /\ 1 \in DOMAIN up /\ up[1] \in Nat
        BY <3>1
      <3> QED BY <1>0, <1>2, <3>1, <3>2 DEF ServeSubscribe
    <2>2. /\ Len(down') = n + (Len(journal) - after)
          /\ \A i \in 1..n : down'[i] = down[i]
          /\ \A i \in (n + 1)..Len(down') : down'[i] = journal[after + i - n]
      BY <2>1, AppendReplay
    <2>3. ASSUME NEW i \in (n + 1)..Len(down')
          PROVE  IsDurable(down'[i])
      <3> PICK s : s = after + i - n
        OBVIOUS
      <3>1. s \in 1..Len(journal)
        <4>1. /\ Len(journal) \in Nat /\ n \in Nat /\ after \in 0..Len(journal)
              /\ i \in (n + 1)..(n + (Len(journal) - after))
          BY <1>0, <2>1, <2>2
        <4>2. ASSUME NEW l \in Nat, NEW x \in Nat, NEW b \in 0..l, NEW j \in (x + 1)..(x + (l - b))
              PROVE  b + j - x \in 1..l
          OBVIOUS
        <4> QED BY <4>1, <4>2
      <3>2. s \in DOMAIN journal
        BY <3>1, WireTyped
      <3>3. journal[s].type \in Durables
        BY <3>2 DEF Types, DaemonTypes
      <3> QED BY <2>2, <3>3, DurableIsDurable
    <2>4. \A i \in DOMAIN down' : i \in 1..n \/ i \in (n + 1)..Len(down')
      BY <1>0, <2>1, <2>2
    <2>5. \A i \in DOMAIN down : i \in DOMAIN down'
      BY <1>0, <2>1, <2>2
    <2> QED BY <1>0, <2>2, <2>3, <2>4, <2>5 DEF NoNewDelta
  <1>3. ASSUME Reconnect
        PROVE  NoNewDelta /\ \A i \in DOMAIN down' : IsDurable(down'[i])
    <2>1. down' = Replay(cursor) /\ cursor \in 0..Len(journal)
      BY <1>3 DEF Reconnect, Types, WireTypes
    <2>2. \A i \in DOMAIN down' : IsDurable(down'[i])
      BY <1>0, <2>1, ReplayedFrames
    <2> QED BY <1>0, <2>2 DEF NoNewDelta
  <1>4. ASSUME AnswerSnapshot \/ Quiet \/ ApplySnapshot
        PROVE  NoNewDelta
    <2>1. down' = down
      BY <1>4 DEF AnswerSnapshot, Quiet, ApplySnapshot, wireVars
    <2> QED BY <1>0, <2>1 DEF NoNewDelta
  <1> QED BY <1>1, <1>2, <1>3, <1>4

(* A frame taken: the others move up.                                      *)
LEMMA OthersMoveUp ==
    ASSUME Types, NEW type, TakeFrame(type)
    PROVE  /\ Len(down) \in Nat /\ DOMAIN down = 1..Len(down)
           /\ 1 \in DOMAIN down /\ Head(down) = down[1] /\ Head(down).type = type
           /\ \A i \in DOMAIN down' : /\ i \in Nat \ {0} /\ i + 1 \in DOMAIN down
                                      /\ down'[i] = down[i + 1]
           /\ \A i \in DOMAIN down : i = 1 \/ (i - 1 \in DOMAIN down' /\ down'[i - 1] = down[i])
  <1> PICK n : n = Len(down)
    OBVIOUS
  <1>1. /\ n \in Nat \ {0} /\ DOMAIN down = 1..n /\ DOMAIN down' = 1..(n - 1)
        /\ Head(down) = down[1] /\ Head(down).type = type
        /\ \A i \in 1..(n - 1) : down'[i] = down[i + 1]
    <2>1. down' \in Seq(Frames \cup Deltas) /\ n \in Nat \ {0} /\ Len(down') = n - 1
          /\ Head(down) = down[1] /\ Head(down).type = type
          /\ \A i \in 1..Len(down') : down'[i] = down[i + 1]
      BY TakenFrame
    <2> QED BY <2>1, WireTyped, LenProperties
  <1>2. \A i \in 1..(n - 1) : i \in Nat \ {0} /\ i + 1 \in 1..n
    BY <1>1
  <1>3. \A i \in 1..n : i = 1 \/ (i - 1 \in 1..(n - 1) /\ (i - 1) + 1 = i)
    BY <1>1
  <1> QED BY <1>1, <1>2, <1>3

LEMMA DeltaHolds ==
    ASSUME Types, Types', FateInv, DeltaInv, [Next]_vars
    PROVE  DeltaInv'
  <1>0. /\ SentStays /\ \A i \in DOMAIN down : ~IsDurable(down[i]) => down[i] \in Deltas
        /\ \A a \in DOMAIN steps : \A k \in Kinds : steps[a].sent[k] \in Nat
        /\ \A a \in DOMAIN steps' : \A k \in Kinds : steps'[a].sent[k] \in Nat
        /\ DOMAIN down = 1..Len(down) /\ Len(down) \in Nat
    <2>1. \A a \in DOMAIN steps' : \A k \in Kinds : steps'[a].sent[k] \in Nat
      <3>1. steps' \in Seq(StepRecords)
        BY DEF Types, DaemonTypes
      <3>2. \A a \in DOMAIN steps' : steps'[a] \in StepRecords
        BY <3>1
      <3>3. \A a \in DOMAIN steps' : steps'[a].sent \in [Kinds -> Nat]
        BY <3>2 DEF StepRecords
      <3> QED BY <3>3
    <2> QED BY <2>1, FateHolds, WireTyped, StepsTyped
  (* A delta that was in transit before.                                   *)
  <1>1. ASSUME NEW i \in DOMAIN down, ~IsDurable(down[i])
        PROVE  /\ down[i].step \in DOMAIN steps' /\ down[i].kind \in Kinds /\ down[i].offset \in Nat
               /\ down[i].offset < steps'[down[i].step].sent[down[i].kind]
    <2>1. down[i].step \in DOMAIN steps /\ down[i].offset < steps[down[i].step].sent[down[i].kind]
      BY <1>1 DEF DeltaInv
    <2>2. down[i].kind \in Kinds /\ down[i].offset \in Nat
      BY <1>0, <1>1 DEF Deltas
    <2>3. /\ down[i].step \in DOMAIN steps'
          /\ steps[down[i].step].sent[down[i].kind] <= steps'[down[i].step].sent[down[i].kind]
      BY <1>0, <2>1, <2>2 DEF SentStays
    <2> QED BY <1>0, <2>1, <2>2, <2>3
  <1>2. CASE NoNewDelta
    <2> SUFFICES ASSUME NEW i \in DOMAIN down', ~IsDurable(down'[i])
                 PROVE  /\ down'[i].step \in DOMAIN steps'
                        /\ down'[i].offset < steps'[down'[i].step].sent[down'[i].kind]
                        /\ \A j \in 1..(i - 1) :
                             SameStreamAs(down'[i], down'[j]) => down'[j].offset < down'[i].offset
      BY DEF DeltaInv
    <2>1. i \in DOMAIN down /\ down'[i] = down[i] /\ i \in 1..Len(down')
      BY <1>2 DEF NoNewDelta
    <2>2. ASSUME NEW j \in 1..(i - 1), SameStreamAs(down'[i], down'[j])
          PROVE  down'[j].offset < down'[i].offset
      <3>1. j \in DOMAIN down'
        BY <1>0, <1>2, <2>1 DEF NoNewDelta
      <3>2. j \in DOMAIN down /\ down'[j] = down[j]
        BY <1>2, <2>2, <3>1 DEF NoNewDelta, SameStreamAs
      <3> QED BY <2>1, <2>2, <3>2 DEF DeltaInv
    <2> QED BY <1>1, <2>1, <2>2
  <1>3. ASSUME NEW k \in Kinds, StreamDelta(k)
        PROVE  DeltaInv'
    <2> PICK n : n = Step
      OBVIOUS
    <2>1. /\ n \in DOMAIN steps /\ DOMAIN steps' = DOMAIN steps
          /\ steps'[n].sent[k] = steps[n].sent[k] + 1
      BY <1>3, StreamedSteps
    <2> PICK m : m = [type |-> "delta", seq |-> Len(journal), step |-> n,
                      kind |-> k, offset |-> steps[n].sent[k]]
      OBVIOUS
    <2>2. m.type = "delta" /\ m.step = n /\ m.kind = k /\ m.offset = steps[n].sent[k]
      OBVIOUS
    <2>3. down' \in {down, Append(down, m)}
      BY <1>3 DEF StreamDelta
    <2>4. CASE down' = down
      <3>1. NoNewDelta
        BY <1>0, <2>4 DEF NoNewDelta
      <3> QED BY <1>2, <3>1
    <2>5. CASE down' = Append(down, m)
      <3> PICK last : last = Len(down) + 1
        OBVIOUS
      <3>1. /\ DOMAIN down' = 1..last /\ down'[last] = m /\ \A i \in DOMAIN down : down'[i] = down[i]
            /\ \A i \in DOMAIN down' : i \in DOMAIN down \/ i = last
        BY <2>5, OneMore
      <3>2. ASSUME NEW i \in DOMAIN down, ~IsDurable(down'[i])
            PROVE  /\ down'[i].step \in DOMAIN steps'
                   /\ down'[i].offset < steps'[down'[i].step].sent[down'[i].kind]
                   /\ \A j \in 1..(i - 1) :
                        SameStreamAs(down'[i], down'[j]) => down'[j].offset < down'[i].offset
        <4>1. \A j \in 1..(i - 1) : j \in DOMAIN down
          BY <1>0
        <4> QED BY <1>1, <3>1, <3>2, <4>1 DEF DeltaInv
      <3>3. /\ down'[last].step \in DOMAIN steps'
            /\ down'[last].offset < steps'[down'[last].step].sent[down'[last].kind]
        BY <1>0, <2>1, <2>2, <3>1
      <3>4. ASSUME NEW j \in 1..(last - 1), SameStreamAs(down'[last], down'[j])
            PROVE  down'[j].offset < down'[last].offset
        <4>1. j \in DOMAIN down /\ down'[j] = down[j]
          BY <1>0, <3>1
        <4>2. ~IsDurable(down[j]) /\ down[j].step = n /\ down[j].kind = k
          BY <2>2, <3>1, <3>4, <4>1 DEF SameStreamAs
        <4>3. down[j].offset < steps[n].sent[k]
          BY <4>1, <4>2 DEF DeltaInv
        <4> QED BY <2>2, <3>1, <4>1, <4>3
      <3> QED BY <3>1, <3>2, <3>3, <3>4 DEF DeltaInv
    <2> QED BY <2>3, <2>4, <2>5
  <1>4. ASSUME NEW type, TakeFrame(type)
        PROVE  DeltaInv'
    <2> SUFFICES ASSUME NEW i \in DOMAIN down', ~IsDurable(down'[i])
                 PROVE  /\ down'[i].step \in DOMAIN steps'
                        /\ down'[i].offset < steps'[down'[i].step].sent[down'[i].kind]
                        /\ \A j \in 1..(i - 1) :
                             SameStreamAs(down'[i], down'[j]) => down'[j].offset < down'[i].offset
      BY DEF DeltaInv
    <2> PICK x : x = i + 1
      OBVIOUS
    <2>1. x \in DOMAIN down /\ down'[i] = down[x] /\ i \in Nat \ {0} /\ x - 1 = i
      BY <1>4, OthersMoveUp
    <2>2. ASSUME NEW j \in 1..(i - 1), SameStreamAs(down'[i], down'[j])
          PROVE  down'[j].offset < down'[i].offset
      <3>1. j + 1 \in 1..(x - 1) /\ j + 1 \in DOMAIN down /\ j + 1 # 1 /\ (j + 1) - 1 = j
        BY <1>0, <2>1
      <3>2. down'[j] = down[j + 1]
        BY <1>4, <3>1, OthersMoveUp
      <3> QED BY <2>1, <2>2, <3>1, <3>2 DEF DeltaInv, SameStreamAs
    <2> QED BY <1>1, <2>1, <2>2
  <1>5. DurableStep => NoNewDelta
    BY FewDeltas, DurableSteps
  <1> QED BY <1>2, <1>3, <1>4, <1>5, FewDeltas, ProjectsTake, StepKinds

----------------------------------------------------------------------------
(* The text on the screen after one step of the client: no message has     *)
(* text it did not have; none has lost any.                                *)
NoNewText ==
    \A i \in DOMAIN shown' :
      \/ NoStreams(shown'[i].content)
      \/ /\ i \in DOMAIN shown
         /\ \A a : \A k \in Kinds : SameStream(shown[i].content, shown'[i].content, a, k)

NoLostText ==
    \A i \in DOMAIN shown :
      /\ i \in DOMAIN shown'
      /\ \A a : \A k \in Kinds : SameStream(shown[i].content, shown'[i].content, a, k)

LEMMA SameContent == \A content, a, k : SameStream(content, content, a, k)
  BY DEF SameStream

LEMMA SameScreen ==
    ASSUME shown' = shown
    PROVE  NoNewText /\ NoLostText
  BY SameContent DEF NoNewText, NoLostText

LEMMA NewMessage ==
    ASSUME MessageInv, NEW msg, CreateMessage(msg), NoStreams(msg.content)
    PROVE  NoNewText /\ NoLostText
  <1>1. /\ nextId \notin DOMAIN shown
        /\ shown' = IF nextId \in DOMAIN shown THEN shown ELSE Put(shown, nextId, msg)
    BY DEF CreateMessage, MessageInv, MessageTypes, IsMessages
  <1>2. shown' = Put(shown, nextId, msg)
    BY <1>1
  <1>3. \A i \in DOMAIN shown' : shown'[i] = msg \/ (i \in DOMAIN shown /\ shown'[i] = shown[i])
    BY <1>2 DEF Put
  <1>4. \A i \in DOMAIN shown : i \in DOMAIN shown' /\ shown'[i] = shown[i]
    BY <1>1, <1>2 DEF Put
  <1> HIDE DEF SameStream, NoStreams
  <1> QED BY <1>3, <1>4, SameContent DEF NoNewText, NoLostText

LEMMA NewContent ==
    ASSUME MessageInv, IsOpen, NEW content, shown' = [shown EXCEPT ![current].content = content]
    PROVE  /\ current \in DOMAIN shown /\ shown[current].content = log[current].content
           /\ DOMAIN shown' = DOMAIN shown /\ shown'[current].content = content
           /\ \A i \in DOMAIN shown : i # current => shown'[i] = shown[i]
  <1>1. current \in DOMAIN shown /\ shown[current] = log[current] /\ shown[current] \in Messages
    BY OpenBubble DEF MessageInv, MessageTypes, IsMessages
  <1> PICK msg : msg = [shown[current] EXCEPT !.content = content]
    OBVIOUS
  <1>2. msg.content = content
    BY <1>1 DEF Messages
  <1>3. shown' = [shown EXCEPT ![current] = msg]
    BY <1>1
  <1> QED BY <1>1, <1>2, <1>3

LEMMA SameText ==
    ASSUME MessageInv, IsOpen, NEW content, UpdateMessage(current, content),
           \A a : \A k \in Kinds : SameStream(log[current].content, content, a, k)
    PROVE  NoNewText /\ NoLostText
  <1>1. shown' = [shown EXCEPT ![current].content = content]
    BY OpenBubble DEF UpdateMessage, ReduceUpdated
  <1>2. /\ current \in DOMAIN shown /\ shown[current].content = log[current].content
        /\ DOMAIN shown' = DOMAIN shown /\ shown'[current].content = content
        /\ \A i \in DOMAIN shown : i # current => shown'[i] = shown[i]
    BY <1>1, NewContent
  <1>3. ASSUME NEW i \in DOMAIN shown, NEW a, NEW k \in Kinds
        PROVE  SameStream(shown[i].content, shown'[i].content, a, k)
    <2>1. CASE i = current
      BY <1>2, <2>1
    <2>2. CASE i # current
      BY <1>2, <2>2, SameContent
    <2> QED BY <2>1, <2>2
  <1> HIDE DEF SameStream
  <1> QED BY <1>2, <1>3 DEF NoNewText, NoLostText

(* What the frames do to the text on the screen.                           *)
LEMMA ScreenAfterFrame ==
    ASSUME MessageInv,
           \/ ProjectTurnStarted \/ ProjectStepStarted \/ ProjectNothing \/ ProjectGap
           \/ ProjectToolCall \/ ProjectToolResult \/ ProjectStepCompleted
           \/ ProjectStepInterrupted \/ ProjectTurnEnded \/ ReceiveResync
    PROVE  NoNewText /\ NoLostText
  <1>1. CASE shown' = shown
    BY <1>1, SameScreen
  <1>2. ASSUME IsOpen, UpdateMessage(current, log[current].content)
        PROVE  NoNewText /\ NoLostText
    BY <1>2, SameText, SameContent
  <1>3. CASE ProjectTurnStarted \/ ProjectNothing \/ ProjectGap \/ ProjectStepInterrupted
             \/ ReceiveResync
    BY <1>1, <1>3 DEF ProjectTurnStarted, ProjectNothing, ProjectGap, ProjectStepInterrupted,
                      ReceiveResync, KeepMessages
  <1>4. CASE ProjectStepStarted
    <2>1. CASE Reused # 0
      BY <1>1, <1>4, <2>1 DEF ProjectStepStarted, KeepMessages
    <2>2. CASE Reused = 0
      <3> PICK msg : msg = [turn |-> Head(down).turn, content |-> <<>>]
        OBVIOUS
      <3>1. CreateMessage(msg) /\ msg.content = <<>>
        BY <1>4, <2>2 DEF ProjectStepStarted
      <3> QED BY <3>1, NewMessage, NoStreamsEmpty
    <2> QED BY <2>1, <2>2
  <1>5. CASE ProjectToolCall
    <2>1. CASE IsOpen
      <3> PICK content : content = Append(log[current].content, Part("toolUse", <<>>))
        OBVIOUS
      <3>1. UpdateMessage(current, content)
        BY <1>5, <2>1 DEF ProjectToolCall
      <3>2. \A a : \A k \in Kinds : SameStream(log[current].content, content, a, k)
        BY <2>1, OpenBubble, CardKeepsStreams
      <3> QED BY <2>1, <3>1, <3>2, SameText
    <2>2. CASE ~IsOpen
      BY <1>1, <1>5, <2>2 DEF ProjectToolCall
    <2> QED BY <2>1, <2>2
  <1>6. CASE ProjectToolResult
    <2> PICK msg : msg = [turn |-> Head(down).turn, content |-> <<Part("toolResult", <<>>)>>]
      OBVIOUS
    <2>1. CreateMessage(msg) /\ msg.content = <<Part("toolResult", <<>>)>>
      BY <1>6 DEF ProjectToolResult
    <2> QED BY <2>1, NewMessage, NoStreamsEmpty
  <1>7. CASE ProjectStepCompleted \/ ProjectTurnEnded
    BY <1>1, <1>2, <1>7 DEF ProjectStepCompleted, ProjectTurnEnded
  <1> QED BY <1>3, <1>4, <1>5, <1>6, <1>7

LEMMA ScreenAfterRetry ==
    ASSUME MessageInv, ProjectStepRetrying
    PROVE  /\ NoNewText
           /\ \A i \in DOMAIN shown :
                \/ i \in DOMAIN shown' /\ shown'[i] = shown[i]
                \/ i = current /\ IsOpen /\ shown[i].content = log[current].content
  <1>1. CASE IsOpen
    <2> PICK content : content = Stripped(log[current].content)
      OBVIOUS
    <2>1. content = <<>>
      BY <1>1, OpenBubble, StrippedEmpty
    <2>2. shown' = [shown EXCEPT ![current].content = content]
      BY <1>1, OpenBubble DEF ProjectStepRetrying, UpdateMessage, ReduceUpdated
    <2>3. /\ current \in DOMAIN shown /\ shown[current].content = log[current].content
          /\ DOMAIN shown' = DOMAIN shown /\ shown'[current].content = content
          /\ \A i \in DOMAIN shown : i # current => shown'[i] = shown[i]
      BY <1>1, <2>2, NewContent
    <2>4. NoStreams(shown'[current].content)
      BY <2>1, <2>3, NoStreamsEmpty
    <2>5. ASSUME NEW i \in DOMAIN shown', i # current
          PROVE  i \in DOMAIN shown
                   /\ \A a : \A k \in Kinds : SameStream(shown[i].content, shown'[i].content, a, k)
      BY <2>3, <2>5, SameContent
    <2> HIDE DEF SameStream, NoStreams
    <2>6. NoNewText
      BY <2>4, <2>5 DEF NoNewText
    <2> QED BY <1>1, <2>3, <2>6
  <1>2. CASE ~IsOpen
    <2>1. shown' = shown
      BY <1>2 DEF ProjectStepRetrying
    <2> QED BY <2>1, SameScreen
  <1> QED BY <1>1, <1>2

LEMMA ScreenAfterDelta ==
    ASSUME Types, MessageInv, ProjectDelta, NEW m, m = Head(down), NEW new,
           new = AppendDelta(log[current].content, m.kind, <<m.step, m.offset>>)
    PROVE  /\ IsOpen /\ Align(m) = "append" /\ UNCHANGED current /\ IsOpen'
           /\ m \in Deltas /\ ~IsDurable(m)
           /\ log[current].content \in Seq(PartsType)
           /\ current \in DOMAIN shown /\ shown[current].content = log[current].content
           /\ DOMAIN shown' = DOMAIN shown /\ shown'[current].content = new
           /\ log'[current].content = new
           /\ \A i \in DOMAIN shown : i # current => shown'[i] = shown[i]
           /\ len' = [len EXCEPT ![m.kind] = AlignedLen(m) + 1]
  <1> PICK c : c = log[current].content
    OBVIOUS
  <1> PICK piece : piece = <<m.step, m.offset>>
    OBVIOUS
  <1>1. /\ TakeFrame("delta") /\ IsOpen /\ Align(m) = "append" /\ UNCHANGED current
        /\ log' = [log EXCEPT ![current].content = AppendDelta(c, m.kind, piece)]
        /\ len' = [len EXCEPT ![m.kind] = AlignedLen(m) + 1]
        /\ shown' = IF current \in DOMAIN shown
                    THEN [shown EXCEPT ![current].content =
                            ReduceDelta(@, Len(AppendDelta(c, m.kind, piece)), m.kind, piece)]
                    ELSE shown
    BY DEF ProjectDelta, Piece
  <1>2. m \in Deltas /\ ~IsDurable(m)
    <2>1. 1 \in DOMAIN down /\ m = down[1] /\ m.type = "delta" /\ DOMAIN down = 1..Len(down)
      BY <1>1, OthersMoveUp
    <2>2. ~IsDurable(m)
      BY <2>1 DEF IsDurable
    <2> QED BY <2>1, <2>2, WireTyped
  <1>3. /\ current \in DOMAIN log /\ current \in DOMAIN shown /\ shown[current] = log[current]
        /\ c \in Seq(PartsType)
    BY <1>1, OpenBubble
  <1>4. ReduceDelta(c, Len(AppendDelta(c, m.kind, piece)), m.kind, piece) = new
    <2>1. m.kind \in Kinds /\ piece \in Nat \X Nat
      BY <1>2 DEF Deltas
    <2> QED BY <1>3, <2>1, SameDelta
  <1>5. shown' = [shown EXCEPT ![current].content = new]
    BY <1>1, <1>3, <1>4
  <1>6. /\ DOMAIN shown' = DOMAIN shown /\ shown'[current].content = new
        /\ \A i \in DOMAIN shown : i # current => shown'[i] = shown[i]
    BY <1>1, <1>5, NewContent
  <1>7. current \in DOMAIN log' /\ log'[current].content = new
    <2>1. log[current] \in Messages
      BY <1>3 DEF MessageInv, MessageTypes, IsMessages
    <2> PICK msg : msg = [log[current] EXCEPT !.content = new]
      OBVIOUS
    <2>2. msg.content = new
      BY <2>1 DEF Messages
    <2>3. log' = [log EXCEPT ![current] = msg]
      BY <1>1
    <2> QED BY <1>3, <2>2, <2>3
  <1>8. IsOpen'
    BY <1>1, <1>7 DEF IsOpen
  <1> QED BY <1>1, <1>2, <1>3, <1>6, <1>7, <1>8

(* The pieces after a delta: the old ones and its own.                     *)
LEMMA AppendedPieces ==
    ASSUME NEW content \in Seq(PartsType), NEW kind, NEW piece \in Nat \X Nat,
           NEW new, new = AppendDelta(content, kind, piece)
    PROVE  /\ \A a, k, p, j : Of(new, a, k, p, j) =>
                \/ Of(content, a, k, p, j) /\ Offset(new, p, j) = Offset(content, p, j)
                \/ a = piece[1] /\ k = kind /\ Offset(new, p, j) = piece[2]
           /\ \A a, k, p, j : Of(content, a, k, p, j) =>
                Of(new, a, k, p, j) /\ Offset(new, p, j) = Offset(content, p, j)
           /\ \E p, j : Of(new, piece[1], kind, p, j) /\ Offset(new, p, j) = piece[2]
  <1>1. PICK r, y :
             /\ r \in Nat /\ y \in Nat
             /\ At(new, r, y) /\ new[r].type = kind /\ new[r].body[y] = piece
             /\ \A p, j : At(new, p, j) => At(content, p, j) \/ (p = r /\ j = y)
             /\ \A p, j : At(content, p, j) =>
                  /\ At(new, p, j) /\ new[p].type = content[p].type
                  /\ new[p].body[j] = content[p].body[j]
                  /\ Before(p, j, r, y) /\ ~Before(r, y, p, j)
    BY AppendedPiece
  <1>2. Of(new, piece[1], kind, r, y) /\ Offset(new, r, y) = piece[2]
    BY <1>1 DEF Of, Offset
  <1>3. ASSUME NEW a, NEW k, NEW p, NEW j, Of(content, a, k, p, j)
        PROVE  Of(new, a, k, p, j) /\ Offset(new, p, j) = Offset(content, p, j)
    BY <1>1, <1>3 DEF Of, Offset
  <1>4. ASSUME NEW a, NEW k, NEW p, NEW j, Of(new, a, k, p, j)
        PROVE  \/ Of(content, a, k, p, j) /\ Offset(new, p, j) = Offset(content, p, j)
               \/ a = piece[1] /\ k = kind /\ Offset(new, p, j) = piece[2]
    <2>1. CASE At(content, p, j)
      BY <1>1, <1>4, <2>1 DEF Of, Offset
    <2>2. CASE p = r /\ j = y
      BY <1>1, <1>4, <2>2 DEF Of, Offset
    <2> QED BY <1>1, <1>4, <2>1, <2>2 DEF Of
  <1> QED BY <1>2, <1>3, <1>4

----------------------------------------------------------------------------
(* The steps that leave the projector and the screen alone; and where a    *)
(* piece on the screen comes from.                                         *)
Outside ==
    \/ DurableStep \/ (\E k \in Kinds : StreamDelta(k)) \/ ServeSubscribe \/ Reconnect
    \/ AnswerSnapshot \/ Quiet

LEMMA OutsideKeeps == Outside => UNCHANGED <<projectVars, copyVars, cursor, required, misaligned>>
  <1>1. ASSUME NEW type, Journal(type)
        PROVE  UNCHANGED <<projectVars, copyVars, cursor, required, misaligned>>
    BY <1>1 DEF Journal, fetchVars, historyVars
  <1>2. DurableStep => \E type : Journal(type)
    BY DEF DurableStep, StartTurn, StartStep, CallTool, ToolResult, CompleteStep, RetryStep,
           InterruptStep, EndTurn
  <1>3. ASSUME NEW k \in Kinds, StreamDelta(k)
        PROVE  UNCHANGED <<projectVars, copyVars, cursor, required, misaligned>>
    BY <1>3 DEF StreamDelta, fetchVars
  <1>4. ServeSubscribe => UNCHANGED <<projectVars, copyVars, cursor, required, misaligned>>
    BY DEF ServeSubscribe, fetchVars
  <1>5. Reconnect => UNCHANGED <<projectVars, copyVars, cursor, required, misaligned>>
    BY DEF Reconnect, fetchVars
  <1>6. AnswerSnapshot \/ Quiet => UNCHANGED <<projectVars, copyVars, cursor, required, misaligned>>
    BY DEF AnswerSnapshot, Quiet, historyVars, wireVars
  <1> QED BY <1>1, <1>2, <1>3, <1>4, <1>5, <1>6 DEF Outside

LEMMA FrameKeeps ==
    Projects => UNCHANGED <<daemonVars, served, up, transcript, historyVars>>
  BY ProjectsTake DEF TakeFrame

(* A piece that was on the screen before the step.                         *)
OldPiece(i, a, k, p, j) ==
    /\ i \in DOMAIN shown /\ Of(shown[i].content, a, k, p, j)
    /\ Offset(shown'[i].content, p, j) = Offset(shown[i].content, p, j)

(* The piece that the step has put there: the delta taken.                 *)
TakenPiece(i, a, k, p, j) ==
    /\ ProjectDelta /\ i = current /\ a = Head(down).step /\ k = Head(down).kind
    /\ Offset(shown'[i].content, p, j) = Head(down).offset

LEMMA OldPieces ==
    ASSUME NoNewText, NEW i \in DOMAIN shown', NEW a, NEW k \in Kinds, NEW p, NEW j,
           Of(shown'[i].content, a, k, p, j)
    PROVE  OldPiece(i, a, k, p, j)
  <1>1. ~NoStreams(shown'[i].content)
    BY DEF NoStreams, Holds
  <1>2. i \in DOMAIN shown /\ SameStream(shown[i].content, shown'[i].content, a, k)
    BY <1>1 DEF NoNewText
  <1> QED BY <1>2 DEF SameStream, OldPiece

LEMMA ScreenPieces ==
    ASSUME Types, MessageInv, Outside \/ Projects,
           NEW i \in DOMAIN shown', NEW a, NEW k \in Kinds, NEW p, NEW j,
           Of(shown'[i].content, a, k, p, j)
    PROVE  OldPiece(i, a, k, p, j) \/ TakenPiece(i, a, k, p, j)
  <1>1. CASE Outside
    <2>1. shown' = shown
      BY <1>1, OutsideKeeps DEF copyVars
    <2> QED BY <2>1 DEF OldPiece
  <1>2. CASE ProjectStepRetrying
    BY <1>2, ScreenAfterRetry, OldPieces
  <1>3. CASE ProjectDelta
    <2> PICK m : m = Head(down)
      OBVIOUS
    <2> PICK c : c = log[current].content
      OBVIOUS
    <2> PICK piece : piece = <<m.step, m.offset>>
      OBVIOUS
    <2> PICK new : new = AppendDelta(c, m.kind, piece)
      OBVIOUS
    <2>1. /\ m \in Deltas /\ c \in Seq(PartsType)
          /\ current \in DOMAIN shown /\ shown[current].content = c
          /\ DOMAIN shown' = DOMAIN shown /\ shown'[current].content = new
          /\ \A b \in DOMAIN shown : b # current => shown'[b] = shown[b]
      BY <1>3, ScreenAfterDelta
    <2>2. CASE i # current
      BY <2>1, <2>2 DEF OldPiece
    <2>3. CASE i = current
      <3>1. piece \in Nat \X Nat
        BY <2>1 DEF Deltas
      <3>2. \/ Of(c, a, k, p, j) /\ Offset(new, p, j) = Offset(c, p, j)
            \/ a = piece[1] /\ k = m.kind /\ Offset(new, p, j) = piece[2]
        BY <2>1, <2>3, <3>1, AppendedPieces
      <3>3. piece[1] = m.step /\ piece[2] = m.offset
        OBVIOUS
      <3> QED BY <1>3, <2>1, <2>3, <3>2, <3>3 DEF TakenPiece, OldPiece
    <2> QED BY <2>2, <2>3
  <1> QED BY <1>1, <1>2, <1>3, ScreenAfterFrame, OldPieces DEF Projects

(* What a snapshot puts on the screen.                                     *)
LEMMA SeededScreen ==
    ASSUME Types, ApplySnapshot, NEW snap, snap = fetch
    PROVE  /\ snap \in Snapshots /\ snap.phase = "answered" /\ UNCHANGED <<journal, steps, down, served>>
           /\ transcript' = snap.done /\ lost' = LostBehind(snap) /\ cursor' = snap.at
           /\ up' = Append(up, snap.at) /\ ~required'
           /\ \A i \in DOMAIN shown' : /\ i = 1 /\ shown'[i].content = SeedContent(snap)
           /\ snap.inFlight => 1 \in DOMAIN shown'
           /\ IsOpen' => log'[current'].content = SeedContent(snap) /\ len' = snap.sent
  <1>0. /\ UNCHANGED <<journal, steps, down, served>> /\ cursor' = snap.at /\ snap.phase = "answered"
        /\ log' = Seeded(snap) /\ shown' = Seeded(snap) /\ transcript' = snap.done
        /\ current' = (IF snap.inFlight THEN 1 ELSE 0)
        /\ len' = (IF snap.inFlight THEN snap.sent ELSE NoText)
        /\ up' = Append(up, snap.at) /\ lost' = LostBehind(snap) /\ ~required'
    BY DEF ApplySnapshot, daemonVars
  <1>1. snap \in Snapshots
    BY <1>0 DEF Types, FetchTypes, Idle, Sent
  <1> PICK content : content = SeedContent(snap)
    OBVIOUS
  <1> PICK msg : msg = [turn |-> snap.turn, content |-> content]
    OBVIOUS
  <1>2. msg.content = content
    OBVIOUS
  <1>3. /\ \A i \in DOMAIN Seeded(snap) : i = 1 /\ snap.inFlight /\ Seeded(snap)[i] = msg
        /\ snap.inFlight => 1 \in DOMAIN Seeded(snap) /\ Seeded(snap)[1] = msg
    BY DEF Seeded, NoMessages
  <1>4. IsOpen' => snap.inFlight /\ log'[current'] = msg
    BY <1>0, <1>3 DEF IsOpen
  <1> HIDE DEF Seeded, SeedContent
  <1> QED BY <1>0, <1>1, <1>2, <1>3, <1>4

----------------------------------------------------------------------------
(* What is rendered: pieces that the daemon streamed, and a transcript of  *)
(* steps that are over.                                                    *)
Streamed(content) ==
    \A a : \A k \in Kinds : \A p, j : Of(content, a, k, p, j) =>
        a \in DOMAIN steps /\ Offset(content, p, j) < steps[a].sent[k]

Over == {a \in DOMAIN steps : steps[a].fate \in {"done", "cut"}}

RenderedInv == transcript \subseteq Over /\ \A i \in DOMAIN shown : Streamed(shown[i].content)

(* A snapshot has the finished steps, and a part of the one in flight.     *)
AnswerInv ==
    fetch.phase = "answered" =>
      /\ fetch.done \subseteq Over /\ fetch.steps \in 0..Len(steps)
      /\ \A a \in DOMAIN steps : a < fetch.steps => a \in fetch.done \/ steps[a].fate = "retried"
      /\ \A i \in DOMAIN down :
           ~IsDurable(down[i]) /\ down[i].step \in fetch.done => down[i].seq < fetch.at
      /\ \A k \in Kinds : fetch.sent[k] > 0 =>
           /\ fetch.inFlight /\ fetch.steps \in DOMAIN steps /\ fetch.steps \notin fetch.done
           /\ fetch.sent[k] <= steps[fetch.steps].sent[k]

LEMMA OverStays == FatesStay => Over \subseteq Over'
  BY DEF FatesStay, Over

LEMMA MessageContents ==
    ASSUME MessageInv, NEW i \in DOMAIN shown
    PROVE  shown[i].content \in Seq(PartsType)
  BY DEF MessageInv, MessageTypes, IsMessages, Messages

LEMMA RenderedHolds ==
    ASSUME Types, Types', MessageInv, MessageInv', FateInv, DeltaInv, AnswerInv, RenderedInv,
           [Next]_vars
    PROVE  RenderedInv'
  <1>0. FatesStay /\ SentStays
    BY FateHolds
  <1>n. /\ \A a \in DOMAIN steps : \A k \in Kinds : steps[a].sent[k] \in Nat
        /\ \A a \in DOMAIN steps' : \A k \in Kinds : steps'[a].sent[k] \in Nat
    <2>1. steps' \in Seq(StepRecords)
      BY DEF Types, DaemonTypes
    <2>2. \A a \in DOMAIN steps' : steps'[a] \in StepRecords
      BY <2>1
    <2>3. \A a \in DOMAIN steps' : steps'[a].sent \in [Kinds -> Nat]
      BY <2>2 DEF StepRecords
    <2> QED BY <2>3, StepsTyped
  <1>1. CASE Outside \/ Projects
    <2>1. transcript' = transcript
      BY <1>1, OutsideKeeps, FrameKeeps DEF copyVars
    <2>2. ASSUME NEW i \in DOMAIN shown', NEW a, NEW k \in Kinds, NEW p, NEW j,
                 Of(shown'[i].content, a, k, p, j)
          PROVE  a \in DOMAIN steps' /\ Offset(shown'[i].content, p, j) < steps'[a].sent[k]
      <3> PICK o : o = Offset(shown'[i].content, p, j)
        OBVIOUS
      <3>1. shown'[i].content \in Seq(PartsType)
        BY DEF MessageInv, MessageTypes, IsMessages, Messages
      <3>2. o \in Nat
        BY <2>2, <3>1, PieceTypes
      <3>3. a \in DOMAIN steps /\ o < steps[a].sent[k]
        <4>1. CASE OldPiece(i, a, k, p, j)
          BY <4>1 DEF OldPiece, RenderedInv, Streamed
        <4>2. CASE TakenPiece(i, a, k, p, j)
          <5> PICK m : m = Head(down)
            OBVIOUS
          <5>1. TakeFrame("delta") /\ a = m.step /\ k = m.kind /\ o = m.offset
            BY <4>2 DEF TakenPiece, ProjectDelta
          <5>2. 1 \in DOMAIN down /\ m = down[1] /\ m.type = "delta"
            BY <5>1, OthersMoveUp
          <5> QED BY <5>1, <5>2 DEF DeltaInv, IsDurable
        <4> QED BY <1>1, <2>2, <4>1, <4>2, ScreenPieces
      <3>4. a \in DOMAIN steps' /\ steps[a].sent[k] <= steps'[a].sent[k]
        BY <1>0, <3>3 DEF SentStays
      <3> QED BY <1>n, <3>2, <3>3, <3>4
    <2> QED BY <1>0, <2>1, <2>2, OverStays DEF RenderedInv, Streamed
  <1>2. CASE ApplySnapshot
    <2> PICK snap : snap = fetch
      OBVIOUS
    <2>1. /\ snap \in Snapshots /\ snap.phase = "answered" /\ steps' = steps
          /\ transcript' = snap.done
          /\ \A i \in DOMAIN shown' : shown'[i].content = SeedContent(snap)
      BY <1>2, SeededScreen
    <2>2. ASSUME NEW a, NEW k \in Kinds, NEW p, NEW j, Of(SeedContent(snap), a, k, p, j)
          PROVE  a \in DOMAIN steps /\ Offset(SeedContent(snap), p, j) < steps[a].sent[k]
      <3>1. Holds(SeedContent(snap), a, k)
        BY <2>2 DEF Holds
      <3>2. /\ IsStream(SeedContent(snap), snap.steps, k, snap.sent[k])
            /\ a = snap.steps /\ snap.sent[k] > 0
        BY <2>1, <3>1, SeededStreams
      <3>3. Offset(SeedContent(snap), p, j) < snap.sent[k]
        BY <2>2, <3>2 DEF IsStream
      <3>4. a \in DOMAIN steps /\ snap.sent[k] <= steps[a].sent[k]
        BY <2>1, <3>2 DEF AnswerInv
      <3>5. SeedContent(snap) \in Seq(PartsType)
        BY <2>1, SeedContentTypes
      <3>6. Offset(SeedContent(snap), p, j) \in Nat
        BY <2>2, <3>5, PieceTypes
      <3>7. snap.sent[k] \in Nat
        BY <2>1 DEF Snapshots
      <3> QED BY <1>n, <3>3, <3>4, <3>6, <3>7
    <2>3. snap.done \subseteq Over /\ Over' = Over
      BY <2>1 DEF AnswerInv, Over
    <2> QED BY <2>1, <2>2, <2>3 DEF RenderedInv, Streamed
  <1> QED BY <1>1, <1>2, StepKinds DEF Outside

(* A delta sent, or missed.                                                *)
LEMMA SentDelta ==
    ASSUME Types, FateInv, NEW k \in Kinds, StreamDelta(k)
    PROVE  /\ UNCHANGED <<journal, served, up, cursor, fetch, transcript, shown>>
           /\ \/ ~served /\ down' = down /\ lost' = lost \cup {Step}
              \/ served /\ lost' = lost
                 /\ \E m : /\ down' = Append(down, m) /\ ~IsDurable(m) /\ m.seq = Len(journal)
                           /\ m.step = Step /\ m.kind = k /\ m.offset = steps[Step].sent[k]
  <1> PICK m : m = [type |-> "delta", seq |-> Len(journal), step |-> Step,
                    kind |-> k, offset |-> steps[Step].sent[k]]
    OBVIOUS
  <1>1. /\ m.type = "delta" /\ m.seq = Len(journal) /\ m.step = Step /\ m.kind = k
        /\ m.offset = steps[Step].sent[k]
    OBVIOUS
  <1>2. ~IsDurable(m)
    BY <1>1 DEF IsDurable
  <1>3. \/ ~served /\ down' = down /\ lost' = lost \cup {Step}
        \/ served /\ lost' = lost /\ down' = Append(down, m)
    BY DEF StreamDelta
  <1>4. UNCHANGED <<journal, served, up, cursor, fetch, transcript, shown>>
    BY DEF StreamDelta, fetchVars, copyVars
  <1> QED BY <1>1, <1>2, <1>3, <1>4

(* What an answer holds when it is given.                                  *)
LEMMA AnswerGiven ==
    ASSUME Types, JournalInv, WireInv, FateInv, AnswerSnapshot
    PROVE  AnswerInv'
  <1> PICK last : last = Len(journal)
    OBVIOUS
  <1>0. /\ UNCHANGED <<journal, steps, down>> /\ fetch'.done = Over /\ fetch'.steps = Len(steps)
        /\ fetch'.at = last /\ fetch'.inFlight = (phase # "idle")
        /\ fetch'.sent = IF phase \in {"step", "results"} THEN steps[Step].sent ELSE NoText
    BY DEF AnswerSnapshot, daemonVars, wireVars, Over, Step
  <1>1. /\ Len(steps) \in Nat /\ DOMAIN steps = 1..Len(steps) /\ last \in Nat
        /\ phase \in {"step", "results"} => Len(steps) \in DOMAIN steps
        /\ \A a \in DOMAIN steps : /\ a \in Nat /\ steps[a].fate \in {"live", "done", "retried", "cut"}
                                   /\ \A k \in Kinds : steps[a].sent[k] \in Nat
        /\ DOMAIN down = 1..Len(down) /\ \A i \in DOMAIN down : down[i].seq \in 0..last
    BY StepsTyped, WireTyped DEF StepRecords
  <1>2. \A a \in DOMAIN steps : a < Len(steps) => a \in Over \/ steps[a].fate = "retried"
    BY <1>1 DEF FateInv, Step, Over
  <1>3. ASSUME NEW i \in DOMAIN down, ~IsDurable(down[i]), down[i].step \in Over
        PROVE  down[i].seq < last
    <2>1. InStep(down[i].seq) /\ down[i].step = journal[down[i].seq].step
      BY <1>3 DEF WireInv, DeltaInPlace
    <2>2. CASE down[i].seq = last
      <3>1. phase = "step" /\ down[i].step = Step
        BY <2>1, <2>2 DEF JournalInv, DaemonNow, InStep, StepBy
      <3>2. steps[Step].fate = "live"
        BY <1>1, <3>1 DEF FateInv, Step
      <3> QED BY <1>3, <3>1, <3>2 DEF Over
    <2> QED BY <1>1, <1>3, <2>2
  <1>4. ASSUME NEW k \in Kinds, fetch'.sent[k] > 0
        PROVE  /\ phase # "idle" /\ Len(steps) \in DOMAIN steps /\ Len(steps) \notin Over
               /\ fetch'.sent[k] <= steps[Len(steps)].sent[k]
    <2>1. phase \in {"step", "results"}
      BY <1>0, <1>4 DEF NoText
    <2>2. Len(steps) \in DOMAIN steps /\ steps[Len(steps)].fate = "live"
      BY <1>1, <2>1 DEF FateInv, Step
    <2> QED BY <1>0, <1>1, <2>1, <2>2 DEF Over, Step
  <1>5. Over' = Over
    BY <1>0 DEF Over
  <1>6. Len(steps) \in 0..Len(steps)
    BY <1>1
  <1> QED BY <1>0, <1>2, <1>3, <1>4, <1>5, <1>6 DEF AnswerInv

(* An answer stays true: what is over stays so, and a delta sent later is  *)
(* of a step that is not over.                                             *)
LEMMA AnswerHolds ==
    ASSUME Types, Types', JournalInv, WireInv, FateInv, AnswerInv, [Next]_vars
    PROVE  AnswerInv'
  <1>0. FatesStay /\ SentStays /\ Over \subseteq Over'
    BY FateHolds, OverStays
  <1>1. CASE AnswerSnapshot
    BY <1>1, AnswerGiven
  <1>2. CASE fetch' \in {fetch, Idle, Sent}
    <2> SUFFICES ASSUME fetch'.phase = "answered"
                 PROVE  AnswerInv'
      BY DEF AnswerInv
    <2> PICK snap : snap = fetch
      OBVIOUS
    <2>1. fetch' = snap /\ snap \in Snapshots /\ snap.phase = "answered"
      <3>1. fetch' = fetch
        BY <1>2 DEF Idle, Sent
      <3> QED BY <3>1 DEF Types, FetchTypes, Idle, Sent
    <2>2. /\ snap.done \subseteq Over /\ snap.steps \in 0..Len(steps)
          /\ \A a \in DOMAIN steps : a < snap.steps => a \in snap.done \/ steps[a].fate = "retried"
          /\ \A i \in DOMAIN down :
               ~IsDurable(down[i]) /\ down[i].step \in snap.done => down[i].seq < snap.at
          /\ \A k \in Kinds : snap.sent[k] > 0 =>
               /\ snap.inFlight /\ snap.steps \in DOMAIN steps /\ snap.steps \notin snap.done
               /\ snap.sent[k] <= steps[snap.steps].sent[k]
      BY <2>1 DEF AnswerInv
    <2>3. /\ Len(steps) \in Nat /\ DOMAIN steps = 1..Len(steps) /\ Len(steps') \in Nat
          /\ DOMAIN steps' = 1..Len(steps') /\ \A a \in DOMAIN steps : a \in DOMAIN steps'
      <3>1. steps' \in Seq(StepRecords)
        BY DEF Types, DaemonTypes
      <3> QED BY <1>0, <3>1, StepsTyped, LenProperties DEF FatesStay
    <2>4. Len(steps) <= Len(steps')
      <3>1. CASE Len(steps) = 0
        BY <2>3, <3>1
      <3>2. CASE Len(steps) # 0
        <4>1. Len(steps) \in 1..Len(steps)
          BY <2>3, <3>2
        <4>2. Len(steps) \in 1..Len(steps')
          BY <2>3, <4>1
        <4> QED BY <2>3, <4>2
      <3> QED BY <3>1, <3>2
    <2>5. snap.steps \in 0..Len(steps')
      BY <2>2, <2>3, <2>4
    <2>6. ASSUME NEW a \in DOMAIN steps', a < snap.steps
          PROVE  a \in snap.done \/ steps'[a].fate = "retried"
      <3>1. a \in DOMAIN steps
        BY <2>2, <2>3, <2>6
      <3> QED BY <1>0, <2>2, <2>6, <3>1 DEF FatesStay
    <2>7. ASSUME NEW i \in DOMAIN down', ~IsDurable(down'[i]), down'[i].step \in snap.done
          PROVE  down'[i].seq < snap.at
      <3>1. CASE NoNewDelta
        BY <2>2, <2>7, <3>1 DEF NoNewDelta
      <3>2. ASSUME NEW type, TakeFrame(type)
            PROVE  down'[i].seq < snap.at
        <4>1. i + 1 \in DOMAIN down /\ down'[i] = down[i + 1]
          BY <3>2, OthersMoveUp
        <4> QED BY <2>2, <2>7, <4>1
      <3>3. ASSUME NEW k \in Kinds, StreamDelta(k)
            PROVE  down'[i].seq < snap.at
        <4>1. Step \notin Over
          BY <3>3, StreamedSteps DEF Over
        <4>2. CASE down' = down
          BY <2>2, <2>7, <4>2
        <4>3. ASSUME NEW m, down' = Append(down, m), m.step = Step
              PROVE  down'[i].seq < snap.at
          <5> PICK x : x = Len(down) + 1
            OBVIOUS
          <5>1. (i \in DOMAIN down /\ down'[i] = down[i]) \/ down'[i] = m
            BY <4>3, OneMore
          <5> QED BY <2>2, <2>7, <4>1, <4>3, <5>1
        <4> QED BY <3>3, <4>2, <4>3, SentDelta
      <3>4. DurableStep => NoNewDelta
        BY FewDeltas, DurableSteps
      <3> QED BY <3>1, <3>2, <3>3, <3>4, FewDeltas, ProjectsTake, StepKinds
    <2>8. ASSUME NEW k \in Kinds, snap.sent[k] > 0
          PROVE  /\ snap.inFlight /\ snap.steps \in DOMAIN steps' /\ snap.steps \notin snap.done
                 /\ snap.sent[k] <= steps'[snap.steps].sent[k]
      <3>1. /\ snap.inFlight /\ snap.steps \in DOMAIN steps /\ snap.steps \notin snap.done
            /\ snap.sent[k] <= steps[snap.steps].sent[k]
        BY <2>2, <2>8
      <3>2. /\ snap.steps \in DOMAIN steps'
            /\ steps[snap.steps].sent[k] <= steps'[snap.steps].sent[k]
        BY <1>0, <3>1 DEF SentStays
      <3>3. /\ snap.sent[k] \in Nat /\ steps[snap.steps].sent[k] \in Nat
            /\ steps'[snap.steps].sent[k] \in Nat
        <4>1. steps' \in Seq(StepRecords)
          BY DEF Types, DaemonTypes
        <4>2. steps'[snap.steps] \in StepRecords
          BY <3>2, <4>1
        <4>3. steps'[snap.steps].sent \in [Kinds -> Nat]
          BY <4>2 DEF StepRecords
        <4> QED BY <2>1, <3>1, <4>3, StepsTyped DEF Snapshots
      <3> QED BY <3>1, <3>2, <3>3
    <2> QED BY <1>0, <2>1, <2>2, <2>5, <2>6, <2>7, <2>8 DEF AnswerInv
  <1> QED BY <1>1, <1>2, FetchSteps

----------------------------------------------------------------------------
(* While snapshot and stream have met.  No frame is missed, though some    *)
(* may come again: each in transit was sent after one the client has       *)
(* heard, or after another in transit.                                     *)
LinkInv ==
    ~misaligned =>
      /\ served => Linked(down, Len(journal), 0..cursor)
      /\ \A i \in DOMAIN up : up[i] <= cursor

(* A delta in transit is not older than the cursor, is of a step that is   *)
(* not in the transcript, and comes after all that is shown of its stream. *)
Follows(m) ==
    /\ cursor <= m.seq /\ m.step \notin transcript
    /\ \A b \in DOMAIN shown : \A p, j :
         Of(shown[b].content, m.step, m.kind, p, j) => Offset(shown[b].content, p, j) < m.offset

FollowInv == ~misaligned => \A i \in DOMAIN down : ~IsDurable(down[i]) => Follows(down[i])

LEMMA JournalKeepsLinks ==
    ASSUME Types, LinkInv, NEW type \in Durables, Journal(type)
    PROVE  LinkInv'
  <1> PICK last : last = Len(journal)
    OBVIOUS
  <1> PICK K : K = 0..cursor
    OBVIOUS
  <1> PICK frame : frame = [type |-> type, seq |-> last + 1, turn |-> turn', step |-> Len(steps')]
    OBVIOUS
  <1> PICK gap : gap = [frame EXCEPT !.type = "resync"]
    OBVIOUS
  <1>1. /\ UNCHANGED <<served, up, cursor, misaligned>> /\ journal' = Append(journal, frame)
        /\ down' = (IF served THEN Append(down, frame) ELSE down)
             \/ (served /\ down' = Append(down, gap))
    BY DEF Journal, historyVars
  <1>2. /\ frame.type = type /\ gap.type = "resync" /\ frame.seq = last + 1 /\ gap.seq = last + 1
    OBVIOUS
  <1>3. /\ IsDurable(frame) /\ IsDurable(gap)
    BY <1>2, DurableIsDurable
  <1>4. last \in Nat /\ journal \in Seq(Frames) /\ down \in Seq(Frames \cup Deltas)
    BY WireTyped
  <1>5. SentAfter(frame) = last /\ SentAfter(gap) = last
    BY <1>2, <1>3, <1>4 DEF SentAfter
  <1>6. Len(journal') = last + 1
    BY <1>1, <1>4
  <1>7. ASSUME ~misaligned, served
        PROVE  Linked(down', last + 1, K)
    <2>1. Linked(down, last, K)
      BY <1>7 DEF LinkInv
    <2>2. PICK m \in {frame, gap} : down' = Append(down, m)
      BY <1>1, <1>7
    <2>3. SentAfter(m) = last /\ IsDurable(m) /\ m.seq = last + 1
      BY <1>2, <1>3, <1>5, <2>2
    <2>4. Linked(Append(down, m), IF IsDurable(m) THEN m.seq ELSE last, K)
      BY <1>4, <2>1, <2>3, LinkedAppend
    <2> QED BY <2>2, <2>3, <2>4
  <1> QED BY <1>1, <1>6, <1>7 DEF LinkInv

LEMMA DeltaKeepsLinks ==
    ASSUME Types, FateInv, LinkInv, NEW k \in Kinds, StreamDelta(k)
    PROVE  LinkInv'
  <1> PICK last : last = Len(journal)
    OBVIOUS
  <1> PICK K : K = 0..cursor
    OBVIOUS
  <1>1. UNCHANGED <<journal, served, up, cursor, misaligned>>
    BY DEF StreamDelta
  <1>2. ASSUME ~misaligned, served
        PROVE  Linked(down', last, K)
    <2>1. Linked(down, last, K)
      BY <1>2 DEF LinkInv
    <2>2. PICK m : down' = Append(down, m) /\ ~IsDurable(m) /\ m.seq = last
      BY <1>2, SentDelta
    <2>3. SentAfter(m) = last
      BY <2>2 DEF SentAfter
    <2>4. last \in Nat /\ down \in Seq(Frames \cup Deltas)
      BY WireTyped
    <2>5. Linked(Append(down, m), IF IsDurable(m) THEN m.seq ELSE last, K)
      BY <2>1, <2>3, <2>4, LinkedAppend
    <2> QED BY <2>2, <2>5
  <1> QED BY <1>1, <1>2 DEF LinkInv

LEMMA ReplayKeepsLinks ==
    ASSUME Types, EndInv, LinkInv, ServeSubscribe \/ Reconnect
    PROVE  LinkInv'
  <1> PICK last : last = Len(journal)
    OBVIOUS
  <1> PICK K : K = 0..cursor
    OBVIOUS
  <1>0. cursor \in 0..last /\ last \in Nat /\ up \in Seq(Nat) /\ cursor \in K
    BY WireTyped DEF Types, WireTypes
  <1>1. ASSUME ~misaligned, ServeSubscribe
        PROVE  LinkInv'
    <2> PICK after : after = Head(up)
      OBVIOUS
    <2>1. /\ UNCHANGED <<journal, cursor>> /\ up # <<>> /\ up' = Tail(up)
          /\ down' = down \o Replay(after)
      BY <1>1 DEF ServeSubscribe, daemonVars
    <2>2. \A i \in DOMAIN up : up[i] <= cursor
      BY <1>1 DEF LinkInv
    <2>3. after = up[1] /\ 1 \in DOMAIN up /\ up[1] \in Nat
      BY <1>0, <2>1
    <2>4. after \in K /\ after \in 0..last
      BY <1>0, <2>2, <2>3
    <2>5. Linked(down, last, K) \/ down = <<>>
      BY <1>1 DEF LinkInv, EndInv
    <2>6. Linked(down', last, K)
      BY <2>1, <2>4, <2>5, LinkedReplay
    <2>7. \A i \in DOMAIN up' : i + 1 \in DOMAIN up /\ up'[i] = up[i + 1]
      BY <1>0, <2>1
    <2> QED BY <2>1, <2>2, <2>6, <2>7 DEF LinkInv
  <1>2. ASSUME Reconnect
        PROVE  LinkInv'
    <2>1. UNCHANGED <<journal, cursor>> /\ up' = <<>> /\ down' = Replay(cursor)
      BY <1>2 DEF Reconnect, daemonVars
    <2>2. Linked(down', last, K)
      BY <1>0, <2>1, ReplayedFrames
    <2> QED BY <2>1, <2>2 DEF LinkInv
  <1>3. misaligned' = misaligned
    BY DEF ServeSubscribe, Reconnect
  <1> QED BY <1>1, <1>2, <1>3 DEF LinkInv

LEMMA TakeKeepsLinks ==
    ASSUME Types, EndInv, LinkInv, NEW type, TakeFrame(type)
    PROVE  LinkInv'
  <1> PICK last : last = Len(journal)
    OBVIOUS
  <1> PICK K : K = 0..cursor
    OBVIOUS
  <1> PICK next : next = cursor'
    OBVIOUS
  <1> PICK L : L = 0..next
    OBVIOUS
  <1>0. /\ UNCHANGED <<journal, served, up, misaligned>> /\ down # <<>> /\ down' = Tail(down)
        /\ next = IF type = "delta" THEN cursor ELSE Larger(cursor, Head(down).seq)
    BY DEF TakeFrame, daemonVars, historyVars
  <1>1. /\ down \in Seq(Frames \cup Deltas) /\ last \in Nat /\ cursor \in Nat
        /\ Head(down) = down[1] /\ Head(down).type = type /\ Head(down).seq \in Nat
    BY WireTyped, TakenFrame DEF Types, WireTypes
  <1>2. next \in Nat /\ cursor <= next /\ (type # "delta" => Head(down).seq <= next)
    BY <1>0, <1>1 DEF Larger
  <1>3. IsDurable(down[1]) => down[1].seq \in L
    BY <1>1, <1>2 DEF IsDurable
  <1>4. \A q \in K : q \in L
    BY <1>1, <1>2
  <1>5. ASSUME ~misaligned, served
        PROVE  Linked(down', last, L)
    <2>1. Linked(down, last, K)
      BY <1>5 DEF LinkInv
    <2>2. /\ \A i \in 2..Len(down) : SentAfter(down[i]) \in K => SentAfter(down[i]) \in L
          /\ last \in K => last \in L
      BY <1>4
    <2>3. Linked(Tail(down), last, L)
      BY <1>0, <1>1, <1>3, <2>1, <2>2, LinkedTail
    <2> QED BY <1>0, <2>3
  <1>6. ASSUME ~misaligned, NEW i \in DOMAIN up
        PROVE  up[i] <= next
    <2>1. up[i] <= cursor /\ up[i] \in Nat
      BY <1>6 DEF LinkInv, Types, WireTypes
    <2> QED BY <1>1, <1>2, <2>1
  <1> QED BY <1>0, <1>5, <1>6 DEF LinkInv

LEMMA ApplyKeepsLinks ==
    ASSUME Types, WireInv, ApplySnapshot
    PROVE  LinkInv'
  <1> SUFFICES ASSUME ~misaligned'
               PROVE  /\ served' => Linked(down', Len(journal'), 0..cursor')
                      /\ \A i \in DOMAIN up' : up'[i] <= cursor'
    BY DEF LinkInv
  <1> PICK at : at = fetch.at
    OBVIOUS
  <1>0. /\ UNCHANGED <<journal, down, served>> /\ cursor' = at /\ up' = Append(up, at)
        /\ fetch.phase = "answered" /\ fetch \in Snapshots
    BY SeededScreen
  <1>1. cursor <= at
    BY DEF ApplySnapshot, Meets
  <1>2. at \in Nat /\ cursor \in Nat /\ up \in Seq(Nat)
    BY <1>0, WireTyped DEF Snapshots, Types, WireTypes
  <1>3. HeardOf \subseteq 0..at
    BY <1>0, <1>1, <1>2 DEF HeardOf
  <1>4. ASSUME served
        PROVE  Linked(down, Len(journal), 0..at)
    <2> PICK K : K = HeardOf
      OBVIOUS
    <2> PICK L : L = 0..at
      OBVIOUS
    <2>1. Linked(down, Len(journal), K)
      BY <1>4 DEF WireInv
    <2>2. \A q : q \in K => q \in L
      BY <1>3
    <2> QED BY <2>1, <2>2, LinkedTo
  <1>5. \A i \in DOMAIN up : up[i] <= at
    BY <1>0 DEF WireInv
  <1>6. \A i \in DOMAIN up' : up'[i] <= at
    BY <1>0, <1>2, <1>5
  <1> QED BY <1>0, <1>4, <1>6

LEMMA LinkHolds ==
    ASSUME Types, EndInv, WireInv, FateInv, LinkInv, [Next]_vars
    PROVE  LinkInv'
  <1>1. CASE DurableStep
    BY <1>1, DurableSteps, JournalKeepsLinks
  <1>2. ASSUME AnswerSnapshot \/ Quiet
        PROVE  LinkInv'
    <2>1. UNCHANGED <<journal, down, up, served, cursor, misaligned>>
      BY <1>2 DEF AnswerSnapshot, Quiet, daemonVars, wireVars, historyVars
    <2> QED BY <2>1 DEF LinkInv
  <1> QED BY <1>1, <1>2, DeltaKeepsLinks, ReplayKeepsLinks, TakeKeepsLinks, ApplyKeepsLinks,
             ProjectsTake, StepKinds

(* The first frame in transit: a delta is of the step at the cursor, and a *)
(* durable frame is no later than the next.                                *)
LEMMA FirstFrame ==
    ASSUME Types, EndInv, JournalInv, WireInv, LinkInv, FollowInv, ~misaligned,
           NEW type, TakeFrame(type), NEW m, m = Head(down)
    PROVE  /\ cursor \in 0..Len(journal) /\ cursor' \in 0..Len(journal)
           /\ type = "delta" => /\ m.seq = cursor /\ cursor' = cursor
                                /\ InStep(cursor) /\ m.step = StepBy(cursor)
           /\ type \in Durables /\ type # "turn.step.started" => StepBy(cursor') = StepBy(cursor)
  <1> PICK n : n = cursor
    OBVIOUS
  <1>0. /\ down # <<>> /\ m.type = type
        /\ cursor' = IF type = "delta" THEN n ELSE Larger(n, m.seq)
    BY DEF TakeFrame
  <1>1. /\ 1 \in DOMAIN down /\ 1 \in 1..Len(down) /\ m = down[1] /\ Genuine(m, journal)
        /\ n \in 0..Len(journal) /\ Len(journal) \in Nat /\ m.seq \in 0..Len(journal)
        /\ DOMAIN journal = 1..Len(journal)
    BY OthersMoveUp, WireTyped, TakenFrame DEF Types, WireTypes
  <1>2. SentAfter(m) \in 0..n
    <2>1. Linked(down, Len(journal), 0..n)
      BY <1>0 DEF LinkInv, EndInv
    <2>2. Arrives(down, SentAfter(m), 1 - 1) \/ SentAfter(m) \in 0..n
      BY <1>1, <2>1 DEF Linked
    <2>3. ~Arrives(down, SentAfter(m), 1 - 1)
      BY DEF Arrives
    <2> QED BY <2>2, <2>3
  <1>3. ASSUME type = "delta"
        PROVE  m.seq = n /\ InStep(n) /\ m.step = StepBy(n)
    <2>1. ~IsDurable(m)
      BY <1>0, <1>3 DEF IsDurable
    <2>2. n <= m.seq
      BY <1>1, <2>1 DEF FollowInv, Follows
    <2>3. m.seq <= n
      BY <1>2, <2>1 DEF SentAfter
    <2>4. m.seq = n
      BY <1>1, <2>2, <2>3
    <2>5. InStep(n) /\ m.step = journal[n].step
      BY <1>1, <2>1, <2>4 DEF WireInv, DeltaInPlace
    <2>6. m.step = StepBy(n)
      BY <2>5 DEF StepBy, InStep
    <2> QED BY <2>4, <2>5, <2>6
  <1>4. ASSUME type \in Durables, type # "turn.step.started"
        PROVE  StepBy(cursor') = StepBy(n)
    <2>1. IsDurable(m) /\ type # "delta"
      BY <1>0, <1>4, DurableIsDurable DEF IsDurable
    <2>2. m.seq <= n + 1
      BY <1>1, <1>2, <2>1 DEF SentAfter
    <2>3. CASE m.seq <= n
      BY <1>0, <1>1, <2>1, <2>3 DEF Larger
    <2>4. CASE m.seq = n + 1
      <3> PICK q : q = n + 1
        OBVIOUS
      <3>1. cursor' = q /\ q \in DOMAIN journal /\ m = journal[q] /\ q - 1 = n /\ q # 0
        BY <1>0, <1>1, <1>4, <2>1, <2>4 DEF Larger, Genuine
      <3>2. Fits(q)
        BY <3>1 DEF JournalInv
      <3>3. journal[q].step = StepBy(n)
        BY <1>0, <1>4, <3>1, <3>2 DEF Fits
      <3> QED BY <3>1, <3>3 DEF StepBy
    <2> QED BY <1>1, <2>2, <2>3, <2>4
  <1>5. cursor' \in 0..Len(journal)
    BY <1>0, <1>1 DEF Larger
  <1> QED BY <1>0, <1>1, <1>3, <1>4, <1>5

(* What is in transit of a stream comes after what is shown of it.         *)
LEMMA StillFollows ==
    ASSUME NEW m, Follows(m), UNCHANGED <<cursor, transcript, shown>>
    PROVE  Follows(m)'
  BY DEF Follows

LEMMA DeltaKeepsFollowing ==
    ASSUME Types, FateInv, RenderedInv, FollowInv, NEW k \in Kinds, StreamDelta(k)
    PROVE  FollowInv'
  <1>0. UNCHANGED <<cursor, transcript, shown, misaligned>>
    BY DEF StreamDelta, copyVars
  <1> SUFFICES ASSUME ~misaligned, NEW i \in DOMAIN down', NEW d, d = down'[i], ~IsDurable(d)
               PROVE  Follows(d)'
    BY <1>0 DEF FollowInv, Follows
  <1>1. ASSUME i \in DOMAIN down, d = down[i]
        PROVE  Follows(d)'
    <2>1. Follows(d)
      BY <1>1 DEF FollowInv
    <2> QED BY <1>0, <2>1, StillFollows
  <1>2. CASE down' = down
    BY <1>1, <1>2
  <1>3. ASSUME NEW m, down' = Append(down, m), m.seq = Len(journal), m.step = Step, m.kind = k,
               m.offset = steps[Step].sent[k]
        PROVE  Follows(d)'
    <2> PICK x : x = Len(down) + 1
      OBVIOUS
    <2>1. (i \in DOMAIN down /\ down'[i] = down[i]) \/ down'[i] = m
      BY <1>3, OneMore
    <2>2. cursor <= m.seq
      BY <1>3, WireTyped DEF Types, WireTypes
    <2>3. Step \notin Over
      BY StreamedSteps DEF Over
    <2>4. \A b \in DOMAIN shown : \A p, j :
            Of(shown[b].content, m.step, m.kind, p, j) => Offset(shown[b].content, p, j) < m.offset
      BY <1>3 DEF RenderedInv, Streamed
    <2>5. Follows(m)
      BY <1>3, <2>2, <2>3, <2>4 DEF RenderedInv, Follows
    <2>6. Follows(m)'
      BY <1>0, <2>5, StillFollows
    <2> QED BY <1>1, <2>1, <2>6
  <1> QED BY <1>2, <1>3, SentDelta

LEMMA TakeKeepsFollowing ==
    ASSUME Types, EndInv, JournalInv, WireInv, MessageInv, DeltaInv, LinkInv, FollowInv, Projects
    PROVE  FollowInv'
  <1> PICK type : TakeFrame(type)
    BY ProjectsTake
  <1>0. UNCHANGED <<transcript, misaligned>>
    BY FrameKeeps DEF historyVars
  <1> SUFFICES ASSUME ~misaligned, NEW i \in DOMAIN down', NEW d, d = down'[i], ~IsDurable(d)
               PROVE  Follows(d)'
    BY <1>0 DEF FollowInv, Follows
  <1> PICK x : x = i + 1
    OBVIOUS
  <1> PICK m : m = Head(down)
    OBVIOUS
  <1>1. /\ x \in DOMAIN down /\ d = down[x] /\ i \in Nat \ {0} /\ ~IsDurable(d)
        /\ 1 \in 1..(x - 1) /\ m = down[1] /\ m.type = type /\ 1 \in DOMAIN down
    BY OthersMoveUp
  <1>2. /\ Follows(d) /\ d \in Deltas /\ d.seq \in Nat
    BY <1>1, WireTyped DEF FollowInv
  <1>3. cursor' <= d.seq
    <2>1. CASE type = "delta"
      BY <1>2, <2>1 DEF TakeFrame, Follows
    <2>2. CASE type # "delta"
      <3>1. IsDurable(m)
        BY <1>1, <2>2 DEF IsDurable
      <3>2. DeltaInPlace(x)
        BY <1>1 DEF WireInv
      <3>3. m.seq <= d.seq
        BY <1>1, <3>1, <3>2 DEF DeltaInPlace
      <3>4. cursor' = Larger(cursor, m.seq)
        BY <2>2 DEF TakeFrame
      <3> QED BY <1>2, <3>3, <3>4 DEF Larger, Follows
    <2> QED BY <2>1, <2>2
  <1>4. ASSUME NEW b \in DOMAIN shown', NEW p, NEW j, Of(shown'[b].content, d.step, d.kind, p, j)
        PROVE  Offset(shown'[b].content, p, j) < d.offset
    <2> PICK a : a = d.step
      OBVIOUS
    <2> PICK k : k = d.kind
      OBVIOUS
    <2>1. k \in Kinds /\ Of(shown'[b].content, a, k, p, j)
      BY <1>2, <1>4 DEF Deltas
    <2>2. CASE OldPiece(b, a, k, p, j)
      <3>1. Of(shown[b].content, a, k, p, j) /\ b \in DOMAIN shown
        BY <2>2 DEF OldPiece
      <3>2. Offset(shown[b].content, p, j) < d.offset
        BY <1>2, <3>1 DEF Follows
      <3> QED BY <2>2, <3>2 DEF OldPiece
    <2>3. CASE TakenPiece(b, a, k, p, j)
      <3>1. /\ a = m.step /\ k = m.kind /\ Offset(shown'[b].content, p, j) = m.offset
            /\ TakeFrame("delta")
        BY <2>3 DEF TakenPiece, ProjectDelta
      <3>2. ~IsDurable(m)
        BY <3>1 DEF TakeFrame, IsDurable
      <3>3. SameStreamAs(d, m)
        BY <3>1, <3>2 DEF SameStreamAs
      <3>4. m.offset < d.offset
        BY <1>1, <3>3 DEF DeltaInv
      <3> QED BY <3>1, <3>4
    <2> QED BY <2>1, <2>2, <2>3, ScreenPieces
  <1>5. d.step \notin transcript'
    BY <1>0, <1>2 DEF Follows
  <1> QED BY <1>1, <1>3, <1>4, <1>5 DEF Follows

LEMMA ApplyKeepsFollowing ==
    ASSUME Types, WireInv, AnswerInv, ApplySnapshot
    PROVE  FollowInv'
  <1> PICK snap : snap = fetch
    OBVIOUS
  <1> PICK at : at = snap.at
    OBVIOUS
  <1>0. /\ snap \in Snapshots /\ snap.phase = "answered" /\ UNCHANGED <<journal, down>>
        /\ transcript' = snap.done /\ cursor' = at
        /\ \A i \in DOMAIN shown' : shown'[i].content = SeedContent(snap)
    BY SeededScreen
  <1> SUFFICES ASSUME ~misaligned', NEW i \in DOMAIN down, NEW d, d = down[i], ~IsDurable(d)
               PROVE  Follows(d)'
    BY <1>0 DEF FollowInv, Follows
  <1>1. d \in Deltas /\ d.type = "delta" /\ d.seq \in Nat /\ at \in Nat /\ at <= Len(journal)
        /\ d.kind \in Kinds /\ d.offset \in Nat /\ snap.sent \in [Kinds -> Nat] /\ Len(journal) \in Nat
        /\ DOMAIN down = 1..Len(down) /\ Len(down) \in Nat
    BY <1>0, WireTyped DEF Deltas, Snapshots
  <1>2. \A j \in DOMAIN down : ~Older(down[j], snap)
    BY DEF ApplySnapshot, Meets
  <1>3. at <= d.seq
    <2>1. CASE d.seq < at
      <3>1. at \in (d.seq + 1)..Len(journal)
        BY <1>1, <2>1
      <3>2. DeltaInPlace(i)
        BY DEF WireInv
      <3>3. PICK j \in (i + 1)..Len(down) : IsDurable(down[j]) /\ down[j].seq = at
        BY <3>1, <3>2 DEF DeltaInPlace
      <3>4. j \in DOMAIN down
        BY <1>1, <3>3
      <3>5. Older(down[j], snap)
        BY <1>1, <3>3 DEF Older, IsDurable
      <3> QED BY <1>2, <3>4, <3>5
    <2> QED BY <1>1, <2>1
  <1>4. d.step \notin snap.done
    <2>1. d.step \in snap.done => d.seq < at
      BY <1>0 DEF AnswerInv
    <2> QED BY <1>1, <1>3, <2>1
  <1>5. ASSUME NEW b \in DOMAIN shown', NEW p, NEW j, Of(shown'[b].content, d.step, d.kind, p, j)
        PROVE  Offset(shown'[b].content, p, j) < d.offset
    <2> PICK c : c = SeedContent(snap)
      OBVIOUS
    <2> PICK k : k = d.kind
      OBVIOUS
    <2>1. shown'[b].content = c /\ k \in Kinds /\ c \in Seq(PartsType)
      BY <1>0, <1>1, SeedContentTypes
    <2>2. Of(c, d.step, k, p, j)
      BY <1>5, <2>1
    <2>3. Holds(c, d.step, k)
      BY <2>2 DEF Holds
    <2>4. d.step = snap.steps /\ IsStream(c, snap.steps, k, snap.sent[k])
      BY <1>0, <2>1, <2>3, SeededStreams
    <2>5. Offset(c, p, j) < snap.sent[k] /\ Offset(c, p, j) \in Nat
      BY <2>1, <2>2, <2>4, PieceTypes DEF IsStream
    <2>6. ~(d.offset < snap.sent[k])
      BY <1>1, <1>2, <2>4 DEF Older
    <2>7. snap.sent[k] \in Nat
      BY <1>1, <2>1
    <2> QED BY <1>1, <2>1, <2>5, <2>6, <2>7
  <1> QED BY <1>0, <1>3, <1>4, <1>5 DEF Follows

LEMMA FollowHolds ==
    ASSUME Types, Types', EndInv, JournalInv, WireInv, MessageInv, FateInv, DeltaInv, RenderedInv,
           AnswerInv, LinkInv, FollowInv, [Next]_vars
    PROVE  FollowInv'
  <1>1. CASE Outside /\ NoNewDelta
    <2>1. UNCHANGED <<cursor, transcript, shown, misaligned>>
      BY <1>1, OutsideKeeps DEF copyVars
    <2>2. ASSUME ~misaligned, NEW i \in DOMAIN down', NEW d, d = down'[i], ~IsDurable(d)
          PROVE  Follows(d)'
      <3>1. i \in DOMAIN down /\ down[i] = d
        BY <1>1, <2>2 DEF NoNewDelta
      <3>2. Follows(d)
        BY <2>2, <3>1 DEF FollowInv
      <3> QED BY <2>1, <3>2, StillFollows
    <2> QED BY <2>1, <2>2 DEF FollowInv, Follows
  <1>2. DurableStep => NoNewDelta
    BY FewDeltas, DurableSteps
  <1> QED BY <1>1, <1>2, FewDeltas, DeltaKeepsFollowing, TakeKeepsFollowing, ApplyKeepsFollowing,
             StepKinds DEF Outside

----------------------------------------------------------------------------
(* While snapshot and stream have met, a stream that is shown is in one    *)
(* bubble, whole up to some piece, and of no step of the transcript; and   *)
(* the counted length of a kind of text is that of the stream of the step  *)
(* at the cursor, in the open bubble.                                      *)
ShownStreams ==
    \A i \in DOMAIN shown : \A a : \A k \in Kinds : Holds(shown[i].content, a, k) =>
      /\ a \notin transcript
      /\ \E n \in Nat \ {0} : IsStream(shown[i].content, a, k, n)
      /\ \A j \in DOMAIN shown : Holds(shown[j].content, a, k) => j = i

CountedStream ==
    IsOpen => \A k \in Kinds :
      len[k] > 0 => IsStream(log[current].content, StepBy(cursor), k, len[k])

StreamInv == ~misaligned => ShownStreams /\ CountedStream

LEMMA SameStreamsShown ==
    ASSUME ShownStreams, NoNewText, UNCHANGED transcript
    PROVE  ShownStreams'
  <1> SUFFICES ASSUME NEW i \in DOMAIN shown', NEW a, NEW k \in Kinds,
                      Holds(shown'[i].content, a, k)
               PROVE  /\ a \notin transcript
                      /\ \E n \in Nat \ {0} : IsStream(shown'[i].content, a, k, n)
                      /\ \A j \in DOMAIN shown' : Holds(shown'[j].content, a, k) => j = i
    BY DEF ShownStreams
  <1>1. ASSUME NEW j \in DOMAIN shown', Holds(shown'[j].content, a, k)
        PROVE  /\ j \in DOMAIN shown /\ Holds(shown[j].content, a, k)
               /\ SameStream(shown[j].content, shown'[j].content, a, k)
    <2>1. ~NoStreams(shown'[j].content)
      BY <1>1 DEF NoStreams
    <2>2. j \in DOMAIN shown /\ SameStream(shown[j].content, shown'[j].content, a, k)
      BY <2>1 DEF NoNewText
    <2> QED BY <1>1, <2>2, SameStreamKeeps
  <1>2. PICK n \in Nat \ {0} : IsStream(shown[i].content, a, k, n)
    BY <1>1 DEF ShownStreams
  <1>3. IsStream(shown'[i].content, a, k, n)
    BY <1>1, <1>2, SameStreamKeeps
  <1>4. a \notin transcript /\ \A j \in DOMAIN shown : Holds(shown[j].content, a, k) => j = i
    BY <1>1 DEF ShownStreams
  <1> QED BY <1>1, <1>3, <1>4

(* The counted length when the open bubble keeps its text.                 *)
LEMMA SameStreamCounted ==
    ASSUME MessageInv, MessageInv', CountedStream, NoLostText, IsOpen' => IsOpen,
           UNCHANGED <<current, len>>, StepBy(cursor)' = StepBy(cursor)
    PROVE  CountedStream'
  <1> SUFFICES ASSUME IsOpen', NEW k \in Kinds, len[k] > 0
               PROVE  IsStream(log'[current].content, StepBy(cursor), k, len[k])
    BY DEF CountedStream
  <1> PICK a : a = StepBy(cursor)
    OBVIOUS
  <1> PICK n : n = len[k]
    OBVIOUS
  <1>1. IsStream(log[current].content, a, k, n)
    BY DEF CountedStream
  <1>2. current \in DOMAIN shown /\ shown[current] = log[current]
    BY OpenBubble
  <1>3. shown'[current] = log'[current]
    BY DEF MessageInv, LogIsShown, IsOpen
  <1>4. SameStream(shown[current].content, shown'[current].content, a, k)
    BY <1>2 DEF NoLostText
  <1>5. IsStream(shown'[current].content, a, k, n)
    BY <1>1, <1>2, <1>4, SameStreamKeeps
  <1> QED BY <1>3, <1>5

LEMMA NothingCounted ==
    ASSUME len' = NoText
    PROVE  CountedStream'
  BY DEF CountedStream, NoText

(* A frame that brings no text.                                            *)
LEMMA FrameKeepsCount ==
    ASSUME Types, EndInv, MessageInv, MessageInv', JournalInv, WireInv, LinkInv, FollowInv,
           ~misaligned, CountedStream, Projects, ~ProjectDelta
    PROVE  CountedStream'
  <1>1. CASE \/ ProjectTurnStarted \/ ProjectStepStarted \/ ProjectStepRetrying \/ ProjectTurnEnded
             \/ ReceiveResync
    BY <1>1, NothingCounted DEF ProjectTurnStarted, ProjectStepStarted, ProjectStepRetrying,
                                ProjectTurnEnded, ClearTurn, ReceiveResync
  <1>2. CASE ProjectToolResult \/ ProjectStepInterrupted
    <2>1. current' = 0
      BY <1>2 DEF ProjectToolResult, ProjectStepInterrupted
    <2> QED BY <2>1 DEF CountedStream, IsOpen
  <1>3. ASSUME ProjectNothing \/ ProjectGap
        PROVE  CountedStream'
    <2>1. TakeFrame("delta") /\ UNCHANGED <<log, current, len>>
      BY <1>3 DEF ProjectNothing, ProjectGap, KeepMessages, KeepBinding
    <2>2. UNCHANGED <<journal, cursor>>
      BY <2>1 DEF TakeFrame, daemonVars
    <2>3. StepBy(cursor)' = StepBy(cursor)
      BY <2>2 DEF StepBy
    <2>4. IsOpen' = IsOpen
      BY <2>1 DEF IsOpen
    <2> QED BY <2>1, <2>3, <2>4 DEF CountedStream
  <1>4. ASSUME ProjectToolCall \/ ProjectStepCompleted
        PROVE  CountedStream'
    <2>1. PICK type : /\ TakeFrame(type) /\ type \in Durables /\ type # "turn.step.started"
      BY <1>4 DEF ProjectToolCall, ProjectStepCompleted, Durables
    <2>2. UNCHANGED <<current, len>> /\ DOMAIN log' = DOMAIN log
      BY <1>4 DEF ProjectToolCall, ProjectStepCompleted, KeepBinding, UpdateMessage
    <2>3. StepBy(cursor)' = StepBy(cursor)
      <3>1. UNCHANGED journal
        BY <2>1 DEF TakeFrame, daemonVars
      <3>2. StepBy(cursor') = StepBy(cursor)
        BY <2>1, FirstFrame
      <3> QED BY <3>1, <3>2 DEF StepBy
    <2>4. IsOpen' = IsOpen
      BY <2>2 DEF IsOpen
    <2>5. NoLostText
      BY <1>4, ScreenAfterFrame
    <2> QED BY <2>2, <2>3, <2>4, <2>5, SameStreamCounted
  <1> QED BY <1>1, <1>2, <1>3, <1>4 DEF Projects

(* A delta appended to the stream that is counted, or to one of which      *)
(* nothing is shown.                                                       *)
LEMMA DeltaKeepsStreams ==
    ASSUME Types, EndInv, MessageInv, JournalInv, WireInv, DeltaInv, LinkInv, FollowInv,
           ~misaligned, ShownStreams, CountedStream, ProjectDelta
    PROVE  ShownStreams' /\ CountedStream'
  <1> PICK m : m = Head(down)
    OBVIOUS
  <1> PICK b : b = current
    OBVIOUS
  <1> PICK c : c = log[b].content
    OBVIOUS
  <1> PICK a0 : a0 = m.step
    OBVIOUS
  <1> PICK k0 : k0 = m.kind
    OBVIOUS
  <1> PICK o : o = m.offset
    OBVIOUS
  <1> PICK piece : piece = <<a0, o>>
    OBVIOUS
  <1> PICK new : new = AppendDelta(c, k0, piece)
    OBVIOUS
  <1>0. /\ IsOpen /\ Align(m) = "append" /\ current' = b /\ IsOpen'
        /\ m \in Deltas /\ ~IsDurable(m)
        /\ c \in Seq(PartsType) /\ b \in DOMAIN shown /\ shown[b].content = c
        /\ DOMAIN shown' = DOMAIN shown /\ shown'[b].content = new
        /\ log'[b].content = new
        /\ \A i \in DOMAIN shown : i # b => shown'[i] = shown[i]
        /\ len' = [len EXCEPT ![k0] = AlignedLen(m) + 1]
    BY ScreenAfterDelta
  <1>1. /\ TakeFrame("delta") /\ UNCHANGED <<journal, transcript>>
        /\ 1 \in DOMAIN down /\ m = down[1]
    <2>1. TakeFrame("delta")
      BY DEF ProjectDelta
    <2> QED BY <2>1, OthersMoveUp DEF TakeFrame, daemonVars
  <1>2. cursor' = cursor /\ a0 = StepBy(cursor)
    BY <1>1, FirstFrame
  <1>3. Follows(m)
    BY <1>0, <1>1 DEF FollowInv
  <1>4. /\ k0 \in Kinds /\ a0 \in Nat /\ o \in Nat /\ len \in [Kinds -> Nat] /\ piece \in Nat \X Nat
        /\ piece[1] = a0
    BY <1>0 DEF Deltas, MessageInv, MessageTypes
  <1>5. AlignedLen(m) = o
    <2>1. AlignedLen(m) \in Nat /\ ~(o < AlignedLen(m)) /\ ~(o > AlignedLen(m))
      BY <1>0, <1>4 DEF Align, AlignedLen
    <2> QED BY <1>4, <2>1
  (* The stream so far: its o pieces, in this bubble alone.                *)
  <1>6. IsStream(c, a0, k0, o) /\ \A i \in DOMAIN shown : Holds(shown[i].content, a0, k0) => i = b
    <2>1. CASE o = 0
      <3>1. ASSUME NEW i \in DOMAIN shown
            PROVE  ~Holds(shown[i].content, a0, k0) /\ IsStream(shown[i].content, a0, k0, 0)
        <4> PICK s : s = shown[i].content
          OBVIOUS
        <4>1. s \in Seq(PartsType)
          BY MessageContents
        <4>2. \A p, j : Of(s, a0, k0, p, j) => Offset(s, p, j) < 0
          BY <1>3, <2>1 DEF Follows
        <4> QED BY <4>1, <4>2, NoPieces
      <3> QED BY <1>0, <2>1, <3>1
    <2>2. CASE o # 0
      <3>1. len[k0] = o /\ len[k0] > 0
        BY <1>4, <1>5, <2>2 DEF AlignedLen
      <3>2. IsStream(c, a0, k0, o)
        BY <1>0, <1>2, <1>4, <3>1 DEF CountedStream
      <3>3. Holds(c, a0, k0)
        <4>1. 0 \in 0..(o - 1)
          BY <1>4, <2>2
        <4> QED BY <3>2, <4>1 DEF IsStream, Holds
      <3>4. b \in DOMAIN shown /\ Holds(shown[b].content, a0, k0)
        BY <1>0, <3>3
      <3>5. \A i \in DOMAIN shown : Holds(shown[i].content, a0, k0) => i = b
        BY <1>4, <3>4 DEF ShownStreams
      <3> QED BY <3>2, <3>5
    <2> QED BY <2>1, <2>2
  <1>7. IsStream(new, a0, k0, o + 1) /\ Holds(new, a0, k0)
    BY <1>0, <1>4, <1>6, AppendedStream
  <1>8. ASSUME NEW a, NEW k \in Kinds, ~(a = a0 /\ k = k0)
        PROVE  SameStream(c, new, a, k)
    BY <1>0, <1>4, <1>8, AppendedOther
  <1>9. ASSUME NEW i \in DOMAIN shown', NEW a, NEW k \in Kinds, Holds(shown'[i].content, a, k)
        PROVE  /\ a \notin transcript
               /\ \E n \in Nat \ {0} : IsStream(shown'[i].content, a, k, n)
               /\ \A j \in DOMAIN shown' : Holds(shown'[j].content, a, k) => j = i
    <2>1. CASE a = a0 /\ k = k0
      <3>1. ASSUME NEW j \in DOMAIN shown', Holds(shown'[j].content, a, k)
            PROVE  j = b
        BY <1>0, <1>6, <2>1, <3>1
      <3>2. i = b
        BY <1>9, <3>1
      <3>3. o + 1 \in Nat \ {0}
        BY <1>4
      <3>4. a \notin transcript
        BY <1>3, <2>1 DEF Follows
      <3> QED BY <1>0, <1>7, <2>1, <3>1, <3>2, <3>3, <3>4
    <2>2. CASE ~(a = a0 /\ k = k0)
      <3>1. ASSUME NEW j \in DOMAIN shown'
            PROVE  j \in DOMAIN shown /\ SameStream(shown[j].content, shown'[j].content, a, k)
        <4>1. CASE j = b
          BY <1>0, <1>8, <2>2, <4>1
        <4>2. CASE j # b
          BY <1>0, <4>2, SameContent
        <4> QED BY <4>1, <4>2
      <3>2. ASSUME NEW j \in DOMAIN shown', Holds(shown'[j].content, a, k)
            PROVE  j \in DOMAIN shown /\ Holds(shown[j].content, a, k)
        BY <3>1, <3>2, SameStreamKeeps
      <3>3. PICK n \in Nat \ {0} : IsStream(shown[i].content, a, k, n)
        BY <1>9, <3>2 DEF ShownStreams
      <3>4. IsStream(shown'[i].content, a, k, n)
        BY <3>1, <3>3, SameStreamKeeps
      <3>5. a \notin transcript /\ \A j \in DOMAIN shown : Holds(shown[j].content, a, k) => j = i
        BY <1>9, <3>2 DEF ShownStreams
      <3> QED BY <3>2, <3>4, <3>5
    <2> QED BY <2>1, <2>2
  <1>10. ASSUME NEW k \in Kinds, len'[k] > 0
         PROVE  IsStream(new, a0, k, len'[k])
    <2>1. CASE k = k0
      <3>1. len'[k] = o + 1
        BY <1>0, <1>4, <1>5, <2>1
      <3> QED BY <1>7, <2>1, <3>1
    <2>2. CASE k # k0
      <3> PICK n : n = len[k]
        OBVIOUS
      <3>1. len'[k] = n
        BY <1>0, <1>4, <2>2
      <3>2. IsStream(c, a0, k, n)
        BY <1>0, <1>2, <1>10, <3>1 DEF CountedStream
      <3>3. SameStream(c, new, a0, k)
        BY <1>8, <2>2
      <3> QED BY <3>1, <3>2, <3>3, SameStreamKeeps
    <2> QED BY <2>1, <2>2
  <1>11. StepBy(cursor)' = a0
    BY <1>1, <1>2 DEF StepBy
  <1>12. ShownStreams'
    BY <1>1, <1>9 DEF ShownStreams
  <1>13. CountedStream'
    BY <1>0, <1>10, <1>11 DEF CountedStream
  <1> QED BY <1>12, <1>13

LEMMA ApplyKeepsStreams ==
    ASSUME Types, SnapshotInv, AnswerInv, ApplySnapshot
    PROVE  ShownStreams' /\ CountedStream'
  <1> PICK snap : snap = fetch
    OBVIOUS
  <1> PICK c : c = SeedContent(snap)
    OBVIOUS
  <1>0. /\ snap \in Snapshots /\ snap.phase = "answered" /\ UNCHANGED <<journal, steps>>
        /\ transcript' = snap.done /\ cursor' = snap.at
        /\ \A i \in DOMAIN shown' : i = 1 /\ shown'[i].content = c
        /\ IsOpen' => log'[current'].content = c /\ len' = snap.sent
    BY SeededScreen
  <1>1. ASSUME NEW a, NEW k \in Kinds, Holds(c, a, k)
        PROVE  a \notin snap.done /\ snap.sent[k] \in Nat \ {0} /\ IsStream(c, a, k, snap.sent[k])
    <2>1. a = snap.steps /\ snap.sent[k] > 0 /\ IsStream(c, snap.steps, k, snap.sent[k])
      BY <1>0, <1>1, SeededStreams
    <2>2. snap.sent[k] \in Nat
      BY <1>0 DEF Snapshots
    <2> QED BY <1>0, <2>1, <2>2 DEF AnswerInv
  <1>2. ShownStreams'
    BY <1>0, <1>1 DEF ShownStreams
  <1>3. StepBy(cursor)' = snap.steps
    BY <1>0 DEF SnapshotInv, StepBy
  <1>4. \A k \in Kinds : IsStream(c, snap.steps, k, snap.sent[k])
    BY <1>0, SeededStreams
  <1>5. CountedStream'
    BY <1>0, <1>3, <1>4 DEF CountedStream
  <1> QED BY <1>2, <1>5

LEMMA StreamHolds ==
    ASSUME Types, EndInv, MessageInv, MessageInv', JournalInv, WireInv, SnapshotInv, DeltaInv,
           AnswerInv, LinkInv, FollowInv, StreamInv, [Next]_vars
    PROVE  StreamInv'
  <1>1. CASE Outside
    <2>1. UNCHANGED <<shown, transcript, log, current, len, cursor, misaligned>>
      BY <1>1, OutsideKeeps DEF projectVars, copyVars
    <2>2. StepBy(cursor)' = StepBy(cursor)
      <3> PICK q : q = cursor
        OBVIOUS
      <3>1. q \in 0..Len(journal)
        BY DEF Types, WireTypes
      <3>2. StepBy(q)' = StepBy(q)
        BY <3>1, PastHolds
      <3> QED BY <2>1, <3>2 DEF StepBy
    <2>3. ShownStreams' = ShownStreams
      BY <2>1 DEF ShownStreams
    <2>4. CountedStream' = CountedStream
      BY <2>1, <2>2 DEF CountedStream, IsOpen
    <2> QED BY <2>1, <2>3, <2>4 DEF StreamInv
  <1>2. CASE Projects
    <2>1. UNCHANGED <<transcript, misaligned>>
      BY <1>2, FrameKeeps DEF historyVars
    <2>2. ~ProjectDelta => NoNewText
      BY <1>2, ScreenAfterFrame, ScreenAfterRetry DEF Projects
    <2> QED BY <1>2, <2>1, <2>2, SameStreamsShown, FrameKeepsCount, DeltaKeepsStreams DEF StreamInv
  <1>3. CASE ApplySnapshot
    BY <1>3, ApplyKeepsStreams DEF StreamInv
  <1> QED BY <1>1, <1>2, <1>3, StepKinds DEF Outside

----------------------------------------------------------------------------
(* While nothing was missed or repeated and no repair is pending, all that *)
(* was sent of a step is shown or in transit, unless the step is retried,  *)
(* rendered from the snapshot, or short for good.                          *)
Rendered(a, k, o) ==
    \E i \in DOMAIN shown : \E p, j :
      Of(shown[i].content, a, k, p, j) /\ Offset(shown[i].content, p, j) = o

IsPiece(m, a, k, o) == ~IsDurable(m) /\ m.step = a /\ m.kind = k /\ m.offset = o
Coming(a, k, o) == \E i \in DOMAIN down : IsPiece(down[i], a, k, o)

CompleteInv ==
    Steady /\ ~required =>
      \A a \in DOMAIN steps \ (lost \cup transcript) : \A k \in Kinds :
        steps[a].fate # "retried" =>
          \A o \in 0..(steps[a].sent[k] - 1) : Rendered(a, k, o) \/ Coming(a, k, o)

(* Frames in transit stay there, unless the connection drops.              *)
LEMMA DownStays ==
    ASSUME Types, Types', FateInv, Outside, ~Reconnect
    PROVE  \A i \in DOMAIN down : i \in DOMAIN down' /\ down'[i] = down[i]
  <1>1. \A m : down' = Append(down, m) => \A i \in DOMAIN down : i \in DOMAIN down' /\ down'[i] = down[i]
    BY OneMore
  <1>2. ASSUME NEW type \in Durables, Journal(type)
        PROVE  \E m : down' \in {down, Append(down, m)}
    <2> PICK frame : frame = [type |-> type, seq |-> Len(journal) + 1, turn |-> turn',
                              step |-> Len(steps')]
      OBVIOUS
    <2>1. down' \in {down, Append(down, frame), Append(down, [frame EXCEPT !.type = "resync"])}
      BY <1>2 DEF Journal
    <2> QED BY <2>1
  <1>3. DurableStep => \E m : down' \in {down, Append(down, m)}
    BY <1>2, DurableSteps
  <1>4. ASSUME NEW k \in Kinds, StreamDelta(k)
        PROVE  \E m : down' \in {down, Append(down, m)}
    BY <1>4, SentDelta
  <1>5. AnswerSnapshot \/ Quiet => down' = down
    BY DEF AnswerSnapshot, Quiet, wireVars
  <1> QED BY <1>1, <1>3, <1>4, <1>5, FewDeltas DEF Outside

LEMMA OutsideLost ==
    ASSUME Types, FateInv, Outside
    PROVE  (Steady' => Steady) /\ lost \subseteq lost'
  <1>1. ASSUME NEW type, Journal(type)
        PROVE  (Steady' => Steady) /\ lost \subseteq lost'
    BY <1>1 DEF Journal, historyVars, Steady
  <1>2. ASSUME NEW k \in Kinds, StreamDelta(k)
        PROVE  (Steady' => Steady) /\ lost \subseteq lost'
    BY <1>2 DEF StreamDelta, Steady
  <1>3. ASSUME ServeSubscribe
        PROVE  (Steady' => Steady) /\ lost \subseteq lost'
    <2>1. UNCHANGED <<lost, misaligned>> /\ (repeated => repeated')
      BY <1>3 DEF ServeSubscribe
    <2> QED BY <2>1 DEF Steady
  <1>a. ASSUME Reconnect
        PROVE  (Steady' => Steady) /\ lost \subseteq lost'
    <2>1. UNCHANGED <<misaligned, repeated>> /\ lost \subseteq lost'
      BY <1>a DEF Reconnect
    <2> QED BY <2>1 DEF Steady
  <1>4. AnswerSnapshot \/ Quiet => (Steady' => Steady) /\ lost \subseteq lost'
    BY DEF AnswerSnapshot, Quiet, Steady, historyVars
  <1> QED BY <1>1, <1>2, <1>3, <1>a, <1>4, DurableSteps DEF Outside

LEMMA OutsideKeepsComplete ==
    ASSUME Types, Types', FateInv, CompleteInv, [Next]_vars, Outside
    PROVE  CompleteInv'
  <1>0. UNCHANGED <<shown, transcript, required>> /\ (Steady' => Steady) /\ lost \subseteq lost'
    BY OutsideKeeps, OutsideLost DEF copyVars
  <1>1. FatesStay
    BY FateHolds
  <1> SUFFICES ASSUME Steady, ~required, NEW a \in DOMAIN steps' \ (lost' \cup transcript),
                      NEW k \in Kinds, steps'[a].fate # "retried",
                      NEW o \in 0..(steps'[a].sent[k] - 1), ~Rendered(a, k, o)
               PROVE  Coming(a, k, o)'
    <2>1. ASSUME NEW a, NEW k, NEW o
          PROVE  Rendered(a, k, o)' = Rendered(a, k, o)
      BY <1>0 DEF Rendered
    <2> QED BY <1>0, <2>1 DEF CompleteInv
  <1>2. a \notin lost
    BY <1>0
  (* A piece that was sent before.                                         *)
  <1>3. ASSUME a \in DOMAIN steps, o \in 0..(steps[a].sent[k] - 1)
        PROVE  Coming(a, k, o)'
    <2>1. steps[a].fate # "retried"
      BY <1>1, <1>3 DEF FatesStay
    <2>2. PICK i \in DOMAIN down : IsPiece(down[i], a, k, o)
      BY <1>2, <1>3, <2>1 DEF CompleteInv, Coming
    <2>3. CASE Reconnect
      <3>1. lost' = lost \cup {down[x].step : x \in {j \in DOMAIN down : down[j].type = "delta"}}
        BY <2>3 DEF Reconnect
      <3>2. down[i].type = "delta" /\ down[i].step = a
        BY <2>2 DEF IsPiece, IsDurable
      <3>3. a \in lost'
        BY <3>1, <3>2
      <3> QED BY <3>3
    <2>4. CASE ~Reconnect
      <3>1. i \in DOMAIN down' /\ down'[i] = down[i]
        BY <2>4, DownStays
      <3> QED BY <2>2, <3>1 DEF Coming
    <2> QED BY <2>3, <2>4
  <1>4. CASE DurableStep
    <2>1. /\ \A b \in DOMAIN steps : steps'[b].sent = steps[b].sent
          /\ a \in DOMAIN steps \/ steps'[a].sent = NoText
      BY <1>4, DurableSteps
    <2>2. CASE a \in DOMAIN steps
      BY <1>3, <2>1, <2>2
    <2>3. CASE steps'[a].sent = NoText
      <3>1. steps'[a].sent[k] = 0
        BY <2>3 DEF NoText
      <3> QED BY <3>1
    <2> QED BY <2>1, <2>2, <2>3
  <1>5. ASSUME NEW kind \in Kinds, StreamDelta(kind)
        PROVE  Coming(a, k, o)'
    <2> PICK n : n = Step
      OBVIOUS
    <2>1. /\ a \in DOMAIN steps /\ n \in DOMAIN steps
          /\ steps'[a].sent[k] = IF a = n /\ k = kind THEN steps[a].sent[k] + 1
                                 ELSE steps[a].sent[k]
      BY <1>5, StreamedSteps
    <2>2. steps[a].sent[k] \in Nat
      BY <2>1, StepsTyped
    <2>3. o \in 0..(steps[a].sent[k] - 1) \/ (a = n /\ k = kind /\ o = steps[n].sent[kind])
      BY <2>1, <2>2
    <2>4. CASE a = n /\ k = kind /\ o = steps[n].sent[kind]
      <3>1. PICK m : /\ down' = Append(down, m) /\ ~IsDurable(m) /\ m.step = n /\ m.kind = kind
                     /\ m.offset = steps[n].sent[kind]
        <4>1. lost' # lost \cup {n}
          BY <2>4
        <4> QED BY <1>5, <4>1, SentDelta
      <3> PICK x : x = Len(down) + 1
        OBVIOUS
      <3>2. x \in DOMAIN down' /\ down'[x] = m
        <4>1. DOMAIN down' = 1..x /\ down'[x] = m
          BY <3>1, OneMore
        <4>2. x \in 1..x
          BY WireTyped
        <4> QED BY <4>1, <4>2
      <3> QED BY <2>4, <3>1, <3>2 DEF Coming, IsPiece
    <2> QED BY <1>3, <2>1, <2>3, <2>4
  <1>6. CASE ServeSubscribe \/ Reconnect \/ AnswerSnapshot \/ Quiet
    <2>1. steps' = steps
      BY <1>6 DEF ServeSubscribe, Reconnect, AnswerSnapshot, Quiet, daemonVars
    <2> QED BY <1>3, <2>1
  <1> QED BY <1>4, <1>5, <1>6 DEF Outside

(* A piece that is shown stays so, unless its step is retried.             *)
LEMMA RenderedStays ==
    ASSUME NoLostText, NEW a, NEW k \in Kinds, NEW o, Rendered(a, k, o)
    PROVE  Rendered(a, k, o)'
  <1>1. PICK i \in DOMAIN shown : \E p, j :
               Of(shown[i].content, a, k, p, j) /\ Offset(shown[i].content, p, j) = o
    BY DEF Rendered
  <1>2. PICK p, j : Of(shown[i].content, a, k, p, j) /\ Offset(shown[i].content, p, j) = o
    BY <1>1
  <1>3. i \in DOMAIN shown' /\ SameStream(shown[i].content, shown'[i].content, a, k)
    BY DEF NoLostText
  <1>4. Of(shown'[i].content, a, k, p, j) /\ Offset(shown'[i].content, p, j) = o
    BY <1>2, <1>3 DEF SameStream
  <1> QED BY <1>3, <1>4 DEF Rendered

LEMMA DeltaRenders ==
    ASSUME Types, MessageInv, ProjectDelta, NEW a, NEW k \in Kinds, NEW o,
           Rendered(a, k, o) \/ IsPiece(Head(down), a, k, o)
    PROVE  Rendered(a, k, o)'
  <1> PICK m : m = Head(down)
    OBVIOUS
  <1> PICK b : b = current
    OBVIOUS
  <1> PICK c : c = log[b].content
    OBVIOUS
  <1> PICK kind : kind = m.kind
    OBVIOUS
  <1> PICK piece : piece = <<m.step, m.offset>>
    OBVIOUS
  <1> PICK new : new = AppendDelta(c, kind, piece)
    OBVIOUS
  <1>0. /\ m \in Deltas /\ c \in Seq(PartsType) /\ b \in DOMAIN shown /\ shown[b].content = c
        /\ DOMAIN shown' = DOMAIN shown /\ shown'[b].content = new
        /\ \A i \in DOMAIN shown : i # b => shown'[i] = shown[i]
    BY ScreenAfterDelta
  <1>1. piece \in Nat \X Nat /\ piece[1] = m.step /\ piece[2] = m.offset
    BY <1>0 DEF Deltas
  <1>2. /\ \A p, j : Of(c, a, k, p, j) => Of(new, a, k, p, j) /\ Offset(new, p, j) = Offset(c, p, j)
        /\ \E p, j : Of(new, piece[1], kind, p, j) /\ Offset(new, p, j) = piece[2]
    BY <1>0, <1>1, AppendedPieces
  <1>3. CASE Rendered(a, k, o)
    <2>1. PICK i \in DOMAIN shown : \E p, j :
                 Of(shown[i].content, a, k, p, j) /\ Offset(shown[i].content, p, j) = o
      BY <1>3 DEF Rendered
    <2>2. PICK p, j : Of(shown[i].content, a, k, p, j) /\ Offset(shown[i].content, p, j) = o
      BY <2>1
    <2>3. Of(shown'[i].content, a, k, p, j) /\ Offset(shown'[i].content, p, j) = o
      BY <1>0, <1>2, <2>2
    <2> QED BY <1>0, <2>3 DEF Rendered
  <1>4. CASE IsPiece(m, a, k, o)
    <2>1. piece[1] = a /\ kind = k /\ piece[2] = o
      BY <1>1, <1>4 DEF IsPiece
    <2>2. PICK p, j : Of(new, a, k, p, j) /\ Offset(new, p, j) = o
      BY <1>2, <2>1
    <2> QED BY <1>0, <2>2 DEF Rendered
  <1> QED BY <1>3, <1>4

(* Text that the log has already is shown.                                 *)
LEMMA SkippedIsShown ==
    ASSUME Types, EndInv, MessageInv, JournalInv, WireInv, LinkInv, FollowInv, StreamInv,
           ~misaligned, IsOpen, TakeFrame("delta"), Align(Head(down)) = "skip",
           NEW a, NEW k, NEW o, IsPiece(Head(down), a, k, o)
    PROVE  Rendered(a, k, o)
  <1> PICK m : m = Head(down)
    OBVIOUS
  <1> PICK n : n = len[k]
    OBVIOUS
  <1> PICK c : c = log[current].content
    OBVIOUS
  <1>1. m \in Deltas /\ m.step = a /\ m.kind = k /\ m.offset = o
    <2>1. m = down[1] /\ 1 \in DOMAIN down /\ ~IsDurable(m)
      BY OthersMoveUp DEF IsPiece
    <2> QED BY <2>1, WireTyped DEF IsPiece
  <1>2. k \in Kinds /\ o \in Nat /\ n \in Nat
    BY <1>1 DEF Deltas, MessageInv, MessageTypes
  <1>3. o < n
    BY <1>1, <1>2 DEF Align, AlignedLen
  <1>4. a = StepBy(cursor)
    BY <1>1, FirstFrame
  <1>5. IsStream(c, a, k, n)
    BY <1>2, <1>3, <1>4 DEF StreamInv, CountedStream
  <1>6. PICK p, j : Of(c, a, k, p, j) /\ Offset(c, p, j) = o
    <2>1. o \in 0..(n - 1)
      BY <1>2, <1>3
    <2> QED BY <1>5, <2>1 DEF IsStream
  <1>7. current \in DOMAIN shown /\ shown[current].content = c
    BY OpenBubble
  <1> QED BY <1>6, <1>7 DEF Rendered

LEMMA TakeKeepsComplete ==
    ASSUME Types, EndInv, MessageInv, JournalInv, WireInv, SteadyInv, BubbleInv, AbandonedInv,
           FateInv, LinkInv, FollowInv, StreamInv, CompleteInv, Projects
    PROVE  CompleteInv'
  <1> PICK type : TakeFrame(type)
    BY ProjectsTake
  <1> PICK m : m = Head(down)
    OBVIOUS
  <1>0. /\ UNCHANGED <<steps, journal, transcript, lost, misaligned, repeated>>
        /\ ~required' => ~required
    <2>1. UNCHANGED required \/ required'
      BY DEF Projects, ProjectTurnStarted, ProjectStepStarted, ProjectNothing, ProjectDelta, ProjectGap,
         ProjectToolCall, ProjectToolResult, ProjectStepCompleted, ProjectStepRetrying,
         ProjectStepInterrupted, ProjectTurnEnded, ReceiveResync, fetchVars
    <2>2. UNCHANGED <<steps, journal, transcript, lost, misaligned, repeated>>
      BY FrameKeeps DEF daemonVars, historyVars
    <2> QED BY <2>1, <2>2
  <1> SUFFICES ASSUME Steady, ~required, ~required',
                      NEW a \in DOMAIN steps \ (lost \cup transcript), NEW k \in Kinds,
                      steps[a].fate # "retried", NEW o \in 0..(steps[a].sent[k] - 1)
               PROVE  Rendered(a, k, o)' \/ Coming(a, k, o)'
    BY <1>0 DEF CompleteInv, Steady
  <1>1. /\ 1 \in DOMAIN down /\ m = down[1] /\ m.type = type
        /\ \A i \in DOMAIN down : i = 1 \/ (i - 1 \in DOMAIN down' /\ down'[i - 1] = down[i])
    BY OthersMoveUp
  <1>2. Rendered(a, k, o) \/ IsPiece(m, a, k, o) \/ Coming(a, k, o)'
    <2>1. ASSUME NEW i \in DOMAIN down, IsPiece(down[i], a, k, o)
          PROVE  IsPiece(m, a, k, o) \/ Coming(a, k, o)'
      <3>1. CASE i = 1
        BY <1>1, <2>1, <3>1
      <3>2. CASE i # 1
        BY <1>1, <2>1, <3>2 DEF Coming
      <3> QED BY <3>1, <3>2
    <2>2. Rendered(a, k, o) \/ Coming(a, k, o)
      BY DEF CompleteInv
    <2> QED BY <2>1, <2>2 DEF Coming
  <1>3. ASSUME Rendered(a, k, o)
        PROVE  Rendered(a, k, o)'
    <2>1. CASE ProjectDelta
      BY <1>3, <2>1, DeltaRenders
    <2>2. CASE ProjectStepRetrying
      <3>0. TakeFrame("turn.step.retrying") /\ "turn.step.retrying" \in Durables
        BY <2>2 DEF ProjectStepRetrying, Durables
      <3> PICK q : q = cursor + 1
        OBVIOUS
      <3>1. /\ StepBy(q) = m.step /\ Retrying(q) /\ m.step = StepBy(cursor) /\ q \in 1..Len(journal)
        BY <3>0, NextDurable, NextFrame DEF Steady
      <3>2. q \in DOMAIN journal /\ journal[q].step = StepBy(cursor)
        BY <3>1, WireTyped DEF StepBy
      <3>3. a # StepBy(cursor)
        BY <3>1, <3>2 DEF FateInv
      <3>4. PICK i \in DOMAIN shown : \E p, j :
                   Of(shown[i].content, a, k, p, j) /\ Offset(shown[i].content, p, j) = o
        BY <1>3 DEF Rendered
      <3>5. PICK p, j : Of(shown[i].content, a, k, p, j) /\ Offset(shown[i].content, p, j) = o
        BY <3>4
      <3>6. ~(IsOpen /\ shown[i].content = log[current].content)
        <4>1. ASSUME IsOpen, shown[i].content = log[current].content
              PROVE  FALSE
          <5>1. a \in StepsIn(log[current].content)
            <6>1. a \in Nat
              BY StepsTyped
            <6> QED BY <3>5, <4>1, <6>1 DEF Of, At, StepsIn
          <5> QED BY <3>3, <4>1, <5>1 DEF BubbleInv
        <4> QED BY <4>1
      <3>7. i \in DOMAIN shown' /\ shown'[i] = shown[i]
        BY <2>2, <3>6, ScreenAfterRetry
      <3> QED BY <3>5, <3>7 DEF Rendered
    <2>3. CASE ~ProjectDelta /\ ~ProjectStepRetrying
      BY <1>3, <2>3, ScreenAfterFrame, RenderedStays DEF Projects
    <2> QED BY <2>1, <2>2, <2>3
  <1>4. ASSUME IsPiece(m, a, k, o)
        PROVE  Rendered(a, k, o)'
    <2>1. type = "delta"
      BY <1>1, <1>4 DEF IsPiece, IsDurable
    <2>2. ProjectNothing \/ ProjectDelta \/ ProjectGap
      BY <1>1, <2>1 DEF Projects, ProjectTurnStarted, ProjectStepStarted,
         ProjectToolCall, ProjectToolResult, ProjectStepCompleted, ProjectStepRetrying,
         ProjectStepInterrupted, ProjectTurnEnded, ReceiveResync, TakeFrame
    <2>3. ~ProjectGap
      BY DEF ProjectGap
    <2>4. IsOpen
      <3>1. InStep(cursor)
        BY <2>1, NextFrame
      <3> QED BY <3>1 DEF AbandonedInv
    <2>5. CASE ProjectNothing
      <3>1. TakeFrame("delta") /\ Align(m) = "skip" /\ UNCHANGED shown
        BY <2>4, <2>5 DEF ProjectNothing, KeepMessages
      <3>2. Rendered(a, k, o)
        BY <1>4, <2>4, <3>1, SkippedIsShown DEF Steady
      <3> QED BY <1>3, <3>2
    <2>6. CASE ProjectDelta
      BY <1>4, <2>6, DeltaRenders
    <2> QED BY <2>2, <2>3, <2>5, <2>6
  <1> QED BY <1>2, <1>3, <1>4

LEMMA ApplyKeepsComplete ==
    ASSUME Types, AnswerInv, ApplySnapshot
    PROVE  CompleteInv'
  <1> PICK snap : snap = fetch
    OBVIOUS
  <1> PICK c : c = SeedContent(snap)
    OBVIOUS
  <1>0. /\ snap \in Snapshots /\ snap.phase = "answered" /\ UNCHANGED <<steps, down>>
        /\ transcript' = snap.done /\ lost' = LostBehind(snap)
        /\ \A i \in DOMAIN shown' : i = 1 /\ shown'[i].content = c
        /\ snap.inFlight => 1 \in DOMAIN shown'
    BY SeededScreen
  <1> SUFFICES ASSUME NEW a \in DOMAIN steps, a \notin LostBehind(snap), a \notin snap.done,
                      NEW k \in Kinds, steps[a].fate # "retried",
                      NEW o \in 0..(steps[a].sent[k] - 1)
               PROVE  Rendered(a, k, o)' \/ Coming(a, k, o)'
    BY <1>0 DEF CompleteInv
  <1>1. a \in Nat /\ snap.steps \in Nat /\ snap.sent[k] \in Nat /\ o \in Nat
    BY <1>0, StepsTyped DEF Snapshots
  <1>2. a >= snap.steps
    BY <1>0, <1>1 DEF AnswerInv
  <1>3. \/ a = snap.steps /\ o < snap.sent[k]
        \/ \E i \in DOMAIN down : /\ down[i].type = "delta" /\ down[i].step = a
                                  /\ down[i].kind = k /\ down[i].offset = o
    BY <1>2 DEF LostBehind
  <1>4. CASE a = snap.steps /\ o < snap.sent[k]
    <2>1. snap.inFlight /\ 1 \in DOMAIN shown' /\ shown'[1].content = c
      <3>1. snap.sent[k] > 0
        BY <1>1, <1>4
      <3> QED BY <1>0, <3>1 DEF AnswerInv
    <2>2. IsStream(c, a, k, snap.sent[k])
      BY <1>0, <1>4, SeededStreams
    <2>3. o \in 0..(snap.sent[k] - 1)
      BY <1>1, <1>4
    <2>4. PICK p, j : Of(c, a, k, p, j) /\ Offset(c, p, j) = o
      BY <2>2, <2>3 DEF IsStream
    <2> QED BY <2>1, <2>4 DEF Rendered
  <1>5. CASE \E i \in DOMAIN down : /\ down[i].type = "delta" /\ down[i].step = a
                                    /\ down[i].kind = k /\ down[i].offset = o
    BY <1>0, <1>5 DEF Coming, IsPiece, IsDurable
  <1> QED BY <1>3, <1>4, <1>5

LEMMA CompleteHolds ==
    ASSUME TextInv, Types', FateInv, AnswerInv, LinkInv, FollowInv, StreamInv, CompleteInv,
           [Next]_vars
    PROVE  CompleteInv'
  <1>1. /\ Types /\ EndInv /\ MessageInv /\ JournalInv /\ WireInv /\ SteadyInv /\ BubbleInv
        /\ AbandonedInv
    BY DEF TextInv, IInv
  <1> QED BY <1>1, OutsideKeepsComplete, TakeKeepsComplete, ApplyKeepsComplete, StepKinds DEF Outside

----------------------------------------------------------------------------
(* The invariant of the text on the screen.                                *)
ShownInv ==
    /\ TextInv
    /\ FateInv /\ DeltaInv /\ RenderedInv /\ AnswerInv
    /\ LinkInv /\ FollowInv /\ StreamInv /\ CompleteInv

LEMMA ShownInitHolds == Init => ShownInv
  <1> SUFFICES ASSUME Init
               PROVE  ShownInv
    OBVIOUS
  <1>1. /\ journal = <<>> /\ phase = "idle" /\ steps = <<>> /\ ~served
        /\ down = <<>> /\ up = <<>> /\ current = 0
        /\ shown = NoMessages /\ transcript = {} /\ fetch = Sent
    BY DEF Init
  <1>2. /\ DOMAIN journal = {} /\ DOMAIN steps = {} /\ DOMAIN down = {} /\ DOMAIN up = {}
        /\ DOMAIN shown = {}
    BY <1>1 DEF NoMessages
  <1>3. FateInv
    BY <1>1, <1>2 DEF FateInv
  <1>4. DeltaInv /\ RenderedInv /\ AnswerInv
    BY <1>1, <1>2 DEF DeltaInv, RenderedInv, AnswerInv, Sent
  <1>5. LinkInv /\ FollowInv
    BY <1>1, <1>2 DEF LinkInv, FollowInv
  <1>6. StreamInv /\ CompleteInv
    BY <1>1, <1>2 DEF StreamInv, ShownStreams, CountedStream, IsOpen, CompleteInv
  <1> QED BY <1>3, <1>4, <1>5, <1>6, TextInitHolds DEF ShownInv

LEMMA ShownStepHolds == ShownInv /\ [Next]_vars => ShownInv'
  <1> SUFFICES ASSUME ShownInv, [Next]_vars
               PROVE  ShownInv'
    OBVIOUS
  <1>1. /\ TextInv /\ Types /\ EndInv /\ MessageInv /\ JournalInv /\ WireInv /\ SnapshotInv
        /\ FateInv /\ DeltaInv /\ RenderedInv /\ AnswerInv
        /\ LinkInv /\ FollowInv /\ StreamInv /\ CompleteInv
    BY DEF ShownInv, TextInv, IInv
  <1>2. TextInv' /\ Types' /\ MessageInv'
    BY <1>1, TextStepHolds, TypesHold, MessagesHold
  <1>3. FateInv' /\ DeltaInv'
    BY <1>1, <1>2, FateHolds, DeltaHolds
  <1>4. RenderedInv' /\ AnswerInv'
    BY <1>1, <1>2, RenderedHolds, AnswerHolds
  <1>5. LinkInv' /\ FollowInv'
    BY <1>1, <1>2, LinkHolds, FollowHolds
  <1>6. StreamInv' /\ CompleteInv'
    BY <1>1, <1>2, StreamHolds, CompleteHolds
  <1> QED BY <1>2, <1>3, <1>4, <1>5, <1>6 DEF ShownInv

(* The places of a stream are those of its pieces.                         *)
LEMMA PlacesOf ==
    ASSUME NEW a, NEW k
    PROVE  /\ \A s \in Places(a, k) : \E i \in DOMAIN shown : \E p, j :
                /\ s = <<i, p, j>> /\ Of(shown[i].content, a, k, p, j)
                /\ OffsetAt(s) = Offset(shown[i].content, p, j)
           /\ \A i \in DOMAIN shown : \A p, j : Of(shown[i].content, a, k, p, j) =>
                /\ <<i, p, j>> \in Places(a, k)
                /\ OffsetAt(<<i, p, j>>) = Offset(shown[i].content, p, j)
  <1>1. ASSUME NEW s \in Places(a, k)
        PROVE  \E i \in DOMAIN shown : \E p, j :
                 /\ s = <<i, p, j>> /\ Of(shown[i].content, a, k, p, j)
                 /\ OffsetAt(s) = Offset(shown[i].content, p, j)
    <2>1. s \in AllPlaces /\ PartAt(s).type = k /\ StepAt(s) = a
      BY DEF Places
    <2>2. PICK i \in DOMAIN shown : \E p \in DOMAIN shown[i].content :
                 \E j \in DOMAIN shown[i].content[p].body : s = <<i, p, j>>
      BY <2>1 DEF AllPlaces
    <2>3. PICK p \in DOMAIN shown[i].content :
                 \E j \in DOMAIN shown[i].content[p].body : s = <<i, p, j>>
      BY <2>2
    <2>4. PICK j \in DOMAIN shown[i].content[p].body : s = <<i, p, j>>
      BY <2>3
    <2>5. /\ Of(shown[i].content, a, k, p, j)
          /\ OffsetAt(s) = Offset(shown[i].content, p, j)
      BY <2>1, <2>4 DEF Of, At, Offset, OffsetAt, StepAt, PartAt
    <2> QED BY <2>4, <2>5
  <1>2. ASSUME NEW i \in DOMAIN shown, NEW p, NEW j, Of(shown[i].content, a, k, p, j)
        PROVE  /\ <<i, p, j>> \in Places(a, k)
               /\ OffsetAt(<<i, p, j>>) = Offset(shown[i].content, p, j)
    <2> PICK s : s = <<i, p, j>>
      OBVIOUS
    <2>1. /\ p \in DOMAIN shown[i].content /\ j \in DOMAIN shown[i].content[p].body
          /\ shown[i].content[p].type = k /\ shown[i].content[p].body[j][1] = a
      BY <1>2 DEF Of, At
    <2>2. s \in AllPlaces
      BY <2>1 DEF AllPlaces
    <2>3. PartAt(s).type = k /\ StepAt(s) = a /\ OffsetAt(s) = Offset(shown[i].content, p, j)
      BY <2>1 DEF PartAt, StepAt, OffsetAt, Offset
    <2> QED BY <2>2, <2>3 DEF Places
  <1> QED BY <1>1, <1>2

(* As many as are numbered from 0 to n - 1, each once.                     *)
LEMMA Counted ==
    ASSUME NEW S, NEW n \in Nat, NEW f, \A s \in S : f[s] \in 0..(n - 1),
           \A o \in 0..(n - 1) : \E s \in S : f[s] = o,
           \A s, t \in S : f[s] = f[t] => s = t
    PROVE  Cardinality(S) = n
  <1> PICK g : g = [x \in 1..n |-> CHOOSE s \in S : f[s] = x - 1]
    OBVIOUS
  <1>1. ASSUME NEW x \in 1..n
        PROVE  g[x] \in S /\ f[g[x]] = x - 1
    <2>1. x - 1 \in 0..(n - 1)
      OBVIOUS
    <2>2. \E s \in S : f[s] = x - 1
      BY <2>1
    <2>3. g[x] = CHOOSE s \in S : f[s] = x - 1
      OBVIOUS
    <2> QED BY <2>2, <2>3
  <1>2. g \in [1..n -> S]
    BY <1>1
  <1>3. \A x, y \in 1..n : g[x] = g[y] => x = y
    BY <1>1
  <1>4. ASSUME NEW s \in S
        PROVE  \E x \in 1..n : g[x] = s
    <2> PICK x : x = f[s] + 1
      OBVIOUS
    <2>1. x \in 1..n /\ x - 1 = f[s]
      <3>1. f[s] \in 0..(n - 1)
        OBVIOUS
      <3> QED BY <3>1
    <2>2. g[x] \in S /\ f[g[x]] = f[s]
      BY <1>1, <2>1
    <2> QED BY <2>1, <2>2
  <1>5. g \in Bijection(1..n, S)
    BY <1>2, <1>3, <1>4 DEF Bijection, Injection, Surjection, IsInjective
  <1>6. ExistsBijection(1..n, S)
    BY <1>5 DEF ExistsBijection
  <1> QED BY <1>6, FS_CountingElements

(* The text of a step in flight is on the screen as a prefix of what the   *)
(* daemon streamed, in order, no piece twice and none left out, and a step *)
(* rendered from the snapshot has no second bubble with text (alignDelta   *)
(* and seedInFlight in agentEventProjector.ts, assistantDelta in           *)
(* eventReducer.ts), whatever is replayed, dropped or retried, unless the  *)
(* last snapshot did not meet the stream or its merge kept a bubble of the *)
(* step (mergeSnapshotMessages in snapshotMessages.ts).                    *)
THEOREM StreamsInOrder == Spec => []ShownPrefix
  <1>1. ShownInv => ShownPrefix
    <2> SUFFICES ASSUME ShownInv, ~misaligned, NEW a \in DOMAIN steps \ kept, NEW k \in Kinds,
                        NEW at, at = Places(a, k)
                 PROVE  /\ a \in transcript => at = {}
                        /\ \A s, t \in at : Precedes(s, t) <=> OffsetAt(s) < OffsetAt(t)
                        /\ {OffsetAt(s) : s \in at} = 0..(Cardinality(at) - 1)
      BY DEF ShownPrefix
    <2>0. MessageInv /\ ShownStreams
      BY DEF ShownInv, TextInv, IInv, StreamInv
    <2>1. ASSUME NEW s \in at
          PROVE  \E i \in DOMAIN shown : Holds(shown[i].content, a, k)
      BY PlacesOf DEF Holds
    <2>2. a \in transcript => at = {}
      BY <2>0, <2>1 DEF ShownStreams
    <2>3. CASE at = {}
      <3>1. Cardinality(at) = 0
        BY <2>3, FS_EmptySet
      <3>2. 0..(0 - 1) = {}
        OBVIOUS
      <3> QED BY <2>2, <2>3, <3>1, <3>2
    <2>4. CASE at # {}
      <3>1. PICK i \in DOMAIN shown : Holds(shown[i].content, a, k)
        BY <2>1, <2>4
      <3> PICK c : c = shown[i].content
        OBVIOUS
      <3>2. c \in Seq(PartsType) /\ i \in Nat
        BY <2>0, MessageContents DEF MessageInv, MessageTypes, IsMessages
      <3>3. PICK n \in Nat \ {0} : IsStream(c, a, k, n)
        BY <2>0, <3>1 DEF ShownStreams
      <3>4. ASSUME NEW s \in at
            PROVE  \E p, j : /\ s = <<i, p, j>> /\ Of(c, a, k, p, j) /\ OffsetAt(s) = Offset(c, p, j)
                             /\ p \in Nat /\ j \in Nat /\ Offset(c, p, j) \in 0..(n - 1)
        <4>1. PICK b \in DOMAIN shown : \E p, j :
                     /\ s = <<b, p, j>> /\ Of(shown[b].content, a, k, p, j)
                     /\ OffsetAt(s) = Offset(shown[b].content, p, j)
          BY PlacesOf
        <4>2. PICK p, j : /\ s = <<b, p, j>> /\ Of(shown[b].content, a, k, p, j)
                          /\ OffsetAt(s) = Offset(shown[b].content, p, j)
          BY <4>1
        <4>3. b = i
          BY <2>0, <3>1, <4>2 DEF Holds, ShownStreams
        <4>4. Of(c, a, k, p, j) /\ OffsetAt(s) = Offset(c, p, j)
          BY <4>2, <4>3
        <4>5. p \in Nat /\ j \in Nat /\ Offset(c, p, j) \in Nat
          BY <3>2, <4>4, PieceTypes
        <4>6. Offset(c, p, j) < n
          BY <3>3, <4>4 DEF IsStream
        <4> QED BY <4>2, <4>3, <4>4, <4>5, <4>6
      <3>5. ASSUME NEW s \in at, NEW t \in at
            PROVE  /\ Precedes(s, t) <=> OffsetAt(s) < OffsetAt(t)
                   /\ OffsetAt(s) = OffsetAt(t) => s = t
        <4>1. PICK p, j : /\ s = <<i, p, j>> /\ Of(c, a, k, p, j) /\ OffsetAt(s) = Offset(c, p, j)
                          /\ p \in Nat /\ j \in Nat /\ Offset(c, p, j) \in 0..(n - 1)
          BY <3>4
        <4>2. PICK q, x : /\ t = <<i, q, x>> /\ Of(c, a, k, q, x) /\ OffsetAt(t) = Offset(c, q, x)
                          /\ q \in Nat /\ x \in Nat /\ Offset(c, q, x) \in 0..(n - 1)
          BY <3>4
        <4>3. Before(p, j, q, x) <=> Offset(c, p, j) < Offset(c, q, x)
          BY <3>3, <4>1, <4>2 DEF IsStream
        <4>4. Before(q, x, p, j) <=> Offset(c, q, x) < Offset(c, p, j)
          BY <3>3, <4>1, <4>2 DEF IsStream
        <4>5. Precedes(s, t) <=> Before(p, j, q, x)
          BY <3>2, <4>1, <4>2 DEF Precedes, Before
        <4>6. ASSUME OffsetAt(s) = OffsetAt(t)
              PROVE  s = t
          <5>1. ~Before(p, j, q, x) /\ ~Before(q, x, p, j)
            BY <4>1, <4>2, <4>3, <4>4, <4>6
          <5>2. p = q /\ j = x
            BY <4>1, <4>2, <5>1 DEF Before
          <5> QED BY <4>1, <4>2, <5>2
        <4> QED BY <4>1, <4>2, <4>3, <4>5, <4>6
      <3>6. ASSUME NEW o \in 0..(n - 1)
            PROVE  \E s \in at : OffsetAt(s) = o
        <4>1. PICK p, j : Of(c, a, k, p, j) /\ Offset(c, p, j) = o
          BY <3>3 DEF IsStream
        <4>2. <<i, p, j>> \in at /\ OffsetAt(<<i, p, j>>) = o
          BY <4>1, PlacesOf
        <4> QED BY <4>2
      <3>7. \A s \in at : OffsetAt(s) \in 0..(n - 1)
        BY <3>4
      <3>8. Cardinality(at) = n
        <4> PICK f : f = [s \in at |-> OffsetAt(s)]
          OBVIOUS
        <4>1. \A s \in at : f[s] = OffsetAt(s)
          OBVIOUS
        <4> QED BY <3>5, <3>6, <3>7, <4>1, Counted
      <3>9. {OffsetAt(s) : s \in at} = 0..(n - 1)
        BY <3>6, <3>7
      <3> QED BY <2>2, <3>5, <3>8, <3>9
    <2> QED BY <2>3, <2>4
  <1> QED BY <1>1, ShownInitHolds, ShownStepHolds, PTL DEF Spec

(* A finished step is on the screen whole, once the frames up to its end   *)
(* have arrived: the alignment of deltas (alignDelta in                    *)
(* agentEventProjector.ts) skips nothing it should have appended, and no   *)
(* retry, resync or snapshot takes text away that is not to come again.    *)
(* Exempt are a pending repair and steps some delta of which was dropped.  *)
THEOREM FinishedStepsWhole == Spec => []ShownComplete
  <1>1. ShownInv => ShownComplete
    <2> SUFFICES ASSUME ShownInv, ~required, ~misaligned, ~repeated,
                        NEW a \in DOMAIN steps \ (lost \cup transcript), NEW k \in Kinds,
                        NEW r \in 1..cursor,
                        journal[r].type = "turn.step.completed", journal[r].step = a
                 PROVE  {OffsetAt(s) : s \in Places(a, k)} = 0..(steps[a].sent[k] - 1)
      BY DEF ShownComplete
    <2>0. /\ Types /\ MessageInv /\ WireInv /\ FateInv /\ RenderedInv /\ FollowInv /\ CompleteInv
      BY DEF ShownInv, TextInv, IInv
    <2> PICK n : n = steps[a].sent[k]
      OBVIOUS
    <2>1. /\ n \in Nat /\ cursor \in 0..Len(journal) /\ DOMAIN journal = 1..Len(journal)
          /\ Len(journal) \in Nat
          /\ \A i \in DOMAIN down : down[i].seq \in 0..Len(journal)
      BY <2>0, StepsTyped, WireTyped DEF Types, WireTypes
    <2>2. r \in DOMAIN journal
      BY <2>1
    <2>3. steps[a].fate # "retried"
      BY <2>0, <2>2 DEF FateInv
    <2>4. ASSUME NEW s \in Places(a, k)
          PROVE  OffsetAt(s) \in 0..(n - 1)
      <3>1. PICK i \in DOMAIN shown : \E p, j :
                   /\ s = <<i, p, j>> /\ Of(shown[i].content, a, k, p, j)
                   /\ OffsetAt(s) = Offset(shown[i].content, p, j)
        BY PlacesOf
      <3>2. PICK p, j : /\ Of(shown[i].content, a, k, p, j)
                        /\ OffsetAt(s) = Offset(shown[i].content, p, j)
        BY <3>1
      <3>3. shown[i].content \in Seq(PartsType)
        BY <2>0, MessageContents
      <3>4. OffsetAt(s) \in Nat
        BY <3>2, <3>3, PieceTypes
      <3>5. OffsetAt(s) < n
        BY <2>0, <3>2 DEF RenderedInv, Streamed
      <3> QED BY <2>1, <3>4, <3>5
    <2>5. ASSUME NEW o \in 0..(n - 1)
          PROVE  \E s \in Places(a, k) : OffsetAt(s) = o
      <3>1. Rendered(a, k, o) \/ Coming(a, k, o)
        BY <2>0, <2>3 DEF CompleteInv, Steady
      (* A delta in transit would be older than the end of its step.       *)
      <3>2. ~Coming(a, k, o)
        <4> SUFFICES ASSUME NEW i \in DOMAIN down, ~IsDurable(down[i]), down[i].step = a
                     PROVE  FALSE
          BY DEF Coming, IsPiece
        <4> PICK q : q = down[i].seq
          OBVIOUS
        <4>1. cursor <= q
          BY <2>0 DEF FollowInv, Follows
        <4>2. InStep(q) /\ journal[q].step = a
          BY <2>0 DEF WireInv, DeltaInPlace
        <4>3. q \in DOMAIN journal /\ r \in 1..q
          BY <2>1, <4>1
        <4> QED BY <2>0, <4>2, <4>3 DEF FateInv
      <3>3. PICK i \in DOMAIN shown : \E p, j :
                   Of(shown[i].content, a, k, p, j) /\ Offset(shown[i].content, p, j) = o
        BY <3>1, <3>2 DEF Rendered
      <3>4. PICK p, j : Of(shown[i].content, a, k, p, j) /\ Offset(shown[i].content, p, j) = o
        BY <3>3
      <3>5. <<i, p, j>> \in Places(a, k) /\ OffsetAt(<<i, p, j>>) = o
        BY <3>4, PlacesOf
      <3> QED BY <3>5
    <2> QED BY <2>4, <2>5
  <1> QED BY <1>1, ShownInitHolds, ShownStepHolds, PTL DEF Spec

=============================================================================
