------------------------- MODULE TaskPoller_proofs -------------------------
(***************************************************************************)
(* For any tasks, sessions and bounds: what runs on display is polled, and *)
(* an agent whose end was told is never shown running again.               *)
(***************************************************************************)
EXTENDS TaskPoller, TLAPS, SequenceTheorems

(* The watcher leaves a running session polled, whatever the rows were     *)
(* changed to.                                                             *)
LEMMA WatchPolls ==
    ASSUME NEW before, Watch(before)
    PROVE  RunningIsPolled'
  <1>1. CASE active' = NoSession
    BY <1>1 DEF RunningIsPolled
  <1>2. CASE active' # NoSession /\ HasRunning(active', rest', live')
    BY <1>2 DEF Watch, StartPolling, RunningIsPolled
  <1>3. CASE active' # NoSession /\ ~HasRunning(active', rest', live')
    BY <1>3 DEF RunningIsPolled, HasRunning
  <1> QED BY <1>1, <1>2, <1>3

LEMMA PolledStep == RunningIsPolled /\ [PollerNext]_pollerVars => RunningIsPolled'
  <1> SUFFICES ASSUME RunningIsPolled, [PollerNext]_pollerVars
               PROVE  RunningIsPolled'
    OBVIOUS
  <1> USE DEF rowVars, pollVars, jobVars
  <1>1. ASSUME UNCHANGED <<rowVars, active, pollVars>>
        PROVE  RunningIsPolled'
    BY <1>1 DEF RunningIsPolled, HasRunning
  <1>2. ASSUME NEW t \in Jobs, JobStarts(t) \/ JobEnds(t)
        PROVE  RunningIsPolled'
    BY <1>1, <1>2 DEF JobStarts, JobEnds
  <1>3. ASSUME NEW i \in DOMAIN calls, ReadList(i) \/ ListFails(i)
        PROVE  RunningIsPolled'
    BY <1>1, <1>3 DEF ReadList, ListFails
  <1>4. ASSUME NEW i \in DOMAIN calls, WriteRows(i)
        PROVE  RunningIsPolled'
    BY <1>4, WatchPolls DEF WriteRows
  <1>5. CASE ReceiveEvent
    BY <1>5, WatchPolls DEF ReceiveEvent
  <1>6. CASE Tick
    BY <1>6 DEF Tick, RunningIsPolled, HasRunning
  <1>7. CASE StopAfterBeat
    BY <1>7 DEF StopAfterBeat, RunningIsPolled, HasRunning
  <1>8. ASSUME NEW s \in TaskSessions \cup {NoSession}, Show(s)
        PROVE  RunningIsPolled'
    BY <1>8, WatchPolls DEF Show
  <1>9. CASE UNCHANGED pollerVars
    BY <1>1, <1>9 DEF pollerVars
  <1> QED BY <1>2, <1>3, <1>4, <1>5, <1>6, <1>7, <1>8, <1>9 DEF PollerNext

(* While the session on display has a running row its timer runs and is    *)
(* not about to be stopped (the watcher of useTaskPoller.ts:247).          *)
THEOREM RunningPolled == PollerSpec => []RunningIsPolled
  <1>1. PollerInit => RunningIsPolled
    BY DEF PollerInit, RunningIsPolled, HasRunning
  <1> QED BY <1>1, PolledStep, PTL DEF PollerSpec

----------------------------------------------------------------------------
(* That an end sticks is not inductive: an event of a running agent might  *)
(* still be in transit behind the end.  It is not, since events keep their *)
(* order and an agent starts once.                                         *)

EventTypes == {"spawned", "started", "completed", "terminated"}

Events == EventTypes \X Jobs

Shapes ==
    /\ DOMAIN job = Jobs /\ DOMAIN live = Agents
    /\ wire \in Seq(Events)

(* Event i of the wire says that agent a runs.                             *)
SaysRunning(w, i, a) == w[i] = <<"spawned", a>> \/ w[i] = <<"started", a>>

(* A running event is of an agent that was started, and before its end.    *)
EndComesLast ==
    \A a \in Agents : \A i \in 1..Len(wire) :
        SaysRunning(wire, i, a) =>
            /\ job[a] # "absent"
            /\ job[a] = "done" => \E j \in (i + 1)..Len(wire) : wire[j] = <<"completed", a>>

EndInv == Shapes /\ EndComesLast /\ AgentEndSticks

(* Adding u to the wire keeps what is there in its place.                  *)
LEMMA Added ==
    ASSUME Shapes, NEW u \in Seq(Events), wire' = wire \o u
    PROVE  /\ wire' \in Seq(Events) /\ Len(wire') = Len(wire) + Len(u)
           /\ \A i \in 1..Len(wire) : wire'[i] = wire[i]
           /\ \A i \in 1..Len(u) : wire'[Len(wire) + i] = u[i]
           /\ Len(wire) \in Nat /\ Len(u) \in Nat
  BY ConcatProperties, LenProperties DEF Shapes

LEMMA StartKeepsEnds ==
    ASSUME PollerConstants, EndInv, NEW t \in Jobs, JobStarts(t)
    PROVE  EndInv'
  <1> DEFINE u == IF t \in Agents THEN <<<<"spawned", t>>, <<"started", t>>>>
                                  ELSE <<<<"started", t>>>>
  <1>1. u \in Seq(Events) /\ \A i \in 1..Len(u) : u[i][2] = t
    <2>1. <<"spawned", t>> \in Events /\ <<"started", t>> \in Events
      BY DEF Events, EventTypes
    <2>2. CASE t \in Agents
      BY <2>1, <2>2
    <2>3. CASE t \notin Agents
      BY <2>1, <2>3
    <2> QED BY <2>2, <2>3
  <1>2. /\ job[t] = "absent" /\ job' = [job EXCEPT ![t] = "running"] /\ UNCHANGED live
        /\ wire' = wire \o u
    BY DEF JobStarts, rowVars
  <1> HIDE DEF u
  <1>3. /\ wire' \in Seq(Events) /\ Len(wire') = Len(wire) + Len(u)
        /\ \A i \in 1..Len(wire) : wire'[i] = wire[i]
        /\ \A i \in 1..Len(u) : wire'[Len(wire) + i] = u[i]
        /\ Len(wire) \in Nat /\ Len(u) \in Nat
    BY <1>1, <1>2, Added DEF EndInv
  <1>4. Shapes'
    BY <1>2, <1>3 DEF EndInv, Shapes
  <1>5. \A a \in Agents : a # t => job'[a] = job[a]
    BY <1>2 DEF EndInv, Shapes, PollerConstants
  <1>6. EndComesLast'
    <2> SUFFICES ASSUME NEW a \in Agents, NEW i \in 1..Len(wire'), SaysRunning(wire', i, a)
                 PROVE  /\ job'[a] # "absent"
                        /\ job'[a] = "done" =>
                             \E j \in (i + 1)..Len(wire') : wire'[j] = <<"completed", a>>
      BY DEF EndComesLast
    <2>1. CASE a = t
      BY <1>2, <2>1 DEF EndInv, Shapes
    <2>2. CASE a # t
      <3>1. wire'[i][2] = a
        BY DEF SaysRunning
      <3>2. i \in 1..Len(wire)
        <4>1. CASE i > Len(wire)
          <5>1. i - Len(wire) \in 1..Len(u) /\ Len(wire) + (i - Len(wire)) = i
            BY <1>3, <4>1
          <5>2. wire'[i] = u[i - Len(wire)]
            BY <1>3, <5>1
          <5>3. wire'[i][2] = t
            BY <1>1, <5>1, <5>2
          <5> QED BY <2>2, <3>1, <5>3
        <4> QED BY <1>3, <4>1
      <3>3. SaysRunning(wire, i, a) /\ job'[a] = job[a]
        BY <1>3, <1>5, <2>2, <3>2 DEF SaysRunning
      <3>4. /\ job[a] # "absent"
            /\ job[a] = "done" => \E j \in (i + 1)..Len(wire) : wire[j] = <<"completed", a>>
        BY <3>2, <3>3 DEF EndInv, EndComesLast
      <3>5. ASSUME NEW j \in (i + 1)..Len(wire), wire[j] = <<"completed", a>>
            PROVE  j \in (i + 1)..Len(wire') /\ wire'[j] = <<"completed", a>>
        BY <1>3, <3>2, <3>5
      <3> QED BY <3>3, <3>4, <3>5
    <2> QED BY <2>1, <2>2
  <1>7. AgentEndSticks'
    <2> SUFFICES ASSUME NEW a \in Agents, Ended(a)'
                 PROVE  live'[a] = "done"
      BY DEF AgentEndSticks
    <2>1. a # t /\ job[a] = "done"
      BY <1>2, <1>5 DEF EndInv, Shapes, Ended
    <2>2. \A i \in DOMAIN wire : wire[i] # <<"completed", a>>
      <3>1. DOMAIN wire' = 1..Len(wire') /\ DOMAIN wire = 1..Len(wire)
        BY <1>3, LenProperties DEF EndInv, Shapes
      <3> QED BY <1>3, <3>1 DEF Ended
    <2> QED BY <1>2, <2>1, <2>2 DEF EndInv, AgentEndSticks, Ended
  <1> QED BY <1>4, <1>6, <1>7 DEF EndInv

LEMMA EndKeepsEnds ==
    ASSUME PollerConstants, EndInv, NEW t \in Jobs, JobEnds(t)
    PROVE  EndInv'
  <1> DEFINE u == IF t \in Agents THEN <<<<"completed", t>>, <<"terminated", t>>>>
                                  ELSE <<<<"terminated", t>>>>
  <1>1. /\ u \in Seq(Events) /\ \A i \in 1..Len(u) : u[i][1] \notin {"spawned", "started"}
        /\ t \in Agents => Len(u) = 2 /\ u[1] = <<"completed", t>>
    <2>1. <<"completed", t>> \in Events /\ <<"terminated", t>> \in Events
      BY DEF Events, EventTypes
    <2>2. CASE t \in Agents
      BY <2>1, <2>2
    <2>3. CASE t \notin Agents
      BY <2>1, <2>3
    <2> QED BY <2>2, <2>3
  <1>2. /\ job[t] = "running" /\ job' = [job EXCEPT ![t] = "done"] /\ UNCHANGED live
        /\ wire' = wire \o u
    BY DEF JobEnds, rowVars
  <1> HIDE DEF u
  <1>3. /\ wire' \in Seq(Events) /\ Len(wire') = Len(wire) + Len(u)
        /\ \A i \in 1..Len(wire) : wire'[i] = wire[i]
        /\ \A i \in 1..Len(u) : wire'[Len(wire) + i] = u[i]
        /\ Len(wire) \in Nat /\ Len(u) \in Nat
    BY <1>1, <1>2, Added DEF EndInv
  <1>4. Shapes'
    BY <1>2, <1>3 DEF EndInv, Shapes
  <1>5. \A a \in Agents : a # t => job'[a] = job[a]
    BY <1>2 DEF EndInv, Shapes, PollerConstants
  <1>6. t \in Agents => /\ Len(wire) + 1 \in 1..Len(wire')
                        /\ wire'[Len(wire) + 1] = <<"completed", t>>
    BY <1>1, <1>3, SMTT(40)
  <1>7. EndComesLast'
    <2> SUFFICES ASSUME NEW a \in Agents, NEW i \in 1..Len(wire'), SaysRunning(wire', i, a)
                 PROVE  /\ job'[a] # "absent"
                        /\ job'[a] = "done" =>
                             \E j \in (i + 1)..Len(wire') : wire'[j] = <<"completed", a>>
      BY DEF EndComesLast
    <2>1. i \in 1..Len(wire)
      <3>1. wire'[i][1] \in {"spawned", "started"}
        BY DEF SaysRunning
      <3>2. CASE i > Len(wire)
        <4>1. i - Len(wire) \in 1..Len(u) /\ Len(wire) + (i - Len(wire)) = i
          BY <1>3, <3>2
        <4>2. wire'[i] = u[i - Len(wire)]
          BY <1>3, <4>1
        <4> QED BY <1>1, <3>1, <4>1, <4>2
      <3> QED BY <1>3, <3>2
    <2>2. SaysRunning(wire, i, a)
      BY <1>3, <2>1 DEF SaysRunning
    <2>3. CASE a = t
      <3>1. Len(wire) + 1 \in (i + 1)..Len(wire')
        BY <1>3, <1>6, <2>1, <2>3
      <3> QED BY <1>2, <1>6, <2>3, <3>1 DEF EndInv, Shapes
    <2>4. CASE a # t
      <3>1. /\ job[a] # "absent"
            /\ job[a] = "done" => \E j \in (i + 1)..Len(wire) : wire[j] = <<"completed", a>>
        BY <2>1, <2>2 DEF EndInv, EndComesLast
      <3>2. ASSUME NEW j \in (i + 1)..Len(wire), wire[j] = <<"completed", a>>
            PROVE  j \in (i + 1)..Len(wire') /\ wire'[j] = <<"completed", a>>
        BY <1>3, <2>1, <3>2
      <3> QED BY <1>5, <2>4, <3>1, <3>2
    <2> QED BY <2>3, <2>4
  <1>8. AgentEndSticks'
    <2> SUFFICES ASSUME NEW a \in Agents, Ended(a)'
                 PROVE  live'[a] = "done"
      BY DEF AgentEndSticks
    <2>1. DOMAIN wire' = 1..Len(wire') /\ DOMAIN wire = 1..Len(wire)
      BY <1>3, LenProperties DEF EndInv, Shapes
    <2>2. a # t
      BY <1>6, <2>1 DEF Ended
    <2>3. job[a] = "done"
      BY <1>5, <2>2 DEF Ended
    <2>4. \A i \in DOMAIN wire : wire[i] # <<"completed", a>>
      BY <1>3, <2>1 DEF Ended
    <2> QED BY <1>2, <2>3, <2>4 DEF EndInv, AgentEndSticks, Ended
  <1> QED BY <1>4, <1>7, <1>8 DEF EndInv

LEMMA EventKeepsEnds ==
    ASSUME PollerConstants, EndInv, ReceiveEvent
    PROVE  EndInv'
  <1> DEFINE type == Head(wire)[1]
             t == Head(wire)[2]
  <1>1. /\ wire # <<>> /\ wire \in Seq(Events) /\ wire' = Tail(wire) /\ UNCHANGED job
        /\ Reduce(type, t)
    BY DEF ReceiveEvent, EndInv, Shapes
  <1>2. /\ Head(wire) = <<type, t>> /\ type \in EventTypes /\ t \in Jobs
        /\ wire[1] = Head(wire) /\ Len(wire) \in Nat \ {0}
        /\ wire' \in Seq(Events) /\ Len(wire') = Len(wire) - 1
        /\ \A i \in 1..Len(wire') : wire'[i] = wire[i + 1]
    BY <1>1, HeadTailProperties DEF Events
  <1>3. Shapes'
    <2>1. DOMAIN live' = Agents
      BY <1>1 DEF Reduce, EndInv, Shapes
    <2> QED BY <1>1, <1>2, <2>1 DEF EndInv, Shapes
  <1>4. EndComesLast'
    <2> SUFFICES ASSUME NEW a \in Agents, NEW i \in 1..Len(wire'), SaysRunning(wire', i, a)
                 PROVE  /\ job[a] # "absent"
                        /\ job[a] = "done" =>
                             \E j \in (i + 1)..Len(wire') : wire'[j] = <<"completed", a>>
      BY <1>1 DEF EndComesLast
    <2>1. i + 1 \in 1..Len(wire) /\ SaysRunning(wire, i + 1, a)
      BY <1>2 DEF SaysRunning
    <2>2. job[a] # "absent"
      BY <2>1 DEF EndInv, EndComesLast
    <2>3. ASSUME job[a] = "done"
          PROVE  \E j \in (i + 1)..Len(wire') : wire'[j] = <<"completed", a>>
      <3>1. PICK j \in (i + 2)..Len(wire) : wire[j] = <<"completed", a>>
        <4>1. \E j \in ((i + 1) + 1)..Len(wire) : wire[j] = <<"completed", a>>
          BY <2>1, <2>3 DEF EndInv, EndComesLast
        <4> QED BY <4>1
      <3>2. j - 1 \in (i + 1)..Len(wire') /\ j - 1 \in 1..Len(wire')
        BY <1>2, <3>1
      <3>3. wire'[j - 1] = wire[j - 1 + 1] /\ j - 1 + 1 = j
        BY <1>2, <3>1, <3>2
      <3> QED BY <3>1, <3>2, <3>3
    <2> QED BY <2>2, <2>3
  <1>5. AgentEndSticks'
    <2> SUFFICES ASSUME NEW a \in Agents, Ended(a)'
                 PROVE  live'[a] = "done"
      BY DEF AgentEndSticks
    <2>1. job[a] = "done" /\ \A i \in 2..Len(wire) : wire[i] # <<"completed", a>>
      <3>1. \A i \in 1..Len(wire') : wire'[i] # <<"completed", a>>
        BY <1>2, LenProperties DEF Ended
      <3>2. ASSUME NEW i \in 2..Len(wire) PROVE wire[i] # <<"completed", a>>
        <4>1. i - 1 \in 1..Len(wire') /\ wire'[i - 1] = wire[i]
          BY <1>2
        <4> QED BY <3>1, <4>1
      <3> QED BY <1>1, <3>2 DEF Ended
    <2>2. CASE t = a /\ type = "completed"
      BY <1>1, <2>2 DEF Reduce, EndInv, Shapes
    <2>3. CASE t = a /\ type \in {"spawned", "started"}
      <3>1. SaysRunning(wire, 1, a) /\ 1 \in 1..Len(wire)
        BY <1>2, <2>3 DEF SaysRunning
      <3>2. \E j \in (1 + 1)..Len(wire) : wire[j] = <<"completed", a>>
        BY <2>1, <3>1 DEF EndInv, EndComesLast
      <3> QED BY <2>1, <3>2
    <2>4. CASE t # a \/ type = "terminated"
      <3>1. Head(wire) # <<"completed", a>>
        BY <1>2, <2>4
      <3>2. \A i \in DOMAIN wire : wire[i] # <<"completed", a>>
        <4>1. ASSUME NEW i \in 1..Len(wire) PROVE wire[i] # <<"completed", a>>
          BY <1>2, <2>1, <3>1, <4>1
        <4> QED BY <1>1, <4>1
      <3>3. live[a] = "done"
        BY <2>1, <3>2 DEF EndInv, AgentEndSticks, Ended
      <3>4. live'[a] = live[a]
        BY <1>1, <2>4 DEF Reduce, EndInv, Shapes
      <3> QED BY <3>3, <3>4
    <2> QED BY <1>2, <2>2, <2>3, <2>4 DEF EventTypes
  <1> QED BY <1>3, <1>4, <1>5 DEF EndInv

(* A list, however old, leaves a finished live row as it is.               *)
LEMMA RowsKeepEnds ==
    ASSUME EndInv, NEW i \in DOMAIN calls, WriteRows(i)
    PROVE  EndInv'
  <1>1. UNCHANGED <<job, wire>>
    BY DEF WriteRows, jobVars
  <1>2. DOMAIN live' = Agents /\ \A a \in Agents : live[a] = "done" => live'[a] = "done"
    BY DEF WriteRows, KeepLiveSubagents, Folded
  <1>3. Shapes' /\ EndComesLast'
    BY <1>1, <1>2 DEF EndInv, Shapes, EndComesLast, SaysRunning
  <1>4. AgentEndSticks'
    BY <1>1, <1>2 DEF EndInv, AgentEndSticks, Ended
  <1> QED BY <1>3, <1>4 DEF EndInv

LEMMA EndStep == PollerConstants /\ EndInv /\ [PollerNext]_pollerVars => EndInv'
  <1> SUFFICES ASSUME PollerConstants, EndInv, [PollerNext]_pollerVars
               PROVE  EndInv'
    OBVIOUS
  <1> USE DEF rowVars, jobVars
  <1>1. ASSUME UNCHANGED <<job, wire, live>>
        PROVE  EndInv'
    BY <1>1 DEF EndInv, Shapes, EndComesLast, SaysRunning, AgentEndSticks, Ended
  <1>2. ASSUME NEW t \in Jobs, JobStarts(t) \/ JobEnds(t)
        PROVE  EndInv'
    BY <1>2, StartKeepsEnds, EndKeepsEnds
  <1>3. ASSUME NEW i \in DOMAIN calls, ReadList(i) \/ WriteRows(i) \/ ListFails(i)
        PROVE  EndInv'
    BY <1>1, <1>3, RowsKeepEnds DEF ReadList, ListFails
  <1>4. CASE ReceiveEvent
    BY <1>4, EventKeepsEnds
  <1>5. CASE Tick \/ StopAfterBeat
    BY <1>1, <1>5 DEF Tick, StopAfterBeat
  <1>6. ASSUME NEW s \in TaskSessions \cup {NoSession}, Show(s)
        PROVE  EndInv'
    BY <1>1, <1>6 DEF Show
  <1>7. CASE UNCHANGED pollerVars
    BY <1>1, <1>7 DEF pollerVars
  <1> QED BY <1>2, <1>3, <1>4, <1>5, <1>6, <1>7 DEF PollerNext

(* An agent whose end was told by the events stays finished, however old   *)
(* the lists that polls come back with (keepLiveSubagents, taskMerge.ts).  *)
THEOREM EndsStick == PollerSpec => []AgentEndSticks
  <1>1. PollerInit => EndInv
    <2> SUFFICES ASSUME PollerInit PROVE EndInv
      OBVIOUS
    <2>1. Shapes
      BY EmptySeq DEF PollerInit, Shapes
    <2>2. EndComesLast
      BY EmptySeq DEF PollerInit, EndComesLast
    <2>3. AgentEndSticks
      BY PollerConstants DEF PollerInit, AgentEndSticks, Ended, PollerConstants
    <2> QED BY <2>1, <2>2, <2>3 DEF EndInv
  <1>2. EndInv => AgentEndSticks
    BY DEF EndInv
  <1> QED BY <1>1, <1>2, EndStep, PollerConstants, PTL DEF PollerSpec
============================================================================
