------------------------------ MODULE TaskPoller ------------------------------
(***************************************************************************)
(* The rows of the background tasks: events over the WebSocket make and    *)
(* end them, and polls of the REST list, which may be older or newer than  *)
(* the events, rewrite them.  Polling runs while the session on display    *)
(* has a running row.                                                      *)
(*                                                                         *)
(*   src/web/src/composables/client/useTaskPoller.ts  (polls, watcher)     *)
(*   src/web/src/lib/taskMerge.ts                     (keepLiveSubagents)  *)
(*   src/web/src/api/daemon/eventReducer.ts           (taskCreated, ...)   *)
(*   src/web/src/api/daemon/agentEventProjector.ts    (task, subagent)     *)
(*                                                                         *)
(* The daemon is external.  A row is its status; its output, and with it   *)
(* the getTask requests between the list and the write, is left out, and   *)
(* so is the clock.  The outcomes of a task are one.  A background         *)
(* subagent has a row by its agent id (live), made by events, and may have *)
(* one by its task id (rest), as REST lists it, until the events have      *)
(* linked the two.  Events are neither lost nor reordered (SessionSync).   *)
(***************************************************************************)
EXTENDS Naturals, Sequences

CONSTANTS
    Jobs,           \* background tasks
    Agents,         \* those that are subagents
    TaskSessions,   \* sessions
    SessionOf,      \* the session of each task
    NoSession,      \* activeSessionId undefined
    MaxCalls,       \* bound: polls and loads in flight
    MaxSwitches,    \* bound: changes of the session on display
    MaxFailures     \* bound: list requests that fail

ASSUME PollerConstants ==
    /\ Agents \subseteq Jobs /\ SessionOf \in [Jobs -> TaskSessions]
    /\ NoSession \notin TaskSessions
    /\ MaxCalls \in Nat /\ MaxSwitches \in Nat /\ MaxFailures \in Nat

VARIABLES
    job,            \* external: what the daemon's task store says
    wire,           \* external: events in transit
    rest,           \* tasksBySession: the rows by task id
    live,           \* tasksBySession: the rows by agent id
    linked,         \* the live rows that have a backgroundTaskId
    active,         \* activeSessionId
    timer,          \* lastPolledSessionId while the interval is set
    stopping,       \* the watcher's timer to stop polling is set
    calls,          \* polls and loads in flight
    switches,       \* number of switches so far
    failures        \* number of failed requests so far

rowVars    == <<rest, live, linked>>
jobVars    == <<job, wire>>
pollVars   == <<timer, stopping>>
pollerVars == <<jobVars, rowVars, active, pollVars, calls, switches, failures>>

Row == {"absent", "running", "done"}

PollerInit ==
    /\ job = [t \in Jobs |-> "absent"] /\ wire = <<>>
    /\ rest = [t \in Jobs |-> "absent"] /\ live = [a \in Agents |-> "absent"] /\ linked = {}
    /\ active \in TaskSessions /\ timer = NoSession /\ stopping = FALSE
    /\ calls = <<>> /\ switches = 0 /\ failures = 0

----------------------------------------------------------------------------
(* The watcher, run after every change of the rows or of the session.      *)

HasRunning(s, restRows, liveRows) ==
    \/ \E t \in Jobs : SessionOf[t] = s /\ restRows[t] = "running"
    \/ \E a \in Agents : SessionOf[a] = s /\ liveRows[a] = "running"

Asked(s) == [session |-> s, phase |-> "asked"]

(* A bug the code avoids: any poll timer will do.                          *)
StartPollingOnce(s, before) ==
    IF timer # NoSession
    THEN UNCHANGED timer /\ calls' = before
    ELSE timer' = s /\ calls' = Append(before, Asked(s))

(* startTaskOutputPolling: nothing if it runs for this session, else a     *)
(* poll at once and the interval.                                          *)
StartPolling(s, before) ==
    IF timer = s
    THEN UNCHANGED timer /\ calls' = before
    ELSE timer' = s /\ calls' = Append(before, Asked(s))

Watch(before) ==
    CASE active' = NoSession ->
            timer' = NoSession /\ stopping' = FALSE /\ calls' = before
      [] active' # NoSession /\ HasRunning(active', rest', live') ->
            stopping' = FALSE /\ StartPolling(active', before)
      [] OTHER ->
            stopping' = TRUE /\ UNCHANGED timer /\ calls' = before

----------------------------------------------------------------------------
(* The daemon.                                                             *)

JobStarts(t) ==
    /\ job[t] = "absent"
    /\ job' = [job EXCEPT ![t] = "running"]
    /\ wire' = wire \o (IF t \in Agents THEN <<<<"spawned", t>>, <<"started", t>>>>
                                        ELSE <<<<"started", t>>>>)
    /\ UNCHANGED <<rowVars, active, pollVars, calls, switches, failures>>

JobEnds(t) ==
    /\ job[t] = "running"
    /\ job' = [job EXCEPT ![t] = "done"]
    /\ wire' = wire \o (IF t \in Agents THEN <<<<"completed", t>>, <<"terminated", t>>>>
                                        ELSE <<<<"terminated", t>>>>)
    /\ UNCHANGED <<rowVars, active, pollVars, calls, switches, failures>>

ReadList(i) ==
    /\ calls[i].phase = "asked"
    /\ calls' = [calls EXCEPT ![i] =
                   [session |-> calls[i].session, phase |-> "listed",
                    list |-> [t \in Jobs |-> IF SessionOf[t] = calls[i].session
                                             THEN job[t] ELSE "absent"]]]
    /\ UNCHANGED <<jobVars, rowVars, active, pollVars, switches, failures>>

----------------------------------------------------------------------------
(* Events, projected and reduced.                                          *)

(* subagent.spawned; task.started, which makes a task's row or links an    *)
(* agent's, whose status stays what the events have made it (subagentMeta);*)
(* subagent.completed; task.terminated, for a row by task id.              *)
Reduce(type, t) ==
    CASE type = "spawned" ->
            live' = [live EXCEPT ![t] = "running"] /\ UNCHANGED <<rest, linked>>
      [] type = "started" /\ t \in Agents ->
            live' = [live EXCEPT ![t] = "running"] /\ linked' = linked \cup {t} /\ UNCHANGED rest
      [] type = "started" /\ t \notin Agents ->
            rest' = [rest EXCEPT ![t] = "running"] /\ UNCHANGED <<live, linked>>
      [] type = "completed" ->
            live' = [live EXCEPT ![t] = "done"] /\ UNCHANGED <<rest, linked>>
      [] OTHER ->
            rest' = [rest EXCEPT ![t] = IF @ = "absent" THEN @ ELSE "done"]
            /\ UNCHANGED <<live, linked>>

ReceiveEvent ==
    /\ wire # <<>>
    /\ wire' = Tail(wire) /\ Reduce(Head(wire)[1], Head(wire)[2])
    /\ UNCHANGED <<job, active, switches, failures>>
    /\ Watch(calls)

----------------------------------------------------------------------------
(* Polls and loads.                                                        *)

Remove(i) == [j \in 1..(Len(calls) - 1) |-> calls[IF j < i THEN j ELSE j + 1]]

(* A bug the code avoids: the list overrules the events.                   *)
FoldedAsListed(row, listed) == listed

(* The status of a live row folded with its copy in the list.              *)
Folded(row, listed) == IF row = "running" THEN listed ELSE row

(* keepLiveSubagents over a session's rows: a linked live row takes the    *)
(* listed copy in; a subagent's row that is not listed stays.              *)
Folds(a, list) == a \in linked /\ live[a] # "absent" /\ list[a] # "absent"

KeepLiveSubagents(s, list) ==
    /\ live' = [a \in Agents |->
                  IF SessionOf[a] = s /\ Folds(a, list) THEN Folded(live[a], list[a]) ELSE live[a]]
    /\ rest' = [t \in Jobs |->
                  CASE SessionOf[t] # s -> rest[t]
                    [] SessionOf[t] = s /\ t \in Agents ->
                         IF Folds(t, list) THEN "absent"
                         ELSE IF list[t] = "absent" THEN rest[t] ELSE list[t]
                    [] OTHER -> list[t]]
    /\ UNCHANGED linked

(* A poll has its outputs, or a load its list: the rows are written.       *)
WriteRows(i) ==
    /\ calls[i].phase = "listed"
    /\ KeepLiveSubagents(calls[i].session, calls[i].list)
    /\ UNCHANGED <<jobVars, active, switches, failures>>
    /\ Watch(Remove(i))

ListFails(i) ==
    /\ failures < MaxFailures /\ failures' = failures + 1
    /\ calls' = Remove(i)
    /\ UNCHANGED <<jobVars, rowVars, active, pollVars, switches>>

(* A bug the code avoids: the timer fires only once.                       *)
TickOnce ==
    /\ timer # NoSession /\ active = timer
    /\ timer' = NoSession /\ calls' = Append(calls, Asked(timer))
    /\ UNCHANGED <<jobVars, rowVars, active, stopping, switches, failures>>

(* The interval of a visible tab.                                          *)
Tick ==
    /\ timer # NoSession
    /\ IF active = timer
       THEN calls' = Append(calls, Asked(timer)) /\ UNCHANGED timer
       ELSE timer' = NoSession /\ UNCHANGED calls
    /\ UNCHANGED <<jobVars, rowVars, active, stopping, switches, failures>>

(* A beat after the last task has finished.                                *)
StopAfterBeat ==
    /\ stopping /\ stopping' = FALSE
    /\ timer' = IF HasRunning(active, rest, live) THEN timer ELSE NoSession
    /\ UNCHANGED <<jobVars, rowVars, active, calls, switches, failures>>

(* Another session is opened, and its tasks are loaded; or none is.        *)
Show(s) ==
    /\ s # active /\ switches < MaxSwitches /\ switches' = switches + 1
    /\ active' = s
    /\ UNCHANGED <<jobVars, rowVars, failures>>
    /\ Watch(IF s = NoSession THEN calls ELSE Append(calls, Asked(s)))

----------------------------------------------------------------------------

PollerNext ==
    /\ \/ \E t \in Jobs : JobStarts(t) \/ JobEnds(t)
       \/ \E i \in DOMAIN calls : ReadList(i) \/ WriteRows(i) \/ ListFails(i)
       \/ ReceiveEvent \/ Tick \/ StopAfterBeat
       \/ \E s \in TaskSessions \cup {NoSession} : Show(s)
    /\ Len(calls') <= MaxCalls

(* Events arrive, requests are answered, their answers are handled and the *)
(* interval goes on; whatever asks again may have to wait for the bound.   *)
Room == Len(calls') <= MaxCalls

PollerFairness ==
    /\ SF_pollerVars(ReceiveEvent /\ Room) /\ SF_pollerVars(Tick /\ Room)
    /\ WF_pollerVars(\E i \in DOMAIN calls : ReadList(i))
    /\ WF_pollerVars(\E i \in DOMAIN calls : WriteRows(i) /\ Room)

PollerSpec == PollerInit /\ [][PollerNext]_pollerVars /\ PollerFairness

----------------------------------------------------------------------------
(* Properties.                                                             *)

(* While the session on display has a running row it is polled: the timer  *)
(* runs, for this session, and nothing is about to stop it, whatever came  *)
(* from events, stale lists and switches (the watcher's comment).          *)
RunningIsPolled ==
    active # NoSession /\ HasRunning(active, rest, live) => timer = active /\ ~stopping

(* An agent whose end was told by the events is never shown running again, *)
(* however old the list a poll comes back with (terminal-stickiness, the   *)
(* comment at taskMerge.ts:40).                                            *)
Ended(a) == job[a] = "done" /\ \A i \in DOMAIN wire : wire[i] # <<"completed", a>>

AgentEndSticks ==
    \A a \in Agents : Ended(a) => live[a] = "done"

(* A task that has ended does not stay running on display for ever, though *)
(* a late poll may show it so once more.                                   *)
ShownRunning(t) ==
    active = SessionOf[t] /\ (rest[t] = "running" \/ (t \in Agents /\ live[t] = "running"))

RunningSettles ==
    \A t \in Jobs : job[t] = "done" ~> ~ShownRunning(t)

=============================================================================
