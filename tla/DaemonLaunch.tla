----------------------------- MODULE DaemonLaunch -----------------------------
(***************************************************************************)
(* How the desktop app finds, starts and restarts the daemon.  Several     *)
(* windows' processes may do it at once, sharing nothing but the records   *)
(* that daemons keep on disk and the ports they listen on.                 *)
(*                                                                         *)
(*   src/src-tauri/src/daemon.rs   (connect_daemon, restart_daemon)        *)
(*                                                                         *)
(* The daemons are external.  A deadline may pass at any time.  Left out   *)
(* are the environment, what the token file holds and the lock file of old *)
(* daemons.  A heartbeat is fresh or not; a serving   *)
(* daemon's is.                                                            *)
(***************************************************************************)
EXTENDS Naturals, Sequences, FiniteSets

CONSTANTS
    Apps,           \* processes of the desktop app
    Ports,          \* ports of this machine
    DefaultPort,    \* where a daemon is looked for that left no record
    AnyPort,        \* the port of a daemon that chooses one itself
    NoApp,          \* who started a daemon long ago
    MaxDaemons      \* bound: daemons started

ASSUME LaunchConstants == DefaultPort \in Ports /\ AnyPort \notin Ports /\ NoApp \notin Apps /\ MaxDaemons \in Nat

VARIABLES
    daemons,        \* external: the daemon processes, by pid
    app             \* each app's call: where it is, and what it remembers

launchVars == <<daemons, app>>

(* A record left by a daemon that is long gone; an old build wrote its     *)
(* heartbeats in milliseconds.                                             *)
LeftBehind(millis) ==
    [state |-> "dead", port |-> DefaultPort, record |-> TRUE, fresh |-> FALSE, millis |-> millis,
     app |-> NoApp]

LaunchInit ==
    /\ \E millis \in BOOLEAN : daemons = <<LeftBehind(millis)>>
    /\ app = [a \in Apps |-> [at |-> "idle", port |-> DefaultPort, child |-> 0, old |-> 0,
                              attempt |-> 0, untracked |-> FALSE]]

----------------------------------------------------------------------------

Pids == DOMAIN daemons
(* Processes that run; those that listen, up to the end of a shutdown.     *)
Alive(i) == i \in Pids /\ daemons[i].state # "dead"
Listening(port) == {i \in Pids : daemons[i].state \in {"serving", "closing"} /\ daemons[i].port = port}

(* find_instance_from_instances_dir: the ports it may return.              *)
Found == {daemons[i].port : i \in {j \in Pids : daemons[j].record /\ daemons[j].fresh
                                                 /\ Listening(daemons[j].port) # {}}}

(* latest_instance_for_endpoint: by raw heartbeat, so that milliseconds    *)
(* come after all seconds; else the one started last.                      *)
Recorded(port) == {i \in Pids : daemons[i].record /\ daemons[i].port = port}

Latest(port) ==
    IF Recorded(port) = {} THEN 0
    ELSE CHOOSE i \in Recorded(port) :
            \A j \in Recorded(port) :
                \/ daemons[i].millis /\ ~daemons[j].millis
                \/ daemons[i].millis = daemons[j].millis /\ i >= j

Spawned(a, port) ==
    Append(daemons, [state |-> "starting", port |-> port, record |-> FALSE, fresh |-> TRUE,
                     millis |-> FALSE, app |-> a])

Kill(i) == [daemons EXCEPT ![i].state = "dead"]

At(a, place) == app[a].at = place

(* A call ends; what it kept for itself is gone.                           *)
EndAt(a, place) == [app EXCEPT ![a].at = place, ![a].old = 0, ![a].attempt = 0]

----------------------------------------------------------------------------
(* connect_daemon, called once when the app starts (lib.rs:138).  From a    *)
(* failure it is the app started again, which may find its child running.  *)

Connect(a) ==
    /\ app[a].at \in {"idle", "failed", "tokenless"}
    /\ app' = [app EXCEPT ![a].at = IF Found # {} THEN "found" ELSE "launch",
                          ![a].attempt = IF Found # {} THEN 0 ELSE 1,
                          ![a].port = DefaultPort, ![a].child = IF Alive(@) THEN @ ELSE 0]
    /\ UNCHANGED daemons

(* The next command line, or the end of both.                              *)
NextAttempt(a) ==
    app' = IF app[a].attempt = 2 THEN EndAt(a, "failed")
           ELSE [app EXCEPT ![a].at = "launch", ![a].attempt = 2]

Launch(a) ==
    /\ At(a, "launch")
    /\ \/ /\ Len(daemons) < MaxDaemons
          /\ daemons' = Spawned(a, AnyPort)
          /\ app' = [app EXCEPT ![a].at = "wait", ![a].child = Len(daemons) + 1]
       \/ NextAttempt(a) /\ UNCHANGED daemons

LaunchedExits(a) ==
    /\ At(a, "wait") /\ ~Alive(app[a].child)
    /\ NextAttempt(a) /\ UNCHANGED daemons

(* Some instance is found, the child's or another app's.                   *)
LaunchedFound(a) ==
    /\ At(a, "wait") /\ Alive(app[a].child) /\ Found # {}
    /\ app' = [app EXCEPT ![a].at = "found"]
    /\ UNCHANGED daemons

(* A bug the code avoids: a slow child is left running.                    *)
TimesOutOnly(a) ==
    /\ At(a, "wait")
    /\ NextAttempt(a) /\ UNCHANGED daemons

LaunchTimesOut(a) ==
    /\ At(a, "wait")
    /\ daemons' = Kill(app[a].child) /\ NextAttempt(a)

(* An own daemon that is forgotten: the call settles on another's, or ends *)
(* without the token.                                                      *)
Forgets(a, port) == Alive(app[a].child) /\ app[a].child \notin Listening(port)

CallSettles(a, port) ==
    \/ app' = [EndAt(a, "connected") EXCEPT ![a].port = port,
                                            ![a].untracked = @ \/ Forgets(a, port)]
    \/ app' = [EndAt(a, "tokenless") EXCEPT ![a].untracked = @ \/ Alive(app[a].child)]

(* The address is read anew, then the token.                               *)
ReadAddress(a) ==
    /\ At(a, "found")
    /\ \E port \in IF Found # {} THEN Found ELSE {DefaultPort} : CallSettles(a, port)
    /\ UNCHANGED daemons

----------------------------------------------------------------------------
(* restart_daemon.                                                         *)

(* The daemon accepts the shutdown, but its answer is lost or late: the    *)
(* call fails as if it had refused, and the app stays with it.             *)
ShutdownUnanswered(a) ==
    /\ At(a, "connected") /\ Latest(app[a].port) # 0
    /\ \E i \in Listening(app[a].port) : daemons' = [daemons EXCEPT ![i].state = "closing"]
    /\ UNCHANGED app

(* The shutdown is accepted by the daemon that listens there.  Without a   *)
(* record, without a daemon or when it refuses, nothing has changed.       *)
Shutdown(a) ==
    /\ At(a, "connected") /\ Latest(app[a].port) # 0
    /\ \E i \in Listening(app[a].port) : daemons' = [daemons EXCEPT ![i].state = "closing"]
    /\ app' = [app EXCEPT ![a].at = "stopping", ![a].old = Latest(app[a].port)]

StillReachable(a) ==
    /\ At(a, "stopping") /\ Listening(app[a].port) # {}
    /\ app' = EndAt(a, "connected")
    /\ UNCHANGED daemons

(* A bug the code avoids: the port is not waited for.                      *)
RelaunchAtOnce(a) ==
    /\ At(a, "stopping") /\ Len(daemons) < MaxDaemons
    /\ daemons' = Spawned(a, app[a].port)
    /\ app' = [app EXCEPT ![a].at = "await", ![a].child = Len(daemons) + 1]

Relaunch(a) ==
    /\ At(a, "stopping") /\ Listening(app[a].port) = {} /\ Len(daemons) < MaxDaemons
    /\ daemons' = Spawned(a, app[a].port)
    /\ app' = [app EXCEPT ![a].at = "await", ![a].child = Len(daemons) + 1]

(* No CLI, or it cannot be run.                                            *)
RelaunchFails(a) ==
    /\ At(a, "stopping") /\ Listening(app[a].port) = {}
    /\ app' = EndAt(a, "failed")
    /\ UNCHANGED daemons

RelaunchedExits(a) ==
    /\ At(a, "await") /\ ~Alive(app[a].child)
    /\ app' = EndAt(a, "failed")
    /\ UNCHANGED daemons

Relaunched(a) ==
    /\ At(a, "await") /\ Alive(app[a].child)
    /\ Listening(app[a].port) # {} /\ Latest(app[a].port) \notin {0, app[a].old}
    /\ CallSettles(a, app[a].port)
    /\ UNCHANGED daemons

RelaunchTimesOut(a) ==
    /\ At(a, "await")
    /\ daemons' = Kill(app[a].child)
    /\ app' = EndAt(a, "failed")

----------------------------------------------------------------------------
(* The daemons.                                                            *)

Become(i, state) == daemons' = [daemons EXCEPT ![i].state = state] /\ UNCHANGED app

Listens(i) ==
    /\ daemons[i].state = "starting"
    /\ \E port \in Ports :
          /\ daemons[i].port \in {port, AnyPort} /\ Listening(port) = {}
          /\ daemons' = [daemons EXCEPT ![i].state = "serving", ![i].port = port]
    /\ UNCHANGED app

WritesRecord(i) ==
    /\ daemons[i].state = "serving" /\ ~daemons[i].record
    /\ daemons' = [daemons EXCEPT ![i].record = TRUE] /\ UNCHANGED app

(* It cannot listen on its port, or it crashes.                            *)
Fails(i) == Alive(i) /\ Become(i, "dead")

(* After the shutdown, with its record or without.                         *)
Exits(i) ==
    /\ daemons[i].state = "closing"
    /\ \E record \in {daemons[i].record, FALSE} :
          daemons' = [daemons EXCEPT ![i].state = "dead", ![i].record = record]
    /\ UNCHANGED app

RecordAges(i) ==
    /\ daemons[i].state = "dead" /\ daemons[i].record /\ daemons[i].fresh
    /\ daemons' = [daemons EXCEPT ![i].fresh = FALSE] /\ UNCHANGED app

LaunchNext ==
    \/ \E a \in Apps :
          \/ Connect(a) \/ Launch(a) \/ LaunchedExits(a) \/ LaunchedFound(a) \/ LaunchTimesOut(a)
          \/ ReadAddress(a) \/ Shutdown(a) \/ ShutdownUnanswered(a) \/ StillReachable(a)
          \/ Relaunch(a) \/ RelaunchFails(a) \/ RelaunchedExits(a) \/ Relaunched(a) \/ RelaunchTimesOut(a)
    \/ \E i \in Pids : Listens(i) \/ WritesRecord(i) \/ Fails(i) \/ Exits(i) \/ RecordAges(i)

LaunchSpec == LaunchInit /\ [][LaunchNext]_launchVars

----------------------------------------------------------------------------
(* Properties.                                                             *)

(* An app never has two daemons of its own running, whatever was slow or   *)
(* failed (the comment at daemon.rs:432): each attempt ends before the     *)
(* next begins, and a restart waits for the old one.  Exempt is an app     *)
(* that has forgotten one of its own (Forgets): nothing ends that one.     *)
OneDaemonPerApp ==
    \A a \in Apps :
        ~app[a].untracked => Cardinality({i \in Pids : daemons[i].app = a /\ Alive(i)}) <= 1

(* When starting a daemon has failed, the app has none running, except one *)
(* it had forgotten ("tokenless" is the failure after one was found).      *)
FailureLeavesNothing ==
    \A a \in Apps : At(a, "failed") /\ ~app[a].untracked => ~Alive(app[a].child)

=============================================================================
