-------------------------- MODULE DaemonLaunch_proofs --------------------------
(***************************************************************************)
(* For any apps, ports and bounds: an app has at most one daemon of its    *)
(* own, and none after a failure, as long as it has forgotten none.        *)
(***************************************************************************)
EXTENDS DaemonLaunch, TLAPS, SequenceTheorems, FiniteSetTheorems

Daemon ==
    [state : {"starting", "serving", "closing", "dead"}, port : Ports \cup {AnyPort},
     record : BOOLEAN, fresh : BOOLEAN, millis : BOOLEAN, app : Apps \cup {NoApp}]

Fields == {"at", "port", "child", "old", "attempt", "untracked"}

AppShape(a) ==
    /\ DOMAIN app[a] = Fields
    /\ app[a].port \in Ports \cup {AnyPort} /\ app[a].untracked \in BOOLEAN
    /\ app[a].child \in Pids \cup {0}
    /\ app[a].at \in {"wait", "await"} => app[a].child \in Pids

LaunchShape ==
    /\ daemons \in Seq(Daemon)
    /\ DOMAIN app = Apps /\ \A a \in Apps : AppShape(a)

(* What an app has running is the child it remembers.                      *)
OnlyChild(a) == \A i \in Pids : daemons[i].app = a /\ Alive(i) => i = app[a].child

(* Where a child cannot be running any more, or runs where it is used.     *)
ChildKnown(a) ==
    /\ app[a].at \in {"idle", "failed", "tokenless", "launch"} => ~Alive(app[a].child)
    /\ app[a].at \in {"connected", "stopping"} /\ Alive(app[a].child) =>
          app[a].child \in Listening(app[a].port)

Minded(a) == app[a].untracked \/ (OnlyChild(a) /\ ChildKnown(a))

LaunchInv == LaunchShape /\ \A a \in Apps : Minded(a)

(* What the pids are.                                                      *)
LEMMA PidsAre ==
    ASSUME daemons \in Seq(Daemon)
    PROVE  /\ Pids = 1..Len(daemons) /\ Len(daemons) \in Nat /\ 0 \notin Pids
           /\ \A i \in Pids : daemons[i] \in Daemon
  <1>1. Pids = 1..Len(daemons) /\ Len(daemons) \in Nat /\ daemons \in [1..Len(daemons) -> Daemon]
    BY LenProperties DEF Pids
  <1> QED BY <1>1

(* What every step does to the daemons: those there keep their app, do not *)
(* come back to life, and listen where they did until they are dead; a new *)
(* one is app a's.                                                         *)
Evolves(a) ==
    /\ daemons' \in Seq(Daemon) /\ Pids \subseteq Pids'
    /\ \A j \in Pids' \ Pids : daemons'[j].app = a
    /\ \A j \in Pids : daemons'[j].app = daemons[j].app /\ (Alive(j)' => Alive(j))
    /\ \A j \in Pids : \A port : Alive(j)' /\ j \in Listening(port) => j \in Listening(port)'

LEMMA Unchanged ==
    ASSUME LaunchShape, NEW a, UNCHANGED daemons
    PROVE  Evolves(a) /\ Pids' = Pids /\ \A j : Alive(j)' <=> Alive(j)
  BY DEF LaunchShape, Evolves, Pids, Alive, Listening

LEMMA Changed ==
    ASSUME LaunchShape, NEW i \in Pids, NEW d \in Daemon, NEW a,
           daemons' = [daemons EXCEPT ![i] = d], d.app = daemons[i].app,
           daemons[i].state = "dead" => d.state = "dead",
           daemons[i].state \in {"serving", "closing"} =>
               d.state = "dead" \/ (d.state \in {"serving", "closing"} /\ d.port = daemons[i].port)
    PROVE  /\ Evolves(a) /\ Pids' = Pids
           /\ d.state = "dead" => ~Alive(i)'
  <1>1. /\ daemons \in Seq(Daemon) /\ Pids = 1..Len(daemons)
        /\ \A j \in Pids : daemons[j] \in Daemon
    BY PidsAre DEF LaunchShape
  <1>2. /\ daemons' \in Seq(Daemon) /\ Len(daemons') = Len(daemons)
        /\ \A j \in Pids : daemons'[j] = IF j = i THEN d ELSE daemons[j]
    BY <1>1, ExceptSeq
  <1>3. Pids' = Pids
    BY <1>1, <1>2, LenProperties DEF Pids
  <1>4. \A j \in Pids : daemons'[j].app = daemons[j].app /\ (Alive(j)' => Alive(j))
    BY <1>2, <1>3 DEF Alive
  <1>5. ASSUME NEW j \in Pids, NEW port, Alive(j)', j \in Listening(port)
        PROVE  j \in Listening(port)'
    BY <1>2, <1>3, <1>5 DEF Alive, Listening
  <1>6. d.state = "dead" => ~Alive(i)'
    BY <1>2 DEF Alive
  <1> QED BY <1>2, <1>3, <1>4, <1>5, <1>6 DEF Evolves

LEMMA Started ==
    ASSUME LaunchShape, NEW a \in Apps, NEW port \in Ports \cup {AnyPort},
           daemons' = Spawned(a, port)
    PROVE  /\ Evolves(a)
           /\ Pids' = Pids \cup {Len(daemons) + 1} /\ Len(daemons) + 1 \notin Pids
  <1> DEFINE d == [state |-> "starting", port |-> port, record |-> FALSE, fresh |-> TRUE,
                   millis |-> FALSE, app |-> a]
  <1>1. /\ daemons \in Seq(Daemon) /\ Pids = 1..Len(daemons) /\ Len(daemons) \in Nat
        /\ d \in Daemon /\ daemons' = Append(daemons, d)
    BY PidsAre DEF LaunchShape, Daemon, Spawned
  <1>2. /\ daemons' \in Seq(Daemon) /\ Len(daemons') = Len(daemons) + 1
        /\ \A j \in Pids : daemons'[j] = daemons[j]
        /\ daemons'[Len(daemons) + 1] = d
    BY <1>1, AppendProperties
  <1>3. Pids' = Pids \cup {Len(daemons) + 1} /\ Len(daemons) + 1 \notin Pids
    BY <1>1, <1>2, LenProperties DEF Pids
  <1>4. \A j \in Pids : Alive(j)' <=> Alive(j)
    BY <1>2, <1>3 DEF Alive
  <1>5. \A j \in Pids : \A q : j \in Listening(q) => j \in Listening(q)'
    BY <1>2, <1>3 DEF Listening
  <1> QED BY <1>2, <1>3, <1>4, <1>5 DEF Evolves

(* A step of app a is judged by what it does to that app.                  *)
LEMMA OneAppMoves ==
    ASSUME LaunchInv, NEW a \in Apps, Evolves(a),
           DOMAIN app' = Apps, \A b \in Apps \ {a} : app'[b] = app[b],
           AppShape(a)', Minded(a)'
    PROVE  LaunchInv'
  <1>1. LaunchShape'
    BY DEF LaunchInv, LaunchShape, AppShape, Evolves
  <1>2. ASSUME NEW b \in Apps, b # a, app[b].untracked
        PROVE  Minded(b)'
    BY <1>2 DEF Minded
  <1>3. ASSUME NEW b \in Apps, b # a, OnlyChild(b), ChildKnown(b)
        PROVE  Minded(b)'
    <2>1. 0 \notin Pids' /\ app[b].child \in Pids \cup {0} /\ app'[b] = app[b]
      BY <1>3, <1>1, PidsAre DEF LaunchInv, LaunchShape, AppShape, Evolves, Pids
    <2>2. OnlyChild(b)'
      BY <1>3, <2>1 DEF OnlyChild, Evolves
    <2>3. ChildKnown(b)'
      <3>1. Alive(app[b].child)' => app[b].child \in Pids
        BY <2>1 DEF Alive
      <3> QED BY <1>3, <2>1, <3>1 DEF ChildKnown, Evolves
    <2> QED BY <2>2, <2>3 DEF Minded
  <1> QED BY <1>1, <1>2, <1>3 DEF LaunchInv, Minded

(* A step of a daemon, which leaves the apps as they are.                  *)
LEMMA OneDaemonMoves ==
    ASSUME LaunchInv, UNCHANGED app, Pids' = Pids, \A a \in Apps : Evolves(a),
           daemons' \in Seq(Daemon)
    PROVE  LaunchInv'
  <1>1. LaunchShape'
    BY DEF LaunchInv, LaunchShape, AppShape
  <1>2. ASSUME NEW a \in Apps
        PROVE  Minded(a)'
    <2>1. Evolves(a) /\ 0 \notin Pids /\ app[a].child \in Pids \cup {0} /\ Minded(a)
      BY PidsAre DEF LaunchInv, LaunchShape, AppShape
    <2>2. Alive(app[a].child)' => app[a].child \in Pids
      BY DEF Alive
    <2> QED BY <2>1, <2>2 DEF Minded, OnlyChild, ChildKnown, Evolves
  <1> QED BY <1>1, <1>2 DEF LaunchInv

(* Where a daemon is found is a port.                                      *)
LEMMA FoundPorts == ASSUME LaunchShape PROVE Found \subseteq Ports \cup {AnyPort}
  <1>1. \A i \in Pids : daemons[i].port \in Ports \cup {AnyPort}
    BY PidsAre DEF LaunchShape, Daemon
  <1> QED BY <1>1 DEF Found

(* The steps that leave the daemons as they are.                           *)
LEMMA ConnectKeeps ==
    ASSUME LaunchInv, NEW a \in Apps, Connect(a)
    PROVE  LaunchInv'
  <1> USE DEF Connect
  <1>1. /\ Evolves(a) /\ Pids' = Pids /\ (\A j : Alive(j)' <=> Alive(j)) /\ UNCHANGED daemons
        /\ DOMAIN app = Apps /\ AppShape(a) /\ Minded(a) /\ 0 \notin Pids
    BY Unchanged, PidsAre DEF LaunchInv, LaunchShape
  <1>2. /\ DOMAIN app' = Apps /\ \A b \in Apps \ {a} : app'[b] = app[b]
        /\ AppShape(a)'
    BY <1>1, LaunchConstants DEF AppShape, Fields, At, LaunchInv, LaunchConstants
  <1>3. Minded(a)'
    <2>1. /\ app'[a].at \in {"found", "launch"} /\ app'[a].untracked = app[a].untracked
          /\ app'[a].child = IF Alive(app[a].child) THEN app[a].child ELSE 0
      BY <1>1 DEF AppShape, Fields
    <2>2. ~app[a].untracked => ~Alive(app[a].child) /\ OnlyChild(a)
      BY <1>1 DEF Minded, ChildKnown
    <2>3. ~Alive(0)
      BY <1>1 DEF Alive
    <2>4. CASE app[a].untracked
      BY <2>1, <2>4 DEF Minded
    <2>5. CASE ~app[a].untracked
      <3>1. app'[a].child = 0 /\ ~Alive(0)' /\ ~Alive(app[a].child)
        BY <1>1, <2>1, <2>2, <2>3, <2>5
      <3>2. OnlyChild(a)'
        BY <1>1, <2>2, <2>5, <3>1 DEF OnlyChild
      <3>3. ChildKnown(a)'
        <4> HIDE DEF Connect
        <4> QED BY <2>1, <3>1 DEF ChildKnown, Alive
      <3> QED BY <3>2, <3>3 DEF Minded
    <2> QED BY <2>4, <2>5
  <1> QED BY <1>1, <1>2, <1>3, OneAppMoves

LEMMA LaunchedExitsKeeps ==
    ASSUME LaunchInv, NEW a \in Apps, LaunchedExits(a)
    PROVE  LaunchInv'
  <1> USE DEF LaunchedExits, NextAttempt, EndAt
  <1>1. /\ Evolves(a) /\ Pids' = Pids /\ (\A j : Alive(j)' <=> Alive(j)) /\ UNCHANGED daemons
        /\ DOMAIN app = Apps /\ AppShape(a) /\ Minded(a) /\ 0 \notin Pids
    BY Unchanged, PidsAre DEF LaunchInv, LaunchShape
  <1>2. /\ DOMAIN app' = Apps /\ \A b \in Apps \ {a} : app'[b] = app[b]
        /\ AppShape(a)'
    BY <1>1 DEF AppShape, Fields, At
  <1>3. Minded(a)'
    BY <1>1, <1>2 DEF Minded, OnlyChild, ChildKnown, Listening, AppShape, Fields, At, Alive
  <1> QED BY <1>1, <1>2, <1>3, OneAppMoves

LEMMA LaunchedFoundKeeps ==
    ASSUME LaunchInv, NEW a \in Apps, LaunchedFound(a)
    PROVE  LaunchInv'
  <1> USE DEF LaunchedFound
  <1>1. /\ Evolves(a) /\ Pids' = Pids /\ (\A j : Alive(j)' <=> Alive(j)) /\ UNCHANGED daemons
        /\ DOMAIN app = Apps /\ AppShape(a) /\ Minded(a) /\ 0 \notin Pids
    BY Unchanged, PidsAre DEF LaunchInv, LaunchShape
  <1>2. /\ DOMAIN app' = Apps /\ \A b \in Apps \ {a} : app'[b] = app[b]
        /\ AppShape(a)'
    BY <1>1 DEF AppShape, Fields, At
  <1>3. Minded(a)'
    BY <1>1, <1>2 DEF Minded, OnlyChild, ChildKnown, Listening, AppShape, Fields, At, Alive
  <1> QED BY <1>1, <1>2, <1>3, OneAppMoves

LEMMA ReadAddressKeeps ==
    ASSUME LaunchInv, NEW a \in Apps, ReadAddress(a)
    PROVE  LaunchInv'
  <1> USE DEF ReadAddress, CallSettles, Forgets, EndAt
  <1>1. /\ Evolves(a) /\ Pids' = Pids /\ (\A j : Alive(j)' <=> Alive(j)) /\ UNCHANGED daemons
        /\ DOMAIN app = Apps /\ AppShape(a) /\ Minded(a) /\ 0 \notin Pids
    BY Unchanged, PidsAre DEF LaunchInv, LaunchShape
  <1>2. /\ DOMAIN app' = Apps /\ \A b \in Apps \ {a} : app'[b] = app[b]
        /\ AppShape(a)'
    BY <1>1, FoundPorts, LaunchConstants DEF AppShape, Fields, At, LaunchInv, LaunchConstants
  <1>3. Minded(a)'
    BY <1>1, <1>2 DEF Minded, OnlyChild, ChildKnown, Listening, AppShape, Fields, At, Alive
  <1> QED BY <1>1, <1>2, <1>3, OneAppMoves

LEMMA StillReachableKeeps ==
    ASSUME LaunchInv, NEW a \in Apps, StillReachable(a)
    PROVE  LaunchInv'
  <1> USE DEF StillReachable, EndAt
  <1>1. /\ Evolves(a) /\ Pids' = Pids /\ (\A j : Alive(j)' <=> Alive(j)) /\ UNCHANGED daemons
        /\ DOMAIN app = Apps /\ AppShape(a) /\ Minded(a) /\ 0 \notin Pids
    BY Unchanged, PidsAre DEF LaunchInv, LaunchShape
  <1>2. /\ DOMAIN app' = Apps /\ \A b \in Apps \ {a} : app'[b] = app[b]
        /\ AppShape(a)'
    BY <1>1 DEF AppShape, Fields, At
  <1>3. Minded(a)'
    BY <1>1, <1>2 DEF Minded, OnlyChild, ChildKnown, Listening, AppShape, Fields, At, Alive
  <1> QED BY <1>1, <1>2, <1>3, OneAppMoves

LEMMA RelaunchFailsKeeps ==
    ASSUME LaunchInv, NEW a \in Apps, RelaunchFails(a)
    PROVE  LaunchInv'
  <1> USE DEF RelaunchFails, EndAt
  <1>1. /\ Evolves(a) /\ Pids' = Pids /\ (\A j : Alive(j)' <=> Alive(j)) /\ UNCHANGED daemons
        /\ DOMAIN app = Apps /\ AppShape(a) /\ Minded(a) /\ 0 \notin Pids
    BY Unchanged, PidsAre DEF LaunchInv, LaunchShape
  <1>2. /\ DOMAIN app' = Apps /\ \A b \in Apps \ {a} : app'[b] = app[b]
        /\ AppShape(a)'
    BY <1>1 DEF AppShape, Fields, At
  <1>3. Minded(a)'
    BY <1>1, <1>2 DEF Minded, OnlyChild, ChildKnown, Listening, AppShape, Fields, At, Alive
  <1> QED BY <1>1, <1>2, <1>3, OneAppMoves

LEMMA RelaunchedExitsKeeps ==
    ASSUME LaunchInv, NEW a \in Apps, RelaunchedExits(a)
    PROVE  LaunchInv'
  <1> USE DEF RelaunchedExits, EndAt
  <1>1. /\ Evolves(a) /\ Pids' = Pids /\ (\A j : Alive(j)' <=> Alive(j)) /\ UNCHANGED daemons
        /\ DOMAIN app = Apps /\ AppShape(a) /\ Minded(a) /\ 0 \notin Pids
    BY Unchanged, PidsAre DEF LaunchInv, LaunchShape
  <1>2. /\ DOMAIN app' = Apps /\ \A b \in Apps \ {a} : app'[b] = app[b]
        /\ AppShape(a)'
    BY <1>1 DEF AppShape, Fields, At
  <1>3. Minded(a)'
    BY <1>1, <1>2 DEF Minded, OnlyChild, ChildKnown, Listening, AppShape, Fields, At, Alive
  <1> QED BY <1>1, <1>2, <1>3, OneAppMoves

LEMMA RelaunchedKeeps ==
    ASSUME LaunchInv, NEW a \in Apps, Relaunched(a)
    PROVE  LaunchInv'
  <1> USE DEF Relaunched, CallSettles, Forgets, EndAt
  <1>1. /\ Evolves(a) /\ Pids' = Pids /\ (\A j : Alive(j)' <=> Alive(j)) /\ UNCHANGED daemons
        /\ DOMAIN app = Apps /\ AppShape(a) /\ Minded(a) /\ 0 \notin Pids
    BY Unchanged, PidsAre DEF LaunchInv, LaunchShape
  <1>2. /\ DOMAIN app' = Apps /\ \A b \in Apps \ {a} : app'[b] = app[b]
        /\ AppShape(a)'
    BY <1>1 DEF AppShape, Fields, At
  <1>3. Minded(a)'
    BY <1>1, <1>2 DEF Minded, OnlyChild, ChildKnown, Listening, AppShape, Fields, At, Alive
  <1> QED BY <1>1, <1>2, <1>3, OneAppMoves

(* The steps that end an app's child, and those that start one.            *)
LEMMA Killed ==
    ASSUME LaunchInv, NEW a \in Apps, NEW i \in Pids, daemons' = Kill(i)
    PROVE  Evolves(a) /\ Pids' = Pids /\ ~Alive(i)'
  <1> DEFINE d == [daemons[i] EXCEPT !.state = "dead"]
  <1>1. d \in Daemon /\ d.app = daemons[i].app /\ d.state = "dead"
    <2>1. daemons[i] \in Daemon
      BY PidsAre DEF LaunchInv, LaunchShape
    <2> QED BY <2>1 DEF Daemon
  <1>2. daemons' = [daemons EXCEPT ![i] = d]
    BY DEF Kill
  <1> HIDE DEF d
  <1> QED BY <1>1, <1>2, Changed DEF LaunchInv

LEMMA LaunchTimesOutKeeps ==
    ASSUME LaunchInv, NEW a \in Apps, LaunchTimesOut(a)
    PROVE  LaunchInv'
  <1> USE DEF LaunchTimesOut, NextAttempt, EndAt
  <1>1. /\ DOMAIN app = Apps /\ AppShape(a) /\ app[a].child \in Pids /\ Minded(a)
    BY DEF LaunchInv, LaunchShape, AppShape, At
  <1>2. Evolves(a) /\ Pids' = Pids /\ ~Alive(app[a].child)'
    BY <1>1, Killed
  <1>3. /\ DOMAIN app' = Apps /\ \A b \in Apps \ {a} : app'[b] = app[b]
        /\ AppShape(a)' /\ app'[a].untracked = app[a].untracked
        /\ app'[a].child = app[a].child /\ app'[a].at \in {"failed", "launch"}
    BY <1>1, <1>2 DEF AppShape, Fields
  <1>4. Minded(a)'
    <2>1. OnlyChild(a) => OnlyChild(a)'
      BY <1>2, <1>3 DEF OnlyChild, Evolves
    <2>2. ChildKnown(a)'
      BY <1>2, <1>3 DEF ChildKnown
    <2> QED BY <1>1, <1>3, <2>1, <2>2 DEF Minded
  <1> QED BY <1>1, <1>2, <1>3, <1>4, OneAppMoves

LEMMA RelaunchTimesOutKeeps ==
    ASSUME LaunchInv, NEW a \in Apps, RelaunchTimesOut(a)
    PROVE  LaunchInv'
  <1> USE DEF RelaunchTimesOut, EndAt
  <1>1. /\ DOMAIN app = Apps /\ AppShape(a) /\ app[a].child \in Pids /\ Minded(a)
    BY DEF LaunchInv, LaunchShape, AppShape, At
  <1>2. Evolves(a) /\ Pids' = Pids /\ ~Alive(app[a].child)'
    BY <1>1, Killed
  <1>3. /\ DOMAIN app' = Apps /\ \A b \in Apps \ {a} : app'[b] = app[b]
        /\ AppShape(a)' /\ app'[a].untracked = app[a].untracked
        /\ app'[a].child = app[a].child /\ app'[a].at = "failed"
    BY <1>1, <1>2 DEF AppShape, Fields
  <1>4. Minded(a)'
    <2>1. OnlyChild(a) => OnlyChild(a)'
      BY <1>2, <1>3 DEF OnlyChild, Evolves
    <2>2. ChildKnown(a)'
      BY <1>2, <1>3 DEF ChildKnown
    <2> QED BY <1>1, <1>3, <2>1, <2>2 DEF Minded
  <1> QED BY <1>1, <1>2, <1>3, <1>4, OneAppMoves

(* A child is started by an app whose child before it is gone.             *)
LEMMA Spawns ==
    ASSUME LaunchInv, NEW a \in Apps, NEW port \in Ports \cup {AnyPort},
           daemons' = Spawned(a, port), ~app[a].untracked => ~Alive(app[a].child),
           NEW place \in {"wait", "await"},
           app' = [app EXCEPT ![a].at = place, ![a].child = Len(daemons) + 1]
    PROVE  LaunchInv'
  <1>1. DOMAIN app = Apps /\ AppShape(a) /\ Minded(a)
    BY DEF LaunchInv, LaunchShape
  <1>2. Evolves(a) /\ Pids' = Pids \cup {Len(daemons) + 1} /\ Len(daemons) + 1 \notin Pids
    BY Started DEF LaunchInv
  <1>3. /\ DOMAIN app' = Apps /\ \A b \in Apps \ {a} : app'[b] = app[b]
        /\ AppShape(a)' /\ app'[a].untracked = app[a].untracked
        /\ app'[a].child = Len(daemons) + 1 /\ app'[a].at = place
    BY <1>1, <1>2 DEF AppShape, Fields
  <1>4. ASSUME ~app[a].untracked
        PROVE  OnlyChild(a)' /\ ChildKnown(a)'
    <2>1. \A i \in Pids : daemons[i].app = a => ~Alive(i)
      BY <1>1, <1>4 DEF Minded, OnlyChild
    <2> QED BY <1>2, <1>3, <2>1 DEF OnlyChild, ChildKnown, Evolves
  <1>5. Minded(a)'
    BY <1>1, <1>3, <1>4 DEF Minded
  <1> QED BY <1>1, <1>2, <1>3, <1>5, OneAppMoves

LEMMA LaunchKeeps ==
    ASSUME LaunchInv, NEW a \in Apps, Launch(a)
    PROVE  LaunchInv'
  <1>1. /\ DOMAIN app = Apps /\ AppShape(a) /\ app[a].child \in Pids \cup {0} /\ Minded(a) /\ app[a].at = "launch"
    BY DEF LaunchInv, LaunchShape, AppShape, Launch, At
  <1>2. ~app[a].untracked => ~Alive(app[a].child)
    BY <1>1 DEF Minded, ChildKnown
  <1>3. ASSUME daemons' = Spawned(a, AnyPort),
               app' = [app EXCEPT ![a].at = "wait", ![a].child = Len(daemons) + 1]
        PROVE  LaunchInv'
    BY <1>2, <1>3, Spawns
  <1>4. ASSUME NextAttempt(a), UNCHANGED daemons
        PROVE  LaunchInv'
    <2>1. /\ Evolves(a) /\ Pids' = Pids /\ \A j : Alive(j)' <=> Alive(j)
      BY <1>4, Unchanged DEF LaunchInv
    <2>2. /\ DOMAIN app' = Apps /\ \A b \in Apps \ {a} : app'[b] = app[b]
          /\ AppShape(a)' /\ app'[a].untracked = app[a].untracked
          /\ app'[a].child = app[a].child /\ app'[a].at \in {"failed", "launch"}
      BY <1>1, <1>4, <2>1 DEF AppShape, Fields, NextAttempt, EndAt
    <2>3. Minded(a)'
      BY <1>1, <1>2, <1>4, <2>1, <2>2 DEF Minded, OnlyChild, ChildKnown
    <2> QED BY <1>1, <2>1, <2>2, <2>3, OneAppMoves
  <1> QED BY <1>3, <1>4 DEF Launch

LEMMA RelaunchKeeps ==
    ASSUME LaunchInv, NEW a \in Apps, Relaunch(a)
    PROVE  LaunchInv'
  <1>1. app[a].untracked \/ ~Alive(app[a].child)
    BY DEF LaunchInv, Minded, ChildKnown, Relaunch, At
  <1>2. app[a].port \in Ports \cup {AnyPort}
    BY DEF LaunchInv, LaunchShape, AppShape
  <1> QED BY <1>1, <1>2, Spawns DEF Relaunch

(* The daemon that accepts a shutdown goes on listening for a while.       *)
LEMMA ShutdownKeeps ==
    ASSUME LaunchInv, NEW a \in Apps, Shutdown(a)
    PROVE  LaunchInv'
  <1>1. DOMAIN app = Apps /\ AppShape(a) /\ Minded(a) /\ app[a].at = "connected"
    BY DEF LaunchInv, LaunchShape, Shutdown, At
  <1>2. PICK i \in Listening(app[a].port) : daemons' = [daemons EXCEPT ![i].state = "closing"]
    BY DEF Shutdown
  <1> DEFINE d == [daemons[i] EXCEPT !.state = "closing"]
  <1>3. /\ i \in Pids /\ d \in Daemon /\ d.app = daemons[i].app /\ d.port = daemons[i].port
        /\ d.state = "closing" /\ daemons[i].state # "dead"
    <2>1. i \in Pids /\ daemons[i] \in Daemon /\ daemons[i].state \in {"serving", "closing"}
      BY <1>2, PidsAre DEF LaunchInv, LaunchShape, Listening
    <2> QED BY <2>1 DEF Daemon
  <1>4. daemons' = [daemons EXCEPT ![i] = d]
    BY <1>2
  <1> HIDE DEF d
  <1>5. Evolves(a) /\ Pids' = Pids
    BY <1>3, <1>4, Changed DEF LaunchInv
  <1>6. /\ DOMAIN app' = Apps /\ \A b \in Apps \ {a} : app'[b] = app[b]
        /\ AppShape(a)' /\ app'[a].untracked = app[a].untracked
        /\ app'[a].child = app[a].child /\ app'[a].at = "stopping"
        /\ app'[a].port = app[a].port
    BY <1>1, <1>5 DEF AppShape, Fields, Shutdown
  <1>7. Minded(a)'
    <2>1. OnlyChild(a) => OnlyChild(a)'
      BY <1>5, <1>6 DEF OnlyChild, Evolves
    <2>2. ChildKnown(a) => ChildKnown(a)'
      BY <1>1, <1>5, <1>6 DEF ChildKnown, Evolves, Alive
    <2> QED BY <1>1, <1>6, <2>1, <2>2 DEF Minded
  <1> QED BY <1>1, <1>5, <1>6, <1>7, OneAppMoves

(* A listening daemon that begins to shut down, for an app that does not   *)
(* learn of it.                                                            *)
Closes(i) ==
    /\ daemons[i].state \in {"serving", "closing"}
    /\ daemons' = [daemons EXCEPT ![i].state = "closing"] /\ UNCHANGED app

LEMMA DaemonKeeps ==
    ASSUME LaunchInv, NEW i \in Pids,
           Closes(i) \/ Listens(i) \/ WritesRecord(i) \/ Fails(i) \/ Exits(i) \/ RecordAges(i)
    PROVE  LaunchInv'
  <1>1. daemons[i] \in Daemon
    BY PidsAre DEF LaunchInv, LaunchShape
  <1>2. ASSUME NEW d \in Daemon, daemons' = [daemons EXCEPT ![i] = d], UNCHANGED app,
               d.app = daemons[i].app, d.state = "dead" \/ d.port = daemons[i].port
                                       \/ daemons[i].state = "starting",
               daemons[i].state = "dead" => d.state = "dead",
               daemons[i].state \in {"serving", "closing"} =>
                   d.state \in {"serving", "closing", "dead"}
        PROVE  LaunchInv'
    <2>1. \A a \in Apps : Evolves(a)
      BY <1>2, Changed DEF LaunchInv
    <2>2. Pids' = Pids /\ daemons' \in Seq(Daemon)
      BY <1>2, Changed DEF LaunchInv, Evolves
    <2> QED BY <1>2, <2>1, <2>2, OneDaemonMoves
  <1>3. CASE Listens(i)
    <2>1. PICK port \in Ports : daemons' = [daemons EXCEPT ![i].state = "serving", ![i].port = port]
      BY <1>3 DEF Listens
    <2> DEFINE d == [daemons[i] EXCEPT !.state = "serving", !.port = port]
    <2>2. d \in Daemon /\ d.app = daemons[i].app /\ d.state = "serving"
      BY <1>1 DEF Daemon
    <2>3. daemons' = [daemons EXCEPT ![i] = d]
      BY <2>1
    <2> HIDE DEF d
    <2> QED BY <1>2, <1>3, <2>2, <2>3 DEF Listens
  <1>4. CASE WritesRecord(i)
    <2> DEFINE d == [daemons[i] EXCEPT !.record = TRUE]
    <2>1. /\ d \in Daemon /\ d.app = daemons[i].app /\ d.state = daemons[i].state
          /\ d.port = daemons[i].port
      BY <1>1 DEF Daemon
    <2>2. daemons' = [daemons EXCEPT ![i] = d] /\ UNCHANGED app
      BY <1>4 DEF WritesRecord
    <2> HIDE DEF d
    <2> QED BY <1>2, <2>1, <2>2
  <1>5. CASE Fails(i)
    <2> DEFINE d == [daemons[i] EXCEPT !.state = "dead"]
    <2>1. d \in Daemon /\ d.app = daemons[i].app /\ d.state = "dead"
      BY <1>1 DEF Daemon
    <2>2. daemons' = [daemons EXCEPT ![i] = d] /\ UNCHANGED app
      BY <1>5 DEF Fails, Become
    <2> HIDE DEF d
    <2> QED BY <1>2, <2>1, <2>2
  <1>6. CASE Exits(i)
    <2>1. PICK record \in {daemons[i].record, FALSE} :
             daemons' = [daemons EXCEPT ![i].state = "dead", ![i].record = record]
      BY <1>6 DEF Exits
    <2> DEFINE d == [daemons[i] EXCEPT !.state = "dead", !.record = record]
    <2>2. d \in Daemon /\ d.app = daemons[i].app /\ d.state = "dead"
      BY <1>1 DEF Daemon
    <2>3. daemons' = [daemons EXCEPT ![i] = d] /\ UNCHANGED app
      BY <1>6, <2>1 DEF Exits
    <2> HIDE DEF d
    <2> QED BY <1>2, <2>2, <2>3
  <1>7. CASE RecordAges(i)
    <2> DEFINE d == [daemons[i] EXCEPT !.fresh = FALSE]
    <2>1. d \in Daemon /\ d.app = daemons[i].app /\ d.state = daemons[i].state
          /\ d.port = daemons[i].port
      BY <1>1 DEF Daemon
    <2>2. daemons' = [daemons EXCEPT ![i] = d] /\ UNCHANGED app
      BY <1>7 DEF RecordAges
    <2> HIDE DEF d
    <2> QED BY <1>2, <2>1, <2>2
  <1>8. CASE Closes(i)
    <2> DEFINE d == [daemons[i] EXCEPT !.state = "closing"]
    <2>1. /\ d \in Daemon /\ d.app = daemons[i].app /\ d.state = "closing"
          /\ d.port = daemons[i].port /\ daemons[i].state # "dead"
      BY <1>1, <1>8 DEF Daemon, Closes
    <2>2. daemons' = [daemons EXCEPT ![i] = d] /\ UNCHANGED app
      BY <1>8 DEF Closes
    <2> HIDE DEF d
    <2> QED BY <1>2, <2>1, <2>2
  <1> QED BY <1>3, <1>4, <1>5, <1>6, <1>7, <1>8

LEMMA LaunchStarts == LaunchConstants /\ LaunchInit => LaunchInv
  <1> SUFFICES ASSUME LaunchConstants, LaunchInit PROVE LaunchInv
    OBVIOUS
  <1>1. PICK millis \in BOOLEAN : daemons = <<LeftBehind(millis)>>
    BY DEF LaunchInit
  <1>2. LeftBehind(millis) \in Daemon /\ LeftBehind(millis).state = "dead"
    BY DEF LeftBehind, Daemon, LaunchConstants
  <1>3. /\ daemons \in Seq(Daemon) /\ \A i \in Pids : ~Alive(i)
    BY <1>1, <1>2 DEF Pids, Alive
  <1>4. ASSUME NEW a \in Apps
        PROVE  AppShape(a) /\ Minded(a)
    BY <1>3 DEF LaunchInit, AppShape, Fields, Minded, OnlyChild, ChildKnown, Alive,
                LaunchConstants
  <1>5. DOMAIN app = Apps
    BY DEF LaunchInit
  <1> QED BY <1>3, <1>4, <1>5 DEF LaunchInv, LaunchShape

LEMMA LaunchStep == LaunchInv /\ [LaunchNext]_launchVars => LaunchInv'
  <1> SUFFICES ASSUME LaunchInv, [LaunchNext]_launchVars PROVE LaunchInv'
    OBVIOUS
  <1>1. ASSUME NEW a \in Apps,
               \/ Connect(a) \/ Launch(a) \/ LaunchedExits(a) \/ LaunchedFound(a)
               \/ LaunchTimesOut(a) \/ ReadAddress(a)
        PROVE  LaunchInv'
    BY <1>1, ConnectKeeps, LaunchKeeps, LaunchedExitsKeeps, LaunchedFoundKeeps,
       LaunchTimesOutKeeps, ReadAddressKeeps
  <1>2. ASSUME NEW a \in Apps,
               \/ Shutdown(a) \/ StillReachable(a) \/ Relaunch(a) \/ RelaunchFails(a)
               \/ RelaunchedExits(a) \/ Relaunched(a) \/ RelaunchTimesOut(a)
        PROVE  LaunchInv'
    BY <1>2, ShutdownKeeps, StillReachableKeeps, RelaunchKeeps, RelaunchFailsKeeps,
       RelaunchedExitsKeeps, RelaunchedKeeps, RelaunchTimesOutKeeps
  <1>3. ASSUME NEW i \in Pids,
               Listens(i) \/ WritesRecord(i) \/ Fails(i) \/ Exits(i) \/ RecordAges(i)
        PROVE  LaunchInv'
    BY <1>3, DaemonKeeps
  <1>4. CASE UNCHANGED launchVars
    BY <1>4, Unchanged, OneDaemonMoves DEF launchVars, LaunchInv, LaunchShape
  <1>5. ASSUME NEW a \in Apps, ShutdownUnanswered(a)
        PROVE  LaunchInv'
    <2>1. PICK i \in Listening(app[a].port) : Closes(i)
      BY <1>5 DEF ShutdownUnanswered, Listening, Closes
    <2>2. i \in Pids
      BY DEF Listening
    <2> QED BY <2>1, <2>2, DaemonKeeps
  <1> QED BY <1>1, <1>2, <1>3, <1>4, <1>5 DEF LaunchNext

LEMMA LaunchHolds == LaunchSpec => []LaunchInv
  BY LaunchStarts, LaunchStep, LaunchConstants, PTL DEF LaunchSpec

(* However slow, failed or repeated, starting and restarting leave an app  *)
(* with at most one daemon of its own (connect_daemon, restart_daemon).    *)
THEOREM OneEach == LaunchSpec => []OneDaemonPerApp
  <1>1. LaunchInv => OneDaemonPerApp
    <2> SUFFICES ASSUME LaunchInv, NEW a \in Apps, ~app[a].untracked
                 PROVE  Cardinality({i \in Pids : daemons[i].app = a /\ Alive(i)}) <= 1
      BY DEF OneDaemonPerApp
    <2> DEFINE own == {i \in Pids : daemons[i].app = a /\ Alive(i)}
    <2>1. own \subseteq {app[a].child}
      BY DEF LaunchInv, Minded, OnlyChild
    <2>2. IsFiniteSet({app[a].child}) /\ Cardinality({app[a].child}) = 1
      BY FS_Singleton
    <2> QED BY <2>1, <2>2, FS_Subset
  <1> QED BY <1>1, LaunchHolds, PTL

(* A call that has failed leaves no child running behind it.               *)
THEOREM NothingLeft == LaunchSpec => []FailureLeavesNothing
  <1>1. LaunchInv => FailureLeavesNothing
    BY DEF LaunchInv, Minded, ChildKnown, FailureLeavesNothing, At
  <1> QED BY <1>1, LaunchHolds, PTL

=============================================================================
