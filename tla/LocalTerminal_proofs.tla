------------------------- MODULE LocalTerminal_proofs -------------------------
(***************************************************************************)
(* For any sessions and bounds: no shell is left without an owner, the     *)
(* drawer's word on its shell is true, and its screen shows the output of  *)
(* one shell, in order.                                                    *)
(***************************************************************************)
EXTENDS LocalTerminal, TLAPS, SequenceTheorems

Shell == [exited : BOOLEAN, read : Nat]

Shells == Seq(Shell)

TerminalEvents == [type : {"output"}, id : Nat, n : Nat] \cup [type : {"exit"}, id : Nat]

Calls ==
    {NoCall, [at |-> "failed"]}
        \cup [at : {"bridge", "create"}, dir : Sessions]
        \cup [at : {"create", "kill", "created"}, id : Nat, dir : Sessions]

Terminals == {NoTerminal} \cup [status : {"running", "exited"}, id : Nat, dir : Sessions]

Ids == DOMAIN shells

Shape ==
    /\ mounted \in BOOLEAN /\ loading \in BOOLEAN /\ readOnly \in BOOLEAN
    /\ session \in Sessions /\ call \in Calls /\ terminal \in Terminals
    /\ shells \in Shells /\ events \in Seq(TerminalEvents)
    /\ table \subseteq Ids /\ kills \subseteq Ids /\ currentId \in Ids \cup {0}

(* A start holds no id while it waits, and there is none before the bridge.*)
StartsEmpty ==
    /\ loading <=> call.at # "none"
    /\ loading => currentId = 0
    /\ bridge = "none" => currentId = 0 /\ call.at \in {"none", "bridge"}
    /\ bridge = "broken" => currentId = 0 /\ call.at \in {"none", "failed"}
    /\ bridge = "unlistened" => ~mounted
    /\ bridge \in {"none", "ready", "broken", "unlistened"}
    /\ ~mounted /\ ~crossed => ~loading /\ currentId = 0

InTransit == {events[i] : i \in DOMAIN events}

(* What is said of an id is said of a shell that was started, once.        *)
IdsFresh ==
    /\ \A e \in InTransit : e.type = "exit" => e.id \in Ids \ table
    /\ currentId \notin kills
    /\ call.at = "created" => call.id \in Ids \ kills

(* The terminal on display is the current one or is being ended; a start   *)
(* that was not crossed has found none.                                    *)
OnDisplay ==
    /\ terminal # NoTerminal =>
          /\ terminal.id \in Ids
          /\ terminal.id = currentId \/ terminal.id \notin table \/ terminal.id \in kills
    /\ terminal = NoTerminal => ~readOnly
    /\ loading /\ ~crossed =>
          /\ terminal = NoTerminal
          /\ call.at # "failed" => call.dir = session

ThereOrTold(id) == id \in table \cup missed \/ [type |-> "exit", id |-> id] \in InTransit

StartedIsThere == call.at = "created" => ThereOrTold(call.id)

TerminalInv ==
    /\ Shape /\ StartsEmpty /\ IdsFresh /\ OnDisplay /\ StartedIsThere
    /\ NoOrphanShell /\ ExitedIsGone /\ RunningIsAlive /\ TerminalOfSession

(* The facts that the parts about ids rest on.                             *)
LEMMA Shapes ==
    ASSUME Shape
    PROVE  /\ Ids = 1..Len(shells) /\ Len(shells) \in Nat /\ 0 \notin Ids
           /\ \A e \in InTransit : e \in TerminalEvents
  <1>1. Ids = 1..Len(shells) /\ Len(shells) \in Nat
    BY LenProperties DEF Shape, Shells, Ids
  <1>2. ASSUME NEW i \in DOMAIN events
        PROVE  events[i] \in TerminalEvents
    BY <1>2, LenProperties, ElementOfSeq DEF Shape
  <1> QED BY <1>1, <1>2 DEF InTransit

LEMMA ShellOf ==
    ASSUME Shape, NEW id \in Ids
    PROVE  shells[id] \in Shell
  <1>1. shells \in [1..Len(shells) -> Shell] /\ id \in 1..Len(shells)
    BY Shapes, LenProperties DEF Shape, Shells
  <1> QED BY <1>1

(* A start, where there is one, has a request in its right form.           *)
LEMMA StartShape ==
    ASSUME TerminalInv, NEW dir \in Sessions, Start(dir)
    PROVE  /\ call' \in Calls /\ loading' \in BOOLEAN
           /\ kills' \subseteq Ids /\ currentId' \in Ids \cup {0}
  <1>1. /\ call \in Calls /\ loading \in BOOLEAN /\ Ids \subseteq Nat
        /\ kills \subseteq Ids /\ currentId \in Ids \cup {0}
    BY Shapes DEF TerminalInv, Shape
  <1>2. CASE loading
    BY <1>1, <1>2 DEF Start
  <1>3. CASE ~loading /\ bridge \in {"none", "broken"}
    <2>1. call' = [at |-> "bridge", dir |-> dir] \/ call' = [at |-> "failed"]
      BY <1>3 DEF Start, NoBridge
    <2>2. call' \in Calls
      BY <2>1 DEF Calls
    <2>3. loading' = TRUE /\ currentId' = 0 /\ kills' = kills
      BY <1>3 DEF Start
    <2> QED BY <1>1, <2>2, <2>3
  <1>4. CASE ~loading /\ bridge \notin {"none", "broken"} /\ currentId = 0
    <2>1. call' = [at |-> "create", id |-> 0, dir |-> dir]
      BY <1>4 DEF Start, KillThenCreate
    <2> QED BY <1>1, <1>4, <2>1 DEF Start, KillThenCreate, Killing, Calls
  <1>5. CASE ~loading /\ bridge \notin {"none", "broken"} /\ currentId # 0
    <2>1. call' = [at |-> "kill", id |-> currentId, dir |-> dir]
      BY <1>5 DEF Start, KillThenCreate
    <2> QED BY <1>1, <1>5, <2>1 DEF Start, KillThenCreate, Killing, Calls
  <1> QED BY <1>2, <1>3, <1>4, <1>5

LEMMA BridgeReadyKeeps ==
    ASSUME TerminalInv, BridgeReady
    PROVE  TerminalInv'
  <1> USE DEF BridgeReady, Calls, NoCall, drawerVars, backendVars, shellVars
  <1>1. Ids' = Ids /\ InTransit' = InTransit
    BY DEF Ids, InTransit
  <1>2. Shape'
    BY <1>1, Shapes DEF TerminalInv, Shape
  <1>3. StartsEmpty' /\ IdsFresh' /\ OnDisplay' /\ StartedIsThere'
    BY <1>1, Shapes DEF TerminalInv, Shape, StartsEmpty, IdsFresh, OnDisplay, StartedIsThere,
                        ThereOrTold
  <1>4. NoOrphanShell' /\ ExitedIsGone' /\ RunningIsAlive' /\ TerminalOfSession'
    BY <1>1, Shapes DEF TerminalInv, Shape, StartsEmpty, IdsFresh, OnDisplay, StartedIsThere,
                        ThereOrTold, InTransit,
                        NoOrphanShell, Owned, ExitedIsGone, RunningIsAlive, TerminalOfSession
  <1> QED BY <1>2, <1>3, <1>4 DEF TerminalInv

LEMMA BridgeFailsKeeps ==
    ASSUME TerminalInv, BridgeFails
    PROVE  TerminalInv'
  <1> USE DEF BridgeFails, Calls, NoCall, drawerVars, backendVars, shellVars
  <1>1. Ids' = Ids /\ InTransit' = InTransit
    BY DEF Ids, InTransit
  <1>2. Shape'
    BY <1>1, Shapes DEF TerminalInv, Shape
  <1>3. StartsEmpty' /\ IdsFresh' /\ OnDisplay' /\ StartedIsThere'
    BY <1>1, Shapes DEF TerminalInv, Shape, StartsEmpty, IdsFresh, OnDisplay, StartedIsThere,
                        ThereOrTold
  <1>4. NoOrphanShell' /\ ExitedIsGone' /\ RunningIsAlive' /\ TerminalOfSession'
    BY <1>1, Shapes DEF TerminalInv, Shape, StartsEmpty, IdsFresh, OnDisplay, StartedIsThere,
                        ThereOrTold, InTransit,
                        NoOrphanShell, Owned, ExitedIsGone, RunningIsAlive, TerminalOfSession
  <1> QED BY <1>2, <1>3, <1>4 DEF TerminalInv

LEMMA KillAnsweredKeeps ==
    ASSUME TerminalInv, KillAnswered
    PROVE  TerminalInv'
  <1> USE DEF KillAnswered, Calls, NoCall, drawerVars, backendVars, shellVars
  <1>1. Ids' = Ids /\ InTransit' = InTransit
    BY DEF Ids, InTransit
  <1>2. Shape'
    BY <1>1, Shapes DEF TerminalInv, Shape
  <1>3. StartsEmpty' /\ IdsFresh' /\ OnDisplay' /\ StartedIsThere'
    BY <1>1, Shapes DEF TerminalInv, Shape, StartsEmpty, IdsFresh, OnDisplay, StartedIsThere,
                        ThereOrTold
  <1>4. NoOrphanShell' /\ ExitedIsGone' /\ RunningIsAlive' /\ TerminalOfSession'
    BY <1>1, Shapes DEF TerminalInv, Shape, StartsEmpty, IdsFresh, OnDisplay, StartedIsThere,
                        ThereOrTold, InTransit,
                        NoOrphanShell, Owned, ExitedIsGone, RunningIsAlive, TerminalOfSession
  <1> QED BY <1>2, <1>3, <1>4 DEF TerminalInv

LEMMA CreateAnsweredKeeps ==
    ASSUME TerminalInv, CreateAnswered
    PROVE  TerminalInv'
  <1> USE DEF CreateAnswered, Calls, NoCall, Terminals, NoTerminal, drawerVars, shellVars
  <1>1. Ids' = Ids /\ InTransit' = InTransit
    BY DEF Ids, InTransit
  <1>2. Shape'
    <2>1. call.id \in Nat /\ call.dir \in Sessions /\ call.id \in Ids
      BY DEF TerminalInv, Shape, IdsFresh
    <2> QED BY <1>1, <2>1 DEF TerminalInv, Shape
  <1>3. StartsEmpty' /\ IdsFresh' /\ OnDisplay' /\ StartedIsThere'
    BY <1>1, Shapes DEF TerminalInv, Shape, StartsEmpty, IdsFresh, OnDisplay, StartedIsThere,
                        ThereOrTold
  <1>4. NoOrphanShell' /\ ExitedIsGone' /\ RunningIsAlive' /\ TerminalOfSession'
    BY <1>1, Shapes DEF TerminalInv, Shape, StartsEmpty, IdsFresh, OnDisplay, StartedIsThere,
                        ThereOrTold, InTransit,
                        NoOrphanShell, Owned, ExitedIsGone, RunningIsAlive, TerminalOfSession
  <1> QED BY <1>2, <1>3, <1>4 DEF TerminalInv

LEMMA CreateFailedKeeps ==
    ASSUME TerminalInv, CreateFailed
    PROVE  TerminalInv'
  <1> USE DEF CreateFailed, Calls, NoCall, NoTerminal, drawerVars, shellVars
  <1>1. Ids' = Ids /\ InTransit' = InTransit
    BY DEF Ids, InTransit
  <1>2. Shape'
    BY <1>1, Shapes DEF TerminalInv, Shape
  <1>3. StartsEmpty' /\ IdsFresh' /\ OnDisplay' /\ StartedIsThere'
    BY <1>1, Shapes DEF TerminalInv, Shape, StartsEmpty, IdsFresh, OnDisplay, StartedIsThere,
                        ThereOrTold
  <1>4. NoOrphanShell' /\ ExitedIsGone' /\ RunningIsAlive' /\ TerminalOfSession'
    BY <1>1, Shapes DEF TerminalInv, Shape, StartsEmpty, IdsFresh, OnDisplay, StartedIsThere,
                        ThereOrTold, InTransit,
                        NoOrphanShell, Owned, ExitedIsGone, RunningIsAlive, TerminalOfSession
  <1> QED BY <1>2, <1>3, <1>4 DEF TerminalInv

LEMMA XtermOpenedKeeps ==
    ASSUME TerminalInv, XtermOpened
    PROVE  TerminalInv'
  <1> USE DEF XtermOpened, Start, NoBridge, KillThenCreate, Killing, Calls, NoCall, shellVars
  <1>1. Ids' = Ids /\ InTransit' = InTransit
    BY DEF Ids, InTransit
  <1>2. Shape'
    <2>1. CASE mounted
      <3>1. Start(session) /\ session \in Sessions
        BY <2>1 DEF TerminalInv, Shape
      <3> HIDE DEF Start, Calls
      <3> QED BY <1>1, <2>1, <3>1, StartShape DEF TerminalInv, Shape
    <2>2. CASE ~mounted
      BY <1>1, <2>2 DEF TerminalInv, Shape
    <2> QED BY <2>1, <2>2
  <1>3. StartsEmpty' /\ IdsFresh' /\ OnDisplay' /\ StartedIsThere'
    BY <1>1, Shapes DEF TerminalInv, Shape, StartsEmpty, IdsFresh, OnDisplay, StartedIsThere,
                        ThereOrTold
  <1>4. NoOrphanShell' /\ ExitedIsGone' /\ RunningIsAlive' /\ TerminalOfSession'
    BY <1>1, Shapes DEF TerminalInv, Shape, StartsEmpty, IdsFresh, OnDisplay, StartedIsThere,
                        ThereOrTold, InTransit,
                        NoOrphanShell, Owned, ExitedIsGone, RunningIsAlive, TerminalOfSession
  <1> QED BY <1>2, <1>3, <1>4 DEF TerminalInv

LEMMA CloseKeeps ==
    ASSUME TerminalInv, Close
    PROVE  TerminalInv'
  <1> USE DEF Close, Killing, Calls, Terminals, NoTerminal, drawerVars, shellVars
  <1>1. Ids' = Ids /\ InTransit' = InTransit
    BY DEF Ids, InTransit
  <1>2. Shape'
    BY <1>1, Shapes DEF TerminalInv, Shape
  <1>3. StartsEmpty' /\ IdsFresh' /\ OnDisplay' /\ StartedIsThere'
    BY <1>1, Shapes DEF TerminalInv, Shape, StartsEmpty, IdsFresh, OnDisplay, StartedIsThere,
                        ThereOrTold
  <1>4. NoOrphanShell' /\ ExitedIsGone' /\ RunningIsAlive' /\ TerminalOfSession'
    BY <1>1, Shapes DEF TerminalInv, Shape, StartsEmpty, IdsFresh, OnDisplay, StartedIsThere,
                        ThereOrTold, InTransit,
                        NoOrphanShell, Owned, ExitedIsGone, RunningIsAlive, TerminalOfSession
  <1> QED BY <1>2, <1>3, <1>4 DEF TerminalInv

LEMMA NewShellKeeps ==
    ASSUME TerminalInv, NewShell
    PROVE  TerminalInv'
  <1> USE DEF NewShell, Start, NoBridge, KillThenCreate, Killing, Calls, NoCall, Terminals, NoTerminal, shellVars
  <1>1. Ids' = Ids /\ InTransit' = InTransit
    BY DEF Ids, InTransit
  <1>2. Shape'
    <2>1. Start(session) /\ session \in Sessions
      BY DEF TerminalInv, Shape
    <2> HIDE DEF Start, Calls
    <2> QED BY <1>1, <2>1, StartShape DEF TerminalInv, Shape
  <1>3. StartsEmpty' /\ IdsFresh' /\ OnDisplay' /\ StartedIsThere'
    BY <1>1, Shapes DEF TerminalInv, Shape, StartsEmpty, IdsFresh, OnDisplay, StartedIsThere,
                        ThereOrTold
  <1>4. NoOrphanShell' /\ ExitedIsGone' /\ RunningIsAlive' /\ TerminalOfSession'
    BY <1>1, Shapes DEF TerminalInv, Shape, StartsEmpty, IdsFresh, OnDisplay, StartedIsThere,
                        ThereOrTold, InTransit,
                        NoOrphanShell, Owned, ExitedIsGone, RunningIsAlive, TerminalOfSession
  <1> QED BY <1>2, <1>3, <1>4 DEF TerminalInv

LEMMA SwitchKeeps ==
    ASSUME TerminalInv, NEW s \in Sessions, Switch(s)
    PROVE  TerminalInv'
  <1> USE DEF Switch, NoBridge, ClearTerminal, Killing, Calls, NoCall, Terminals, NoTerminal, shellVars
  <1>1. Ids' = Ids /\ InTransit' = InTransit
    BY DEF Ids, InTransit
  <1>2. Shape'
    <2>1. call' \in Calls
      <3>1. CASE UNCHANGED call
        BY <3>1 DEF TerminalInv, Shape
      <3>2. CASE call' \in {[at |-> "bridge", dir |-> s], [at |-> "failed"]}
        BY <3>2
      <3>3. CASE call' = [at |-> "create", dir |-> s]
        BY <3>3
      <3> QED BY <3>1, <3>2, <3>3
    <2>2. kills' \subseteq Ids /\ currentId' \in Ids \cup {0}
      BY DEF TerminalInv, Shape
    <2> HIDE DEF Calls
    <2> QED BY <1>1, <2>1, <2>2 DEF TerminalInv, Shape
  <1>3. StartsEmpty' /\ IdsFresh' /\ OnDisplay' /\ StartedIsThere'
    BY <1>1, Shapes DEF TerminalInv, Shape, StartsEmpty, IdsFresh, OnDisplay, StartedIsThere,
                        ThereOrTold
  <1>4. NoOrphanShell' /\ ExitedIsGone' /\ RunningIsAlive' /\ TerminalOfSession'
    BY <1>1, Shapes DEF TerminalInv, Shape, StartsEmpty, IdsFresh, OnDisplay, StartedIsThere,
                        ThereOrTold, InTransit,
                        NoOrphanShell, Owned, ExitedIsGone, RunningIsAlive, TerminalOfSession
  <1> QED BY <1>2, <1>3, <1>4 DEF TerminalInv

LEMMA UnmountKeeps ==
    ASSUME TerminalInv, Unmount
    PROVE  TerminalInv'
  <1> USE DEF Unmount, Killing, backendVars, shellVars
  <1>1. Ids' = Ids /\ InTransit' = InTransit
    BY DEF Ids, InTransit
  <1>2. Shape'
    BY <1>1, Shapes DEF TerminalInv, Shape
  <1>3. StartsEmpty' /\ IdsFresh' /\ OnDisplay' /\ StartedIsThere'
    BY <1>1, Shapes DEF TerminalInv, Shape, StartsEmpty, IdsFresh, OnDisplay, StartedIsThere,
                        ThereOrTold
  <1>4. NoOrphanShell' /\ ExitedIsGone' /\ RunningIsAlive' /\ TerminalOfSession'
    BY <1>1, Shapes DEF TerminalInv, Shape, StartsEmpty, IdsFresh, OnDisplay, StartedIsThere,
                        ThereOrTold, InTransit,
                        NoOrphanShell, Owned, ExitedIsGone, RunningIsAlive, TerminalOfSession
  <1> QED BY <1>2, <1>3, <1>4 DEF TerminalInv

LEMMA ServeKillKeeps ==
    ASSUME TerminalInv, NEW id \in kills, ServeKill(id)
    PROVE  TerminalInv'
  <1> USE DEF ServeKill, drawerVars, backendVars
  <1>1. Ids' = Ids /\ InTransit' = InTransit
    BY DEF Ids, InTransit
  <1>2. Shape'
    BY <1>1, Shapes DEF TerminalInv, Shape
  <1>3. StartsEmpty' /\ IdsFresh' /\ OnDisplay' /\ StartedIsThere'
    BY <1>1, Shapes DEF TerminalInv, Shape, StartsEmpty, IdsFresh, OnDisplay, StartedIsThere,
                        ThereOrTold
  <1>4. NoOrphanShell' /\ ExitedIsGone' /\ RunningIsAlive' /\ TerminalOfSession'
    BY <1>1, Shapes DEF TerminalInv, Shape, StartsEmpty, IdsFresh, OnDisplay, StartedIsThere,
                        ThereOrTold, InTransit,
                        NoOrphanShell, Owned, ExitedIsGone, RunningIsAlive, TerminalOfSession
  <1> QED BY <1>2, <1>3, <1>4 DEF TerminalInv

(* An event taken from the transit, and one added to it.                   *)
LEMMA Taken ==
    ASSUME Shape, events # <<>>, events' = Tail(events)
    PROVE  /\ events' \in Seq(TerminalEvents)
           /\ InTransit' \subseteq InTransit /\ Head(events) \in InTransit
           /\ InTransit \subseteq InTransit' \cup {Head(events)}
  <1>1. /\ events \in Seq(TerminalEvents) /\ events' \in Seq(TerminalEvents)
        /\ Len(events') = Len(events) - 1 /\ Len(events) \in Nat \ {0}
        /\ \A i \in 1..Len(events') : events'[i] = events[i + 1]
    BY HeadTailProperties, EmptySeq DEF Shape
  <1>2. DOMAIN events = 1..Len(events) /\ DOMAIN events' = 1..Len(events')
    BY <1>1, LenProperties
  <1>3. Head(events) = events[1]
    BY <1>1
  <1>4. InTransit' \subseteq InTransit
    BY <1>1, <1>2 DEF InTransit
  <1>5. ASSUME NEW i \in DOMAIN events
        PROVE  events[i] \in InTransit' \cup {Head(events)}
    <2>1. CASE i = 1
      BY <1>3, <2>1
    <2>2. CASE i # 1
      <3>1. i - 1 \in DOMAIN events' /\ events'[i - 1] = events[i]
        BY <1>1, <1>2, <2>2
      <3> QED BY <3>1 DEF InTransit
    <2> QED BY <2>1, <2>2
  <1>6. InTransit \subseteq InTransit' \cup {Head(events)}
    BY <1>5 DEF InTransit
  <1>7. Head(events) \in InTransit
    BY <1>1, <1>2, <1>3 DEF InTransit
  <1> QED BY <1>1, <1>4, <1>6, <1>7

LEMMA Put ==
    ASSUME Shape, NEW e \in TerminalEvents, events' = Append(events, e)
    PROVE  events' \in Seq(TerminalEvents) /\ InTransit' = InTransit \cup {e}
  <1>1. /\ events \in Seq(TerminalEvents) /\ events' \in Seq(TerminalEvents)
        /\ Len(events') = Len(events) + 1 /\ Len(events) \in Nat
        /\ \A i \in 1..Len(events) : events'[i] = events[i]
        /\ events'[Len(events) + 1] = e
    BY AppendProperties, LenProperties DEF Shape
  <1>2. DOMAIN events = 1..Len(events) /\ DOMAIN events' = 1..Len(events')
    BY <1>1, LenProperties
  <1> QED BY <1>1, <1>2 DEF InTransit

(* What the open drawer calls running, in the words of InTransit.          *)
Running ==
    mounted /\ ~loading /\ ~crossed /\ terminal.status = "running" =>
        /\ terminal.id = currentId /\ ~readOnly
        /\ ThereOrTold(terminal.id)

LEMMA RunningSame == RunningIsAlive <=> Running
  <1>1. ASSUME NEW e
        PROVE  e \in InTransit <=> \E i \in DOMAIN events : events[i] = e
    BY DEF InTransit
  <1> QED BY <1>1 DEF RunningIsAlive, Running, ThereOrTold

LEMMA RunningSameNext == (RunningIsAlive <=> Running)'
  BY RunningSame, PTL

LEMMA HearOutputKeeps ==
    ASSUME TerminalInv, HearOutput
    PROVE  TerminalInv'
  <1> USE DEF HearOutput, backendVars, ptyVars
  <1>1. /\ events' \in Seq(TerminalEvents) /\ InTransit' \subseteq InTransit
        /\ InTransit \subseteq InTransit' \cup {Head(events)} /\ Head(events).type = "output"
    BY Taken DEF TerminalInv
  <1>2. Ids' = Ids
    BY DEF Ids
  <1>3. \A id : ThereOrTold(id) => ThereOrTold(id)'
    <2> SUFFICES ASSUME NEW id, ThereOrTold(id) PROVE ThereOrTold(id)'
      OBVIOUS
    <2>1. [type |-> "exit", id |-> id].type # Head(events).type
      BY <1>1
    <2> QED BY <1>1, <2>1 DEF ThereOrTold
  <1>4. Shape'
    BY <1>1, <1>2 DEF TerminalInv, Shape
  <1>5. StartsEmpty' /\ OnDisplay' /\ NoOrphanShell' /\ ExitedIsGone' /\ TerminalOfSession'
    BY <1>2 DEF TerminalInv, StartsEmpty, OnDisplay, NoOrphanShell, Owned, ExitedIsGone,
                  TerminalOfSession
  <1>6. IdsFresh'
    BY <1>1, <1>2 DEF TerminalInv, IdsFresh
  <1>7. StartedIsThere' /\ Running'
    BY <1>3, RunningSame DEF TerminalInv, StartedIsThere, Running
  <1> QED BY <1>4, <1>5, <1>6, <1>7, RunningSameNext DEF TerminalInv

LEMMA HearExitKeeps ==
    ASSUME TerminalInv, HearExit
    PROVE  TerminalInv'
  <1> DEFINE id == Head(events).id
  <1> USE DEF HearExit, drawerVars
  <1>1. /\ events' \in Seq(TerminalEvents) /\ InTransit' \subseteq InTransit
        /\ InTransit \subseteq InTransit' \cup {Head(events)} /\ Head(events) \in InTransit
        /\ Head(events).type = "exit"
    BY Taken DEF TerminalInv
  <1>2. Ids' = Ids /\ id \in Ids \ table /\ Head(events) = [type |-> "exit", id |-> id]
    <2>1. Head(events) \in [type : {"exit"}, id : Nat]
      BY <1>1, Shapes DEF TerminalInv, TerminalEvents
    <2> QED BY <1>1, <2>1 DEF Ids, TerminalInv, IdsFresh
  <1>3. \A i : ThereOrTold(i) => ThereOrTold(i)' \/ i = id
    BY <1>1, <1>2 DEF ThereOrTold
  <1>4. Shape'
    BY <1>1, <1>2 DEF TerminalInv, Shape, Terminals, NoTerminal
  <1>5. StartsEmpty'
    BY DEF TerminalInv, StartsEmpty
  <1>6. IdsFresh'
    BY <1>1, <1>2, Shapes DEF TerminalInv, IdsFresh, Shape
  <1>7. OnDisplay'
    <2>1. terminal' # NoTerminal => terminal # NoTerminal /\ terminal'.id = terminal.id
      BY DEF TerminalInv, Shape, Terminals, NoTerminal
    <2>2. Hears(id) => id = currentId /\ id # 0 /\ ~loading
      BY <1>2, Shapes DEF Hears, TerminalInv, StartsEmpty
    <2>3. terminal' = NoTerminal => terminal = NoTerminal /\ UNCHANGED readOnly
      BY DEF TerminalInv, Shape, Terminals, NoTerminal
    <2> QED BY <1>2, <2>1, <2>2, <2>3 DEF TerminalInv, OnDisplay
  <1>8. StartedIsThere'
    BY <1>3 DEF TerminalInv, StartedIsThere, ThereOrTold
  <1>9. NoOrphanShell'
    BY <1>2 DEF TerminalInv, NoOrphanShell, Owned, Hears
  <1>10. ExitedIsGone'
    <2> SUFFICES ASSUME terminal'.status = "exited"
                 PROVE  terminal'.id \notin table \/ terminal'.id \in kills
      BY DEF ExitedIsGone
    <2>1. terminal # NoTerminal /\ terminal'.id = terminal.id
      BY DEF TerminalInv, Shape, Terminals, NoTerminal
    <2>2. CASE UNCHANGED terminal
      BY <2>2 DEF TerminalInv, ExitedIsGone
    <2>3. CASE Hears(id)
      BY <1>2, <2>1, <2>3 DEF TerminalInv, OnDisplay, Hears
    <2> QED BY <2>2, <2>3
  <1>11. Running'
    <2> SUFFICES ASSUME mounted, ~loading, ~crossed, terminal'.status = "running"
                 PROVE  /\ terminal'.id = currentId' /\ ~readOnly'
                        /\ ThereOrTold(terminal.id)'
      BY DEF Running
    <2>1. CASE Hears(id)
      <3>1. terminal = NoTerminal /\ terminal' = NoTerminal
        BY <2>1 DEF TerminalInv, Shape, Terminals, NoTerminal
      <3> QED BY <3>1 DEF NoTerminal
    <2>2. CASE ~Hears(id)
      <3>1. /\ UNCHANGED <<terminal, readOnly, currentId>>
            /\ terminal.id = currentId /\ ~readOnly /\ ThereOrTold(terminal.id)
        BY <2>2, RunningSame DEF TerminalInv, Running
      <3>2. currentId # 0 /\ bridge = "ready"
        BY <3>1, Shapes DEF TerminalInv, OnDisplay, StartsEmpty, NoTerminal
      <3>3. terminal.id # id
        BY <2>2, <3>1, <3>2 DEF Hears
      <3>4. ThereOrTold(terminal.id)'
        BY <1>3, <3>1, <3>3 DEF ThereOrTold
      <3> QED BY <3>1, <3>4
    <2> QED BY <2>1, <2>2
  <1>12. TerminalOfSession'
    BY DEF TerminalInv, TerminalOfSession, Shape, Terminals, NoTerminal
  <1> QED BY <1>4, <1>5, <1>6, <1>7, <1>8, <1>9, <1>10, <1>11, <1>12, RunningSameNext
         DEF TerminalInv

(* A new shell has an id that nothing speaks of yet.                       *)
LEMMA ServeCreateKeeps ==
    ASSUME TerminalInv, ServeCreate
    PROVE  TerminalInv'
  <1> DEFINE id == Len(shells) + 1
  <1> USE DEF ServeCreate, drawerVars, backendVars
  <1>1. InTransit' = InTransit
    BY DEF InTransit
  <1>2. call \in Calls /\ call.at = "create" /\ call.dir \in Sessions
    BY DEF TerminalInv, Shape, Calls, NoCall
  <1>3. CASE call' = [at |-> "failed"] /\ UNCHANGED <<shells, table>>
    <2>1. Ids' = Ids
      BY <1>3 DEF Ids
    <2>2. Shape' /\ StartsEmpty'
      BY <1>1, <1>2, <1>3, <2>1 DEF TerminalInv, Shape, StartsEmpty, Calls
    <2>3. IdsFresh' /\ OnDisplay' /\ StartedIsThere' /\ NoOrphanShell' /\ ExitedIsGone'
          /\ TerminalOfSession'
      BY <1>1, <1>2, <1>3, <2>1 DEF TerminalInv, IdsFresh, OnDisplay, StartedIsThere,
                                    StartsEmpty, NoOrphanShell, Owned, ExitedIsGone,
                                    TerminalOfSession
    <2>4. RunningIsAlive'
      BY <1>2, <1>3 DEF TerminalInv, RunningIsAlive, StartsEmpty
    <2> QED BY <2>2, <2>3, <2>4 DEF TerminalInv
  <1>4. CASE /\ shells' = Append(shells, [exited |-> FALSE, read |-> 0])
             /\ table' = table \cup {id}
             /\ call' = [at |-> "created", id |-> id, dir |-> call.dir]
    <2>1. /\ shells' \in Shells /\ Len(shells') = Len(shells) + 1
          /\ Len(shells) \in Nat /\ Ids = 1..Len(shells)
      <3>1. [exited |-> FALSE, read |-> 0] \in Shell
        BY DEF Shell
      <3> QED BY <1>4, <3>1, AppendProperties, Shapes DEF TerminalInv, Shape, Shells
    <2>2. /\ Ids' = Ids \cup {id} /\ id \notin Ids /\ id \in Nat /\ id # 0
      <3>1. Ids' = 1..Len(shells')
        BY <2>1, LenProperties DEF Shells, Ids
      <3> QED BY <2>1, <3>1
    <2> HIDE DEF id
    <2>3. Shape' /\ StartsEmpty'
      BY <1>1, <1>2, <1>4, <2>1, <2>2 DEF TerminalInv, Shape, StartsEmpty, Calls
    <2>4. IdsFresh'
      BY <1>1, <1>4, <2>2, Shapes DEF TerminalInv, Shape, IdsFresh
    <2>5. OnDisplay'
      BY <1>2, <1>4, <2>2 DEF TerminalInv, Shape, OnDisplay, StartsEmpty
    <2>8. ExitedIsGone'
      BY <1>4, <2>2 DEF TerminalInv, OnDisplay, ExitedIsGone, NoTerminal
    <2>6. StartedIsThere' /\ NoOrphanShell'
      BY <1>2, <1>4 DEF TerminalInv, StartedIsThere, ThereOrTold, NoOrphanShell, Owned
    <2>7. RunningIsAlive' /\ TerminalOfSession'
      BY <1>2, <1>4 DEF TerminalInv, RunningIsAlive, StartsEmpty, TerminalOfSession
    <2> QED BY <2>3, <2>4, <2>5, <2>6, <2>7, <2>8 DEF TerminalInv
  <1> QED BY <1>3, <1>4

LEMMA ReadsKeeps ==
    ASSUME TerminalInv, NEW id \in Ids, Reads(id)
    PROVE  TerminalInv'
  <1> DEFINE e == [type |-> "output", id |-> id, n |-> shells[id].read + 1]
  <1> USE DEF Reads, OtherVars, drawerVars, backendVars, ptyVars
  <1>1. shells' \in Shells /\ Ids' = Ids /\ e \in TerminalEvents
    <2>1. shells[id] \in Shell /\ id \in Nat /\ shells \in Seq(Shell) /\ Ids = 1..Len(shells)
      BY Shapes, ShellOf DEF TerminalInv, Shape, Shells
    <2>2. [shells[id] EXCEPT !.read = @ + 1] \in Shell
      <3>1. \A x \in Shell : x.read + 1 \in Nat
        BY DEF Shell
      <3>2. \A x \in Shell, n \in Nat : [x EXCEPT !.read = n] \in Shell
        BY DEF Shell
      <3> QED BY <2>1, <3>1, <3>2
    <2>3. shells' = [shells EXCEPT ![id] = [shells[id] EXCEPT !.read = @ + 1]]
      OBVIOUS
    <2>4. shells' \in Seq(Shell) /\ Len(shells') = Len(shells)
      BY <2>1, <2>2, <2>3, ExceptSeq
    <2>5. Ids' = Ids
      BY <2>1, <2>4, LenProperties DEF Ids
    <2> QED BY <2>1, <2>4, <2>5 DEF Shells, Shell, TerminalEvents
  <1>2. events' \in Seq(TerminalEvents) /\ InTransit' = InTransit \cup {e}
    BY <1>1, Put DEF TerminalInv
  <1>3. \A i : ThereOrTold(i) => ThereOrTold(i)'
    BY <1>2 DEF ThereOrTold
  <1>4. Shape'
    BY <1>1, <1>2 DEF TerminalInv, Shape
  <1>5. StartsEmpty' /\ OnDisplay' /\ NoOrphanShell' /\ ExitedIsGone' /\ TerminalOfSession'
    BY <1>1 DEF TerminalInv, StartsEmpty, OnDisplay, NoOrphanShell, Owned, ExitedIsGone,
                  TerminalOfSession
  <1>6. IdsFresh'
    BY <1>1, <1>2 DEF TerminalInv, IdsFresh
  <1>7. StartedIsThere' /\ Running'
    BY <1>3, RunningSame DEF TerminalInv, StartedIsThere, Running
  <1> QED BY <1>4, <1>5, <1>6, <1>7, RunningSameNext DEF TerminalInv

LEMMA ReapsKeeps ==
    ASSUME TerminalInv, NEW id \in Ids, Reaps(id)
    PROVE  TerminalInv'
  <1> DEFINE e == [type |-> "exit", id |-> id]
  <1> USE DEF Reaps, OtherVars, drawerVars, backendVars, ptyVars
  <1>1. shells' \in Shells /\ Ids' = Ids /\ e \in TerminalEvents
    <2>1. shells[id] \in Shell /\ id \in Nat /\ shells \in Seq(Shell) /\ Ids = 1..Len(shells)
      BY Shapes, ShellOf DEF TerminalInv, Shape, Shells
    <2>2. [shells[id] EXCEPT !.exited = TRUE] \in Shell
      BY <2>1 DEF Shell
    <2>3. shells' = [shells EXCEPT ![id] = [shells[id] EXCEPT !.exited = TRUE]]
      OBVIOUS
    <2>4. shells' \in Seq(Shell) /\ Len(shells') = Len(shells)
      BY <2>1, <2>2, <2>3, ExceptSeq
    <2>5. Ids' = Ids
      BY <2>1, <2>4, LenProperties DEF Ids
    <2> QED BY <2>1, <2>4, <2>5 DEF Shells, Shell, TerminalEvents
  <1>2. events' \in Seq(TerminalEvents) /\ InTransit' = InTransit \cup {e}
    BY <1>1, Put DEF TerminalInv
  <1>3. \A i : ThereOrTold(i) => ThereOrTold(i)'
    BY <1>2 DEF ThereOrTold
  <1>4. Shape'
    BY <1>1, <1>2 DEF TerminalInv, Shape
  <1>5. StartsEmpty' /\ OnDisplay' /\ NoOrphanShell' /\ ExitedIsGone' /\ TerminalOfSession'
    BY <1>1 DEF TerminalInv, StartsEmpty, OnDisplay, NoOrphanShell, Owned, ExitedIsGone,
                  TerminalOfSession
  <1>6. IdsFresh'
    BY <1>1, <1>2 DEF TerminalInv, IdsFresh
  <1>7. StartedIsThere' /\ Running'
    BY <1>3, RunningSame DEF TerminalInv, StartedIsThere, Running
  <1> QED BY <1>4, <1>5, <1>6, <1>7, RunningSameNext DEF TerminalInv

LEMMA TerminalStarts == TerminalBounds /\ TerminalInit => TerminalInv
  <1> SUFFICES ASSUME TerminalBounds, TerminalInit PROVE TerminalInv
    OBVIOUS
  <1> USE DEF TerminalInit, NoTerminal, NoCall
  <1>1. Shape
    BY EmptySeq DEF TerminalBounds, Shape, Shells, Calls, Terminals, NoTerminal, NoCall
  <1>2. StartsEmpty /\ IdsFresh /\ OnDisplay /\ StartedIsThere
    BY DEF StartsEmpty, IdsFresh, InTransit, OnDisplay, StartedIsThere
  <1>3. NoOrphanShell /\ ExitedIsGone /\ RunningIsAlive /\ TerminalOfSession
    BY DEF NoOrphanShell, Owned, ExitedIsGone, RunningIsAlive, TerminalOfSession
  <1> QED BY <1>1, <1>2, <1>3 DEF TerminalInv

LEMMA TerminalStep == TerminalInv /\ [TerminalNext]_terminalVars => TerminalInv'
  <1> SUFFICES ASSUME TerminalInv, [TerminalNext]_terminalVars PROVE TerminalInv'
    OBVIOUS
  <1>1. CASE XtermOpened \/ Close \/ NewShell \/ Unmount
    BY <1>1, XtermOpenedKeeps, CloseKeeps, NewShellKeeps, UnmountKeeps
  <1>2. ASSUME NEW s \in Sessions, Switch(s) PROVE TerminalInv'
    BY <1>2, SwitchKeeps
  <1>3. CASE BridgeReady \/ BridgeFails \/ KillAnswered \/ CreateAnswered \/ CreateFailed
    BY <1>3, BridgeReadyKeeps, BridgeFailsKeeps, KillAnsweredKeeps, CreateAnsweredKeeps, CreateFailedKeeps
  <1>4. CASE HearOutput \/ HearExit \/ ServeCreate
    BY <1>4, HearOutputKeeps, HearExitKeeps, ServeCreateKeeps
  <1>5. ASSUME NEW id \in kills, ServeKill(id) PROVE TerminalInv'
    BY <1>5, ServeKillKeeps
  <1>6. ASSUME NEW id \in DOMAIN shells, Reads(id) \/ Reaps(id) PROVE TerminalInv'
    BY <1>6, ReadsKeeps, ReapsKeeps DEF Ids
  <1>7. CASE UNCHANGED terminalVars
    <2> USE DEF terminalVars, drawerVars, backendVars, ptyVars, shellVars
    <2>1. Ids' = Ids /\ InTransit' = InTransit /\ Shape'
      BY <1>7 DEF TerminalInv, Shape, Ids, InTransit
    <2>2. StartsEmpty' /\ IdsFresh' /\ OnDisplay' /\ StartedIsThere'
      BY <1>7, <2>1 DEF TerminalInv, StartsEmpty, IdsFresh, OnDisplay, StartedIsThere, ThereOrTold
    <2>3. NoOrphanShell' /\ ExitedIsGone' /\ RunningIsAlive' /\ TerminalOfSession'
      BY <1>7 DEF TerminalInv, NoOrphanShell, Owned, ExitedIsGone, RunningIsAlive, TerminalOfSession
    <2> QED BY <2>1, <2>2, <2>3 DEF TerminalInv
  <1> QED BY <1>1, <1>2, <1>3, <1>4, <1>5, <1>6, <1>7 DEF TerminalNext

LEMMA TerminalHolds == TerminalSpec => []TerminalInv
  BY TerminalStarts, TerminalStep, TerminalBounds, PTL DEF TerminalSpec

(* No shell is forgotten: one that runs behind an entry of the table is    *)
(* current, or being killed, or about to be handed over (useLocalPty.ts).  *)
THEOREM ShellsOwned == TerminalSpec => []NoOrphanShell
  <1>1. TerminalInv => NoOrphanShell
    BY DEF TerminalInv
  <1> QED BY <1>1, TerminalHolds, PTL

(* A terminal marked exited is gone from the table or about to be: an exit *)
(* heard late, or a close, never marks a shell that lives on.              *)
THEOREM ExitsTrue == TerminalSpec => []ExitedIsGone
  <1>1. TerminalInv => ExitedIsGone
    BY DEF TerminalInv
  <1> QED BY <1>1, TerminalHolds, PTL

(* What is called running is there, or the news of its end is under way.   *)
THEOREM RunningTrue == TerminalSpec => []RunningIsAlive
  <1>1. TerminalInv => RunningIsAlive
    BY DEF TerminalInv
  <1> QED BY <1>1, TerminalHolds, PTL

(* The shell on display runs in the directory of the session on display.   *)
THEOREM DirectoryTrue == TerminalSpec => []TerminalOfSession
  <1>1. TerminalInv => TerminalOfSession
    BY DEF TerminalInv
  <1> QED BY <1>1, TerminalHolds, PTL

----------------------------------------------------------------------------
(* The output in transit: each shell's chunks in their order, the next one *)
(* of each behind it until all that was read is there.                     *)
IsOutput(e) == e.type = "output"

StreamsInOrder ==
    \A i \in DOMAIN events : IsOutput(events[i]) =>
        /\ events[i].id \in DOMAIN shells
        /\ events[i].n <= shells[events[i].id].read
        /\ \A j \in DOMAIN events :
             i < j /\ IsOutput(events[j]) /\ events[j].id = events[i].id
                 => events[i].n < events[j].n
        /\ \/ events[i].n = shells[events[i].id].read
           \/ \E j \in DOMAIN events :
                /\ i < j /\ IsOutput(events[j]) /\ events[j].id = events[i].id
                /\ events[j].n = events[i].n + 1

(* After chunk n of shell id the next one is still to be heard.            *)
Continues(id, n) ==
    /\ \A j \in DOMAIN events : IsOutput(events[j]) /\ events[j].id = id => n < events[j].n
    /\ \/ n = shells[id].read
       \/ \E j \in DOMAIN events :
            IsOutput(events[j]) /\ events[j].id = id /\ events[j].n = n + 1

Chunks == [type : {"output"}, id : Nat, n : Nat]

ScreenInv ==
    /\ xterms \in Nat /\ screen \in Seq(Chunks)
    /\ xterms > 0 => mounted
    /\ screen # <<>> => xterms > 0 /\ ~loading
    /\ OneShellOnScreen
    /\ screen # <<>> /\ currentId # 0 =>
         /\ screen[Len(screen)].id = currentId
         /\ Continues(currentId, screen[Len(screen)].n)
    /\ StreamsInOrder

(* A step that leaves the shells and their events alone, and either clears *)
(* the screen or leaves it to the same shell.                              *)
LEMMA QuietKeepsScreen ==
    ASSUME ScreenInv, UNCHANGED <<shells, events>>, xterms' \in Nat, xterms' > 0 => mounted',
           \/ screen' = <<>>
           \/ UNCHANGED <<screen, xterms, mounted, loading>> /\ currentId' \in {0, currentId}
    PROVE  ScreenInv'
  <1>1. StreamsInOrder'
    BY DEF ScreenInv, StreamsInOrder
  <1>2. CASE screen' = <<>>
    <2>1. screen' \in Seq(Chunks) /\ Len(screen') = 0
      BY <1>2, EmptySeq
    <2>2. OneShellOnScreen'
      BY <2>1 DEF OneShellOnScreen
    <2> QED BY <1>1, <1>2, <2>1, <2>2 DEF ScreenInv
  <1>3. CASE UNCHANGED <<screen, xterms, mounted, loading>> /\ currentId' \in {0, currentId}
    <2>1. OneShellOnScreen'
      BY <1>3 DEF ScreenInv, OneShellOnScreen
    <2>2. \A id, n : Continues(id, n) => Continues(id, n)'
      BY DEF Continues
    <2> QED BY <1>1, <1>3, <2>1, <2>2 DEF ScreenInv
  <1> QED BY <1>2, <1>3

(* The steps of the drawer and of the controller, and pty_kill.            *)
LEMMA QuietSteps ==
    ASSUME TerminalInv, ScreenInv,
           \/ XtermOpened \/ Close \/ NewShell \/ (\E s \in Sessions : Switch(s)) \/ Unmount
           \/ BridgeReady \/ BridgeFails \/ KillAnswered \/ CreateAnswered \/ CreateFailed
           \/ \E id \in kills : ServeKill(id)
    PROVE  ScreenInv'
  <1> USE DEF drawerVars, backendVars, ptyVars, shellVars
  <1>0. xterms \in Nat /\ (xterms > 0 => mounted)
    BY DEF ScreenInv
  <1>1. CASE XtermOpened
    <2>1. UNCHANGED <<shells, events>>
      BY <1>1 DEF XtermOpened
    <2>2. CASE mounted
      BY <1>0, <1>1, <2>1, <2>2, QuietKeepsScreen DEF XtermOpened
    <2>3. CASE ~mounted
      BY <1>0, <1>1, <2>1, <2>3, QuietKeepsScreen DEF XtermOpened
    <2> QED BY <2>2, <2>3
  <1>2. CASE Close
    BY <1>0, <1>2, QuietKeepsScreen DEF Close
  <1>3. CASE NewShell
    BY <1>0, <1>3, QuietKeepsScreen DEF NewShell
  <1>4. ASSUME NEW s \in Sessions, Switch(s)
        PROVE  ScreenInv'
    BY <1>0, <1>4, QuietKeepsScreen DEF Switch
  <1>5. CASE Unmount
    BY <1>0, <1>5, QuietKeepsScreen DEF Unmount
  <1>6. CASE BridgeReady \/ BridgeFails
    BY <1>0, <1>6, QuietKeepsScreen DEF BridgeReady, BridgeFails
  <1>7. CASE KillAnswered
    BY <1>0, <1>7, QuietKeepsScreen DEF KillAnswered
  <1>8. CASE CreateAnswered \/ CreateFailed
    <2>1. screen = <<>>
      BY <1>8 DEF CreateAnswered, CreateFailed, TerminalInv, StartsEmpty, ScreenInv
    <2> QED BY <1>0, <1>8, <2>1, QuietKeepsScreen DEF CreateAnswered, CreateFailed
  <1>9. ASSUME NEW id \in kills, ServeKill(id)
        PROVE  ScreenInv'
    BY <1>0, <1>9, QuietKeepsScreen DEF ServeKill
  <1> QED BY <1>1, <1>2, <1>3, <1>4, <1>5, <1>6, <1>7, <1>8, <1>9

(* The shape of the transit once its head is taken.                        *)
LEMMA TailShape ==
    ASSUME Shape, events # <<>>, events' = Tail(events)
    PROVE  /\ DOMAIN events = 1..Len(events) /\ Len(events) \in Nat \ {0}
           /\ DOMAIN events' = 1 .. Len(events) - 1
           /\ \A i \in DOMAIN events' : i + 1 \in DOMAIN events /\ events'[i] = events[i + 1]
           /\ \A i \in DOMAIN events : i # 1 => i - 1 \in DOMAIN events' /\ events'[i - 1] = events[i]
           /\ 1 \in DOMAIN events /\ Head(events) = events[1]
  <1>1. /\ events \in Seq(TerminalEvents) /\ events' \in Seq(TerminalEvents)
        /\ Len(events') = Len(events) - 1 /\ Len(events) \in Nat \ {0}
        /\ \A i \in 1..Len(events') : events'[i] = events[i + 1]
    BY HeadTailProperties, EmptySeq DEF Shape
  <1>2. DOMAIN events = 1..Len(events) /\ DOMAIN events' = 1..Len(events')
    BY <1>1, LenProperties
  <1>3. Head(events) = events[1]
    BY <1>1
  <1>4. \A i \in DOMAIN events' : i + 1 \in DOMAIN events /\ events'[i] = events[i + 1]
    BY <1>1, <1>2
  <1>5. \A i \in DOMAIN events : i # 1 => i - 1 \in DOMAIN events' /\ events'[i - 1] = events[i]
    BY <1>1, <1>2
  <1> QED BY <1>1, <1>2, <1>3, <1>4, <1>5

LEMMA OutputTypes ==
    ASSUME Shape, NEW i \in DOMAIN events, IsOutput(events[i])
    PROVE  events[i] \in Chunks
  <1>1. events[i] \in TerminalEvents
    BY LenProperties, ElementOfSeq DEF Shape
  <1> QED BY <1>1 DEF TerminalEvents, Chunks, IsOutput

LEMMA TailInOrder ==
    ASSUME Shape, StreamsInOrder, events # <<>>, events' = Tail(events), shells' = shells
    PROVE  StreamsInOrder'
  <1> SUFFICES ASSUME NEW i \in DOMAIN events', IsOutput(events'[i])
               PROVE  /\ events'[i].id \in DOMAIN shells
                      /\ events'[i].n <= shells[events'[i].id].read
                      /\ \A j \in DOMAIN events' :
                           i < j /\ IsOutput(events'[j]) /\ events'[j].id = events'[i].id
                               => events'[i].n < events'[j].n
                      /\ \/ events'[i].n = shells[events'[i].id].read
                         \/ \E j \in DOMAIN events' :
                              /\ i < j /\ IsOutput(events'[j]) /\ events'[j].id = events'[i].id
                              /\ events'[j].n = events'[i].n + 1
    BY DEF StreamsInOrder, IsOutput
  <1>1. /\ i + 1 \in DOMAIN events /\ events'[i] = events[i + 1]
        /\ \A j \in DOMAIN events' : j + 1 \in DOMAIN events /\ events'[j] = events[j + 1]
        /\ \A j \in DOMAIN events : j # 1 => j - 1 \in DOMAIN events' /\ events'[j - 1] = events[j]
    BY TailShape
  <1>2. DOMAIN events \subseteq Nat /\ DOMAIN events' \subseteq Nat /\ \A j \in DOMAIN events' : j >= 1
    BY TailShape
  <1>3. /\ events'[i].id \in DOMAIN shells
        /\ events'[i].n <= shells[events'[i].id].read
    BY <1>1 DEF StreamsInOrder
  <1>4. ASSUME NEW j \in DOMAIN events', i < j, IsOutput(events'[j]), events'[j].id = events'[i].id
        PROVE  events'[i].n < events'[j].n
    <2>1. i + 1 < j + 1
      BY <1>2, <1>4
    <2> QED BY <1>1, <1>4, <2>1 DEF StreamsInOrder
  <1>5. ASSUME events'[i].n # shells[events'[i].id].read
        PROVE  \E j \in DOMAIN events' :
                  /\ i < j /\ IsOutput(events'[j]) /\ events'[j].id = events'[i].id
                  /\ events'[j].n = events'[i].n + 1
    <2>1. PICK j \in DOMAIN events :
            /\ i + 1 < j /\ IsOutput(events[j]) /\ events[j].id = events[i + 1].id
            /\ events[j].n = events[i + 1].n + 1
      BY <1>1, <1>5 DEF StreamsInOrder
    <2>2. j # 1 /\ i < j - 1
      BY <1>2, <2>1
    <2>3. j - 1 \in DOMAIN events' /\ events'[j - 1] = events[j]
      BY <1>1, <2>2
    <2> QED BY <1>1, <2>1, <2>2, <2>3
  <1> QED BY <1>3, <1>4, <1>5

(* What is heard of another shell changes nothing of this one's stream.    *)
LEMMA OthersContinue ==
    ASSUME Shape, NEW id, NEW n, Continues(id, n), events # <<>>, events' = Tail(events),
           shells' = shells, ~IsOutput(Head(events)) \/ Head(events).id # id
    PROVE  Continues(id, n)'
  <1>1. /\ \A j \in DOMAIN events' : j + 1 \in DOMAIN events /\ events'[j] = events[j + 1]
        /\ \A j \in DOMAIN events : j # 1 => j - 1 \in DOMAIN events' /\ events'[j - 1] = events[j]
        /\ Head(events) = events[1]
    BY TailShape
  <1>2. \A j \in DOMAIN events' : IsOutput(events'[j]) /\ events'[j].id = id => n < events'[j].n
    BY <1>1 DEF Continues
  <1>3. ASSUME n # shells[id].read
        PROVE  \E j \in DOMAIN events' :
                  IsOutput(events'[j]) /\ events'[j].id = id /\ events'[j].n = n + 1
    <2>1. PICK j \in DOMAIN events :
            IsOutput(events[j]) /\ events[j].id = id /\ events[j].n = n + 1
      BY <1>3 DEF Continues
    <2>2. j # 1
      BY <1>1, <2>1
    <2>3. j - 1 \in DOMAIN events' /\ events'[j - 1] = events[j]
      BY <1>1, <2>2
    <2> QED BY <2>1, <2>3
  <1> QED BY <1>2, <1>3 DEF Continues, IsOutput

LEMMA HearExitKeepsScreen ==
    ASSUME TerminalInv, ScreenInv, HearExit
    PROVE  ScreenInv'
  <1> USE DEF HearExit, drawerVars
  <1>1. Shape /\ StreamsInOrder
    BY DEF TerminalInv, ScreenInv
  <1>2. StreamsInOrder'
    BY <1>1, TailInOrder
  <1>3. OneShellOnScreen'
    BY DEF ScreenInv, OneShellOnScreen
  <1>4. \A id, n : Continues(id, n) => Continues(id, n)'
    BY <1>1, OthersContinue DEF IsOutput
  <1>5. currentId' \in {0, currentId}
    OBVIOUS
  <1> QED BY <1>2, <1>3, <1>4, <1>5 DEF ScreenInv

LEMMA TwoOrMore == \A n \in Nat : n >= 1 /\ n # 1 => n \in 2..n
  OBVIOUS

LEMMA HearOutputKeepsScreen ==
    ASSUME TerminalInv, ScreenInv, HearOutput
    PROVE  ScreenInv'
  <1> USE DEF HearOutput, backendVars, ptyVars
  <1>0. PICK e : e = Head(events)
    OBVIOUS
  <1> DEFINE more == [x \in 1..xterms |-> e]
  <1>1. Shape /\ StreamsInOrder /\ xterms \in Nat /\ screen \in Seq(Chunks)
        /\ Len(screen) \in Nat
    BY LenProperties DEF TerminalInv, ScreenInv
  <1>2. StreamsInOrder'
    BY <1>1, TailInOrder
  <1>3. CASE ~Hears(e.id)
    <2>1. screen' = screen
      BY <1>0, <1>3
    <2>2. OneShellOnScreen'
      BY <2>1 DEF ScreenInv, OneShellOnScreen
    <2>3. screen # <<>> /\ currentId # 0 => e.id # currentId
      BY <1>3 DEF Hears, TerminalInv, ScreenInv, StartsEmpty
    <2>4. ASSUME screen # <<>>, currentId # 0
          PROVE  Continues(currentId, screen[Len(screen)].n)'
      <3> DEFINE m == screen[Len(screen)].n
      <3>1. PICK id, n : id = currentId /\ n = screen[Len(screen)].n
        OBVIOUS
      <3>2. Continues(id, n) /\ id # Head(events).id
        BY <1>0, <2>3, <2>4, <3>1 DEF ScreenInv
      <3>3. Continues(id, n)'
        BY <1>1, <3>2, OthersContinue
      <3>4. currentId' = id /\ screen'[Len(screen')].n = n
        BY <2>1, <3>1
      <3> QED BY <3>3, <3>4 DEF Continues
    <2> QED BY <1>2, <2>1, <2>2, <2>4 DEF ScreenInv
  <1>4. CASE Hears(e.id)
    <2>1. e \in Chunks /\ e = events[1] /\ 1 \in DOMAIN events /\ IsOutput(events[1])
      <3>1. e = events[1] /\ 1 \in DOMAIN events /\ IsOutput(events[1])
        BY <1>0, <1>1, TailShape DEF IsOutput
      <3> QED BY <1>1, <3>1, OutputTypes
    <2>2. e.id = currentId /\ screen' = screen \o more
      BY <1>0, <1>4 DEF Hears
    <2>3. more \in Seq(Chunks) /\ Len(more) = xterms
      <3>1. more \in [1..xterms -> Chunks]
        BY <2>1
      <3> HIDE DEF more
      <3>2. more \in Seq(Chunks)
        BY <1>1, <3>1, SeqDef
      <3>3. DOMAIN more = 1..xterms /\ DOMAIN more = 1..Len(more) /\ Len(more) \in Nat
        BY <3>1, <3>2, LenProperties
      <3> QED BY <1>1, <3>2, <3>3
    <2>4. /\ screen' \in Seq(Chunks) /\ Len(screen') = Len(screen) + xterms
          /\ \A i \in 1 .. Len(screen) + xterms :
                screen'[i] = IF i <= Len(screen) THEN screen[i] ELSE more[i - Len(screen)]
      <3> HIDE DEF more
      <3> QED BY <1>1, <2>2, <2>3, ConcatProperties
    <2>5. \A i \in 1 .. Len(screen) + xterms :
             screen'[i] = IF i <= Len(screen) THEN screen[i] ELSE e
      <3>1. \A i \in 1 .. Len(screen) + xterms : ~(i <= Len(screen)) => i - Len(screen) \in 1..xterms
        BY <1>1
      <3> QED BY <2>4, <3>1
    <2> HIDE DEF more
    <2>6. \A j \in DOMAIN events :
             1 < j /\ IsOutput(events[j]) /\ events[j].id = e.id => e.n < events[j].n
      BY <2>1 DEF StreamsInOrder, ScreenInv
    <2>7. \/ e.n = shells[e.id].read
          \/ \E j \in DOMAIN events :
               /\ 1 < j /\ IsOutput(events[j]) /\ events[j].id = e.id /\ events[j].n = e.n + 1
      BY <2>1 DEF StreamsInOrder, ScreenInv
    <2>8. Continues(e.id, e.n)'
      <3>1. /\ \A j \in DOMAIN events' : j + 1 \in DOMAIN events /\ events'[j] = events[j + 1]
            /\ \A j \in DOMAIN events : j # 1 => j - 1 \in DOMAIN events' /\ events'[j - 1] = events[j]
            /\ \A j \in DOMAIN events' : 1 < j + 1
        BY <1>1, TailShape
      <3>2. \A j \in DOMAIN events' :
               IsOutput(events'[j]) /\ events'[j].id = e.id => e.n < events'[j].n
        BY <2>6, <3>1
      <3>3. \/ e.n = shells[e.id].read
            \/ \E j \in DOMAIN events' :
                 IsOutput(events'[j]) /\ events'[j].id = e.id /\ events'[j].n = e.n + 1
        <4>1. ASSUME NEW j \in DOMAIN events, 1 < j, IsOutput(events[j]),
                     events[j].id = e.id, events[j].n = e.n + 1
              PROVE  \E k \in DOMAIN events' :
                        IsOutput(events'[k]) /\ events'[k].id = e.id /\ events'[k].n = e.n + 1
          <5>1. j - 1 \in DOMAIN events' /\ events'[j - 1] = events[j]
            BY <3>1, <4>1
          <5> QED BY <4>1, <5>1
        <4> QED BY <2>7, <4>1
      <3>4. shells' = shells
        OBVIOUS
      <3> QED BY <3>2, <3>3, <3>4 DEF Continues, IsOutput
    <2>9. screen # <<>> => /\ screen[Len(screen)].id = e.id /\ Len(screen) >= 1
                           /\ e.n = screen[Len(screen)].n + 1
      <3> SUFFICES ASSUME screen # <<>>
                   PROVE  /\ screen[Len(screen)].id = e.id /\ Len(screen) >= 1
                          /\ e.n = screen[Len(screen)].n + 1
        OBVIOUS
      <3> DEFINE m == screen[Len(screen)].n
      <3>1. currentId # 0 /\ Len(screen) >= 1
        <4>1. e.id \in DOMAIN shells
          BY <2>1 DEF StreamsInOrder, ScreenInv
        <4> QED BY <1>1, <2>2, <4>1, Shapes, EmptySeq DEF Ids
      <3>2. screen[Len(screen)].id = e.id /\ Continues(e.id, m)
        BY <2>2, <3>1 DEF ScreenInv
      <3>3. m \in Nat /\ e.n \in Nat
        <4>1. screen[Len(screen)] \in Chunks
          BY <1>1, <3>1, ElementOfSeq
        <4> QED BY <2>1, <4>1 DEF Chunks
      <3>4. m < e.n /\ e.n <= shells[e.id].read
        BY <2>1, <3>2 DEF Continues, StreamsInOrder, ScreenInv
      <3>5. e.id \in Ids /\ shells[e.id].read \in Nat
        <4>1. e.id \in Ids
          BY <2>1 DEF StreamsInOrder, ScreenInv, Ids
        <4> QED BY <1>1, <4>1, ShellOf DEF Shell
      <3> HIDE DEF m
      <3>6. PICK j \in DOMAIN events :
              IsOutput(events[j]) /\ events[j].id = e.id /\ events[j].n = m + 1
        BY <3>2, <3>3, <3>4, <3>5 DEF Continues
      <3>7. j = 1 \/ 1 < j
        BY <1>1, TailShape
      <3>8. CASE 1 < j
        <4>1. e.n < m + 1
          BY <2>6, <3>6, <3>8
        <4> QED BY <3>3, <3>4, <4>1
      <3>9. CASE j = 1
        BY <2>1, <3>1, <3>2, <3>6, <3>9 DEF m
      <3> QED BY <3>7, <3>8, <3>9
    <2>10. OneShellOnScreen'
      <3> SUFFICES ASSUME NEW i \in 2 .. Len(screen) + xterms
                   PROVE  /\ screen'[i].id = screen'[1].id
                          /\ xterms = 1 => screen'[i].n = screen'[i - 1].n + 1
        BY <2>4 DEF OneShellOnScreen
      <3>1. i - 1 \in 1 .. Len(screen) + xterms /\ i \in 1 .. Len(screen) + xterms
            /\ 1 \in 1 .. Len(screen) + xterms
        BY <1>1
      <3>2. CASE i <= Len(screen)
        <4>1. i \in 2..Len(screen) /\ 1 <= Len(screen) /\ i - 1 <= Len(screen)
          BY <1>1, <3>2
        <4>2. /\ screen'[i] = screen[i] /\ screen'[1] = screen[1]
              /\ screen'[i - 1] = screen[i - 1]
          BY <2>5, <3>1, <4>1
        <4> QED BY <4>1, <4>2 DEF ScreenInv, OneShellOnScreen
      <3>3. CASE ~(i <= Len(screen))
        <4>1. screen'[i] = e
          BY <2>5, <3>1, <3>3
        <4>2. CASE screen = <<>>
          <5>1. Len(screen) = 0
            BY <4>2, EmptySeq
          <5>2. screen'[1] = e
            <6>1. ~(1 <= Len(screen))
              BY <5>1
            <6> QED BY <2>5, <3>1, <6>1
          <5>3. xterms # 1
            BY <1>1, <5>1
          <5> QED BY <4>1, <5>2, <5>3
        <4>3. CASE screen # <<>>
          <5>1. screen'[1] = screen[1]
            BY <1>1, <2>5, <2>9, <3>1, <4>3
          <5>2. screen[1].id = e.id
            <6>1. CASE Len(screen) = 1
              BY <2>9, <4>3, <6>1
            <6>2. CASE Len(screen) # 1
              <7>1. Len(screen) \in 2..Len(screen)
                BY <1>1, <2>9, <4>3, <6>2, TwoOrMore
              <7> QED BY <2>9, <4>3, <7>1 DEF ScreenInv, OneShellOnScreen
            <6> QED BY <6>1, <6>2
          <5>3. ASSUME xterms = 1
                PROVE  screen'[i].n = screen'[i - 1].n + 1
            <6>1. i = Len(screen) + 1 /\ i - 1 = Len(screen)
              BY <1>1, <3>3, <5>3
            <6>2. screen'[i - 1] = screen[Len(screen)]
              BY <1>1, <2>5, <3>1, <6>1
            <6> QED BY <2>9, <4>1, <4>3, <6>2
          <5> QED BY <4>1, <5>1, <5>2, <5>3
        <4> QED BY <4>2, <4>3
      <3> QED BY <3>2, <3>3
    <2>11. screen' # <<>> => /\ xterms > 0 /\ ~loading
                             /\ screen'[Len(screen')].id = e.id
                             /\ screen'[Len(screen')].n = e.n
      <3>1. CASE xterms = 0
        <4>1. Len(screen') = Len(screen) /\ (screen' # <<>> => screen # <<>>)
          BY <1>1, <2>4, <3>1, EmptySeq
        <4> QED BY <3>1, <4>1 DEF ScreenInv
      <3>2. CASE xterms > 0
        <4>1. /\ Len(screen) + xterms \in 1 .. Len(screen) + xterms
              /\ ~(Len(screen) + xterms <= Len(screen))
          BY <1>1, <3>2
        <4>2. screen'[Len(screen')] = e
          BY <2>4, <2>5, <4>1
        <4>3. ~loading
          <5>1. e.id \in Ids /\ e.id # 0
            <6>1. e.id \in DOMAIN shells
              BY <2>1 DEF StreamsInOrder, ScreenInv
            <6> QED BY <1>1, <6>1, Shapes DEF Ids
          <5> QED BY <2>2, <5>1 DEF TerminalInv, StartsEmpty
        <4> QED BY <3>2, <4>2, <4>3
      <3>3. xterms = 0 \/ xterms > 0
        BY <1>1
      <3> QED BY <3>1, <3>2, <3>3
    <2>12. currentId' = currentId /\ xterms' = xterms /\ mounted' = mounted /\ loading' = loading
      OBVIOUS
    <2>13. screen' # <<>> /\ currentId' # 0 =>
             /\ screen'[Len(screen')].id = currentId'
             /\ Continues(currentId, screen[Len(screen)].n)'
      BY <2>2, <2>8, <2>11, <2>12 DEF Continues
    <2>14. xterms' \in Nat /\ (xterms' > 0 => mounted') /\ screen' \in Seq(Chunks)
      BY <1>1, <2>4, <2>12 DEF ScreenInv
    <2>15. screen' # <<>> => xterms' > 0 /\ ~loading'
      BY <2>11, <2>12
    <2> QED BY <1>2, <2>10, <2>13, <2>14, <2>15, Zenon DEF ScreenInv
  <1> QED BY <1>3, <1>4

(* What an event added to the transit leaves as it was.                    *)
LEMMA PutLast ==
    ASSUME Shape, NEW e \in TerminalEvents, events' = Append(events, e)
    PROVE  /\ DOMAIN events = 1..Len(events) /\ Len(events) \in Nat
           /\ DOMAIN events' = 1 .. Len(events) + 1
           /\ DOMAIN events \subseteq DOMAIN events'
           /\ \A i \in DOMAIN events : events'[i] = events[i]
           /\ events'[Len(events) + 1] = e
           /\ \A i \in DOMAIN events' : i \in DOMAIN events \/ events'[i] = e
  <1>1. /\ events \in Seq(TerminalEvents) /\ events' \in Seq(TerminalEvents)
        /\ Len(events') = Len(events) + 1 /\ Len(events) \in Nat
        /\ \A i \in 1..Len(events) : events'[i] = events[i]
        /\ events'[Len(events) + 1] = e
    BY AppendProperties, LenProperties DEF Shape
  <1>2. DOMAIN events = 1..Len(events) /\ DOMAIN events' = 1 .. Len(events) + 1
    BY <1>1, LenProperties
  <1> QED BY <1>1, <1>2

(* A new shell has printed nothing, and nothing in transit is its own.     *)
LEMMA ServeCreateKeepsScreen ==
    ASSUME TerminalInv, ScreenInv, ServeCreate
    PROVE  ScreenInv'
  <1> USE DEF ServeCreate, drawerVars, backendVars
  <1>1. screen = <<>> /\ screen' = screen /\ events' = events
    BY DEF TerminalInv, StartsEmpty, ScreenInv
  <1>2. CASE UNCHANGED shells
    BY <1>1, <1>2, QuietKeepsScreen DEF ScreenInv
  <1>3. CASE shells' = Append(shells, [exited |-> FALSE, read |-> 0])
    <2>1. /\ Ids = 1..Len(shells) /\ Len(shells) \in Nat
          /\ DOMAIN shells' = 1 .. Len(shells) + 1
          /\ \A id \in 1..Len(shells) : shells'[id] = shells[id]
      <3>1. shells \in Seq(Shell) /\ [exited |-> FALSE, read |-> 0] \in Shell
        BY DEF TerminalInv, Shape, Shells, Shell
      <3> QED BY <1>3, <3>1, AppendProperties, LenProperties, Shapes DEF TerminalInv
    <2>2. DOMAIN shells \subseteq DOMAIN shells' /\ \A id \in DOMAIN shells : shells'[id] = shells[id]
      BY <2>1 DEF Ids
    <2>3. StreamsInOrder'
      BY <1>1, <2>2 DEF ScreenInv, StreamsInOrder
    <2>4. OneShellOnScreen'
      BY <1>1 DEF ScreenInv, OneShellOnScreen
    <2> QED BY <1>1, <2>3, <2>4 DEF ScreenInv
  <1> QED BY <1>2, <1>3

(* An exit joins the transit, and no stream is any longer or shorter.      *)
LEMMA ReapsKeepsScreen ==
    ASSUME TerminalInv, ScreenInv, NEW id \in Ids, Reaps(id)
    PROVE  ScreenInv'
  <1> USE DEF Reaps, OtherVars, drawerVars, backendVars, ptyVars
  <1>1. /\ DOMAIN shells' = DOMAIN shells
        /\ \A k \in DOMAIN shells : shells'[k].read = shells[k].read
    <2>1. shells[id] \in Shell /\ shells \in Seq(Shell)
      BY ShellOf DEF TerminalInv, Shape, Shells
    <2>2. shells' = [shells EXCEPT ![id] = [shells[id] EXCEPT !.exited = TRUE]]
      OBVIOUS
    <2>3. [shells[id] EXCEPT !.exited = TRUE].read = shells[id].read
      BY <2>1 DEF Shell
    <2> QED BY <2>2, <2>3
  <1>2. /\ DOMAIN events \subseteq DOMAIN events'
        /\ \A i \in DOMAIN events : events'[i] = events[i]
        /\ \A i \in DOMAIN events' : i \in DOMAIN events \/ ~IsOutput(events'[i])
    BY PutLast DEF TerminalInv, TerminalEvents, IsOutput, Ids
  <1>3. StreamsInOrder'
    BY <1>1, <1>2 DEF ScreenInv, StreamsInOrder, IsOutput
  <1>4. \A k, n : k \in Ids /\ Continues(k, n) => Continues(k, n)'
    BY <1>1, <1>2 DEF Continues, IsOutput, Ids
  <1>5. OneShellOnScreen'
    BY DEF ScreenInv, OneShellOnScreen
  <1>6. currentId # 0 => currentId \in Ids
    BY DEF TerminalInv, Shape
  <1> QED BY <1>3, <1>4, <1>5, <1>6 DEF ScreenInv

(* The next chunk of a stream joins the transit behind all the others.     *)
LEMMA ReadsKeepsScreen ==
    ASSUME TerminalInv, ScreenInv, NEW id \in Ids, Reads(id)
    PROVE  ScreenInv'
  <1> USE DEF Reads, OtherVars, drawerVars, backendVars, ptyVars
  <1>0. PICK r : r = shells[id].read
    OBVIOUS
  <1> DEFINE e == [type |-> "output", id |-> id, n |-> r + 1]
             last == Len(events) + 1
  <1>1. r \in Nat /\ id \in Nat /\ e \in TerminalEvents
    <2>1. r \in Nat
      BY <1>0, ShellOf DEF TerminalInv, Shell
    <2>2. id \in Nat
      BY Shapes DEF TerminalInv
    <2> QED BY <2>1, <2>2 DEF TerminalEvents
  <1>2. /\ DOMAIN shells' = DOMAIN shells
        /\ shells'[id].read = r + 1
        /\ \A k \in DOMAIN shells : k # id => shells'[k].read = shells[k].read
    <2>1. shells[id] \in Shell
      BY ShellOf DEF TerminalInv
    <2>2. shells' = [shells EXCEPT ![id] = [shells[id] EXCEPT !.read = r + 1]]
      BY <1>0
    <2>3. [shells[id] EXCEPT !.read = r + 1].read = r + 1
      BY <2>1 DEF Shell
    <2> QED BY <2>2, <2>3 DEF Ids
  <1>3. /\ DOMAIN events = 1..Len(events) /\ Len(events) \in Nat
        /\ DOMAIN events' = 1..last
        /\ DOMAIN events \subseteq DOMAIN events'
        /\ \A i \in DOMAIN events : events'[i] = events[i]
        /\ events'[last] = e
        /\ \A i \in DOMAIN events' : i \in DOMAIN events \/ events'[i] = e
    <2>1. events' = Append(events, e)
      BY <1>0
    <2> HIDE DEF e
    <2> QED BY <1>1, <2>1, PutLast DEF TerminalInv
  <1>4. /\ IsOutput(e) /\ e.id = id /\ e.n = r + 1
    BY DEF IsOutput
  <1>5. \A i \in DOMAIN events : IsOutput(events[i]) => events[i].n \in Nat
    BY OutputTypes DEF TerminalInv, Chunks
  <1>6. /\ last \in DOMAIN events' /\ last \notin DOMAIN events
        /\ \A i \in DOMAIN events : i < last
        /\ \A i \in DOMAIN events' : i \in DOMAIN events \/ i = last
    BY <1>3
  <1> HIDE DEF e, last
  <1>7. \A i \in DOMAIN events : IsOutput(events[i]) /\ events[i].id = id => events[i].n <= r
    BY <1>0 DEF ScreenInv, StreamsInOrder
  <1>8. ASSUME NEW i \in DOMAIN events, IsOutput(events[i])
        PROVE  /\ events[i].id \in DOMAIN shells'
               /\ events[i].n <= shells'[events[i].id].read
               /\ \A j \in DOMAIN events' :
                    i < j /\ IsOutput(events'[j]) /\ events'[j].id = events[i].id
                        => events[i].n < events'[j].n
               /\ \/ events[i].n = shells'[events[i].id].read
                  \/ \E j \in DOMAIN events' :
                       /\ i < j /\ IsOutput(events'[j]) /\ events'[j].id = events[i].id
                       /\ events'[j].n = events[i].n + 1
    <2>1. /\ events[i].id \in DOMAIN shells /\ events[i].n \in Nat
          /\ events[i].n <= shells[events[i].id].read
          /\ \A j \in DOMAIN events :
               i < j /\ IsOutput(events[j]) /\ events[j].id = events[i].id
                   => events[i].n < events[j].n
          /\ \/ events[i].n = shells[events[i].id].read
             \/ \E j \in DOMAIN events :
                  /\ i < j /\ IsOutput(events[j]) /\ events[j].id = events[i].id
                  /\ events[j].n = events[i].n + 1
      BY <1>5, <1>8 DEF ScreenInv, StreamsInOrder
    <2>2. CASE events[i].id = id
      <3>1. events[i].n <= r
        BY <1>7, <1>8, <2>2
      <3>2. events[i].n < r + 1 /\ events[i].n <= r + 1
        BY <1>1, <2>1, <3>1
      <3>3. \A j \in DOMAIN events' :
              i < j /\ IsOutput(events'[j]) /\ events'[j].id = events[i].id
                  => events[i].n < events'[j].n
        BY <1>3, <1>4, <2>1, <3>2
      <3>4. CASE events[i].n = r
        BY <1>2, <1>3, <1>4, <1>6, <2>1, <2>2, <3>2, <3>3, <3>4
      <3>5. CASE events[i].n # r
        <4>1. PICK j \in DOMAIN events :
                /\ i < j /\ IsOutput(events[j]) /\ events[j].id = events[i].id
                /\ events[j].n = events[i].n + 1
          BY <1>0, <2>1, <2>2, <3>5
        <4>2. j \in DOMAIN events' /\ events'[j] = events[j]
          BY <1>3
        <4> QED BY <1>2, <2>1, <2>2, <3>2, <3>3, <4>1, <4>2
      <3> QED BY <3>4, <3>5
    <2>3. CASE events[i].id # id
      <3>1. shells'[events[i].id].read = shells[events[i].id].read
        BY <1>2, <2>1, <2>3
      <3>2. \A j \in DOMAIN events' :
              i < j /\ IsOutput(events'[j]) /\ events'[j].id = events[i].id
                  => events[i].n < events'[j].n
        BY <1>3, <1>4, <2>1, <2>3
      <3> QED BY <1>2, <1>3, <2>1, <3>1, <3>2
    <2> QED BY <2>2, <2>3
  <1>9. StreamsInOrder'
    <2> SUFFICES ASSUME NEW i \in DOMAIN events', IsOutput(events'[i])
                 PROVE  /\ events'[i].id \in DOMAIN shells'
                        /\ events'[i].n <= shells'[events'[i].id].read
                        /\ \A j \in DOMAIN events' :
                             i < j /\ IsOutput(events'[j]) /\ events'[j].id = events'[i].id
                                 => events'[i].n < events'[j].n
                        /\ \/ events'[i].n = shells'[events'[i].id].read
                           \/ \E j \in DOMAIN events' :
                                /\ i < j /\ IsOutput(events'[j]) /\ events'[j].id = events'[i].id
                                /\ events'[j].n = events'[i].n + 1
      BY DEF StreamsInOrder, IsOutput
    <2>1. CASE i \in DOMAIN events
      <3>1. events'[i] = events[i] /\ IsOutput(events[i])
        BY <1>3, <2>1
      <3> QED BY <1>8, <2>1, <3>1
    <2>2. CASE i = last
      <3>1. events'[i] = e /\ r + 1 <= r + 1
        BY <1>1, <1>3, <2>2
      <3>2. \A j \in DOMAIN events' : ~(i < j)
        BY <1>3, <2>2 DEF last
      <3> QED BY <1>2, <1>4, <3>1, <3>2 DEF Ids
    <2> QED BY <1>6, <2>1, <2>2
  <1>10. ASSUME NEW k \in Ids, NEW n \in Nat, Continues(k, n), k = id => n <= r
         PROVE  Continues(k, n)'
    <2>1. CASE k = id
      <3>1. n < r + 1
        BY <1>1, <1>10, <2>1
      <3>2. \A j \in DOMAIN events' : IsOutput(events'[j]) /\ events'[j].id = k => n < events'[j].n
        BY <1>3, <1>4, <1>10, <3>1 DEF Continues
      <3>3. \E j \in DOMAIN events' :
              IsOutput(events'[j]) /\ events'[j].id = k /\ events'[j].n = n + 1
        <4>1. CASE n = r
          BY <1>3, <1>4, <1>6, <2>1, <4>1
        <4>2. CASE n # r
          BY <1>0, <1>3, <1>10, <2>1, <4>2 DEF Continues
        <4> QED BY <4>1, <4>2
      <3> QED BY <3>2, <3>3 DEF Continues, IsOutput
    <2>2. CASE k # id
      <3>1. \A j \in DOMAIN events' : IsOutput(events'[j]) /\ events'[j].id = k => n < events'[j].n
        BY <1>3, <1>4, <1>10, <2>2 DEF Continues
      <3>2. \/ n = shells'[k].read
            \/ \E j \in DOMAIN events' :
                 IsOutput(events'[j]) /\ events'[j].id = k /\ events'[j].n = n + 1
        BY <1>2, <1>3, <1>10, <2>2 DEF Continues, Ids
      <3> QED BY <3>1, <3>2 DEF Continues, IsOutput
    <2> QED BY <2>1, <2>2
  <1>11. ASSUME screen # <<>>, currentId # 0
         PROVE  Continues(currentId, screen[Len(screen)].n)'
    <2>1. PICK m : m = screen[Len(screen)].n
      OBVIOUS
    <2>2. m \in Nat /\ currentId \in Ids
      <3>1. screen[Len(screen)] \in Chunks
        <4>1. screen \in Seq(Chunks) /\ Len(screen) \in 1..Len(screen)
          BY <1>11, EmptySeq, LenProperties DEF ScreenInv
        <4> QED BY <4>1, ElementOfSeq
      <3> QED BY <1>11, <2>1, <3>1 DEF Chunks, TerminalInv, Shape
    <2>3. Continues(currentId, m)
      BY <1>11, <2>1 DEF ScreenInv
    <2>4. currentId = id => m <= r
      BY <1>0, <1>1, <1>7, <2>2, <2>3, <1>5 DEF Continues
    <2>5. Continues(currentId, m)'
      BY <1>10, <2>2, <2>3, <2>4
    <2> QED BY <2>1, <2>5 DEF Continues
  <1>12. OneShellOnScreen'
    BY DEF ScreenInv, OneShellOnScreen
  <1> QED BY <1>9, <1>11, <1>12 DEF ScreenInv

LEMMA ScreenStarts == TerminalInit => ScreenInv
  BY EmptySeq DEF TerminalInit, ScreenInv, StreamsInOrder, OneShellOnScreen

LEMMA ScreenStep == TerminalInv /\ ScreenInv /\ [TerminalNext]_terminalVars => ScreenInv'
  <1> SUFFICES ASSUME TerminalInv, ScreenInv, [TerminalNext]_terminalVars PROVE ScreenInv'
    OBVIOUS
  <1>1. ASSUME \/ XtermOpened \/ Close \/ NewShell \/ (\E s \in Sessions : Switch(s)) \/ Unmount
               \/ BridgeReady \/ BridgeFails \/ KillAnswered \/ CreateAnswered \/ CreateFailed
               \/ \E id \in kills : ServeKill(id)
        PROVE  ScreenInv'
    BY <1>1, QuietSteps
  <1>2. CASE HearOutput \/ HearExit \/ ServeCreate
    BY <1>2, HearOutputKeepsScreen, HearExitKeepsScreen, ServeCreateKeepsScreen
  <1>3. ASSUME NEW id \in DOMAIN shells, Reads(id) \/ Reaps(id) PROVE ScreenInv'
    BY <1>3, ReadsKeepsScreen, ReapsKeepsScreen DEF Ids
  <1>4. CASE UNCHANGED terminalVars
    BY <1>4, QuietKeepsScreen DEF terminalVars, drawerVars, backendVars, ptyVars, shellVars,
                                  ScreenInv
  <1> QED BY <1>1, <1>2, <1>3, <1>4 DEF TerminalNext

(* However sessions, restarts and late events interleave, the screen shows *)
(* the output of one shell only, every chunk of it once and in its order   *)
(* (the listeners' filter of useLocalPty.ts, the resets of Terminal.vue).  *)
THEOREM ScreenTrue == TerminalSpec => []OneShellOnScreen
  <1>1. ScreenInv => OneShellOnScreen
    BY DEF ScreenInv
  <1>2. TerminalSpec => []ScreenInv
    BY TerminalHolds, ScreenStarts, ScreenStep, PTL DEF TerminalSpec
  <1> QED BY <1>1, <1>2, PTL

=============================================================================
