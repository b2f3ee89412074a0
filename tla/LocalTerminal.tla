---------------------------- MODULE LocalTerminal ----------------------------
(***************************************************************************)
(* The terminal drawer of the desktop app, from the button to the shell.   *)
(*                                                                         *)
(*   src/web/src/components/Terminal.vue            (drawer, xterm)        *)
(*   src/web/src/composables/useTerminal.ts         (local backend)        *)
(*   src/web/src/composables/codex/useLocalPty.ts   (controller)           *)
(*   src/src-tauri/src/pty.rs                       (shells, threads)      *)
(*                                                                         *)
(* A command (pty_create, pty_kill) is one request and one answer; the     *)
(* output and exit events of a shell come from two threads of their own    *)
(* and are not ordered with the answers.  Code between two awaits is one   *)
(* action.  Left out: pty_write and pty_resize, which change nothing kept  *)
(* here, the size and name of the shell, the decoding of its output, and   *)
(* the daemon's terminals.  A directory is named by the session it belongs *)
(* to.  The drawer is opened once.                                         *)
(***************************************************************************)
EXTENDS Naturals, Sequences, FiniteSets

CONSTANTS
    Sessions,       \* sessions the user switches between
    FirstSession,   \* the one shown when the drawer is opened
    MaxStarts,      \* bound: mounts, restarts and switches of the drawer
    MaxOutput,      \* bound: chunks that the shells print, together
    MaxEvents       \* bound: events in transit

ASSUME TerminalBounds ==
    FirstSession \in Sessions /\ MaxStarts \in Nat /\ MaxOutput \in Nat /\ MaxEvents \in Nat

VARIABLES
    mounted,        \* the drawer is open
    session,        \* its sessionId; also the directory of props.cwd
    opening,        \* initTerminal calls waiting for xterm and fonts
    xterms,         \* xterms made, each with its output and exit handler
    screen,         \* chunks written to the xterm since it was reset
    terminal,       \* terminal of useTerminal
    readOnly,
    loading,        \* loading of useTerminal, and starting of useLocalPty
    call,           \* what the start in flight waits for
    currentId,      \* currentId of useLocalPty, 0 for null
    bridge,         \* "none", "ready", "broken" or, after dispose, "unlistened"
    kills,          \* ids of pty_kill commands in flight
    shells,         \* external: the child processes, by id, and what was read of them
    table,          \* sessions() of pty.rs
    events,         \* pty-output and pty-exit events in transit
    printed,        \* number of chunks printed so far
    starts,         \* number of starts asked for
    crossed,        \* history: what the start replaces, its session or its drawer was not settled
    missed          \* history: ids whose exit came before their id was known

drawerVars  == <<mounted, session, opening, xterms, screen>>
backendVars == <<terminal, readOnly, loading>>
ptyVars     == <<call, currentId, bridge, kills>>
shellVars   == <<shells, table, events, printed>>
terminalVars ==
    <<drawerVars, backendVars, ptyVars, shellVars, starts, crossed, missed>>

NoTerminal == [status |-> "none"]
NoCall == [at |-> "none"]

TerminalInit ==
    /\ mounted = TRUE /\ session = FirstSession /\ opening = 1 /\ xterms = 0 /\ screen = <<>>
    /\ terminal = NoTerminal /\ readOnly = FALSE /\ loading = FALSE
    /\ call = NoCall /\ currentId = 0 /\ bridge = "none" /\ kills = {}
    /\ shells = <<>> /\ table = {} /\ events = <<>> /\ printed = 0
    /\ starts = 1 /\ crossed = FALSE /\ missed = {}

AskStart == starts < MaxStarts /\ starts' = starts + 1

----------------------------------------------------------------------------
(* The controller.                                                         *)

(* killCurrent, synchronous part: the id is dropped before the answer.     *)
Killing(id) == IF id # 0 /\ bridge \notin {"none", "broken"} THEN {id} ELSE {}

(* A bug the code avoids: the shell before is left to itself.              *)
CreateAtOnce(id, dir) == UNCHANGED kills /\ call' = [at |-> "create", dir |-> dir]

(* start once the bridge is there: the shell before is killed, and only    *)
(* when that is answered the next one is created.                          *)
KillThenCreate(id, dir) ==
    /\ kills' = kills \cup Killing(id)
    /\ call' = [at |-> IF id = 0 THEN "create" ELSE "kill", id |-> id, dir |-> dir]

(* ensureBridge: its promise is made once and kept, also when it rejected. *)
NoBridge(dir) == IF bridge = "none" THEN [at |-> "bridge", dir |-> dir] ELSE [at |-> "failed"]

(* useTerminal.start in this directory, unless a start is in flight.       *)
Start(dir) ==
    IF loading THEN UNCHANGED <<loading, currentId, call, kills, crossed>>
    ELSE /\ loading' = TRUE /\ currentId' = 0 /\ crossed' = (terminal' # NoTerminal)
         /\ IF bridge \in {"none", "broken"}
            THEN call' = NoBridge(dir) /\ UNCHANGED kills
            ELSE KillThenCreate(currentId, dir)

(* The bridge is loaded and both listeners are registered, also when the   *)
(* drawer has been closed meanwhile.                                       *)
BridgeReady ==
    /\ call.at = "bridge"
    /\ bridge' = "ready"
    /\ call' = [call EXCEPT !.at = "create"]
    /\ UNCHANGED <<drawerVars, backendVars, currentId, kills, shellVars, starts, crossed, missed>>

(* The modules cannot be loaded or a listener not registered: every later  *)
(* start of this drawer fails too.                                         *)
BridgeFails ==
    /\ call.at = "bridge"
    /\ bridge' = "broken" /\ call' = [at |-> "failed"]
    /\ UNCHANGED <<drawerVars, backendVars, currentId, kills, shellVars, starts, crossed, missed>>

KillAnswered ==
    /\ call.at = "kill" /\ call.id \notin kills
    /\ call' = [at |-> "create", dir |-> call.dir]
    /\ UNCHANGED <<drawerVars, backendVars, currentId, bridge, kills, shellVars, starts, crossed,
                   missed>>

(* pty_create has answered: the id becomes current and the drawer shows    *)
(* the shell as the terminal of the session it shows now.                  *)
CreateAnswered ==
    /\ call.at = "created"
    /\ currentId' = call.id /\ call' = NoCall /\ loading' = FALSE
    /\ terminal' = [status |-> "running", id |-> call.id, dir |-> call.dir]
    /\ UNCHANGED <<drawerVars, readOnly, bridge, kills, shellVars, starts, crossed, missed>>

(* The start has thrown; useTerminal shows the error.                      *)
CreateFailed ==
    /\ call.at = "failed"
    /\ call' = NoCall /\ loading' = FALSE
    /\ UNCHANGED <<drawerVars, terminal, readOnly, currentId, bridge, kills, shellVars, starts,
                   crossed, missed>>

----------------------------------------------------------------------------
(* The drawer.                                                             *)

(* initTerminal has made its xterm and registered its handlers; then the   *)
(* start goes on.  In a closed drawer xterm has no parent and throws.      *)
XtermOpened ==
    /\ opening > 0 /\ opening' = opening - 1 /\ UNCHANGED <<terminal, readOnly>>
    /\ IF mounted
       THEN xterms' = xterms + 1 /\ screen' = <<>> /\ Start(session)
       ELSE UNCHANGED <<xterms, screen, loading, call, currentId, kills, crossed>>
    /\ UNCHANGED <<mounted, session, bridge, shellVars, starts, missed>>

(* A bug the code avoids: the exit event, which is no longer listened to,  *)
(* is left to mark the terminal.                                           *)
CloseQuietly ==
    /\ mounted /\ terminal # NoTerminal
    /\ readOnly' = TRUE /\ UNCHANGED terminal
    /\ currentId' = 0 /\ kills' = kills \cup Killing(currentId)
    /\ UNCHANGED <<drawerVars, loading, call, bridge, shellVars, starts, crossed, missed>>

(* The button that ends the process.                                       *)
Close ==
    /\ mounted /\ terminal # NoTerminal
    /\ readOnly' = TRUE /\ terminal' = [terminal EXCEPT !.status = "exited"]
    /\ currentId' = 0 /\ kills' = kills \cup Killing(currentId)
    /\ UNCHANGED <<drawerVars, loading, call, bridge, shellVars, starts, crossed, missed>>

(* The button for a new terminal.                                          *)
NewShell ==
    /\ mounted /\ AskStart
    /\ screen' = <<>> /\ terminal' = NoTerminal /\ readOnly' = FALSE
    /\ Start(session)
    /\ UNCHANGED <<mounted, session, opening, xterms, bridge, shellVars, missed>>

(* A bug the code avoids: the shell before stays until the next is up.     *)
ClearOnlyScreen == UNCHANGED <<terminal, readOnly>>

(* The watcher of useTerminal on sessionId.                                *)
ClearTerminal == terminal' = NoTerminal /\ readOnly' = FALSE

(* Another session is shown: useTerminal's watcher ends the shell without  *)
(* waiting for the answer, then the drawer's watcher starts one there, at  *)
(* once if it has its xterm.                                               *)
Switch(s) ==
    /\ mounted /\ s # session /\ AskStart
    /\ session' = s /\ screen' = <<>> /\ ClearTerminal
    /\ currentId' = 0 /\ kills' = kills \cup Killing(currentId)
    /\ opening' = IF xterms > 0 THEN opening ELSE opening + 1
    /\ IF xterms > 0 /\ ~loading
       THEN /\ loading' = TRUE /\ crossed' = FALSE
            /\ call' = IF bridge \in {"none", "broken"} THEN NoBridge(s)
                       ELSE [at |-> "create", dir |-> s]
       ELSE crossed' = (crossed \/ loading) /\ UNCHANGED <<loading, call>>
    /\ UNCHANGED <<mounted, xterms, bridge, shellVars, missed>>

(* The drawer is closed: dispose of the controller, and of the xterm.  A   *)
(* start in flight goes on, for a controller nobody uses any more.         *)
Unmount ==
    /\ mounted /\ mounted' = FALSE
    /\ xterms' = 0 /\ screen' = <<>>
    /\ currentId' = 0 /\ kills' = kills \cup Killing(currentId)
    /\ bridge' = IF bridge = "ready" THEN "unlistened" ELSE bridge
    /\ crossed' = loading
    /\ UNCHANGED <<session, opening, backendVars, call, shellVars, starts, missed>>

(* Bugs the code avoids: the listeners do not look whose event it is.      *)
HearsAll(id) == bridge = "ready"

(* The listeners' filter.                                                  *)
Hears(id) == bridge = "ready" /\ id = currentId

HearOutput ==
    /\ events # <<>> /\ Head(events).type = "output"
    /\ events' = Tail(events)
    /\ screen' = IF Hears(Head(events).id)
                 THEN screen \o [x \in 1..xterms |-> Head(events)] ELSE screen
    /\ UNCHANGED <<mounted, session, opening, xterms, backendVars, ptyVars, shells, table, printed, starts,
                   crossed, missed>>

HearExit ==
    /\ events # <<>> /\ Head(events).type = "exit"
    /\ events' = Tail(events)
    /\ LET id == Head(events).id
       IN  /\ IF Hears(id)
              THEN /\ currentId' = 0
                   /\ IF mounted /\ terminal # NoTerminal
                      THEN readOnly' = TRUE /\ terminal' = [terminal EXCEPT !.status = "exited"]
                      ELSE UNCHANGED <<readOnly, terminal>>
              ELSE UNCHANGED <<currentId, readOnly, terminal>>
           /\ missed' = IF call.at = "created" /\ call.id = id THEN missed \cup {id} ELSE missed
    /\ UNCHANGED <<drawerVars, loading, call, bridge, kills, shells, table, printed, starts, crossed>>

----------------------------------------------------------------------------
(* The shell's side.                                                       *)

(* pty_create: the table knows the session before its threads run.         *)
ServeCreate ==
    /\ call.at = "create"
    /\ \/ LET id == Len(shells) + 1
          IN  /\ shells' = Append(shells, [exited |-> FALSE, read |-> 0])
              /\ table' = table \cup {id}
              /\ call' = [at |-> "created", id |-> id, dir |-> call.dir]
       \/ call' = [at |-> "failed"] /\ UNCHANGED <<shells, table>>
    /\ UNCHANGED <<drawerVars, backendVars, currentId, bridge, kills, events, printed, starts, crossed,
                   missed>>

(* pty_kill: the entry goes, and the shell gets its signal.                *)
ServeKill(id) ==
    /\ id \in kills
    /\ kills' = kills \ {id} /\ table' = table \ {id}
    /\ UNCHANGED <<drawerVars, backendVars, call, currentId, bridge, shells, events, printed, starts,
                   crossed, missed>>

OtherVars == <<drawerVars, backendVars, ptyVars, starts, crossed, missed>>

(* The reader thread goes on to the end of the output, also of a shell     *)
(* that has exited; what it reads when the drawer is closed shows nowhere. *)
Reads(id) ==
    /\ mounted /\ printed < MaxOutput /\ printed' = printed + 1 /\ Len(events) < MaxEvents
    /\ shells' = [shells EXCEPT ![id].read = @ + 1]
    /\ events' = Append(events, [type |-> "output", id |-> id, n |-> shells[id].read + 1])
    /\ UNCHANGED table /\ UNCHANGED OtherVars

(* The shell exits, by itself or after its signal, and the waiter thread   *)
(* sees it: the entry goes first, then the event.                          *)
Reaps(id) ==
    /\ ~shells[id].exited /\ Len(events) < MaxEvents
    /\ shells' = [shells EXCEPT ![id].exited = TRUE]
    /\ table' = table \ {id}
    /\ events' = Append(events, [type |-> "exit", id |-> id])
    /\ UNCHANGED printed /\ UNCHANGED OtherVars

----------------------------------------------------------------------------

TerminalNext ==
    \/ XtermOpened \/ Close \/ NewShell \/ (\E s \in Sessions : Switch(s)) \/ Unmount
    \/ BridgeReady \/ BridgeFails \/ KillAnswered \/ CreateAnswered \/ CreateFailed
    \/ HearOutput \/ HearExit
    \/ ServeCreate \/ (\E id \in kills : ServeKill(id))
    \/ \E id \in DOMAIN shells : Reads(id) \/ Reaps(id)

TerminalSpec == TerminalInit /\ [][TerminalNext]_terminalVars

----------------------------------------------------------------------------
(* Properties.                                                             *)

(* Someone will kill it: the open drawer's controller holds its id, a      *)
(* pty_kill is on its way, or its start is about to hand over the id.      *)
Owned(id) ==
    \/ mounted /\ id = currentId
    \/ id \in kills
    \/ call.at = "created" /\ call.id = id

(* Every shell behind an entry of the table has someone who will kill it,  *)
(* also after the drawer is closed.  Exempt is one shell: that of a start  *)
(* in flight when the drawer was closed (crossed), which is handed to the  *)
(* disposed controller (useLocalPty.ts:114-119); see ClosingEndsShells.    *)
NoOrphanShell ==
    \A id \in table : Owned(id) \/ (~mounted /\ crossed /\ id = currentId)

(* What the comment on dispose says (useLocalPty.ts:21): closing the       *)
(* drawer kills the process.  It does not kill one that was starting.      *)
ClosingEndsShells == ~mounted => \A id \in table : Owned(id)

(* What the drawer calls exited is gone from the table or about to be: the *)
(* exit of an earlier shell never ends a later one.                        *)
ExitedIsGone ==
    terminal.status = "exited" => terminal.id \notin table \/ terminal.id \in kills

(* What the open drawer calls running is the shell that input goes to, and *)
(* the shell is there or the news of its end is under way.  Exempt is an   *)
(* exit event that came before the answer with the shell's id (missed), and *)
(* a start that replaced a terminal still on display or whose session was  *)
(* changed before it was up (crossed).                                     *)
RunningIsAlive ==
    mounted /\ ~loading /\ ~crossed /\ terminal.status = "running" =>
        /\ terminal.id = currentId /\ ~readOnly
        /\ \/ terminal.id \in table \cup missed
           \/ \E i \in DOMAIN events : events[i] = [type |-> "exit", id |-> terminal.id]

(* The terminal on display was started in the directory of the session on  *)
(* display, unless the session changed while it was starting.              *)
TerminalOfSession ==
    mounted /\ ~loading /\ ~crossed /\ terminal # NoTerminal => terminal.dir = session

(* The screen shows the output of one shell, in order and without holes;   *)
(* of two xterms each has its handler (a session changed while the first   *)
(* was opening), and then everything is written twice.                     *)
OneShellOnScreen ==
    \A i \in 2..Len(screen) :
        /\ screen[i].id = screen[1].id
        /\ xterms = 1 => screen[i].n = screen[i - 1].n + 1

=============================================================================
