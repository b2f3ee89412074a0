---------------------------- MODULE MCSyncDesktop ----------------------------
(* Three components that share no state, checked for safety: the session's *)
(* copy, the terminal drawer and the start of the daemon.  A behaviour is  *)
(* one of them, chosen at the start.                                       *)
EXTENDS SessionSync, LocalTerminal, DaemonLaunch

VARIABLE part   \* the one that moves

desktopVars == <<part, vars, terminalVars, launchVars>>

DesktopInit ==
    /\ part \in {"sync", "terminal", "launch"}
    /\ Init /\ TerminalInit /\ LaunchInit
    /\ part # "launch" => ~daemons[1].millis

SyncStep == part = "sync" /\ Next /\ UNCHANGED <<part, terminalVars, launchVars>>

TerminalStep == part = "terminal" /\ TerminalNext /\ UNCHANGED <<part, vars, launchVars>>

LaunchStep == part = "launch" /\ LaunchNext /\ UNCHANGED <<part, vars, terminalVars>>

DesktopSpec == DesktopInit /\ [][SyncStep \/ TerminalStep \/ LaunchStep]_desktopVars

=============================================================================
