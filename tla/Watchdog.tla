------------------------------ MODULE Watchdog ------------------------------
(***************************************************************************)
(* What a watchdog shared by several parties promises: its timer starts    *)
(* again only when every party it watches was heard since it last started, *)
(* when someone configures it, or when it has run out.  The task watchdog  *)
(* and the interrupt watchdog of esp_common both implement it.             *)
(***************************************************************************)
EXTENDS Naturals

CONSTANTS
    Parties,     \* whoever can be watched
    Timeout,     \* the shortest time after which it goes off
    Configurable \* it can be configured while it runs

VARIABLES
    watched, \* the parties it watches now
    heard,   \* those it has heard since the timer was started
    since    \* the time since the timer was started

watchdogVars == <<watched, heard, since>>

WatchdogInit == watched \in SUBSET Parties /\ heard = {} /\ since = 0

\* Once the last party is heard, everyone starts over.
Note(parties, report) ==
    /\ watched' = parties
    /\ IF report = parties
         THEN heard' = {} /\ since' = 0
         ELSE heard' = report /\ UNCHANGED since

Hear(p) == p \in watched /\ Note(watched, heard \cup {p})
Join(p) == p \notin watched /\ Note(watched \cup {p}, heard \cup {p})
Leave(p) == p \in watched /\ Note(watched \ {p}, heard \ {p})

Pass == since' = since + 1 /\ UNCHANGED <<watched, heard>>
GoOff == since >= Timeout /\ since' = 0 /\ UNCHANGED <<watched, heard>>
Configure == Configurable /\ since' = 0 /\ UNCHANGED <<watched, heard>>

WatchdogNext ==
    \/ \E p \in Parties : Hear(p) \/ Join(p) \/ Leave(p)
    \/ Pass \/ GoOff \/ Configure

WatchdogSpec == WatchdogInit /\ [][WatchdogNext]_watchdogVars
=============================================================================
