------------------------------- MODULE UiFlow -------------------------------
(***************************************************************************)
(* What the user does to the service, and what he is shown of it: the      *)
(* connect button and the choice of a server (MainActivity), the calls of  *)
(* OpenConnector with their binding and their fixed delays, and the status *)
(* that VpnStatus keeps of all sessions together and posts to the          *)
(* activity.  The service is OpenVPNService, whose actions are the         *)
(* service's part of every step here; Spec of that module is implied.      *)
(*                                                                         *)
(* Everything of the application runs on the main thread, the coroutines   *)
(* of lifecycleScope too.  Delays take any time.  The advertisements and   *)
(* report pages that follow a change are left out, and with them isJump    *)
(* and isConnecting, which choose among them.                              *)
(***************************************************************************)
EXTENDS OpenVPNService

CONSTANTS MaxTap,       \* bound on what the user does
          MaxUpdates    \* bound on the CONNECTED updates waiting to be shown

ASSUME MaxTapAssumption == MaxTap \in Nat /\ MaxTap <= MaxStop
ASSUME MaxUpdatesAssumption == MaxUpdates \in Nat \ {0}

VARIABLES
    level,      \* VpnStatus.mLastLevel
    updates,    \* coroutines of updateState waiting on the main thread
    shown,      \* what the button shows
    mService,   \* is OpenConnector.mService set?
    waits,      \* coroutines in a delay
    intents,    \* start intents on their way to onStartCommand
    taps,       \* what the user did
    silent      \* history: starts that ended without a status

status == <<level, updates>>
screenVars == <<shown, mService, waits, intents, taps>>
uiVars == <<vars, status, screenVars, silent>>

(* LEVEL_NOTCONNECTED, LEVEL_START, LEVEL_CONNECTED, and all the levels of *)
(* a session under way.                                                    *)
Levels == {"notconnected", "start", "busy", "connected"}
(* Before stopVPN of a stop, before stopVPN of a change of servers, and    *)
(* before the connect of that change.                                      *)
Waits == {"stop", "switch", "reconnect"}

UiTypeOK ==
    /\ TypeOK
    /\ level \in Levels
    /\ updates \in Seq(Levels \ {"busy"})
    /\ shown \in {"rest", "connecting", "connected"}
    /\ mService \in BOOLEAN
    /\ waits \in [Waits -> 0 .. MaxTap]
    /\ intents \in 0 .. MaxTap
    /\ taps \in 0 .. MaxTap
    /\ silent \in SUBSET Sessions

UiInit ==
    /\ Init
    /\ level = "notconnected" /\ updates = << >>
    /\ shown = "rest"
    /\ mService = FALSE
    /\ waits = [w \in Waits |-> 0]
    /\ intents = 0
    /\ taps = 0
    /\ silent = {}

-----------------------------------------------------------------------------
(* VpnStatus.                                                              *)

(* isVPNActive; LEVEL_AUTH_FAILED is announced by OpenVPN 2 only.          *)
Active == level # "notconnected"

(* updateStateString under the lock of the class: the level changes and    *)
(* the listener posts a coroutine, which for some levels does nothing.     *)
Announce(l) ==
    /\ level' = l
    /\ updates' = IF l = "busy" THEN updates ELSE Append(updates, l)

-----------------------------------------------------------------------------
(* The user.  One instance of the service is followed to its end.          *)

UserActs ==
    /\ MainFree /\ alive /\ ~GoingDown
    /\ taps < MaxTap
    /\ taps' = taps + 1

(* disConnect up to its delay.                                             *)
AskStop(w) ==
    /\ IF mService \/ bound THEN UNCHANGED vars ELSE Bind
    /\ waits' = [waits EXCEPT ![w] = @ + 1]
    /\ UNCHANGED intents

(* VpsFactory.connect, which never suspends.                               *)
Connect ==
    /\ intents' = IF Active THEN intents ELSE intents + 1
    /\ UNCHANGED <<vars, waits>>

Toggle ==
    /\ UserActs
    /\ IF Active THEN AskStop("stop") ELSE Connect
    /\ UNCHANGED <<status, shown, mService, silent>>

ChooseServer ==
    /\ UserActs
    /\ IF Active THEN AskStop("switch") ELSE Connect
    /\ UNCHANGED <<status, shown, mService, silent>>

(* The activity is destroyed, with the coroutines of its scope, and        *)
(* created again; as a new listener it is told the last state.             *)
Leave ==
    /\ MainFree /\ taps < MaxTap
    /\ taps' = taps + 1
    /\ waits' = [w \in Waits |-> 0]
    /\ shown' = "rest"
    /\ updates' = IF level = "busy" THEN << >> ELSE <<level>>
    /\ UNCHANGED <<vars, level, mService, intents, silent>>

-----------------------------------------------------------------------------
(* The main thread.                                                        *)

ServiceConnected ==
    /\ MainFree /\ bound /\ ~mService
    /\ mService' = TRUE
    /\ UNCHANGED <<vars, status, shown, waits, intents, taps, silent>>

(* The end of disConnect: a service not yet connected is not called.       *)
StopAfterDelay(w, next) ==
    /\ MainFree /\ waits[w] > 0
    /\ IF mService THEN StopVPN ELSE UNCHANGED vars
    /\ waits' = [v \in Waits |-> waits[v] + (IF v \in next THEN 1 ELSE 0)
                                          - (IF v = w THEN 1 ELSE 0)]
    /\ UNCHANGED <<status, shown, mService, intents, taps, silent>>

StopNow == StopAfterDelay("stop", {})
SwitchNow == StopAfterDelay("switch", {"reconnect"})

Reconnect ==
    /\ MainFree /\ waits["reconnect"] > 0
    /\ waits' = [waits EXCEPT !["reconnect"] = @ - 1]
    /\ intents' = IF Active THEN intents ELSE intents + 1
    /\ UNCHANGED <<vars, status, shown, mService, taps, silent>>

(* Mutant: the start is not announced.                                     *)
Deliver_Quietly ==
    /\ intents > 0
    /\ OnStartCommand
    /\ intents' = intents - 1
    /\ UNCHANGED <<status, shown, mService, waits, taps, silent>>

Deliver ==
    /\ intents > 0
    /\ OnStartCommand
    /\ Announce("start")
    /\ intents' = intents - 1
    /\ UNCHANGED <<shown, mService, waits, taps, silent>>

Face(l) == CASE l = "start" -> "connecting"
             [] l = "connected" -> "connected"
             [] l = "notconnected" -> "rest"

(* Mutant: the coroutine shows the level of the moment it runs.            *)
Show_NewestFirst ==
    /\ MainFree /\ updates # << >>
    /\ shown' = Face(updates[Len(updates)])
    /\ updates' = SubSeq(updates, 1, Len(updates) - 1)
    /\ UNCHANGED <<vars, level, mService, waits, intents, taps, silent>>

(* The coroutine of updateState.                                           *)
Show ==
    /\ MainFree /\ updates # << >>
    /\ shown' = Face(Head(updates))
    /\ updates' = Tail(updates)
    /\ UNCHANGED <<vars, level, mService, waits, intents, taps, silent>>

-----------------------------------------------------------------------------
(* The sessions.                                                           *)

(* RESOLVE, CONNECTING, WAIT, AUTH, ..., RECONNECTING, PAUSE: WAIT and AUTH *)
(* alone are ignored while connected, and a state before them is not.      *)
Trying(s) ==
    /\ proc[s] \in {"setup", "ready"} /\ level # "busy"
    /\ Announce("busy")
    /\ UNCHANGED <<vars, screenVars, silent>>

Connected(s) ==
    /\ proc[s] = "ready" /\ Len(updates) < MaxUpdates
    /\ Announce("connected")
    /\ UNCHANGED <<vars, screenVars, silent>>

(* connect() ends with DISCONNECTED, the thread with NOPROCESS; a          *)
(* configuration that is rejected ends it with neither.                    *)
ReactorEnds(s) ==
    /\ ConnectStopped(s) \/ ConnectFails(s)
    /\ Announce("notconnected")
    /\ UNCHANGED <<screenVars, silent>>

(* Mutant: the thread ends without NOPROCESS.                              *)
ThreadEnds_Quietly(s) ==
    /\ ThreadFinished(s)
    /\ UNCHANGED <<status, screenVars, silent>>

ThreadEnds(s) ==
    /\ ThreadFinished(s)
    /\ Announce("notconnected")
    /\ UNCHANGED <<screenVars, silent>>

ConfigRefused(s) ==
    /\ ConfigRejected(s)
    /\ silent' = silent \cup {s}
    /\ UNCHANGED <<status, screenVars>>

NoProfile ==
    /\ FetchNoProfile
    /\ silent' = silent \cup {Head(cmdQueue)}
    /\ UNCHANGED <<status, screenVars>>

-----------------------------------------------------------------------------
UiUnchanged == UNCHANGED <<status, screenVars, silent>>

UiCommandStep ==
    \/ NoProfile
    \/ /\ FetchProfile \/ StopOld \/ ForceStop \/ WakeUp
            \/ Instantiate \/ StartThread \/ PostSwap
       /\ UiUnchanged

UiProcessStep(s) ==
    \/ ConfigRefused(s) \/ ThreadEnds(s)
    \/ (EnterConnect(s) \/ ConnectReady(s) \/ ConnectThrows(s)) /\ UiUnchanged
    \/ ReactorEnds(s) /\ stopEffect[s] = "triggered"

UiMainStep == MainStep /\ UiUnchanged
UiHandleStop(s) == HandleStop(s) /\ UiUnchanged
UiEndStep(t) == EndStep(t) /\ UiUnchanged

UiNext ==
    \/ Toggle \/ ChooseServer \/ Leave \/ Deliver
    \/ ServiceConnected \/ StopNow \/ SwitchNow \/ Reconnect \/ Show
    \/ UiCommandStep \/ UiMainStep
    \/ \E s \in Sessions :
         UiProcessStep(s) \/ ReactorEnds(s) \/ Trying(s) \/ Connected(s)
           \/ UiHandleStop(s)
    \/ \E t \in Enders : UiEndStep(t)

UiSpec == UiInit /\ [][UiNext]_uiVars

-----------------------------------------------------------------------------
(* An active status always stands for something: a start under way, a      *)
(* session whose thread has not ended, or, the one way to be stuck, the    *)
(* LEVEL_START of a newest start that ended without a status.  Otherwise   *)
(* every further tap would ask a dead session to stop.                     *)
ActiveIsReal ==
    Active =>
        \/ cmdQueue # << >> \/ cmdPc # Idle
        \/ \E s \in Sessions : Live(s) \/ proc[s] = "finishing"
        \/ level = "start" /\ startIds \in silent

(* A session runs under an inactive status, where the next tap starts      *)
(* another one, only because the end of a different session hid it.        *)
RunningIsShown ==
    \A s \in Sessions :
        Live(s) /\ ~Active =>
            \E r \in Sessions \ {s} : proc[r] \in {"finishing", "exited"}

(* Once the posted updates have run, the button shows the level: updates   *)
(* are posted under the lock that orders the levels.                       *)
ShownIsLevel ==
    updates = << >> /\ level # "busy" => shown = Face(level)
=============================================================================
