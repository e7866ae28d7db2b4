--------------------------- MODULE OpenVPNService ---------------------------
(***************************************************************************)
(* One instance of the Android service that owns the VPN, together with    *)
(* the threads that work on its fields:                                    *)
(*                                                                         *)
(*   - the main thread: onStartCommand, the swap of the device-state       *)
(*     receivers posted by startOpenVPN, and onDestroy;                    *)
(*   - the command thread, which runs startOpenVPN for every start intent; *)
(*   - for every session s, the process thread that runs                   *)
(*     OpenVPNThreadv3.run and the handler thread of the same object;      *)
(*   - the binder thread on which Android calls onRevoke.                  *)
(*                                                                         *)
(* A session is named by the start id of the intent that created it.  A    *)
(* step is the longest piece of code between two accesses to state that    *)
(* another thread may touch.  Sleeps take any time.                        *)
(***************************************************************************)
EXTENDS Naturals, Sequences, FiniteSets

CONSTANTS MaxStart,      \* bound on the number of start intents
          MaxStop,       \* bound on the number of stopVPN calls of the user
          Revocable,     \* does Android revoke the permission (once)?
          AlwaysVisible  \* mNotificationAlwaysVisible

ASSUME MaxStartAssumption == MaxStart \in Nat \ {0}
ASSUME MaxStopAssumption == MaxStop \in Nat
ASSUME RevocableAssumption == Revocable \in BOOLEAN
ASSUME AlwaysVisibleAssumption == AlwaysVisible \in BOOLEAN

Sessions == 1 .. MaxStart
None == 0
Binder == 0                     \* the thread of onRevoke, beside the handlers
Enders == Sessions \cup {Binder}
MaybeSession == Sessions \cup {None}

VARIABLES
    \* fields of OpenVPNService
    lockHeld,              \* mProcessLock held by the sleeping command thread
    mProcessThread, mManagement, mStarting, mDeviceStateReceiver,
    \* what the Android framework keeps
    started, bound, foreground, alive,
    registered,            \* receivers that listen to network and byte counts
    startIds,              \* start ids given out so far
    userStops,             \* stopVPN calls made so far
    revoked,               \* onRevoke was called
    \* the lastConnectedProfile preference
    lastConnected,
    \* mCommandHandler
    cmdQueue, cmdPc, cmdSession,
    \* guiHandler and onDestroy, both on the main thread
    guiQueue, guiPc, destroyPc,
    \* the threads of the sessions
    proc,                  \* where OpenVPNThreadv3.run is
    stopQueue,             \* stop() messages waiting in mHandler
    stopEffect,            \* what the stop() calls executed so far achieved
    endPc                  \* endVpnService, per thread that may run it

service == <<lockHeld, mProcessThread, mManagement, mStarting,
             mDeviceStateReceiver>>
android == <<started, bound, foreground, alive, registered, startIds,
             userStops, revoked>>
command == <<cmdQueue, cmdPc, cmdSession>>
gui     == <<guiQueue, guiPc, destroyPc>>
session == <<proc, stopQueue, stopEffect>>

vars == <<service, android, lastConnected, command, gui, session, endPc>>

Idle == "idle"
CmdStates == {Idle, "stopOld", "forceStop", "sleeping", "instantiate",
              "startThread", "postSwap"}
ProcStates == {"none", "config", "setup", "ready", "finishing", "exited"}
EndStates == {Idle, "lock", "unregister", "clear", "finish"}
(* What became of the stop requests a handler has executed: none yet, all  *)
(* before connect() was entered, one while connect() was still setting up, *)
(* or one that reached the reactor.                                        *)
Effects == {"no", "early", "lost", "triggered"}

TypeOK ==
    /\ lockHeld \in BOOLEAN
    /\ mProcessThread \in MaybeSession
    /\ mManagement \in MaybeSession
    /\ mStarting \in BOOLEAN
    /\ mDeviceStateReceiver \in MaybeSession
    /\ started \in BOOLEAN /\ bound \in BOOLEAN
    /\ foreground \in BOOLEAN /\ alive \in BOOLEAN
    /\ registered \in SUBSET Sessions
    /\ startIds \in 0 .. MaxStart
    /\ userStops \in 0 .. MaxStop
    /\ revoked \in BOOLEAN
    /\ lastConnected \in BOOLEAN
    /\ cmdQueue \in Seq(Sessions)
    /\ cmdPc \in CmdStates
    /\ cmdSession \in MaybeSession
    /\ guiQueue \in Seq([old : MaybeSession, new : Sessions])
    /\ guiPc \in {Idle, "assign"}
    /\ destroyPc \in {Idle, "unregister", "done"}
    /\ proc \in [Sessions -> ProcStates]
    /\ stopQueue \in [Sessions -> Nat]
    /\ stopEffect \in [Sessions -> Effects]
    /\ endPc \in [Enders -> EndStates]

(* The service object exists and nothing was ever asked of it.             *)
Init ==
    /\ lockHeld = FALSE
    /\ mProcessThread = None
    /\ mManagement = None
    /\ mStarting = FALSE
    /\ mDeviceStateReceiver = None
    /\ started = FALSE /\ bound = FALSE
    /\ foreground = FALSE /\ alive = TRUE
    /\ registered = {}
    /\ startIds = 0 /\ userStops = 0 /\ revoked = FALSE
    /\ lastConnected = FALSE
    /\ cmdQueue = << >> /\ cmdPc = Idle
    /\ cmdSession = None
    /\ guiQueue = << >> /\ guiPc = Idle /\ destroyPc = Idle
    /\ proc = [s \in Sessions |-> "none"]
    /\ stopQueue = [s \in Sessions |-> 0]
    /\ stopEffect = [s \in Sessions |-> "no"]
    /\ endPc = [t \in Enders |-> Idle]

(* The framework takes the service down once it is neither started nor     *)
(* bound; from then on it gets no further intent and no further bind.      *)
GoingDown == startIds > 0 /\ ~started /\ ~bound
MainFree == guiPc = Idle /\ destroyPc = Idle

(* connect() of the session is running, or about to be called by run().    *)
Live(s) == proc[s] \in {"config", "setup", "ready"}

(* OpenVPNThreadv3.stopVPN: queue stop() on the handler of session s.      *)
PostStop(s) == [stopQueue EXCEPT ![s] = @ + 1]

-----------------------------------------------------------------------------
(* The outside world.                                                      *)

(* A client binds in order to stop the VPN; none ever unbinds.             *)
Bind ==
    /\ alive /\ ~GoingDown /\ ~bound /\ userStops < MaxStop
    /\ bound' = TRUE
    /\ UNCHANGED <<service, started, foreground, alive, registered, startIds,
                   userStops, revoked, lastConnected, command, gui, session,
                   endPc>>

(* onStartCommand of an intent that starts a VPN.                          *)
OnStartCommand ==
    /\ alive /\ ~GoingDown /\ MainFree
    /\ startIds < MaxStart
    /\ startIds' = startIds + 1
    /\ started' = TRUE
    /\ foreground' = TRUE
    /\ cmdQueue' = Append(cmdQueue, startIds')
    /\ UNCHANGED <<service, bound, alive, registered, userStops, revoked,
                   lastConnected, cmdPc, cmdSession, gui, session, endPc>>

(* IOpenVPNServiceInternal.stopVPN, called by a bound client.              *)
StopVPN ==
    /\ bound /\ alive /\ userStops < MaxStop
    /\ userStops' = userStops + 1
    /\ stopQueue' = IF mManagement = None THEN stopQueue
                    ELSE PostStop(mManagement)
    /\ UNCHANGED <<service, started, bound, foreground, alive, registered,
                   startIds, revoked, lastConnected, command, gui, proc,
                   stopEffect, endPc>>

(* Mutant: onRevoke ends the service and leaves the session running.       *)
OnRevoke_NoStop ==
    /\ Revocable /\ alive /\ ~revoked /\ endPc[Binder] = Idle
    /\ \E s \in Sessions : proc[s] = "ready"
    /\ revoked' = TRUE
    /\ endPc' = [endPc EXCEPT ![Binder] = "lock"]
    /\ UNCHANGED <<service, started, bound, foreground, alive, registered,
                   startIds, userStops, lastConnected, command, gui, session>>

(* Android revokes the VPN permission, which a session must have used.     *)
OnRevoke ==
    /\ Revocable /\ alive /\ ~revoked /\ endPc[Binder] = Idle
    /\ \E s \in Sessions : proc[s] = "ready"
    /\ revoked' = TRUE
    /\ stopQueue' = PostStop(mManagement)
    /\ endPc' = [endPc EXCEPT ![Binder] = "lock"]
    /\ UNCHANGED <<service, started, bound, foreground, alive, registered,
                   startIds, userStops, lastConnected, command, gui, proc,
                   stopEffect>>

-----------------------------------------------------------------------------
(* startOpenVPN on the command thread.                                     *)

(* No profile: stopSelf(startId), which only the newest start id obeys.    *)
FetchNoProfile ==
    /\ cmdPc = Idle /\ cmdQueue # << >>
    /\ cmdQueue' = Tail(cmdQueue)
    /\ started' = IF Head(cmdQueue) = startIds THEN FALSE ELSE started
    /\ UNCHANGED <<service, bound, foreground, alive, registered, startIds,
                   userStops, revoked, lastConnected, cmdPc, cmdSession, gui,
                   session, endPc>>

FetchProfile ==
    /\ cmdPc = Idle /\ cmdQueue # << >>
    /\ cmdQueue' = Tail(cmdQueue)
    /\ cmdSession' = Head(cmdQueue)
    /\ lastConnected' = TRUE
    /\ cmdPc' = "stopOld"
    /\ UNCHANGED <<service, android, gui, session, endPc>>

(* Mutant: only a thread recorded in mOpenVPNThread, which is always null, *)
(* is asked to stop.                                                       *)
StopOld_NeverAsks ==
    /\ cmdPc = "stopOld"
    /\ mStarting' = TRUE
    /\ cmdPc' = "forceStop"
    /\ UNCHANGED <<lockHeld, mProcessThread, mManagement,
                   mDeviceStateReceiver, android, lastConnected, cmdQueue,
                   cmdSession, gui, session, endPc>>

(* stopOldOpenVPNProcess: stopVPN of OpenVPNThreadv3 answers false, so the *)
(* caller does not wait for the old session.                               *)
StopOld ==
    /\ cmdPc = "stopOld"
    /\ mStarting' = TRUE
    /\ stopQueue' = IF mManagement = None THEN stopQueue
                    ELSE PostStop(mManagement)
    /\ cmdPc' = "forceStop"
    /\ UNCHANGED <<lockHeld, mProcessThread, mManagement,
                   mDeviceStateReceiver, android, lastConnected, cmdQueue,
                   cmdSession, gui, proc, stopEffect, endPc>>

(* forceStopOpenVpnProcess: the interrupt does not reach native code; the  *)
(* thread then sleeps with mProcessLock held.                              *)
ForceStop ==
    /\ cmdPc = "forceStop" /\ ~lockHeld
    /\ IF mProcessThread = None
       THEN cmdPc' = "instantiate" /\ UNCHANGED lockHeld
       ELSE cmdPc' = "sleeping" /\ lockHeld' = TRUE
    /\ UNCHANGED <<mProcessThread, mManagement, mStarting,
                   mDeviceStateReceiver, android, lastConnected, cmdQueue,
                   cmdSession, gui, session, endPc>>

(* Mutant: the lock is not given back after the sleep.                     *)
WakeUp_KeepLock ==
    /\ cmdPc = "sleeping"
    /\ cmdPc' = "instantiate"
    /\ UNCHANGED <<service, android, lastConnected, cmdQueue, cmdSession, gui,
                   session, endPc>>

WakeUp ==
    /\ cmdPc = "sleeping"
    /\ lockHeld' = FALSE
    /\ cmdPc' = "instantiate"
    /\ UNCHANGED <<mProcessThread, mManagement, mStarting,
                   mDeviceStateReceiver, android, lastConnected, cmdQueue,
                   cmdSession, gui, session, endPc>>

(* Mutant: mManagement is not assigned, as on the OpenVPN 2 path.          *)
Instantiate_NoManagement ==
    /\ cmdPc = "instantiate"
    /\ mStarting' = FALSE
    /\ cmdPc' = "startThread"
    /\ UNCHANGED <<lockHeld, mProcessThread, mManagement,
                   mDeviceStateReceiver, android, lastConnected, cmdQueue,
                   cmdSession, gui, session, endPc>>

Instantiate ==
    /\ cmdPc = "instantiate"
    /\ mStarting' = FALSE
    /\ mManagement' = cmdSession
    /\ cmdPc' = "startThread"
    /\ UNCHANGED <<lockHeld, mProcessThread, mDeviceStateReceiver, android,
                   lastConnected, cmdQueue, cmdSession, gui, session, endPc>>

StartThread ==
    /\ cmdPc = "startThread" /\ ~lockHeld
    /\ mProcessThread' = cmdSession
    /\ proc' = [proc EXCEPT ![cmdSession] = "config"]
    /\ cmdPc' = "postSwap"
    /\ UNCHANGED <<lockHeld, mManagement, mStarting, mDeviceStateReceiver,
                   android, lastConnected, cmdQueue, cmdSession, gui,
                   stopQueue, stopEffect, endPc>>

PostSwap ==
    /\ cmdPc = "postSwap"
    /\ guiQueue' = Append(guiQueue, [old |-> mDeviceStateReceiver,
                                     new |-> cmdSession])
    /\ cmdPc' = Idle
    /\ UNCHANGED <<service, android, lastConnected, cmdQueue, cmdSession,
                   guiPc, destroyPc, session, endPc>>

-----------------------------------------------------------------------------
(* The runnable startOpenVPN posts to the main thread.                     *)

(* unregisterDeviceStateReceiver tests the field, not its argument.        *)
Unregister(r) ==
    IF mDeviceStateReceiver # None THEN registered \ {r} ELSE registered

SwapRegister ==
    /\ guiPc = Idle /\ destroyPc # "unregister" /\ guiQueue # << >>
    /\ registered' = {Head(guiQueue).new} \cup
                        Unregister(Head(guiQueue).old)
    /\ guiPc' = "assign"
    /\ UNCHANGED <<service, started, bound, foreground, alive, startIds,
                   userStops, revoked, lastConnected, command, guiQueue,
                   destroyPc, session, endPc>>

SwapAssign ==
    /\ guiPc = "assign"
    /\ mDeviceStateReceiver' = Head(guiQueue).new
    /\ guiQueue' = Tail(guiQueue)
    /\ guiPc' = Idle
    /\ UNCHANGED <<lockHeld, mProcessThread, mManagement, mStarting, android,
                   lastConnected, command, destroyPc, session, endPc>>

(* onDestroy.  The command thread is not told to quit.                     *)
DestroyStop ==
    /\ alive /\ GoingDown /\ MainFree /\ ~lockHeld
    /\ stopQueue' = IF mProcessThread = None THEN stopQueue
                    ELSE PostStop(mManagement)
    /\ destroyPc' = "unregister"
    /\ UNCHANGED <<service, android, lastConnected, command, guiQueue, guiPc,
                   proc, stopEffect, endPc>>

DestroyUnregister ==
    /\ destroyPc = "unregister"
    /\ registered' = Unregister(mDeviceStateReceiver)
    /\ mDeviceStateReceiver' = None
    /\ foreground' = FALSE
    /\ alive' = FALSE
    /\ destroyPc' = "done"
    /\ UNCHANGED <<lockHeld, mProcessThread, mManagement, mStarting, started,
                   bound, startIds, userStops, revoked, lastConnected,
                   command, guiQueue, guiPc, session, endPc>>

-----------------------------------------------------------------------------
(* OpenVPNThreadv3.run on the process thread of session s.                 *)

ProcStep(s, from, to) ==
    /\ proc[s] = from
    /\ proc' = [proc EXCEPT ![s] = to]
    /\ UNCHANGED <<service, android, lastConnected, command, gui, stopQueue,
                   stopEffect, endPc>>

(* setConfig fails and run() returns at once.                              *)
ConfigRejected(s) == ProcStep(s, "config", "exited")
(* connect() is entered.                                                   *)
EnterConnect(s) == ProcStep(s, "config", "setup")
(* connect_setup ends with enable_foreign_thread_access.                   *)
ConnectReady(s) == ProcStep(s, "setup", "ready")
ConnectThrows(s) == ProcStep(s, "setup", "finishing")
(* The reactor is stopped, or the session gives up of its own accord.      *)
ConnectStopped(s) == stopEffect[s] = "triggered" /\ ProcStep(s, "ready", "finishing")
ConnectFails(s) == stopEffect[s] # "triggered" /\ ProcStep(s, "ready", "finishing")
(* The status becomes NOPROCESS and the thread ends: openvpnStopped is not *)
(* called here.                                                            *)
ThreadFinished(s) == ProcStep(s, "finishing", "exited")

-----------------------------------------------------------------------------
(* OpenVPNThreadv3.stop on the handler thread of session s: the native     *)
(* stop, which does nothing until foreign threads have access, then        *)
(* openvpnStopped.                                                         *)
EffectOf(s) ==
    IF stopEffect[s] = "triggered" \/ proc[s] = "ready" THEN "triggered"
    ELSE IF stopEffect[s] = "lost" \/ proc[s] = "setup" THEN "lost"
    ELSE "early"

(* Mutant: super.stop() is not called.                                     *)
HandleStop_NoNativeStop(s) ==
    /\ stopQueue[s] > 0 /\ endPc[s] = Idle
    /\ stopQueue' = [stopQueue EXCEPT ![s] = @ - 1]
    /\ endPc' = [endPc EXCEPT ![s] = "lock"]
    /\ UNCHANGED <<service, android, lastConnected, command, gui, proc,
                   stopEffect>>

HandleStop(s) ==
    /\ stopQueue[s] > 0 /\ endPc[s] = Idle
    /\ stopQueue' = [stopQueue EXCEPT ![s] = @ - 1]
    /\ stopEffect' = [stopEffect EXCEPT ![s] = EffectOf(s)]
    /\ endPc' = [endPc EXCEPT ![s] = "lock"]
    /\ UNCHANGED <<service, android, lastConnected, command, gui, proc>>

(* endVpnService on thread t.                                              *)
EndLock(t) ==
    /\ endPc[t] = "lock" /\ ~lockHeld
    /\ mProcessThread' = None
    /\ endPc' = [endPc EXCEPT ![t] = "unregister"]
    /\ UNCHANGED <<lockHeld, mManagement, mStarting, mDeviceStateReceiver,
                   android, lastConnected, command, gui, session>>

EndUnregister(t) ==
    /\ endPc[t] = "unregister"
    /\ registered' = Unregister(mDeviceStateReceiver)
    /\ endPc' = [endPc EXCEPT ![t] = "clear"]
    /\ UNCHANGED <<service, started, bound, foreground, alive, startIds,
                   userStops, revoked, lastConnected, command, gui, session>>

(* Mutant: the field keeps the unregistered receiver.                      *)
EndClear_KeepField(t) ==
    /\ endPc[t] = "clear"
    /\ lastConnected' = FALSE
    /\ endPc' = [endPc EXCEPT ![t] = "finish"]
    /\ UNCHANGED <<service, android, command, gui, session>>

EndClear(t) ==
    /\ endPc[t] = "clear"
    /\ mDeviceStateReceiver' = None
    /\ lastConnected' = FALSE
    /\ endPc' = [endPc EXCEPT ![t] = "finish"]
    /\ UNCHANGED <<lockHeld, mProcessThread, mManagement, mStarting, android,
                   command, gui, session>>

EndFinish(t) ==
    /\ endPc[t] = "finish"
    /\ foreground' = (foreground /\ mStarting)
    /\ started' = (started /\ (mStarting \/ AlwaysVisible))
    /\ endPc' = [endPc EXCEPT ![t] = Idle]
    /\ UNCHANGED <<service, bound, alive, registered, startIds, userStops,
                   revoked, lastConnected, command, gui, session>>

-----------------------------------------------------------------------------
CommandStep ==
    \/ FetchNoProfile \/ FetchProfile \/ StopOld \/ ForceStop \/ WakeUp
    \/ Instantiate \/ StartThread \/ PostSwap

MainStep == SwapRegister \/ SwapAssign \/ DestroyStop \/ DestroyUnregister

ProcessStep(s) ==
    \/ ConfigRejected(s) \/ EnterConnect(s) \/ ConnectReady(s)
    \/ ConnectThrows(s) \/ ConnectStopped(s) \/ ThreadFinished(s)

EndStep(t) ==
    EndLock(t) \/ EndUnregister(t) \/ EndClear(t) \/ EndFinish(t)

Next ==
    \/ Bind \/ OnStartCommand \/ StopVPN \/ OnRevoke
    \/ CommandStep
    \/ MainStep
    \/ \E s \in Sessions : ProcessStep(s) \/ ConnectFails(s) \/ HandleStop(s)
    \/ \E t \in Enders : EndStep(t)

Spec == Init /\ [][Next]_vars

(* Every thread keeps running; intents, binds, stop requests, revocations  *)
(* and failures of a session are never owed.                               *)
Fairness ==
    /\ WF_vars(CommandStep)
    /\ WF_vars(MainStep)
    /\ \A s \in Sessions : WF_vars(ProcessStep(s)) /\ WF_vars(HandleStop(s))
    /\ \A t \in Enders : WF_vars(EndStep(t))

FairSpec == Spec /\ Fairness

-----------------------------------------------------------------------------
(* Safety.                                                                 *)

(* Somebody asked session s to stop.                                       *)
Asked(s) == stopQueue[s] > 0 \/ stopEffect[s] # "no"

(* startOpenVPN replaces the managed session only after asking it to stop, *)
(* so a session that mManagement no longer names is never forgotten while  *)
(* nobody told it to end.                                                  *)
ReplacedIsAsked ==
    \A s \in Sessions : proc[s] # "none" /\ s # mManagement => Asked(s)

(* onDestroy and forceStopOpenVpnProcess test mProcessThread but talk to   *)
(* mManagement: outside the gap between the two assignments in             *)
(* startOpenVPN both name the same session.                                *)
ThreadIsManaged ==
    mProcessThread # None => mProcessThread = mManagement \/ cmdPc = "startThread"

(* userPause goes through the mDeviceStateReceiver field; the receiver it  *)
(* finds is one that still hears of the network, unless the main thread is *)
(* swapping receivers or some endVpnService is about to clear the field.   *)
FieldIsRegistered ==
    mDeviceStateReceiver # None =>
        \/ mDeviceStateReceiver \in registered
        \/ guiPc # Idle
        \/ \E t \in Enders : endPc[t] = "clear"

(* mProcessLock is held across steps only by forceStopOpenVpnProcess, and  *)
(* while it is, no thread changes which process thread the service has.    *)
LockProtectsThread == [][lockHeld => UNCHANGED mProcessThread]_vars

(* Without a replacement, the service never lets go of a running session   *)
(* nobody asked to stop: it stays alive and started, knows its thread and  *)
(* remembers the profile.                                                  *)
(* (With replacements the late end of the old session breaks this, see     *)
(* ReplacementKeepsService.)                                               *)
KeptUntilAsked ==
    startIds <= 1 =>
        \A s \in Sessions : Live(s) /\ ~Asked(s) =>
            alive /\ started /\ lastConnected /\ mProcessThread = s

(* "Set a flag that we are starting a new VPN": the flag is there so that  *)
(* the end of the replaced session does not stop the service under the new *)
(* one.                                                                    *)
ReplacementKeepsService ==
    [][\A s \in Sessions :
         EndFinish(s) /\ Live(mManagement) /\ ~Asked(mManagement)
            => started' = started]_vars

-----------------------------------------------------------------------------
(* Liveness.                                                               *)

(* A stop request that finds the session's reactor running ends it.        *)
StopEndsSession ==
    \A s \in Sessions :
        (stopQueue[s] > 0 /\ proc[s] = "ready") ~> proc[s] = "exited"

(* Once the framework takes the service down, onDestroy completes although *)
(* it waits on the main thread for a lock the command thread sleeps with.  *)
DestroyCompletes == GoingDown ~> ~alive

(* Every endVpnService runs to its end: no thread waits for mProcessLock   *)
(* for ever.                                                               *)
EndCompletes == \A t \in Enders : endPc[t] = "lock" ~> endPc[t] = Idle

(* Nothing that takes a session or the service down hangs on mProcessLock, *)
(* though the command thread sleeps with it.                               *)
CleanupCompletes == DestroyCompletes /\ EndCompletes

(* OpenVPNClient.stop "may be called asynchronously from a different       *)
(* thread when connect() is running": a stop executed while connect() runs *)
(* ends the session.                                                       *)
StopIsHonoured ==
    \A s \in Sessions :
        stopEffect[s] \in {"lost", "triggered"} ~> proc[s] = "exited"
=============================================================================
