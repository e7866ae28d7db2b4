----------------------------- MODULE DeviceState -----------------------------
(***************************************************************************)
(* DeviceStateReceiver: the state of network, screen and user, and the     *)
(* pauses, resumes and reconnects it asks of a running session.            *)
(*                                                                         *)
(* Broadcasts, intents and the delayed disconnect run on the main thread,  *)
(* byte counts on the handler thread of OpenVPNThreadv3. A pause and a     *)
(* reconnect pass through the queue of that handler thread, a resume does  *)
(* not: it goes to the native reactor directly. The session itself is the  *)
(* abstract one of NativeSession, which ClientConnect implements.          *)
(***************************************************************************)
EXTENDS Naturals, Sequences

CONSTANTS Nets,           \* networks the device may connect to
          None,           \* no network
          Events,         \* what happens: "network", "screen", "pause",
                          \* "resume" after a pause, "again" without one
          ScreenOffPause, \* preference screenoff
          NetChange,      \* preference netchangereconnect
          MaxEvents       \* bound on broadcasts and intents

ASSUME NetsAssumption == None \notin Nets
ASSUME EventsAssumption ==
    Events \subseteq {"network", "screen", "pause", "resume", "again"}
ASSUME PrefsAssumption == ScreenOffPause \in BOOLEAN /\ NetChange \in BOOLEAN
ASSUME MaxEventsAssumption == MaxEvents \in Nat

VARIABLES
    network, screen, userpause, \* connectState of each
    last,       \* lastConnectedNetwork
    delayed,    \* posted mDelayDisconnectRunnables
    poll,       \* the one pollStatus of the session: due, counting (little
                \* traffic found behind a dark screen) or done
    handlers,   \* queue of the OpenVPN3Thread handler
    reactor,    \* handlers posted to the native reactor
    paused, up, due, restart, \* the session, as in NativeSession
    lit,        \* the screen of the device is on
    overtaken,  \* the last resume went past a pause still in handlers
    misled,     \* the last call is the pause of a resume without a pause
    revived,    \* a restart, or a start already due, brought a session
                \* up that was paused
    events      \* broadcasts and intents so far

device == <<network, screen, userpause, last>>
client == <<paused, up, due, restart>>
vars   == <<device, delayed, poll, handlers, reactor, client, lit,
          overtaken, misled, revived, events>>

(* The life of one session, before it is stopped.                          *)
Native == INSTANCE NativeSession WITH halted <- FALSE

ConnectState == {"should", "pending", "disconnected"}
Posted == {"pause", "reconnect"}
Calls == Posted \cup {"resume"}

TypeOK ==
    /\ network \in ConnectState /\ screen \in ConnectState
    /\ userpause \in {"should", "disconnected"}
    /\ last \in Nets \cup {None}
    /\ delayed \in 0 .. MaxEvents
    /\ poll \in {"due", "counting", "done"}
    /\ handlers \in Seq(Posted) /\ reactor \in Seq(Calls)
    /\ Native!NativeTypeOK
    /\ lit \in BOOLEAN
    /\ overtaken \in BOOLEAN /\ misled \in BOOLEAN /\ revived \in BOOLEAN
    /\ events \in 0 .. MaxEvents

ShouldBeConnected ==
    network = "should" /\ screen = "should" /\ userpause = "should"

-----------------------------------------------------------------------------
(* The calls of mManagement; the reason given for a pause is left out.     *)
PostPause == handlers' = Append(handlers, "pause") /\ UNCHANGED reactor

Pause == PostPause /\ UNCHANGED <<overtaken, misled>>

NetworkChange ==
    /\ handlers' = Append(handlers, "reconnect")
    /\ overtaken' = FALSE /\ misled' = FALSE
    /\ UNCHANGED reactor

Resume ==
    /\ reactor' = Append(reactor, "resume")
    /\ overtaken' = \E i \in DOMAIN handlers : handlers[i] = "pause"
    /\ misled' = FALSE
    /\ UNCHANGED handlers

NoCall == UNCHANGED <<handlers, reactor, overtaken, misled>>

Event(kind) ==
    /\ kind \in Events /\ events < MaxEvents
    /\ events' = events + 1
    /\ UNCHANGED <<poll, client, revived>>

-----------------------------------------------------------------------------
Init ==
    /\ network = "disconnected" /\ screen = "should" /\ userpause = "should"
    /\ last = None /\ delayed = 0 /\ poll = "due"
    /\ handlers = << >> /\ reactor = << >>
    /\ Native!NativeInit
    /\ lit = TRUE /\ overtaken = FALSE /\ misled = FALSE /\ revived = FALSE
    /\ events = 0

(* networkStateChange() without an active network.                         *)
NetworkLost ==
    /\ Event("network")
    /\ IF NetChange
       THEN network' = "pending" /\ delayed' = delayed + 1
       ELSE UNCHANGED <<network, delayed>>
    /\ NoCall /\ UNCHANGED <<screen, userpause, last, lit>>

(* networkStateChange() with network n connected.                          *)
NetworkConnected(n) ==
    LET pendingDisconnect == network = "pending"
        sameNetwork == last = n
    IN
    /\ Event("network")
    /\ network' = "should"
    /\ UNCHANGED <<userpause, lit>>
    /\ \/ /\ pendingDisconnect /\ sameNetwork
          /\ delayed' = 0
          /\ NetworkChange
          /\ UNCHANGED <<screen, last>>
       \/ /\ ~(pendingDisconnect /\ sameNetwork)
          /\ screen' = IF screen = "pending" THEN "disconnected" ELSE screen
          /\ last' = n
          /\ \/ /\ ShouldBeConnected' /\ delayed' = 0
                /\ IF pendingDisconnect \/ ~sameNetwork
                   THEN NetworkChange ELSE Resume
             \/ ~ShouldBeConnected' /\ NoCall /\ UNCHANGED delayed

(* Mutant: the runnable does not test whether the network came back.       *)
DelayDisconnect_NoTest ==
    /\ delayed > 0
    /\ delayed' = delayed - 1
    /\ UNCHANGED <<userpause, last, poll, client, lit, revived,
                   events, network>>
    /\ screen' = IF screen = "pending" THEN "disconnected" ELSE screen
    /\ Pause

(* mDelayDisconnectRunnable                                                *)
DelayDisconnect ==
    /\ delayed > 0
    /\ delayed' = delayed - 1
    /\ UNCHANGED <<userpause, last, poll, client, lit, revived,
                   events>>
    /\ IF network = "pending"
       THEN /\ network' = "disconnected"
            /\ screen' = IF screen = "pending" THEN "disconnected" ELSE screen
            /\ Pause
       ELSE NoCall /\ UNCHANGED <<network, screen>>

(* ACTION_SCREEN_OFF                                                       *)
ScreenOff ==
    /\ Event("screen") /\ lit
    /\ lit' = FALSE
    /\ screen' = IF ~ScreenOffPause THEN screen
                 ELSE IF "disconnected" \in {network, userpause}
                      THEN "disconnected" ELSE "pending"
    /\ NoCall /\ UNCHANGED <<network, userpause, last, delayed>>

(* Mutant: no pause when the screen comes on during an outage.             *)
ScreenOn_OnlyResumes ==
    /\ Event("screen") /\ ~lit
    /\ lit' = TRUE
    /\ screen' = "should"
    /\ delayed' = 0
    /\ UNCHANGED <<network, userpause, last>>
    /\ IF ShouldBeConnected' # ShouldBeConnected THEN Resume ELSE NoCall

(* Mutant: the screen resumes the session without testing the reasons.     *)
ScreenOn_Resumes ==
    /\ Event("screen") /\ ~lit
    /\ lit' = TRUE
    /\ screen' = "should"
    /\ delayed' = 0
    /\ UNCHANGED <<network, userpause, last>>
    /\ Resume

(* ACTION_SCREEN_ON                                                        *)
ScreenOn ==
    /\ Event("screen") /\ ~lit
    /\ lit' = TRUE
    /\ screen' = "should"
    /\ delayed' = 0
    /\ UNCHANGED <<network, userpause, last>>
    /\ IF ShouldBeConnected' # ShouldBeConnected THEN Resume
       ELSE IF ~ShouldBeConnected' THEN Pause ELSE NoCall

(* userPause(true) and userPause(false)                                    *)
UserPause ==
    /\ Event("pause")
    /\ userpause' = "disconnected"
    /\ UNCHANGED <<network, screen, last, delayed, lit>>
    /\ Pause

UserResume ==
    /\ Event(IF userpause = "disconnected" THEN "resume" ELSE "again")
    /\ userpause' = "should"
    /\ UNCHANGED <<network, screen, last, delayed, lit>>
    /\ IF ShouldBeConnected' /\ ~ShouldBeConnected THEN Resume
       ELSE /\ PostPause
            /\ misled' = ShouldBeConnected'
            /\ UNCHANGED overtaken

(* pollStatus(), posted once by run(): updateByteCount() on the handler    *)
(* thread reads screen and, if there was little traffic, writes it later.  *)
PollStatus ==
    /\ poll = "due"
    /\ \/ screen = "pending" /\ poll' = "counting"
       \/ poll' = "done"
    /\ NoCall
    /\ UNCHANGED <<device, delayed, client, lit, revived, events>>

LittleTraffic ==
    /\ poll = "counting"
    /\ poll' = "done"
    /\ screen' = "disconnected"
    /\ UNCHANGED <<network, userpause, last, delayed, client, lit, revived,
                   events>>
    /\ Pause

(* The handler thread passes a pause or a reconnect to the native client.  *)
RunHandler ==
    /\ poll # "counting" /\ handlers # << >>
    /\ handlers' = Tail(handlers)
    /\ reactor' = Append(reactor, Head(handlers))
    /\ UNCHANGED <<device, delayed, poll, client, lit, overtaken, misled,
                   revived, events>>

(* The reactor runs pause(), resume() or reconnect().                      *)
Receiver == UNCHANGED <<device, delayed, poll, handlers, lit, overtaken,
                        misled, events>>

RunReactor ==
    /\ reactor # << >>
    /\ reactor' = Tail(reactor)
    /\ Receiver
    /\ \/ /\ Head(reactor) = "pause" /\ ~paused
          /\ Native!PauseSession
          /\ revived' = FALSE
       \/ /\ Head(reactor) = "resume" /\ paused
          /\ Native!ResumeSession
          /\ revived' = FALSE
       \/ /\ \/ Head(reactor) = "pause" /\ paused
             \/ Head(reactor) = "resume" /\ ~paused
          /\ UNCHANGED <<client, revived>>
       \/ Head(reactor) = "reconnect" /\ Native!Reconnect /\ UNCHANGED revived

(* What the session does of its own accord.                                *)
RestartFires ==
    /\ Native!RestartSession
    /\ revived' = (revived \/ (paused /\ ~ShouldBeConnected))
    /\ UNCHANGED reactor /\ Receiver

NextServer ==
    /\ Native!NextServer
    /\ revived' = (revived \/ paused)
    /\ UNCHANGED reactor /\ Receiver

SessionChanges ==
    /\ Native!ServerAnswers \/ Native!ConnectionLost
    /\ UNCHANGED <<reactor, revived>> /\ Receiver

Next ==
    \/ NetworkLost \/ (\E n \in Nets : NetworkConnected(n))
    \/ DelayDisconnect
    \/ ScreenOff \/ ScreenOn \/ UserPause \/ UserResume
    \/ PollStatus \/ LittleTraffic
    \/ RunHandler \/ RunReactor
    \/ RestartFires \/ NextServer \/ SessionChanges

Spec == Init /\ [][Next]_vars

(* The threads and the reactor run what is queued, the delays elapse.      *)
Fairness ==
    /\ WF_vars(DelayDisconnect)
    /\ WF_vars(PollStatus) /\ WF_vars(LittleTraffic)
    /\ WF_vars(RunHandler) /\ WF_vars(RunReactor)

FairSpec == Spec /\ Fairness

-----------------------------------------------------------------------------
Quiet == handlers = << >> /\ reactor = << >> /\ ~restart /\ poll # "counting"

Resting == paused /\ ~up

(* A session that should be connected runs, or is about to, however the    *)
(* calls pass through the two queues.  It may rest only until the next     *)
(* resume or network change, and only if the last resume went past a pause *)
(* still queued on the handler thread or the pause is the one a resume     *)
(* without a pause before it asks for.                                     *)
FollowsDevice ==
    Quiet /\ ShouldBeConnected /\ ~overtaken /\ ~misled
        => up \/ (due /\ ~paused)

(* A session the user paused rests, unless a restart or a start that was   *)
(* due before brought it up again.                                         *)
PauseHolds == Quiet /\ ~revived /\ userpause = "disconnected" => Resting

(* A lost network puts the session to rest unless it comes back, or what   *)
(* was due before brings the session up again.                             *)
LossPauses == network = "pending" ~> (Resting \/ network = "should" \/ revived)
=============================================================================
