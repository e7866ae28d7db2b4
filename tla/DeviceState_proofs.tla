-------------------------- MODULE DeviceState_proofs --------------------------
(***************************************************************************)
(* What holds of DeviceState for any networks, preferences and number of   *)
(* events.                                                                 *)
(***************************************************************************)
EXTENDS DeviceState, SequenceTheorems, TLAPS

LEMMA InitTypeOK == Init => TypeOK
<1> SUFFICES ASSUME Init PROVE TypeOK
  OBVIOUS
<1>1. handlers \in Seq(Posted) /\ reactor \in Seq(Calls)
  BY DEF Init
<1>2. 0 \in 0 .. MaxEvents
  BY MaxEventsAssumption
<1>3. Native!NativeTypeOK
  BY DEF Init, Native!NativeInit, Native!NativeTypeOK
<1>q. QED
  BY <1>1, <1>2, <1>3 DEF Init, TypeOK, ConnectState

(* What the session does of its own accord, or when asked.                 *)
SessionSteps == RestartFires \/ NextServer \/ SessionChanges

LEMMA SessionTypes ==
    ASSUME Native!NativeTypeOK,
           \/ Native!PauseSession \/ Native!ResumeSession \/ Native!Reconnect
           \/ Native!RestartSession \/ Native!NextServer
           \/ Native!ServerAnswers \/ Native!ConnectionLost
    PROVE  Native!NativeTypeOK'
  BY DEF Native!NativeTypeOK, Native!PauseSession, Native!ResumeSession,
         Native!Reconnect, Native!RestartSession, Native!NextServer,
         Native!ServerAnswers, Native!ConnectionLost, Native!NewSession,
         Native!CancelDue, Native!CancelRestart

LEMMA ClientTypes ==
    ASSUME Native!NativeTypeOK, UNCHANGED client
    PROVE  Native!NativeTypeOK'
  BY DEF Native!NativeTypeOK, client

(* A posted runnable belongs to an event: the count cannot pass the bound. *)
CountInv == TypeOK /\ delayed <= events

LEMMA CallTypes ==
    ASSUME TypeOK, Pause \/ NetworkChange \/ Resume \/ NoCall
    PROVE  /\ handlers' \in Seq(Posted) /\ reactor' \in Seq(Calls)
           /\ overtaken' \in BOOLEAN /\ misled' \in BOOLEAN
<1>1. /\ handlers \in Seq(Posted) /\ reactor \in Seq(Calls)
      /\ overtaken \in BOOLEAN /\ misled \in BOOLEAN
  BY DEF TypeOK
<1>2. /\ Append(handlers, "pause") \in Seq(Posted)
      /\ Append(handlers, "reconnect") \in Seq(Posted)
      /\ Append(reactor, "resume") \in Seq(Calls)
  BY <1>1 DEF Calls, Posted
<1>q. QED
  BY <1>1, <1>2 DEF Pause, PostPause, NetworkChange, Resume, NoCall

LEMMA EventCounts ==
    ASSUME CountInv, NEW k, Event(k)
    PROVE  /\ events' \in 0 .. MaxEvents /\ events' = events + 1
           /\ events \in Nat /\ delayed \in Nat /\ delayed + 1 \in 0 .. MaxEvents
           /\ 0 \in 0 .. MaxEvents /\ delayed \in 0 .. MaxEvents
           /\ UNCHANGED <<poll, client, revived>>
  BY MaxEventsAssumption DEF CountInv, TypeOK, Event

LEMMA NextCountInv == CountInv /\ [Next]_vars => CountInv'
<1> SUFFICES ASSUME CountInv, [Next]_vars
             PROVE  CountInv'
  OBVIOUS
<1>0. TypeOK /\ Native!NativeTypeOK /\ delayed <= events
  BY DEF CountInv, TypeOK
<1>u. UNCHANGED client => Native!NativeTypeOK'
  BY <1>0, ClientTypes
<1> USE DEF CountInv, ConnectState
<1>1. CASE NetworkLost
  <2>1. Event("network") /\ NoCall
    BY <1>1 DEF NetworkLost
  <2>q. QED
    BY <1>1, <2>1, <1>0, <1>u, CallTypes, EventCounts DEF NetworkLost, TypeOK
<1>2. ASSUME NEW n \in Nets, NetworkConnected(n)
      PROVE  CountInv'
  <2>1. Event("network")
    BY <1>2 DEF NetworkConnected
  <2>2. Pause \/ NetworkChange \/ Resume \/ NoCall
    BY <1>2 DEF NetworkConnected
  <2>3. delayed' \in {0, delayed} /\ last' \in {last, n}
    BY <1>2 DEF NetworkConnected
  <2>4. network' = "should" /\ screen' \in ConnectState
        /\ UNCHANGED <<userpause, lit>>
    BY <1>2, <1>0 DEF NetworkConnected, TypeOK
  <2>q. QED
    BY <2>1, <2>2, <2>3, <2>4, <1>0, <1>u, CallTypes, EventCounts DEF TypeOK
<1>3. CASE DelayDisconnect
  <2>1. Pause \/ NoCall
    BY <1>3 DEF DelayDisconnect
  <2>2. delayed' \in 0 .. MaxEvents /\ delayed' <= events
    BY <1>3, <1>0, MaxEventsAssumption DEF DelayDisconnect, TypeOK
  <2>q. QED
    BY <1>3, <2>1, <2>2, <1>0, <1>u, CallTypes DEF DelayDisconnect, TypeOK
<1>4. CASE ScreenOff
  <2>1. Event("screen") /\ NoCall
    BY <1>4 DEF ScreenOff
  <2>2. screen' \in ConnectState
    BY <1>4, <1>0 DEF ScreenOff, TypeOK
  <2>3. lit' \in BOOLEAN
    BY <1>4 DEF ScreenOff
  <2>q. QED
    BY <1>4, <2>1, <2>2, <2>3, <1>0, <1>u, CallTypes, EventCounts
       DEF ScreenOff, TypeOK
<1>5. CASE ScreenOn
  <2>1. Event("screen") /\ (Pause \/ Resume \/ NoCall)
    BY <1>5 DEF ScreenOn
  <2>2. lit' \in BOOLEAN
    BY <1>5 DEF ScreenOn
  <2>q. QED
    BY <1>5, <2>1, <2>2, <1>0, <1>u, CallTypes, EventCounts DEF ScreenOn, TypeOK
<1>6. CASE UserPause
  <2>1. Event("pause") /\ Pause
    BY <1>6 DEF UserPause
  <2>q. QED
    BY <1>6, <2>1, <1>0, <1>u, CallTypes, EventCounts DEF UserPause, TypeOK
<1>7. CASE UserResume
  <2>1. \E k \in {"resume", "again"} : Event(k)
    BY <1>7 DEF UserResume
  <2>2. /\ handlers' \in Seq(Posted) /\ reactor' \in Seq(Calls)
        /\ overtaken' \in BOOLEAN /\ misled' \in BOOLEAN
    <3>1. CASE Resume
      BY <3>1, <1>0, CallTypes
    <3>2. CASE PostPause /\ misled' = ShouldBeConnected' /\ UNCHANGED overtaken
      <4>1. handlers \in Seq(Posted) /\ "pause" \in Posted
        BY <1>0 DEF TypeOK, Posted
      <4>2. Append(handlers, "pause") \in Seq(Posted)
        BY <4>1
      <4>3. misled' \in BOOLEAN
        BY <3>2 DEF ShouldBeConnected
      <4>q. QED
        BY <3>2, <4>2, <4>3, <1>0 DEF PostPause, TypeOK
    <3>q. QED
      BY <1>7, <3>1, <3>2 DEF UserResume
  <2>q. QED
    BY <1>7, <2>1, <2>2, <1>0, <1>u, EventCounts DEF UserResume, TypeOK
<1>8. CASE PollStatus
  <2>1. NoCall /\ poll' \in {"counting", "done"}
    BY <1>8 DEF PollStatus
  <2>q. QED
    BY <1>8, <2>1, <1>0, <1>u, CallTypes DEF PollStatus, TypeOK, device
<1>9. CASE LittleTraffic
  <2>1. Pause /\ poll' \in {"counting", "done"}
    BY <1>9 DEF LittleTraffic
  <2>q. QED
    BY <1>9, <2>1, <1>0, <1>u, CallTypes DEF LittleTraffic, TypeOK
<1>10. CASE RunHandler
  <2>1. handlers \in Seq(Posted) /\ reactor \in Seq(Calls)
    BY <1>0 DEF TypeOK
  <2>2. Tail(handlers) \in Seq(Posted) /\ Head(handlers) \in Posted
    BY <1>10, <2>1, HeadTailProperties DEF RunHandler
  <2>3. Append(reactor, Head(handlers)) \in Seq(Calls)
    BY <2>1, <2>2 DEF Calls
  <2>q. QED
    BY <1>10, <2>2, <2>3, <1>0, <1>u DEF RunHandler, TypeOK, device
<1>11. CASE SessionSteps
  <2>1. Native!NativeTypeOK' /\ revived' \in BOOLEAN
    BY <1>11, <1>0, SessionTypes
       DEF SessionSteps, RestartFires, NextServer, SessionChanges, TypeOK
  <2>2. reactor' = reactor /\ Receiver
    BY <1>11 DEF SessionSteps, RestartFires, NextServer, SessionChanges
  <2>q. QED
    BY <2>1, <2>2, <1>0 DEF Receiver, TypeOK, device
<1>12. CASE RunReactor
  <2>1. Tail(reactor) \in Seq(Calls)
    BY <1>12, <1>0, HeadTailProperties DEF RunReactor, TypeOK
  <2>2. Native!NativeTypeOK' /\ revived' \in BOOLEAN
    BY <1>12, <1>0, <1>u, SessionTypes DEF RunReactor, TypeOK
  <2>3. reactor' = Tail(reactor) /\ Receiver
    BY <1>12 DEF RunReactor
  <2>q. QED
    BY <2>1, <2>2, <2>3, <1>0 DEF Receiver, TypeOK, device
<1>13. CASE UNCHANGED vars
  BY <1>13, <1>0, <1>u DEF vars, TypeOK, device
<1>q. QED
  BY <1>1, <1>2, <1>3, <1>4, <1>5, <1>6, <1>7, <1>8, <1>9, <1>10, <1>11,
     <1>12, <1>13 DEF Next, SessionSteps

LEMMA CountInvariant == Spec => []CountInv
<1>1. Init => CountInv
  <2> SUFFICES ASSUME Init PROVE CountInv
    OBVIOUS
  <2>1. delayed <= events
    BY DEF Init
  <2>q. QED
    BY <2>1, InitTypeOK DEF CountInv
<1>q. QED
  BY <1>1, NextCountInv, PTL DEF Spec

(* Every field, timer and queue of the receiver and of the session keeps   *)
(* its type, and no more runnables are posted than there were outages.     *)
THEOREM TypeCorrect == Spec => []TypeOK
<1>1. CountInv => TypeOK
  BY DEF CountInv
<1>q. QED
  BY <1>1, CountInvariant, PTL

-----------------------------------------------------------------------------
(* What a step does to the two queues.                                     *)

LEMMA AppendLast ==
    ASSUME NEW S, NEW q \in Seq(S), NEW x \in S
    PROVE  /\ Append(q, x) # << >> /\ Append(q, x)[Len(Append(q, x))] = x
           /\ Len(Append(q, x)) = Len(q) + 1
  OBVIOUS

LEMMA TailLast ==
    ASSUME NEW S, NEW q \in Seq(S), q # << >>
    PROVE  /\ Tail(q) \in Seq(S) /\ Head(q) \in S /\ Len(Tail(q)) < Len(q)
           /\ Tail(q) = << >> => Head(q) = q[Len(q)]
           /\ Tail(q) # << >> => Tail(q)[Len(Tail(q))] = q[Len(q)]
<1>1. /\ Tail(q) \in Seq(S) /\ Head(q) \in S /\ Len(Tail(q)) = Len(q) - 1
      /\ Len(q) \in Nat \ {0} /\ Head(q) = q[1]
      /\ \A i \in 1 .. Len(Tail(q)) : Tail(q)[i] = q[i + 1]
  BY HeadTailProperties
<1>2. Tail(q) = << >> => Len(q) = 1
  <2>1. Tail(q) = << >> => Len(Tail(q)) = 0
    BY <1>1, EmptySeq
  <2>q. QED
    BY <1>1, <2>1
<1>3. Tail(q) # << >> => Len(Tail(q)) \in 1 .. Len(Tail(q))
  BY <1>1
<1>q. QED
  BY <1>1, <1>2, <1>3

-----------------------------------------------------------------------------
(* The last call in the pipeline of the two queues decides: while the      *)
(* session should be connected, it is not a pause.                         *)

LastCallInv ==
    ShouldBeConnected /\ ~overtaken /\ ~misled =>
        /\ handlers # << >> => handlers[Len(handlers)] # "pause"
        /\ handlers = << >> /\ reactor # << >> =>
              reactor[Len(reactor)] # "pause"
        /\ handlers = << >> /\ reactor = << >> => (Resting => restart)

(* A session that is not paused has something that brings it up.           *)
AwakeInv == ~paused => up \/ due \/ restart

LEMMA NextAwakeInv ==
    ASSUME AwakeInv, [Next]_vars
    PROVE  AwakeInv'
<1>1. UNCHANGED client => AwakeInv'
  BY DEF AwakeInv, client
<1>2. CASE SessionSteps
  BY <1>2 DEF SessionSteps, RestartFires, NextServer, SessionChanges,
     AwakeInv, Native!RestartSession, Native!NextServer,
     Native!ServerAnswers, Native!ConnectionLost, Native!NewSession
<1>3. CASE RunReactor
  BY <1>1, <1>3 DEF RunReactor, AwakeInv, Native!PauseSession,
     Native!ResumeSession, Native!Reconnect, Native!NewSession
<1>4. CASE ~SessionSteps /\ ~RunReactor
  <2>1. UNCHANGED client
    BY <1>4 DEF Next, SessionSteps, vars, Event, NetworkLost,
       NetworkConnected, DelayDisconnect, ScreenOff, ScreenOn, UserPause,
       UserResume, PollStatus, LittleTraffic, RunHandler
  <2>q. QED
    BY <1>1, <2>1
<1>q. QED
  BY <1>2, <1>3, <1>4

(* A step that makes the session one that should be connected also asks    *)
(* for it, and none but a resume without a pause asks it to pause.         *)
LEMMA CallsStep ==
    ASSUME [Next]_vars, ShouldBeConnected', ~misled'
    PROVE  \/ NetworkChange /\ UNCHANGED client
           \/ Resume /\ UNCHANGED client
           \/ ShouldBeConnected /\ NoCall /\ UNCHANGED client
           \/ ShouldBeConnected /\ (RunHandler \/ RunReactor \/ SessionSteps)
<1> USE DEF ShouldBeConnected
<1>1. CASE NetworkLost
  BY <1>1 DEF NetworkLost, Event
<1>2. ASSUME NEW n \in Nets, NetworkConnected(n)
      PROVE  NetworkChange \/ Resume
  BY <1>2 DEF NetworkConnected
<1>3. CASE DelayDisconnect
  BY <1>3 DEF DelayDisconnect
<1>4. CASE ScreenOff
  BY <1>4 DEF ScreenOff, Event
<1>5. CASE ScreenOn
  BY <1>5 DEF ScreenOn, Event
<1>6. CASE UserPause
  BY <1>6 DEF UserPause
<1>7. CASE UserResume
  BY <1>7 DEF UserResume, Event, ShouldBeConnected
<1>8. CASE PollStatus
  BY <1>8 DEF PollStatus, device
<1>9. CASE LittleTraffic
  BY <1>9 DEF LittleTraffic
<1>10. CASE RunHandler \/ RunReactor \/ SessionSteps
  BY <1>10 DEF RunHandler, RunReactor, SessionSteps, RestartFires,
     NextServer, SessionChanges, Receiver, device
<1>11. CASE UNCHANGED vars
  BY <1>11 DEF vars, device, NoCall
<1>12. ASSUME NEW n \in Nets, NetworkConnected(n)
       PROVE  UNCHANGED client
  BY <1>12 DEF NetworkConnected, Event
<1>q. QED
  BY <1>1, <1>2, <1>3, <1>4, <1>5, <1>6, <1>7, <1>8, <1>9, <1>10, <1>11,
     <1>12 DEF Next, SessionSteps

LEMMA NextLastCallInv ==
    ASSUME TypeOK, LastCallInv, [Next]_vars
    PROVE  LastCallInv'
<1> SUFFICES ASSUME ~overtaken', ~misled', ShouldBeConnected'
             PROVE  /\ handlers' # << >> => handlers'[Len(handlers')] # "pause"
                    /\ handlers' = << >> /\ reactor' # << >> =>
                          reactor'[Len(reactor')] # "pause"
                    /\ handlers' = << >> /\ reactor' = << >> =>
                          (Resting' => restart')
  BY DEF LastCallInv
<1>0. handlers \in Seq(Posted) /\ reactor \in Seq(Calls)
  BY DEF TypeOK
<1>1. CASE NetworkChange
  BY <1>0, <1>1, AppendLast DEF NetworkChange, Calls, Posted
<1>2. CASE Resume
  <2>1. ~\E i \in DOMAIN handlers : handlers[i] = "pause"
    BY <1>2 DEF Resume
  <2>2. handlers # << >> => Len(handlers) \in DOMAIN handlers
    BY <1>0
  <2>3. reactor' # << >> /\ reactor'[Len(reactor')] = "resume"
    BY <1>0, <1>2, AppendLast DEF Resume, Calls, Posted
  <2>q. QED
    BY <1>2, <2>1, <2>2, <2>3 DEF Resume
<1>3. CASE ShouldBeConnected /\ NoCall /\ UNCHANGED client
  BY <1>3 DEF NoCall, LastCallInv, Resting, client
<1>4. CASE ShouldBeConnected /\ RunHandler
  <2> DEFINE h == Head(handlers)
  <2>1. /\ ~overtaken /\ ~misled
        /\ handlers # << >> /\ handlers' = Tail(handlers)
        /\ reactor' = Append(reactor, h)
    BY <1>4 DEF RunHandler
  <2>2. handlers[Len(handlers)] # "pause"
    BY <1>4, <2>1 DEF LastCallInv
  <2>3. h \in Calls
    BY <1>0, <2>1, TailLast DEF Calls
  <2>4. reactor' # << >> /\ reactor'[Len(reactor')] = h
    BY <1>0, <2>1, <2>3, AppendLast
  <2>q. QED
    BY <1>0, <2>1, <2>2, <2>4, TailLast
<1>5. CASE ShouldBeConnected /\ SessionSteps
  <2>1. UNCHANGED <<handlers, reactor>> /\ ~overtaken /\ ~misled
    BY <1>5 DEF SessionSteps, RestartFires, NextServer, SessionChanges,
       Receiver
  <2>2. (Resting => restart) => (Resting' => restart')
    BY <1>5 DEF SessionSteps, RestartFires, NextServer, SessionChanges,
       Resting, Native!RestartSession, Native!NextServer,
       Native!ServerAnswers, Native!ConnectionLost, Native!NewSession
  <2>q. QED
    BY <1>5, <2>1, <2>2 DEF LastCallInv
<1>6. CASE ShouldBeConnected /\ RunReactor
  <2>1. /\ ~overtaken /\ ~misled
        /\ reactor # << >> /\ reactor' = Tail(reactor)
        /\ handlers' = handlers
    BY <1>6 DEF RunReactor, Receiver
  <2>2. ASSUME handlers = << >>
        PROVE  reactor[Len(reactor)] # "pause"
    BY <1>6, <2>1, <2>2 DEF LastCallInv
  <2>3. ASSUME handlers = << >>, reactor' = << >>
        PROVE  Resting' => restart'
    <3>1. Head(reactor) \in Calls /\ Head(reactor) # "pause"
      BY <1>0, <2>1, <2>2, <2>3, TailLast
    <3>2. CASE Head(reactor) = "reconnect"
      BY <1>6, <3>2 DEF RunReactor, Native!Reconnect
    <3>3. CASE Head(reactor) = "resume"
      BY <1>6, <3>3 DEF RunReactor, Resting, client, Native!ResumeSession
    <3>q. QED
      BY <3>1, <3>2, <3>3 DEF Calls, Posted
  <2>4. handlers # << >> => handlers[Len(handlers)] # "pause"
    BY <1>6, <2>1 DEF LastCallInv
  <2>5. handlers = << >> /\ reactor' # << >> =>
          reactor'[Len(reactor')] # "pause"
    BY <1>0, <2>1, <2>2, TailLast
  <2>q. QED
    BY <2>1, <2>3, <2>4, <2>5
<1>q. QED
  BY <1>1, <1>2, <1>3, <1>4, <1>5, <1>6, CallsStep

(* Whatever is resumed and paused, once the queues are empty a session that*)
(* should be connected is up or about to be, unless the last resume went   *)
(* past a queued pause or a resume without a pause has paused it.          *)
THEOREM SessionFollowsDevice == Spec => []FollowsDevice
<1>1. Init => LastCallInv /\ AwakeInv
  BY DEF Init, LastCallInv, AwakeInv, Resting, Native!NativeInit
<1>2. TypeOK /\ LastCallInv /\ [Next]_vars => LastCallInv'
  BY NextLastCallInv
<1>3. AwakeInv /\ [Next]_vars => AwakeInv'
  BY NextAwakeInv
<1>4. LastCallInv /\ AwakeInv => FollowsDevice
  BY DEF LastCallInv, AwakeInv, FollowsDevice, Quiet, Resting
<1>q. QED
  BY <1>1, <1>2, <1>3, <1>4, TypeCorrect, PTL DEF Spec

-----------------------------------------------------------------------------
(* While the user has paused, the last word is a pause: it is on its way   *)
(* through the queues with no resume behind it, or it has been carried out *)
(* and at most a restart has undone it.                                    *)

PauseQueued == \E i \in DOMAIN handlers : handlers[i] = "pause"

PausePosted ==
    \E i \in 1 .. Len(reactor) :
        /\ reactor[i] = "pause"
        /\ \A j \in i + 1 .. Len(reactor) : reactor[j] # "resume"

NoResume == \A i \in 1 .. Len(reactor) : reactor[i] # "resume"

LastWordInv ==
    userpause = "disconnected" =>
        PauseQueued \/ PausePosted \/ (NoResume /\ (Resting \/ revived))

(* Only what was revived is up while it is paused.                         *)
RevivedInv == paused /\ up => revived

LEMMA NextRevivedInv ==
    ASSUME RevivedInv, [Next]_vars
    PROVE  RevivedInv'
<1>1. UNCHANGED <<client, revived>> => RevivedInv'
  BY DEF RevivedInv, client
<1>2. CASE SessionSteps
  BY <1>2 DEF SessionSteps, RestartFires, NextServer, SessionChanges,
     RevivedInv, Native!RestartSession, Native!NextServer,
     Native!ServerAnswers, Native!ConnectionLost, Native!NewSession
<1>3. CASE RunReactor
  <2>1. CASE Native!PauseSession
    BY <2>1 DEF RevivedInv, Native!PauseSession
  <2>2. CASE Native!ResumeSession
    BY <2>2 DEF RevivedInv, Native!ResumeSession
  <2>3. CASE UNCHANGED <<paused, up, revived>>
    BY <2>3 DEF RevivedInv
  <2>q. QED
    BY <1>3, <2>1, <2>2, <2>3 DEF RunReactor, Native!Reconnect, client
<1>4. CASE ~SessionSteps /\ ~RunReactor
  <2>1. UNCHANGED <<client, revived>>
    BY <1>4 DEF Next, SessionSteps, vars, Event, NetworkLost,
       NetworkConnected, DelayDisconnect, ScreenOff, ScreenOn, UserPause,
       UserResume, PollStatus, LittleTraffic, RunHandler
  <2>q. QED
    BY <1>1, <2>1
<1>q. QED
  BY <1>2, <1>3, <1>4

(* While the user's pause stands, the receiver resumes nothing.            *)
LEMMA PausedStep ==
    ASSUME [Next]_vars, userpause' = "disconnected"
    PROVE  \/ UserPause
           \/ /\ userpause = "disconnected"
              /\ UNCHANGED <<reactor, client, revived>>
              /\ \/ handlers' = handlers
                 \/ handlers' = Append(handlers, "pause")
                 \/ handlers' = Append(handlers, "reconnect")
           \/ /\ userpause = "disconnected"
              /\ RunHandler \/ RunReactor \/ SessionSteps
<1> USE DEF Pause, PostPause, NetworkChange, NoCall, Event
<1>1. CASE NetworkLost
  BY <1>1 DEF NetworkLost
<1>2. ASSUME NEW n \in Nets, NetworkConnected(n)
      PROVE  /\ userpause = "disconnected"
             /\ UNCHANGED <<reactor, client, revived>>
             /\ \/ handlers' = handlers
                \/ handlers' = Append(handlers, "reconnect")
  <2>1. userpause = "disconnected" /\ ~ShouldBeConnected'
    BY <1>2 DEF NetworkConnected, ShouldBeConnected
  <2>2. UNCHANGED <<client, revived>>
    BY <1>2 DEF NetworkConnected
  <2>q. QED
    BY <1>2, <2>1, <2>2 DEF NetworkConnected
<1>3. CASE DelayDisconnect
  BY <1>3 DEF DelayDisconnect
<1>4. CASE ScreenOff
  BY <1>4 DEF ScreenOff
<1>5. CASE ScreenOn
  <2>1. userpause = "disconnected" /\ ~ShouldBeConnected'
        /\ ShouldBeConnected' = ShouldBeConnected
    BY <1>5 DEF ScreenOn, ShouldBeConnected
  <2>2. Pause \/ NoCall
    BY <1>5, <2>1 DEF ScreenOn
  <2>q. QED
    BY <1>5, <2>1, <2>2 DEF ScreenOn
<1>7. CASE UserResume
  BY <1>7 DEF UserResume
<1>8. CASE PollStatus
  BY <1>8 DEF PollStatus, device
<1>9. CASE LittleTraffic
  BY <1>9 DEF LittleTraffic
<1>10. CASE RunHandler \/ RunReactor \/ SessionSteps
  BY <1>10 DEF RunHandler, RunReactor, SessionSteps, RestartFires,
     NextServer, SessionChanges, Receiver, device
<1>11. CASE UNCHANGED vars
  BY <1>11 DEF vars, device
<1>q. QED
  BY <1>1, <1>2, <1>3, <1>4, <1>5, <1>7, <1>8, <1>9, <1>10, <1>11
  DEF Next, SessionSteps

LEMMA AppendIndex ==
    ASSUME NEW S, NEW q \in Seq(S), NEW x \in S
    PROVE  /\ Append(q, x) \in Seq(S) /\ Len(Append(q, x)) = Len(q) + 1
           /\ \A i \in 1 .. Len(q) : Append(q, x)[i] = q[i]
           /\ Append(q, x)[Len(q) + 1] = x /\ Len(q) \in Nat
           /\ DOMAIN q = 1 .. Len(q)
           /\ DOMAIN Append(q, x) = 1 .. Len(q) + 1
  OBVIOUS

LEMMA TailIndex ==
    ASSUME NEW S, NEW q \in Seq(S), q # << >>
    PROVE  /\ Tail(q) \in Seq(S) /\ Head(q) \in S /\ Head(q) = q[1]
           /\ Len(q) \in Nat \ {0} /\ Len(Tail(q)) = Len(q) - 1
           /\ \A i \in 1 .. Len(q) - 1 : Tail(q)[i] = q[i + 1]
           /\ DOMAIN q = 1 .. Len(q) /\ DOMAIN Tail(q) = 1 .. Len(q) - 1
  BY HeadTailProperties

LEMMA NextLastWordInv ==
    ASSUME TypeOK, LastWordInv, RevivedInv, [Next]_vars
    PROVE  LastWordInv'
<1> SUFFICES ASSUME userpause' = "disconnected"
             PROVE  PauseQueued' \/ PausePosted'
                    \/ (NoResume /\ (Resting \/ revived))'
  BY DEF LastWordInv
<1>0. handlers \in Seq(Posted) /\ reactor \in Seq(Calls)
  BY DEF TypeOK
<1>1. ASSUME handlers' = Append(handlers, "pause")
      PROVE  PauseQueued'
  BY <1>0, <1>1, AppendIndex DEF PauseQueued, Calls, Posted
<1>2. CASE UserPause
  BY <1>1, <1>2 DEF UserPause, Pause, PostPause
<1>3. ASSUME userpause = "disconnected", UNCHANGED <<reactor, client, revived>>,
             handlers' = handlers \/ handlers' = Append(handlers, "reconnect")
      PROVE  PauseQueued' \/ PausePosted'
             \/ (NoResume /\ (Resting \/ revived))'
  <2>1. PauseQueued => PauseQueued'
    BY <1>0, <1>3, AppendIndex DEF PauseQueued, Calls, Posted
  <2>2. PausePosted => PausePosted'
    BY <1>3 DEF PausePosted
  <2>3. NoResume => NoResume'
    BY <1>3 DEF NoResume
  <2>q. QED
    BY <1>3, <2>1, <2>2, <2>3 DEF LastWordInv, Resting, client
<1>4. ASSUME userpause = "disconnected", RunHandler
      PROVE  PauseQueued' \/ PausePosted'
             \/ (NoResume /\ (Resting \/ revived))'
  <2> DEFINE h == Head(handlers)
  <2>1. /\ handlers # << >> /\ handlers' = Tail(handlers)
        /\ reactor' = Append(reactor, h) /\ UNCHANGED <<client, revived>>
        /\ Resting' = Resting
    BY <1>4 DEF RunHandler, Resting, client
  <2>2. h \in Posted /\ h \in Calls /\ h = handlers[1]
    BY <1>0, <2>1, TailIndex DEF Calls
  <2>3. CASE h = "pause"
    <3>1. /\ Len(reactor') \in 1 .. Len(reactor')
          /\ reactor'[Len(reactor')] = "pause"
          /\ Len(reactor') \in Nat
      BY <1>0, <2>1, <2>2, <2>3, AppendIndex
    <3>q. QED
      BY <3>1 DEF PausePosted
  <2>4. CASE h # "pause" /\ PauseQueued
    <3>1. PICK i \in DOMAIN handlers : handlers[i] = "pause"
      BY <2>4 DEF PauseQueued
    <3>2. i \in 2 .. Len(handlers) /\ Len(handlers) \in Nat
      BY <1>0, <2>1, <2>2, <2>4, <3>1, TailIndex
    <3>3. i - 1 \in 1 .. Len(handlers) - 1 /\ (i - 1) + 1 = i
      BY <3>2
    <3>4. i - 1 \in DOMAIN handlers' /\ handlers'[i - 1] = "pause"
      BY <1>0, <2>1, <3>1, <3>3, TailIndex
    <3>q. QED
      BY <3>4 DEF PauseQueued
  <2>6. CASE h = "reconnect" /\ ~PauseQueued
    <3>1. PausePosted => PausePosted'
      <4> SUFFICES ASSUME PausePosted PROVE PausePosted'
        OBVIOUS
      <4>1. PICK i \in 1 .. Len(reactor) :
                   /\ reactor[i] = "pause"
                   /\ \A j \in i + 1 .. Len(reactor) : reactor[j] # "resume"
        BY DEF PausePosted
      <4>2. /\ Len(reactor) \in Nat /\ Len(reactor') = Len(reactor) + 1
            /\ \A k \in 1 .. Len(reactor) : reactor'[k] = reactor[k]
            /\ reactor'[Len(reactor) + 1] = h
        BY <1>0, <2>1, <2>2, AppendIndex
      <4>3. i \in 1 .. Len(reactor') /\ reactor'[i] = "pause"
        BY <4>1, <4>2
      <4>4. \A j \in i + 1 .. Len(reactor') : reactor'[j] # "resume"
        BY <2>6, <4>1, <4>2
      <4>q. QED
        BY <4>3, <4>4 DEF PausePosted
    <3>2. NoResume => NoResume'
      BY <1>0, <2>1, <2>2, <2>6, AppendIndex DEF NoResume
    <3>q. QED
      BY <1>4, <2>1, <2>6, <3>1, <3>2 DEF LastWordInv
  <2>q. QED
    BY <2>2, <2>3, <2>4, <2>6 DEF Posted
<1>5. ASSUME userpause = "disconnected", SessionSteps
      PROVE  PauseQueued' \/ PausePosted'
             \/ (NoResume /\ (Resting \/ revived))'
  <2>1. UNCHANGED <<handlers, reactor>>
    BY <1>5 DEF SessionSteps, RestartFires, NextServer, SessionChanges,
       Receiver
  <2>2. Resting \/ revived => (Resting \/ revived)'
    BY <1>5 DEF SessionSteps, RestartFires, NextServer, SessionChanges,
       Resting, ShouldBeConnected, Native!ServerAnswers,
       Native!ConnectionLost
  <2>q. QED
    BY <1>5, <2>1, <2>2 DEF LastWordInv, PauseQueued, PausePosted, NoResume
<1>6. ASSUME userpause = "disconnected", RunReactor
      PROVE  PauseQueued' \/ PausePosted'
             \/ (NoResume /\ (Resting \/ revived))'
  <2> DEFINE op == Head(reactor)
  <2>1. /\ reactor # << >> /\ reactor' = Tail(reactor)
        /\ handlers' = handlers
    BY <1>6 DEF RunReactor, Receiver
  <2>2. op \in Calls /\ op = reactor[1]
    BY <1>0, <2>1, TailIndex
  <2>a. op = "pause" => (Resting \/ revived)'
    BY <1>6 DEF RunReactor, RevivedInv, Resting, client, Native!PauseSession
  <2>b. op = "reconnect" /\ (Resting \/ revived) => (Resting \/ revived)'
    BY <1>6 DEF RunReactor, Resting, Native!Reconnect
  <2>3. CASE PauseQueued
    BY <2>1, <2>3 DEF PauseQueued
  <2>4. CASE PausePosted
    <3>1. PICK i \in 1 .. Len(reactor) :
                 /\ reactor[i] = "pause"
                 /\ \A j \in i + 1 .. Len(reactor) : reactor[j] # "resume"
      BY <2>4 DEF PausePosted
    <3>2. /\ Len(reactor) \in Nat \ {0} /\ Len(reactor') = Len(reactor) - 1
          /\ \A k \in 1 .. Len(reactor) - 1 : reactor'[k] = reactor[k + 1]
      BY <1>0, <2>1, TailIndex
    <3>3. CASE i = 1
      <4>1. \A k \in 1 .. Len(reactor') : reactor'[k] # "resume"
        BY <3>1, <3>2, <3>3
      <4>2. op = "pause"
        BY <2>2, <3>1, <3>3
      <4>q. QED
        BY <2>a, <4>1, <4>2 DEF NoResume
    <3>4. CASE i # 1
      <4>1. i - 1 \in 1 .. Len(reactor') /\ reactor'[i - 1] = "pause"
        BY <3>1, <3>2, <3>4
      <4>2. \A j \in (i - 1) + 1 .. Len(reactor') : reactor'[j] # "resume"
        BY <3>1, <3>2, <3>4
      <4>q. QED
        BY <4>1, <4>2 DEF PausePosted
    <3>q. QED
      BY <3>3, <3>4
  <2>5. CASE NoResume /\ (Resting \/ revived)
    <3>1. op # "resume"
      BY <1>0, <2>1, <2>2, <2>5, TailIndex DEF NoResume
    <3>2. NoResume'
      BY <1>0, <2>1, <2>5, TailIndex DEF NoResume
    <3>q. QED
      BY <2>2, <2>5, <2>a, <2>b, <3>1, <3>2 DEF Calls, Posted
  <2>q. QED
    BY <1>6, <2>3, <2>4, <2>5 DEF LastWordInv
<1>q. QED
  BY <1>1, <1>2, <1>3, <1>4, <1>5, <1>6, PausedStep

(* Once the queues are empty, a session the user paused rests, unless a    *)
(* restart or a start already due brought it up: whatever networks,        *)
(* screens and resumes do.                                                 *)
THEOREM UserPausesHold == Spec => []PauseHolds
<1>1. Init => LastWordInv /\ RevivedInv
  BY DEF Init, LastWordInv, RevivedInv, Native!NativeInit
<1>2. TypeOK /\ LastWordInv /\ RevivedInv /\ [Next]_vars => LastWordInv'
  BY NextLastWordInv
<1>3. RevivedInv /\ [Next]_vars => RevivedInv'
  BY NextRevivedInv
<1>4. LastWordInv => PauseHolds
  <2> SUFFICES ASSUME LastWordInv, Quiet, ~revived, userpause = "disconnected"
               PROVE  Resting
    BY DEF PauseHolds
  <2>1. ~PauseQueued /\ ~PausePosted
    BY EmptySeq DEF Quiet, PauseQueued, PausePosted
  <2>q. QED
    BY <2>1 DEF LastWordInv
<1>q. QED
  BY <1>1, <1>2, <1>3, <1>4, TypeCorrect, PTL DEF Spec
=============================================================================
