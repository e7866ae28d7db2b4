---------------------------- MODULE UiFlow_proofs ---------------------------
(***************************************************************************)
(* Proofs about OpenVPNService, for any number of start intents and stop   *)
(* requests, and about UiFlow, which composes it with the application: what *)
(* the fields of the service satisfy, the order in which its queues carry  *)
(* starts, what the application does to the service and what the user is   *)
(* shown, for any number of starts, stops, taps and waiting updates.       *)
(***************************************************************************)
EXTENDS UiFlow, SequenceTheorems, TLAPS

-----------------------------------------------------------------------------
(***************************************************************************)
(* OpenVPNService: its fields and threads.                                 *)
(***************************************************************************)

LEMMA Domains ==
    /\ None \in MaybeSession /\ Sessions \subseteq MaybeSession
    /\ Sessions \subseteq Enders /\ Binder \in Enders
    /\ None \notin Sessions
  BY DEF MaybeSession, Enders, Sessions, None

LEMMA PostStopType ==
    ASSUME stopQueue \in [Sessions -> Nat], NEW s
    PROVE  PostStop(s) \in [Sessions -> Nat]
<1>1. CASE s \in Sessions
  BY <1>1 DEF PostStop
<1>2. CASE s \notin Sessions
  BY <1>2 DEF PostStop
<1>q. QED
  BY <1>1, <1>2

(* Past FetchProfile the command thread works on a session of its own.     *)
CommandHasSession == cmdPc # Idle => cmdSession \in Sessions

(* Inside the swap the main thread still has its message in hand.          *)
SwapHasMessage == guiPc = "assign" => guiQueue # << >>

TypeInv == TypeOK /\ CommandHasSession /\ SwapHasMessage

LEMMA InitTypeOK == Init => TypeOK
<1> SUFFICES ASSUME Init PROVE TypeOK
  OBVIOUS
<1> USE MaxStartAssumption, MaxStopAssumption, Domains DEF Init, Idle
<1>1. /\ cmdQueue \in Seq(Sessions)
      /\ guiQueue \in Seq([old : MaybeSession, new : Sessions])
  OBVIOUS
<1>2. startIds \in 0 .. MaxStart /\ userStops \in 0 .. MaxStop
  OBVIOUS
<1>3. proc \in [Sessions -> ProcStates] /\ stopQueue \in [Sessions -> Nat]
  BY DEF ProcStates
<1>4. /\ stopEffect \in [Sessions -> Effects]
      /\ endPc \in [Enders -> EndStates]
  BY DEF Effects, EndStates
<1>5. cmdPc \in CmdStates
  BY DEF CmdStates
<1>q. QED
  BY <1>1, <1>2, <1>3, <1>4, <1>5 DEF TypeOK

(* The types of the groups of variables a step leaves alone.               *)
ServiceTypes ==
    /\ lockHeld \in BOOLEAN /\ mProcessThread \in MaybeSession
    /\ mManagement \in MaybeSession /\ mStarting \in BOOLEAN
    /\ mDeviceStateReceiver \in MaybeSession

AndroidTypes ==
    /\ started \in BOOLEAN /\ bound \in BOOLEAN
    /\ foreground \in BOOLEAN /\ alive \in BOOLEAN
    /\ registered \in SUBSET Sessions
    /\ startIds \in 0 .. MaxStart /\ userStops \in 0 .. MaxStop
    /\ revoked \in BOOLEAN

CommandTypes ==
    /\ cmdQueue \in Seq(Sessions) /\ cmdPc \in CmdStates
    /\ cmdSession \in MaybeSession /\ CommandHasSession

GuiTypes ==
    /\ guiQueue \in Seq([old : MaybeSession, new : Sessions])
    /\ guiPc \in {Idle, "assign"} /\ destroyPc \in {Idle, "unregister", "done"}
    /\ SwapHasMessage

SessionTypes ==
    /\ proc \in [Sessions -> ProcStates] /\ stopQueue \in [Sessions -> Nat]
    /\ stopEffect \in [Sessions -> Effects]

OtherTypes == lastConnected \in BOOLEAN /\ endPc \in [Enders -> EndStates]

LEMMA TypeGroups ==
    TypeInv <=> /\ ServiceTypes /\ AndroidTypes /\ CommandTypes
                /\ GuiTypes /\ SessionTypes /\ OtherTypes
  BY DEF TypeInv, TypeOK, ServiceTypes, AndroidTypes, CommandTypes, GuiTypes,
         SessionTypes, OtherTypes

LEMMA TypeGroupsPrime ==
    /\ ServiceTypes' /\ AndroidTypes' /\ CommandTypes'
    /\ GuiTypes' /\ SessionTypes' /\ OtherTypes'
    => TypeInv'
  BY DEF TypeInv, TypeOK, ServiceTypes, AndroidTypes, CommandTypes, GuiTypes,
         SessionTypes, OtherTypes

LEMMA GroupsUnchanged ==
    ASSUME TypeInv
    PROVE  /\ UNCHANGED service => ServiceTypes'
           /\ UNCHANGED android => AndroidTypes'
           /\ UNCHANGED command => CommandTypes'
           /\ UNCHANGED gui => GuiTypes'
           /\ UNCHANGED session => SessionTypes'
           /\ UNCHANGED <<lastConnected, endPc>> => OtherTypes'
<1>1. UNCHANGED service => ServiceTypes'
  BY TypeGroups DEF ServiceTypes, service
<1>2. UNCHANGED android => AndroidTypes'
  BY TypeGroups DEF AndroidTypes, android
<1>3. UNCHANGED command => CommandTypes'
  BY TypeGroups DEF CommandTypes, CommandHasSession, command
<1>4. UNCHANGED gui => GuiTypes'
  BY TypeGroups DEF GuiTypes, SwapHasMessage, gui
<1>5. UNCHANGED session => SessionTypes'
  BY TypeGroups DEF SessionTypes, session
<1>6. UNCHANGED <<lastConnected, endPc>> => OtherTypes'
  BY TypeGroups DEF OtherTypes
<1>q. QED
  BY <1>1, <1>2, <1>3, <1>4, <1>5, <1>6

(* Every step keeps the types.                                             *)
LEMMA NextTypeOK == TypeInv /\ [Next]_vars => TypeInv'
<1> SUFFICES ASSUME TypeInv, [Next]_vars
             PROVE  TypeInv'
  OBVIOUS
<1> USE Domains
<1>1. CASE Bind
  <2>1. AndroidTypes'
    BY <1>1, TypeGroups DEF Bind, AndroidTypes, android
  <2>q. QED
    BY <1>1, <2>1, TypeGroupsPrime, GroupsUnchanged DEF Bind
<1>2. CASE OnStartCommand
  <2>1. startIds' \in 0 .. MaxStart /\ startIds' \in Sessions
    BY <1>2, TypeGroups, MaxStartAssumption DEF OnStartCommand, Sessions,
       AndroidTypes
  <2>2. AndroidTypes'
    BY <1>2, TypeGroups, <2>1 DEF OnStartCommand, AndroidTypes, android
  <2>3. cmdQueue' \in Seq(Sessions)
    BY <1>2, TypeGroups, AppendProperties, <2>1, <2>2 DEF OnStartCommand,
       CommandTypes
  <2>4. CommandTypes'
    BY <1>2, TypeGroups, <2>1, <2>2, <2>3 DEF OnStartCommand, CommandTypes,
       CommandHasSession, CmdStates, Idle, command
  <2>q. QED
    BY <1>2, <2>2, <2>4, TypeGroupsPrime, GroupsUnchanged DEF OnStartCommand
<1>3. CASE StopVPN
  <2>1. userStops' \in 0 .. MaxStop
    BY <1>3, TypeGroups, MaxStopAssumption DEF StopVPN, AndroidTypes
  <2>2. AndroidTypes'
    BY <1>3, TypeGroups, <2>1 DEF StopVPN, AndroidTypes, android
  <2>3. stopQueue' \in [Sessions -> Nat]
    BY <1>3, TypeGroups, PostStopType, <2>1, <2>2 DEF StopVPN, SessionTypes
  <2>4. SessionTypes'
    BY <1>3, TypeGroups, <2>1, <2>2, <2>3 DEF StopVPN, SessionTypes, session
  <2>5. OtherTypes'
    BY <1>3, TypeGroups, <2>1, <2>2, <2>3, <2>4 DEF StopVPN, OtherTypes
  <2>q. QED
    BY <1>3, <2>2, <2>4, <2>5, TypeGroupsPrime, GroupsUnchanged DEF StopVPN
<1>4. CASE OnRevoke
  <2>1. AndroidTypes'
    BY <1>4, TypeGroups DEF OnRevoke, AndroidTypes, android
  <2>2. stopQueue' \in [Sessions -> Nat]
    BY <1>4, TypeGroups, PostStopType, <2>1 DEF OnRevoke, SessionTypes
  <2>3. SessionTypes'
    BY <1>4, TypeGroups, <2>1, <2>2 DEF OnRevoke, SessionTypes, session
  <2>4. endPc' \in [Enders -> EndStates]
    BY <1>4, TypeGroups, <2>1, <2>2, <2>3 DEF OnRevoke, OtherTypes,
       EndStates
  <2>5. OtherTypes'
    BY <1>4, TypeGroups, <2>1, <2>2, <2>3, <2>4 DEF OnRevoke, OtherTypes
  <2>q. QED
    BY <1>4, <2>1, <2>3, <2>5, TypeGroupsPrime, GroupsUnchanged DEF OnRevoke
<1>5. CASE FetchNoProfile
  <2>1. cmdQueue' \in Seq(Sessions)
    BY <1>5, TypeGroups, HeadTailProperties DEF FetchNoProfile, CommandTypes
  <2>2. CommandTypes'
    BY <1>5, TypeGroups, <2>1 DEF FetchNoProfile, CommandTypes,
       CommandHasSession, CmdStates, Idle, command
  <2>3. started' \in BOOLEAN
    BY <1>5, TypeGroups, <2>1, <2>2 DEF FetchNoProfile, AndroidTypes
  <2>4. AndroidTypes'
    BY <1>5, TypeGroups, <2>1, <2>2, <2>3 DEF FetchNoProfile, AndroidTypes,
       android
  <2>q. QED
    BY <1>5, <2>2, <2>4, TypeGroupsPrime, GroupsUnchanged DEF FetchNoProfile
<1>6. CASE FetchProfile
  <2>1. cmdQueue' \in Seq(Sessions) /\ cmdSession' \in Sessions
    BY <1>6, TypeGroups, HeadTailProperties DEF FetchProfile, CommandTypes
  <2>2. CommandTypes'
    BY <1>6, TypeGroups, <2>1 DEF FetchProfile, CommandTypes,
       CommandHasSession, CmdStates, Idle, command
  <2>3. OtherTypes'
    BY <1>6, TypeGroups, <2>1, <2>2 DEF FetchProfile, OtherTypes
  <2>q. QED
    BY <1>6, <2>2, <2>3, TypeGroupsPrime, GroupsUnchanged DEF FetchProfile
<1>7. CASE StopOld
  <2>1. ServiceTypes'
    BY <1>7, TypeGroups DEF StopOld, ServiceTypes, service
  <2>2. CommandTypes'
    BY <1>7, TypeGroups, <2>1 DEF StopOld, CommandTypes, CommandHasSession,
       CmdStates, Idle, command
  <2>3. stopQueue' \in [Sessions -> Nat]
    BY <1>7, TypeGroups, PostStopType, <2>1, <2>2 DEF StopOld, SessionTypes
  <2>4. SessionTypes'
    BY <1>7, TypeGroups, <2>1, <2>2, <2>3 DEF StopOld, SessionTypes, session
  <2>5. OtherTypes'
    BY <1>7, TypeGroups, <2>1, <2>2, <2>3, <2>4 DEF StopOld, OtherTypes
  <2>q. QED
    BY <1>7, <2>1, <2>2, <2>4, <2>5, TypeGroupsPrime, GroupsUnchanged DEF
       StopOld
<1>8. CASE ForceStop
  <2>1. cmdPc' \in {"instantiate", "sleeping"} /\ lockHeld' \in BOOLEAN
    BY <1>8, TypeGroups DEF ForceStop, ServiceTypes
  <2>2. ServiceTypes'
    BY <1>8, TypeGroups, <2>1 DEF ForceStop, ServiceTypes, service
  <2>3. CommandTypes'
    BY <1>8, TypeGroups, <2>1, <2>2 DEF ForceStop, CommandTypes,
       CommandHasSession, CmdStates, Idle, command
  <2>q. QED
    BY <1>8, <2>2, <2>3, TypeGroupsPrime, GroupsUnchanged DEF ForceStop
<1>9. CASE WakeUp
  <2>1. ServiceTypes'
    BY <1>9, TypeGroups DEF WakeUp, ServiceTypes, service
  <2>2. CommandTypes'
    BY <1>9, TypeGroups, <2>1 DEF WakeUp, CommandTypes, CommandHasSession,
       CmdStates, Idle, command
  <2>q. QED
    BY <1>9, <2>1, <2>2, TypeGroupsPrime, GroupsUnchanged DEF WakeUp
<1>10. CASE Instantiate
  <2>1. ServiceTypes'
    BY <1>10, TypeGroups DEF Instantiate, ServiceTypes, CommandTypes,
       service
  <2>2. CommandTypes'
    BY <1>10, TypeGroups, <2>1 DEF Instantiate, CommandTypes,
       CommandHasSession, CmdStates, Idle, command
  <2>q. QED
    BY <1>10, <2>1, <2>2, TypeGroupsPrime, GroupsUnchanged DEF Instantiate
<1>11. CASE StartThread
  <2>1. ServiceTypes'
    BY <1>11, TypeGroups DEF StartThread, ServiceTypes, CommandTypes,
       CommandHasSession, Idle, service
  <2>2. CommandTypes'
    BY <1>11, TypeGroups, <2>1 DEF StartThread, CommandTypes,
       CommandHasSession, CmdStates, Idle, command
  <2>3. proc' \in [Sessions -> ProcStates]
    BY <1>11, TypeGroups, <2>1, <2>2 DEF StartThread, SessionTypes,
       ProcStates
  <2>4. SessionTypes'
    BY <1>11, TypeGroups, <2>1, <2>2, <2>3 DEF StartThread, SessionTypes,
       session
  <2>5. OtherTypes'
    BY <1>11, TypeGroups, <2>1, <2>2, <2>3, <2>4 DEF StartThread, OtherTypes
  <2>q. QED
    BY <1>11, <2>1, <2>2, <2>4, <2>5, TypeGroupsPrime, GroupsUnchanged DEF
       StartThread
<1>12. CASE PostSwap
  <2>1. CommandTypes'
    BY <1>12, TypeGroups DEF PostSwap, CommandTypes, CommandHasSession,
       CmdStates, Idle, command
  <2>2. guiQueue' \in Seq([old : MaybeSession, new : Sessions])
    BY <1>12, TypeGroups, AppendProperties, <2>1 DEF PostSwap, GuiTypes,
       CommandTypes, CommandHasSession, Idle, ServiceTypes
  <2>3. guiQueue' # << >>
    BY <1>12, TypeGroups, AppendProperties, <2>1, <2>2 DEF PostSwap,
       GuiTypes
  <2>4. GuiTypes'
    BY <1>12, TypeGroups, <2>1, <2>2, <2>3 DEF PostSwap, GuiTypes,
       SwapHasMessage, Idle, gui
  <2>q. QED
    BY <1>12, <2>1, <2>4, TypeGroupsPrime, GroupsUnchanged DEF PostSwap
<1>13. CASE SwapRegister
  <2>1. Head(guiQueue) \in [old : MaybeSession, new : Sessions]
    BY <1>13, TypeGroups, HeadTailProperties DEF SwapRegister, GuiTypes
  <2>2. registered' \in SUBSET Sessions
    BY <1>13, TypeGroups, <2>1 DEF SwapRegister, AndroidTypes, Unregister
  <2>3. AndroidTypes'
    BY <1>13, TypeGroups, <2>1, <2>2 DEF SwapRegister, AndroidTypes, android
  <2>4. GuiTypes'
    BY <1>13, TypeGroups, <2>1, <2>2, <2>3 DEF SwapRegister, GuiTypes,
       SwapHasMessage, Idle, gui
  <2>q. QED
    BY <1>13, <2>3, <2>4, TypeGroupsPrime, GroupsUnchanged DEF SwapRegister
<1>14. CASE SwapAssign
  <2>1. Head(guiQueue) \in [old : MaybeSession, new : Sessions]
    BY <1>14, TypeGroups, HeadTailProperties DEF SwapAssign, GuiTypes,
       SwapHasMessage
  <2>2. ServiceTypes'
    BY <1>14, TypeGroups, <2>1 DEF SwapAssign, ServiceTypes, service
  <2>3. guiQueue' \in Seq([old : MaybeSession, new : Sessions])
    BY <1>14, TypeGroups, HeadTailProperties, <2>1, <2>2 DEF SwapAssign,
       GuiTypes, SwapHasMessage
  <2>4. GuiTypes'
    BY <1>14, TypeGroups, <2>1, <2>2, <2>3 DEF SwapAssign, GuiTypes,
       SwapHasMessage, Idle, gui
  <2>q. QED
    BY <1>14, <2>2, <2>4, TypeGroupsPrime, GroupsUnchanged DEF SwapAssign
<1>15. CASE DestroyStop
  <2>1. stopQueue' \in [Sessions -> Nat]
    BY <1>15, TypeGroups, PostStopType DEF DestroyStop, SessionTypes
  <2>2. SessionTypes'
    BY <1>15, TypeGroups, <2>1 DEF DestroyStop, SessionTypes, session
  <2>3. GuiTypes'
    BY <1>15, TypeGroups, <2>1, <2>2 DEF DestroyStop, GuiTypes,
       SwapHasMessage, Idle, gui
  <2>4. OtherTypes'
    BY <1>15, TypeGroups, <2>1, <2>2, <2>3 DEF DestroyStop, OtherTypes
  <2>q. QED
    BY <1>15, <2>2, <2>3, <2>4, TypeGroupsPrime, GroupsUnchanged DEF
       DestroyStop
<1>16. CASE DestroyUnregister
  <2>1. ServiceTypes'
    BY <1>16, TypeGroups DEF DestroyUnregister, ServiceTypes, service
  <2>2. registered' \in SUBSET Sessions
    BY <1>16, TypeGroups, <2>1 DEF DestroyUnregister, AndroidTypes,
       Unregister
  <2>3. AndroidTypes'
    BY <1>16, TypeGroups, <2>1, <2>2 DEF DestroyUnregister, AndroidTypes,
       android
  <2>4. GuiTypes'
    BY <1>16, TypeGroups, <2>1, <2>2, <2>3 DEF DestroyUnregister, GuiTypes,
       SwapHasMessage, Idle, gui
  <2>q. QED
    BY <1>16, <2>1, <2>3, <2>4, TypeGroupsPrime, GroupsUnchanged DEF
       DestroyUnregister
<1>17. ASSUME NEW s \in Sessions, ConfigRejected(s)
      PROVE  TypeInv'
  <2>1. proc' \in [Sessions -> ProcStates]
    BY <1>17, TypeGroups DEF ConfigRejected, ProcStep, SessionTypes,
       ProcStates
  <2>2. SessionTypes'
    BY <1>17, TypeGroups, <2>1 DEF ConfigRejected, SessionTypes, ProcStep,
       session
  <2>3. OtherTypes'
    BY <1>17, TypeGroups, <2>1, <2>2 DEF ConfigRejected, OtherTypes,
       ProcStep
  <2>q. QED
    BY <1>17, <2>2, <2>3, TypeGroupsPrime, GroupsUnchanged DEF
       ConfigRejected, ProcStep
<1>18. ASSUME NEW s \in Sessions, EnterConnect(s)
      PROVE  TypeInv'
  <2>1. proc' \in [Sessions -> ProcStates]
    BY <1>18, TypeGroups DEF EnterConnect, ProcStep, SessionTypes,
       ProcStates
  <2>2. SessionTypes'
    BY <1>18, TypeGroups, <2>1 DEF EnterConnect, SessionTypes, ProcStep,
       session
  <2>3. OtherTypes'
    BY <1>18, TypeGroups, <2>1, <2>2 DEF EnterConnect, OtherTypes, ProcStep
  <2>q. QED
    BY <1>18, <2>2, <2>3, TypeGroupsPrime, GroupsUnchanged DEF EnterConnect,
       ProcStep
<1>19. ASSUME NEW s \in Sessions, ConnectReady(s)
      PROVE  TypeInv'
  <2>1. proc' \in [Sessions -> ProcStates]
    BY <1>19, TypeGroups DEF ConnectReady, ProcStep, SessionTypes,
       ProcStates
  <2>2. SessionTypes'
    BY <1>19, TypeGroups, <2>1 DEF ConnectReady, SessionTypes, ProcStep,
       session
  <2>3. OtherTypes'
    BY <1>19, TypeGroups, <2>1, <2>2 DEF ConnectReady, OtherTypes, ProcStep
  <2>q. QED
    BY <1>19, <2>2, <2>3, TypeGroupsPrime, GroupsUnchanged DEF ConnectReady,
       ProcStep
<1>20. ASSUME NEW s \in Sessions, ConnectThrows(s)
      PROVE  TypeInv'
  <2>1. proc' \in [Sessions -> ProcStates]
    BY <1>20, TypeGroups DEF ConnectThrows, ProcStep, SessionTypes,
       ProcStates
  <2>2. SessionTypes'
    BY <1>20, TypeGroups, <2>1 DEF ConnectThrows, SessionTypes, ProcStep,
       session
  <2>3. OtherTypes'
    BY <1>20, TypeGroups, <2>1, <2>2 DEF ConnectThrows, OtherTypes, ProcStep
  <2>q. QED
    BY <1>20, <2>2, <2>3, TypeGroupsPrime, GroupsUnchanged DEF
       ConnectThrows, ProcStep
<1>21. ASSUME NEW s \in Sessions, ConnectStopped(s)
      PROVE  TypeInv'
  <2>1. proc' \in [Sessions -> ProcStates]
    BY <1>21, TypeGroups DEF ConnectStopped, ProcStep, SessionTypes,
       ProcStates
  <2>2. SessionTypes'
    BY <1>21, TypeGroups, <2>1 DEF ConnectStopped, SessionTypes, ProcStep,
       session
  <2>3. OtherTypes'
    BY <1>21, TypeGroups, <2>1, <2>2 DEF ConnectStopped, OtherTypes,
       ProcStep
  <2>q. QED
    BY <1>21, <2>2, <2>3, TypeGroupsPrime, GroupsUnchanged DEF
       ConnectStopped, ProcStep
<1>22. ASSUME NEW s \in Sessions, ThreadFinished(s)
      PROVE  TypeInv'
  <2>1. proc' \in [Sessions -> ProcStates]
    BY <1>22, TypeGroups DEF ThreadFinished, ProcStep, SessionTypes,
       ProcStates
  <2>2. SessionTypes'
    BY <1>22, TypeGroups, <2>1 DEF ThreadFinished, SessionTypes, ProcStep,
       session
  <2>3. OtherTypes'
    BY <1>22, TypeGroups, <2>1, <2>2 DEF ThreadFinished, OtherTypes,
       ProcStep
  <2>q. QED
    BY <1>22, <2>2, <2>3, TypeGroupsPrime, GroupsUnchanged DEF
       ThreadFinished, ProcStep
<1>23. ASSUME NEW s \in Sessions, ConnectFails(s)
      PROVE  TypeInv'
  <2>1. proc' \in [Sessions -> ProcStates]
    BY <1>23, TypeGroups DEF ConnectFails, ProcStep, SessionTypes,
       ProcStates
  <2>2. SessionTypes'
    BY <1>23, TypeGroups, <2>1 DEF ConnectFails, SessionTypes, ProcStep,
       session
  <2>3. OtherTypes'
    BY <1>23, TypeGroups, <2>1, <2>2 DEF ConnectFails, OtherTypes, ProcStep
  <2>q. QED
    BY <1>23, <2>2, <2>3, TypeGroupsPrime, GroupsUnchanged DEF ConnectFails,
       ProcStep
<1>24. ASSUME NEW s \in Sessions, HandleStop(s)
      PROVE  TypeInv'
  <2>1. stopQueue' \in [Sessions -> Nat]
    BY <1>24, TypeGroups DEF HandleStop, SessionTypes
  <2>2. stopEffect' \in [Sessions -> Effects]
    BY <1>24, TypeGroups, <2>1 DEF HandleStop, SessionTypes, EffectOf,
       Effects
  <2>3. SessionTypes'
    BY <1>24, TypeGroups, <2>1, <2>2 DEF HandleStop, SessionTypes, session
  <2>4. endPc' \in [Enders -> EndStates]
    BY <1>24, TypeGroups, <2>1, <2>2, <2>3 DEF HandleStop, OtherTypes,
       EndStates, Idle
  <2>5. OtherTypes'
    BY <1>24, TypeGroups, <2>1, <2>2, <2>3, <2>4 DEF HandleStop, OtherTypes
  <2>q. QED
    BY <1>24, <2>3, <2>5, TypeGroupsPrime, GroupsUnchanged DEF HandleStop
<1>25. ASSUME NEW t \in Enders, EndLock(t)
      PROVE  TypeInv'
  <2>1. ServiceTypes'
    BY <1>25, TypeGroups DEF EndLock, ServiceTypes, service
  <2>2. endPc' \in [Enders -> EndStates]
    BY <1>25, TypeGroups, <2>1 DEF EndLock, OtherTypes, EndStates, Idle
  <2>3. OtherTypes'
    BY <1>25, TypeGroups, <2>1, <2>2 DEF EndLock, OtherTypes
  <2>q. QED
    BY <1>25, <2>1, <2>3, TypeGroupsPrime, GroupsUnchanged DEF EndLock
<1>26. ASSUME NEW t \in Enders, EndUnregister(t)
      PROVE  TypeInv'
  <2>1. registered' \in SUBSET Sessions
    BY <1>26, TypeGroups DEF EndUnregister, AndroidTypes, Unregister
  <2>2. AndroidTypes'
    BY <1>26, TypeGroups, <2>1 DEF EndUnregister, AndroidTypes, android
  <2>3. endPc' \in [Enders -> EndStates]
    BY <1>26, TypeGroups, <2>1, <2>2 DEF EndUnregister, OtherTypes,
       EndStates, Idle
  <2>4. OtherTypes'
    BY <1>26, TypeGroups, <2>1, <2>2, <2>3 DEF EndUnregister, OtherTypes
  <2>q. QED
    BY <1>26, <2>2, <2>4, TypeGroupsPrime, GroupsUnchanged DEF EndUnregister
<1>27. ASSUME NEW t \in Enders, EndClear(t)
      PROVE  TypeInv'
  <2>1. ServiceTypes'
    BY <1>27, TypeGroups DEF EndClear, ServiceTypes, service
  <2>2. endPc' \in [Enders -> EndStates]
    BY <1>27, TypeGroups, <2>1 DEF EndClear, OtherTypes, EndStates, Idle
  <2>3. OtherTypes'
    BY <1>27, TypeGroups, <2>1, <2>2 DEF EndClear, OtherTypes
  <2>q. QED
    BY <1>27, <2>1, <2>3, TypeGroupsPrime, GroupsUnchanged DEF EndClear
<1>28. ASSUME NEW t \in Enders, EndFinish(t)
      PROVE  TypeInv'
  <2>1. AndroidTypes'
    BY <1>28, TypeGroups DEF EndFinish, AndroidTypes, android
  <2>2. endPc' \in [Enders -> EndStates]
    BY <1>28, TypeGroups, <2>1 DEF EndFinish, OtherTypes, EndStates, Idle
  <2>3. OtherTypes'
    BY <1>28, TypeGroups, <2>1, <2>2 DEF EndFinish, OtherTypes
  <2>q. QED
    BY <1>28, <2>1, <2>3, TypeGroupsPrime, GroupsUnchanged DEF EndFinish
<1>29. CASE UNCHANGED vars
  BY <1>29, TypeGroupsPrime, GroupsUnchanged DEF vars
<1>q. QED
  BY <1>1, <1>2, <1>3, <1>4, <1>5, <1>6, <1>7, <1>8, <1>9, <1>10, <1>11,
     <1>12, <1>13, <1>14, <1>15, <1>16, <1>17, <1>18, <1>19, <1>20, <1>21,
     <1>22, <1>23, <1>24, <1>25, <1>26, <1>27, <1>28, <1>29 DEF Next,
     CommandStep, MainStep, ProcessStep, EndStep

(* Every field, queue and program counter keeps its type.                  *)
THEOREM TypeCorrect == Spec => []TypeOK
<1>1. Init => TypeInv
  BY InitTypeOK DEF TypeInv, CommandHasSession, SwapHasMessage, Init, Idle
<1>2. TypeInv /\ [Next]_vars => TypeInv'
  BY NextTypeOK
<1>3. TypeInv => TypeOK
  BY DEF TypeInv
<1>q. QED
  BY <1>1, <1>2, <1>3, PTL DEF Spec

-----------------------------------------------------------------------------
(* Where the command thread is tells what startOpenVPN has already done.   *)

(* Between StopOld and Instantiate the session about to be replaced has    *)
(* been asked to stop.                                                     *)
OldIsAsked ==
    cmdPc \in {"forceStop", "sleeping", "instantiate"} /\ mManagement # None
        => Asked(mManagement)

(* StartThread starts the session Instantiate assigned to mManagement.     *)
NewIsManaged == cmdPc = "startThread" => mManagement = cmdSession

(* Only the sleeping command thread keeps mProcessLock between two steps.  *)
LockIsSleeping == lockHeld <=> cmdPc = "sleeping"

ServiceInv == /\ TypeInv
              /\ OldIsAsked
              /\ NewIsManaged
              /\ LockIsSleeping
              /\ ThreadIsManaged
              /\ ReplacedIsAsked

LEMMA InitServiceInv == Init => ServiceInv
<1> SUFFICES ASSUME Init PROVE ServiceInv
  OBVIOUS
<1>1. TypeInv
  BY InitTypeOK DEF TypeInv, CommandHasSession, SwapHasMessage, Init, Idle
<1>2. OldIsAsked /\ NewIsManaged /\ LockIsSleeping
  BY DEF Init, OldIsAsked, NewIsManaged, LockIsSleeping,
         Idle
<1>3. ThreadIsManaged /\ ReplacedIsAsked
  BY DEF Init, ThreadIsManaged, ReplacedIsAsked, None
<1>q. QED
  BY <1>1, <1>2, <1>3 DEF ServiceInv

(* Every step keeps the invariant.                                         *)
LEMMA NextServiceInv == ServiceInv /\ [Next]_vars => ServiceInv'
<1> SUFFICES ASSUME ServiceInv, [Next]_vars
             PROVE  ServiceInv'
  OBVIOUS
<1> USE NextTypeOK, Domains DEF ServiceInv, TypeInv, TypeOK,
        CommandHasSession, OldIsAsked, NewIsManaged, LockIsSleeping,
        ThreadIsManaged, ReplacedIsAsked, Asked, service, android, command,
        gui, session, Idle, PostStop
<1>1. CASE Bind
  BY <1>1 DEF Bind
<1>2. CASE OnStartCommand
  BY <1>2 DEF OnStartCommand
<1>3. CASE StopVPN
  BY <1>3 DEF StopVPN
<1>4. CASE OnRevoke
  BY <1>4 DEF OnRevoke
<1>5. CASE FetchNoProfile
  BY <1>5 DEF FetchNoProfile
<1>6. CASE FetchProfile
  BY <1>6 DEF FetchProfile
<1>7. CASE StopOld
  BY <1>7 DEF StopOld
<1>8. CASE ForceStop
  BY <1>8 DEF ForceStop
<1>9. CASE WakeUp
  BY <1>9 DEF WakeUp
<1>10. CASE Instantiate
  BY <1>10 DEF Instantiate
<1>11. CASE StartThread
  BY <1>11 DEF StartThread
<1>12. CASE PostSwap
  BY <1>12 DEF PostSwap
<1>13. CASE SwapRegister
  BY <1>13 DEF SwapRegister
<1>14. CASE SwapAssign
  BY <1>14 DEF SwapAssign
<1>15. CASE DestroyStop
  BY <1>15 DEF DestroyStop
<1>16. CASE DestroyUnregister
  BY <1>16 DEF DestroyUnregister
<1>17. ASSUME NEW s \in Sessions, ConfigRejected(s)
      PROVE  ServiceInv'
  BY <1>17 DEF ConfigRejected, ProcStep
<1>18. ASSUME NEW s \in Sessions, EnterConnect(s)
      PROVE  ServiceInv'
  BY <1>18 DEF EnterConnect, ProcStep
<1>19. ASSUME NEW s \in Sessions, ConnectReady(s)
      PROVE  ServiceInv'
  BY <1>19 DEF ConnectReady, ProcStep
<1>20. ASSUME NEW s \in Sessions, ConnectThrows(s)
      PROVE  ServiceInv'
  BY <1>20 DEF ConnectThrows, ProcStep
<1>21. ASSUME NEW s \in Sessions, ConnectStopped(s)
      PROVE  ServiceInv'
  BY <1>21 DEF ConnectStopped, ProcStep
<1>22. ASSUME NEW s \in Sessions, ThreadFinished(s)
      PROVE  ServiceInv'
  BY <1>22 DEF ThreadFinished, ProcStep
<1>23. ASSUME NEW s \in Sessions, ConnectFails(s)
      PROVE  ServiceInv'
  BY <1>23 DEF ConnectFails, ProcStep
<1>24. ASSUME NEW s \in Sessions, HandleStop(s)
      PROVE  ServiceInv'
  BY <1>24 DEF HandleStop, EffectOf
<1>25. ASSUME NEW t \in Enders, EndLock(t)
      PROVE  ServiceInv'
  BY <1>25 DEF EndLock
<1>26. ASSUME NEW t \in Enders, EndUnregister(t)
      PROVE  ServiceInv'
  BY <1>26 DEF EndUnregister
<1>27. ASSUME NEW t \in Enders, EndClear(t)
      PROVE  ServiceInv'
  BY <1>27 DEF EndClear
<1>28. ASSUME NEW t \in Enders, EndFinish(t)
      PROVE  ServiceInv'
  BY <1>28 DEF EndFinish
<1>29. CASE UNCHANGED vars
  BY <1>29 DEF vars
<1>q. QED
  BY <1>1, <1>2, <1>3, <1>4, <1>5, <1>6, <1>7, <1>8, <1>9, <1>10, <1>11,
     <1>12, <1>13, <1>14, <1>15, <1>16, <1>17, <1>18, <1>19, <1>20, <1>21,
     <1>22, <1>23, <1>24, <1>25, <1>26, <1>27, <1>28, <1>29
     DEF Next, CommandStep, MainStep, ProcessStep, EndStep

LEMMA ServiceInvariant == Spec => []ServiceInv
<1>1. Init => ServiceInv
  BY InitServiceInv
<1>2. ServiceInv /\ [Next]_vars => ServiceInv'
  BY NextServiceInv
<1>q. QED
  BY <1>1, <1>2, PTL DEF Spec

(* A session that was replaced has been asked to stop, however many        *)
(* sessions, stops, revocations and destructions overlap.                  *)
THEOREM ReplacedSessionsAsked == Spec => []ReplacedIsAsked
<1>1. ServiceInv => ReplacedIsAsked
  BY DEF ServiceInv
<1>q. QED
  BY <1>1, ServiceInvariant, PTL

(* mProcessThread, when set, is the thread of the managed session, so      *)
(* onDestroy and forceStopOpenVpnProcess act on the session they tested.   *)
THEOREM ProcessThreadManaged == Spec => []ThreadIsManaged
<1>1. ServiceInv => ThreadIsManaged
  BY DEF ServiceInv
<1>q. QED
  BY <1>1, ServiceInvariant, PTL

-----------------------------------------------------------------------------
(***************************************************************************)
(* OpenVPNService: start ids only grow, and what one start does happens in *)
(* the order of the queues it passes through.  From this order follow the  *)
(* properties that relate a field to the thread that is about to change it. *)
(***************************************************************************)

(* Where startOpenVPN is before it starts the thread of its session.       *)
PreStart == CmdStates \ {Idle, "postSwap"}

(* A session is behind the starts still queued, and has no thread before   *)
(* StartThread.                                                            *)
StartOrder ==
    /\ cmdSession <= startIds
    /\ \A i \in 1 .. Len(cmdQueue) :
         cmdSession < cmdQueue[i] /\ cmdQueue[i] <= startIds
    /\ \A i, j \in 1 .. Len(cmdQueue) : i < j => cmdQueue[i] < cmdQueue[j]
    /\ \A s \in Sessions : proc[s] # "none" =>
         \/ s < cmdSession
         \/ s = cmdSession /\ cmdPc \notin PreStart

orderVars == <<startIds, cmdQueue, cmdPc, cmdSession, proc>>

LEMMA OrderTypes ==
    ASSUME TypeInv
    PROVE  /\ cmdSession \in Nat /\ startIds \in Nat
           /\ \A s \in Sessions : s \in Nat
           /\ cmdQueue \in Seq(Sessions) /\ Len(cmdQueue) \in Nat
           /\ \A i \in 1 .. Len(cmdQueue) : cmdQueue[i] \in Sessions
           /\ cmdPc # Idle => cmdSession \in Sessions
<1>1. \A s \in Sessions : s \in Nat
  BY MaxStartAssumption DEF Sessions
<1>2. cmdSession \in Nat /\ startIds \in Nat
  BY <1>1, MaxStartAssumption DEF TypeInv, TypeOK, MaybeSession, None
<1>3. cmdQueue \in Seq(Sessions)
  BY DEF TypeInv, TypeOK
<1>4. Len(cmdQueue) \in Nat
  BY <1>3, LenProperties
<1>5. \A i \in 1 .. Len(cmdQueue) : cmdQueue[i] \in Sessions
  BY <1>3, ElementOfSeq
<1>6. cmdPc # Idle => cmdSession \in Sessions
  BY DEF TypeInv, CommandHasSession
<1>q. QED
  BY <1>1, <1>2, <1>3, <1>4, <1>5, <1>6

LEMMA StatesDiffer ==
    /\ Idle \notin PreStart /\ "postSwap" \notin PreStart
    /\ "stopOld" \in PreStart /\ "forceStop" \in PreStart
    /\ "sleeping" \in PreStart /\ "instantiate" \in PreStart
    /\ "startThread" \in PreStart
  BY DEF PreStart, CmdStates, Idle

(* A step of the command thread within one start.                          *)
LEMMA CommandKeepsOrder ==
    ASSUME TypeInv, StartOrder,
           UNCHANGED <<startIds, cmdQueue, cmdSession, proc>>,
           cmdPc' \in PreStart => cmdPc \in PreStart
    PROVE  StartOrder'
  BY DEF StartOrder

(* A session that runs goes on.                                            *)
LEMMA ProcKeepsOrder ==
    ASSUME TypeInv, StartOrder, NEW s \in Sessions, proc[s] # "none",
           NEW to, proc' = [proc EXCEPT ![s] = to],
           UNCHANGED <<startIds, cmdQueue, cmdPc, cmdSession>>
    PROVE  StartOrder'
<1>1. \A r \in Sessions : proc'[r] # "none" => proc[r] # "none"
  BY DEF TypeInv, TypeOK
<1>q. QED
  BY <1>1 DEF StartOrder

LEMMA TailKeepsOrder ==
    ASSUME TypeInv, StartOrder, cmdQueue # << >>, cmdQueue' = Tail(cmdQueue)
    PROVE  /\ Len(cmdQueue') = Len(cmdQueue) - 1 /\ Len(cmdQueue) >= 1
           /\ Head(cmdQueue) = cmdQueue[1] /\ Head(cmdQueue) \in Sessions
           /\ \A i \in 1 .. Len(cmdQueue') :
                /\ i + 1 \in 1 .. Len(cmdQueue)
                /\ cmdQueue'[i] = cmdQueue[i + 1]
           /\ \A i \in 1 .. Len(cmdQueue') :
                Head(cmdQueue) < cmdQueue'[i] /\ cmdQueue'[i] <= startIds
           /\ \A i, j \in 1 .. Len(cmdQueue') :
                i < j => cmdQueue'[i] < cmdQueue'[j]
<1>1. /\ Len(cmdQueue') = Len(cmdQueue) - 1 /\ Len(cmdQueue) >= 1
      /\ Head(cmdQueue) = cmdQueue[1] /\ Head(cmdQueue) \in Sessions
  BY OrderTypes, HeadTailProperties, EmptySeq
<1>2. \A i \in 1 .. Len(cmdQueue') :
        i + 1 \in 1 .. Len(cmdQueue) /\ cmdQueue'[i] = cmdQueue[i + 1]
  BY <1>1, OrderTypes, HeadTailProperties
<1>3. \A i \in 1 .. Len(cmdQueue') :
        Head(cmdQueue) < cmdQueue'[i] /\ cmdQueue'[i] <= startIds
  <2> TAKE i \in 1 .. Len(cmdQueue')
  <2>1. 1 \in 1 .. Len(cmdQueue) /\ i + 1 \in 1 .. Len(cmdQueue) /\ 1 < i + 1
    BY <1>1, <1>2, OrderTypes
  <2>2. cmdQueue[1] < cmdQueue[i + 1] /\ cmdQueue[i + 1] <= startIds
    BY <2>1 DEF StartOrder
  <2>q. QED
    BY <1>1, <1>2, <2>2
<1>4. \A i, j \in 1 .. Len(cmdQueue') : i < j => cmdQueue'[i] < cmdQueue'[j]
  <2> SUFFICES ASSUME NEW i \in 1 .. Len(cmdQueue'),
                      NEW j \in 1 .. Len(cmdQueue'), i < j
               PROVE  cmdQueue'[i] < cmdQueue'[j]
    OBVIOUS
  <2>1. i + 1 \in 1 .. Len(cmdQueue) /\ j + 1 \in 1 .. Len(cmdQueue)
    BY <1>2
  <2>2. i + 1 < j + 1
    OBVIOUS
  <2>3. cmdQueue[i + 1] < cmdQueue[j + 1]
    BY <2>1, <2>2 DEF StartOrder
  <2>q. QED
    BY <1>2, <2>3
<1>q. QED
  BY <1>1, <1>2, <1>3, <1>4

LEMMA InitStartOrder == Init => StartOrder
<1> SUFFICES ASSUME Init PROVE StartOrder
  OBVIOUS
<1>1. Len(cmdQueue) = 0
  BY EmptySeq DEF Init
<1>2. \A s \in Sessions : proc[s] = "none"
  BY DEF Init
<1>q. QED
  BY <1>1, <1>2 DEF Init, StartOrder, None

(* The order of the starts is kept.                                        *)
LEMMA NextStartOrder == TypeInv /\ StartOrder /\ [Next]_vars => StartOrder'
<1> SUFFICES ASSUME TypeInv, StartOrder, [Next]_vars
             PROVE  StartOrder'
  OBVIOUS
<1>0. UNCHANGED orderVars => StartOrder'
  BY DEF StartOrder, orderVars
<1>1. CASE Bind \/ StopVPN \/ OnRevoke
  BY <1>1, <1>0 DEF Bind, StopVPN, OnRevoke, orderVars, command, session
<1>2. CASE OnStartCommand
  <2>1. /\ Len(cmdQueue') = Len(cmdQueue) + 1
        /\ cmdQueue'[Len(cmdQueue) + 1] = startIds + 1
        /\ \A i \in 1 .. Len(cmdQueue) : cmdQueue'[i] = cmdQueue[i]
    <3>1. startIds + 1 \in Sessions
      BY <1>2, OrderTypes, MaxStartAssumption DEF OnStartCommand, Sessions,
         TypeInv, TypeOK
    <3>q. QED
      BY <1>2, <3>1, OrderTypes, AppendProperties DEF OnStartCommand
  <2>2. startIds' = startIds + 1 /\ UNCHANGED <<cmdSession, cmdPc, proc>>
    BY <1>2 DEF OnStartCommand, session
  <2>3. \A i \in 1 .. Len(cmdQueue') :
          cmdSession' < cmdQueue'[i] /\ cmdQueue'[i] <= startIds'
    <3> TAKE i \in 1 .. Len(cmdQueue')
    <3>1. CASE i = Len(cmdQueue) + 1
      BY <3>1, <2>1, <2>2, OrderTypes DEF StartOrder
    <3>2. CASE i \in 1 .. Len(cmdQueue)
      <4>1. cmdSession < cmdQueue[i] /\ cmdQueue[i] <= startIds
        BY <3>2 DEF StartOrder
      <4>2. cmdQueue[i] \in Nat
        BY <3>2, OrderTypes
      <4>q. QED
        BY <4>1, <4>2, <3>2, <2>1, <2>2, OrderTypes
    <3>q. QED
      BY <3>1, <3>2, <2>1, OrderTypes
  <2>4. \A i, j \in 1 .. Len(cmdQueue') : i < j => cmdQueue'[i] < cmdQueue'[j]
    <3> SUFFICES ASSUME NEW i \in 1 .. Len(cmdQueue'),
                        NEW j \in 1 .. Len(cmdQueue'), i < j
                 PROVE  cmdQueue'[i] < cmdQueue'[j]
      OBVIOUS
    <3>0. i \in 1 .. Len(cmdQueue)
      BY <2>1, OrderTypes
    <3>1. CASE j = Len(cmdQueue) + 1
      <4>1. cmdQueue[i] <= startIds /\ cmdQueue[i] \in Nat
        BY <3>0, OrderTypes DEF StartOrder
      <4>q. QED
        BY <4>1, <3>0, <3>1, <2>1, OrderTypes
    <3>2. CASE j \in 1 .. Len(cmdQueue)
      BY <3>0, <3>2, <2>1 DEF StartOrder
    <3>q. QED
      BY <3>1, <3>2, <2>1, OrderTypes
  <2>5. cmdSession' <= startIds'
    BY <2>2, OrderTypes DEF StartOrder
  <2>q. QED
    BY <2>2, <2>3, <2>4, <2>5 DEF StartOrder
<1>3. CASE FetchNoProfile
  <2>1. cmdQueue # << >> /\ cmdQueue' = Tail(cmdQueue)
        /\ UNCHANGED <<startIds, cmdSession, cmdPc, proc>>
    BY <1>3 DEF FetchNoProfile, session
  <2>2. cmdSession < Head(cmdQueue)
    BY <2>1, TailKeepsOrder DEF StartOrder
  <2>3. \A i \in 1 .. Len(cmdQueue') :
          cmdSession' < cmdQueue'[i] /\ cmdQueue'[i] <= startIds'
    <3> TAKE i \in 1 .. Len(cmdQueue')
    <3>1. Head(cmdQueue) < cmdQueue'[i] /\ cmdQueue'[i] <= startIds
      BY <2>1, TailKeepsOrder
    <3>2. Head(cmdQueue) \in Nat /\ cmdQueue'[i] \in Nat
      BY <2>1, TailKeepsOrder, OrderTypes
    <3>q. QED
      BY <3>1, <3>2, <2>1, <2>2, OrderTypes
  <2>q. QED
    BY <2>1, <2>3, TailKeepsOrder DEF StartOrder
<1>4. CASE FetchProfile
  <2>1. /\ cmdQueue # << >> /\ cmdQueue' = Tail(cmdQueue)
        /\ cmdSession' = Head(cmdQueue) /\ UNCHANGED <<startIds, proc>>
    BY <1>4 DEF FetchProfile, android, session
  <2>2. cmdSession < cmdSession' /\ cmdSession' <= startIds
        /\ cmdSession' \in Nat
    BY <2>1, TailKeepsOrder, OrderTypes DEF StartOrder
  <2>3. \A s \in Sessions : proc'[s] # "none" => s < cmdSession'
    BY <2>1, <2>2, OrderTypes DEF StartOrder
  <2>q. QED
    BY <2>1, <2>2, <2>3, TailKeepsOrder DEF StartOrder
<1>5. CASE StopOld \/ ForceStop \/ WakeUp \/ Instantiate
  <2>1. cmdPc \in PreStart
    BY <1>5, StatesDiffer DEF StopOld, ForceStop, WakeUp, Instantiate
  <2>2. UNCHANGED <<startIds, cmdQueue, cmdSession, proc>>
    BY <1>5 DEF StopOld, ForceStop, WakeUp, Instantiate, android, session
  <2>q. QED
    BY <2>1, <2>2, CommandKeepsOrder
<1>6. CASE PostSwap
  <2>1. cmdPc' \notin PreStart
    BY <1>6, StatesDiffer DEF PostSwap
  <2>2. UNCHANGED <<startIds, cmdQueue, cmdSession, proc>>
    BY <1>6 DEF PostSwap, android, session
  <2>q. QED
    BY <2>1, <2>2, CommandKeepsOrder
<1>7. CASE StartThread
  <2>1. /\ proc' = [proc EXCEPT ![cmdSession] = "config"]
        /\ UNCHANGED <<startIds, cmdQueue, cmdSession>>
        /\ cmdPc' = "postSwap"
    BY <1>7 DEF StartThread, android
  <2>2. \A s \in Sessions : proc'[s] # "none" =>
          \/ s < cmdSession'
          \/ s = cmdSession' /\ cmdPc' \notin PreStart
    <3> TAKE s \in Sessions
    <3>1. CASE s = cmdSession
      BY <3>1, <2>1, StatesDiffer
    <3>2. CASE s # cmdSession
      BY <3>2, <2>1 DEF StartOrder, TypeInv, TypeOK
    <3>q. QED
      BY <3>1, <3>2
  <2>q. QED
    BY <2>1, <2>2 DEF StartOrder
<1>8. CASE MainStep
  BY <1>8, <1>0 DEF MainStep, SwapRegister, SwapAssign, DestroyStop,
     DestroyUnregister, orderVars, android, command, session
<1>9. ASSUME NEW s \in Sessions, ProcessStep(s) \/ ConnectFails(s)
      PROVE  StartOrder'
  <2>1. PICK from \in {"config", "setup", "ready", "finishing"}, to \in {"setup", "ready", "finishing", "exited"} : ProcStep(s, from, to)
    BY <1>9 DEF ProcessStep, ConfigRejected, EnterConnect, ConnectReady,
       ConnectThrows, ConnectStopped, ThreadFinished, ConnectFails
  <2>2. proc[s] # "none" /\ proc' = [proc EXCEPT ![s] = to]
        /\ UNCHANGED <<startIds, cmdQueue, cmdPc, cmdSession>>
    BY <2>1 DEF ProcStep, android, command
  <2>q. QED
    BY <2>2, ProcKeepsOrder
<1>10. ASSUME NEW s \in Sessions, HandleStop(s)
       PROVE  StartOrder'
  BY <1>10, <1>0 DEF HandleStop, orderVars, android, command
<1>11. ASSUME NEW t \in Enders, EndStep(t)
       PROVE  StartOrder'
  BY <1>11, <1>0 DEF EndStep, EndLock, EndUnregister, EndClear, EndFinish,
     orderVars, android, command, session
<1>12. CASE UNCHANGED vars
  BY <1>12, <1>0 DEF vars, orderVars, android, command, session
<1>q. QED
  BY <1>1, <1>2, <1>3, <1>4, <1>5, <1>6, <1>7, <1>8, <1>9, <1>10, <1>11,
     <1>12 DEF Next, CommandStep

-----------------------------------------------------------------------------
(* The receivers: the one the field names is older than those waiting in   *)
(* the queue of the main thread.                                           *)

(* The swap of receiver r was posted.                                      *)
Posted(r) == r < cmdSession \/ (r = cmdSession /\ cmdPc = Idle)

ReceiverOrder ==
    /\ Posted(mDeviceStateReceiver)
    /\ \A i \in 1 .. Len(guiQueue) :
         mDeviceStateReceiver < guiQueue[i].new /\ Posted(guiQueue[i].new)
    /\ \A i, j \in 1 .. Len(guiQueue) :
         i < j => guiQueue[i].new < guiQueue[j].new

(* Between the two halves of the swap the new receiver listens already.    *)
NewIsRegistered ==
    guiPc = "assign" =>
        Head(guiQueue).new \in registered /\ destroyPc # "unregister"

receiverVars == <<mDeviceStateReceiver, guiQueue, cmdSession, cmdPc>>

Swaps == [old : MaybeSession, new : Sessions]

LEMMA ReceiverTypes ==
    ASSUME TypeInv
    PROVE  /\ mDeviceStateReceiver \in Nat
           /\ guiQueue \in Seq(Swaps) /\ Len(guiQueue) \in Nat
           /\ \A i \in 1 .. Len(guiQueue) :
                guiQueue[i].new \in Sessions /\ guiQueue[i].new \in Nat
<1>1. mDeviceStateReceiver \in Nat
  BY OrderTypes DEF TypeInv, TypeOK, MaybeSession, None
<1>2. guiQueue \in Seq(Swaps)
  BY DEF TypeInv, TypeOK, Swaps
<1>3. Len(guiQueue) \in Nat
  BY <1>2, LenProperties
<1>4. \A i \in 1 .. Len(guiQueue) : guiQueue[i].new \in Sessions
  <2> TAKE i \in 1 .. Len(guiQueue)
  <2>1. guiQueue[i] \in Swaps
    BY <1>2, ElementOfSeq
  <2>q. QED
    BY <2>1 DEF Swaps
<1>q. QED
  BY <1>1, <1>2, <1>3, <1>4, OrderTypes

LEMMA InitReceiverOrder == Init => ReceiverOrder /\ NewIsRegistered
<1> SUFFICES ASSUME Init PROVE ReceiverOrder /\ NewIsRegistered
  OBVIOUS
<1>1. Len(guiQueue) = 0
  BY EmptySeq DEF Init
<1>q. QED
  BY <1>1 DEF Init, ReceiverOrder, NewIsRegistered, Posted, Idle

(* A swap that is begun is that of the first message.                      *)
LEMMA SwapInHand ==
    ASSUME TypeInv, ReceiverOrder, guiQueue # << >>
    PROVE  /\ Len(guiQueue) >= 1 /\ Head(guiQueue) = guiQueue[1]
           /\ Head(guiQueue).new \in Sessions
           /\ mDeviceStateReceiver < Head(guiQueue).new
<1>1. Len(guiQueue) >= 1 /\ Head(guiQueue) = guiQueue[1]
  BY ReceiverTypes, HeadTailProperties, EmptySeq
<1>q. QED
  BY <1>1, ReceiverTypes DEF ReceiverOrder

(* The field is given up.                                                  *)
LEMMA ClearedKeepsOrder ==
    ASSUME TypeInv, ReceiverOrder, mDeviceStateReceiver' = None,
           UNCHANGED <<guiQueue, cmdSession, cmdPc>>
    PROVE  ReceiverOrder'
<1>1. Posted(None)'
  BY OrderTypes DEF Posted, None, Idle, TypeInv, CommandHasSession, Sessions
<1>2. \A i \in 1 .. Len(guiQueue) : None < guiQueue[i].new
  BY ReceiverTypes DEF ReceiverOrder, None, Sessions
<1>q. QED
  BY <1>1, <1>2 DEF ReceiverOrder, Posted

(* A step of the command thread before PostSwap.                           *)
LEMMA PostedKept ==
    ASSUME TypeInv, ReceiverOrder, cmdPc # Idle,
           UNCHANGED <<mDeviceStateReceiver, guiQueue, cmdSession>>
    PROVE  ReceiverOrder'
<1>1. \A r \in Nat : Posted(r) => r < cmdSession
  BY DEF Posted
<1>q. QED
  BY <1>1, ReceiverTypes DEF ReceiverOrder, Posted

(* The order of the receivers is kept.                                     *)
LEMMA NextReceiverOrder ==
    TypeInv /\ StartOrder /\ ReceiverOrder /\ [Next]_vars => ReceiverOrder'
<1> SUFFICES ASSUME TypeInv, StartOrder, ReceiverOrder, [Next]_vars
             PROVE  ReceiverOrder'
  OBVIOUS
<1>0. UNCHANGED receiverVars => ReceiverOrder'
  BY DEF ReceiverOrder, Posted, receiverVars
<1>1. CASE Bind \/ OnStartCommand \/ StopVPN \/ OnRevoke \/ FetchNoProfile
  BY <1>1, <1>0 DEF Bind, OnStartCommand, StopVPN, OnRevoke, FetchNoProfile,
     receiverVars, service, command, gui
<1>2. CASE FetchProfile
  <2>1. /\ cmdQueue # << >> /\ cmdSession' = Head(cmdQueue)
        /\ UNCHANGED <<mDeviceStateReceiver, guiQueue>>
    BY <1>2 DEF FetchProfile, service, gui
  <2>2. Head(cmdQueue) = cmdQueue[1] /\ Len(cmdQueue) >= 1
    BY <2>1, OrderTypes, HeadTailProperties, EmptySeq
  <2>3. cmdSession < cmdSession' /\ cmdSession' \in Nat
    BY <2>1, <2>2, OrderTypes DEF StartOrder
  <2>4. \A r \in Nat : Posted(r) => Posted(r)'
    BY <2>3, OrderTypes DEF Posted
  <2>q. QED
    BY <2>1, <2>4, ReceiverTypes DEF ReceiverOrder, Posted
<1>3. CASE StopOld \/ ForceStop \/ WakeUp \/ Instantiate \/ StartThread
  <2>1. cmdPc # Idle /\ UNCHANGED <<mDeviceStateReceiver, guiQueue, cmdSession>>
    BY <1>3 DEF StopOld, ForceStop, WakeUp, Instantiate, StartThread, Idle, gui
  <2>q. QED
    BY <2>1, PostedKept
<1>4. CASE PostSwap
  <2>1. /\ cmdPc = "postSwap" /\ cmdPc' = Idle
        /\ UNCHANGED <<mDeviceStateReceiver, cmdSession>>
        /\ guiQueue' = Append(guiQueue, [old |-> mDeviceStateReceiver,
                                         new |-> cmdSession])
    BY <1>4 DEF PostSwap, service
  <2>2. cmdSession \in Sessions
    BY <2>1, OrderTypes DEF Idle
  <2>3. [old |-> mDeviceStateReceiver, new |-> cmdSession] \in Swaps
    BY <2>2 DEF Swaps, TypeInv, TypeOK
  <2>4. /\ Len(guiQueue') = Len(guiQueue) + 1
        /\ guiQueue'[Len(guiQueue) + 1].new = cmdSession
        /\ \A i \in 1 .. Len(guiQueue) : guiQueue'[i] = guiQueue[i]
    BY <2>1, <2>3, ReceiverTypes, AppendProperties
  <2>5. \A r \in Nat : Posted(r) => r < cmdSession
    BY <2>1 DEF Posted, Idle
  <2>6. mDeviceStateReceiver < cmdSession
        /\ \A i \in 1 .. Len(guiQueue) : guiQueue[i].new < cmdSession
    BY <2>5, ReceiverTypes DEF ReceiverOrder
  <2>7. Posted(mDeviceStateReceiver)'
    BY <2>1, <2>6 DEF Posted
  <2>8. \A i \in 1 .. Len(guiQueue') :
          mDeviceStateReceiver' < guiQueue'[i].new /\ Posted(guiQueue[i].new)'
    <3> TAKE i \in 1 .. Len(guiQueue')
    <3>1. CASE i = Len(guiQueue) + 1
      BY <3>1, <2>1, <2>4, <2>6 DEF Posted
    <3>2. CASE i \in 1 .. Len(guiQueue)
      BY <3>2, <2>1, <2>4, <2>6 DEF ReceiverOrder, Posted
    <3>q. QED
      BY <3>1, <3>2, <2>4, ReceiverTypes
  <2>9. \A i, j \in 1 .. Len(guiQueue') :
          i < j => guiQueue'[i].new < guiQueue'[j].new
    <3> SUFFICES ASSUME NEW i \in 1 .. Len(guiQueue'),
                        NEW j \in 1 .. Len(guiQueue'), i < j
                 PROVE  guiQueue'[i].new < guiQueue'[j].new
      OBVIOUS
    <3>0. i \in 1 .. Len(guiQueue)
      BY <2>4, ReceiverTypes
    <3>1. CASE j = Len(guiQueue) + 1
      BY <3>0, <3>1, <2>4, <2>6
    <3>2. CASE j \in 1 .. Len(guiQueue)
      BY <3>0, <3>2, <2>4 DEF ReceiverOrder
    <3>q. QED
      BY <3>1, <3>2, <2>4, ReceiverTypes
  <2>q. QED
    BY <2>7, <2>8, <2>9 DEF ReceiverOrder
<1>5. CASE SwapRegister
  BY <1>5, <1>0 DEF SwapRegister, receiverVars, service, command
<1>6. CASE SwapAssign
  <2>1. /\ guiQueue # << >> /\ guiQueue' = Tail(guiQueue)
        /\ mDeviceStateReceiver' = Head(guiQueue).new
        /\ UNCHANGED <<cmdSession, cmdPc>>
    BY <1>6 DEF SwapAssign, command, TypeInv, SwapHasMessage
  <2>2. Len(guiQueue) >= 1 /\ Head(guiQueue) = guiQueue[1]
    BY <2>1, SwapInHand
  <2>3. /\ Len(guiQueue') = Len(guiQueue) - 1
        /\ \A i \in 1 .. Len(guiQueue') :
             i + 1 \in 1 .. Len(guiQueue) /\ guiQueue'[i] = guiQueue[i + 1]
    BY <2>1, <2>2, ReceiverTypes, HeadTailProperties
  <2>4. Posted(mDeviceStateReceiver)'
    BY <2>1, <2>2, ReceiverTypes DEF ReceiverOrder, Posted
  <2>5. \A i \in 1 .. Len(guiQueue') :
          mDeviceStateReceiver' < guiQueue'[i].new /\ Posted(guiQueue[i].new)'
    <3> TAKE i \in 1 .. Len(guiQueue')
    <3>1. 1 \in 1 .. Len(guiQueue) /\ i + 1 \in 1 .. Len(guiQueue) /\ 1 < i + 1
      BY <2>2, <2>3, ReceiverTypes
    <3>2. guiQueue[1].new < guiQueue[i + 1].new /\ Posted(guiQueue[i + 1].new)
      BY <3>1 DEF ReceiverOrder
    <3>q. QED
      BY <3>2, <2>1, <2>2, <2>3 DEF Posted
  <2>6. \A i, j \in 1 .. Len(guiQueue') :
          i < j => guiQueue'[i].new < guiQueue'[j].new
    <3> SUFFICES ASSUME NEW i \in 1 .. Len(guiQueue'),
                        NEW j \in 1 .. Len(guiQueue'), i < j
                 PROVE  guiQueue'[i].new < guiQueue'[j].new
      OBVIOUS
    <3>1. /\ i + 1 \in 1 .. Len(guiQueue) /\ j + 1 \in 1 .. Len(guiQueue)
          /\ i + 1 < j + 1
      BY <2>3
    <3>2. guiQueue[i + 1].new < guiQueue[j + 1].new
      BY <3>1 DEF ReceiverOrder
    <3>q. QED
      BY <3>2, <2>3
  <2>q. QED
    BY <2>4, <2>5, <2>6 DEF ReceiverOrder
<1>7. CASE DestroyStop
  BY <1>7, <1>0 DEF DestroyStop, receiverVars, service, command
<1>8. CASE DestroyUnregister
  BY <1>8, ClearedKeepsOrder DEF DestroyUnregister, command
<1>9. ASSUME NEW s \in Sessions,
             ProcessStep(s) \/ ConnectFails(s) \/ HandleStop(s)
      PROVE  ReceiverOrder'
  BY <1>9, <1>0 DEF ProcessStep, ConfigRejected, EnterConnect, ConnectReady,
     ConnectThrows, ConnectStopped, ThreadFinished, ConnectFails, ProcStep,
     HandleStop, receiverVars, service, command, gui
<1>10. ASSUME NEW t \in Enders, EndLock(t) \/ EndUnregister(t) \/ EndFinish(t)
       PROVE  ReceiverOrder'
  BY <1>10, <1>0 DEF EndLock, EndUnregister, EndFinish, receiverVars, service,
     command, gui
<1>11. ASSUME NEW t \in Enders, EndClear(t)
       PROVE  ReceiverOrder'
  BY <1>11, ClearedKeepsOrder DEF EndClear, command, gui
<1>12. CASE UNCHANGED vars
  BY <1>12, <1>0 DEF vars, receiverVars, service, command, gui
<1>q. QED
  BY <1>1, <1>2, <1>3, <1>4, <1>5, <1>6, <1>7, <1>8, <1>9, <1>10, <1>11,
     <1>12 DEF Next, CommandStep, MainStep, EndStep

LEMMA NextNewIsRegistered ==
    TypeInv /\ ReceiverOrder /\ NewIsRegistered /\ [Next]_vars
        => NewIsRegistered'
<1> SUFFICES ASSUME TypeInv, ReceiverOrder, NewIsRegistered, [Next]_vars
             PROVE  NewIsRegistered'
  OBVIOUS
<1>0. UNCHANGED <<gui, registered>> => NewIsRegistered'
  BY DEF NewIsRegistered, gui
<1>1. CASE Bind \/ OnStartCommand \/ StopVPN \/ OnRevoke
  BY <1>1, <1>0 DEF Bind, OnStartCommand, StopVPN, OnRevoke
<1>2. CASE FetchNoProfile \/ FetchProfile \/ StopOld \/ ForceStop \/ WakeUp
             \/ Instantiate \/ StartThread
  BY <1>2, <1>0 DEF FetchNoProfile, FetchProfile, StopOld, ForceStop, WakeUp,
     Instantiate, StartThread, android
<1>3. CASE PostSwap
  <2>1. /\ UNCHANGED <<guiPc, destroyPc, registered>>
        /\ guiQueue' = Append(guiQueue, [old |-> mDeviceStateReceiver,
                                         new |-> cmdSession])
    BY <1>3 DEF PostSwap, android
  <2>2. [old |-> mDeviceStateReceiver, new |-> cmdSession] \in Swaps
    BY <1>3, OrderTypes DEF PostSwap, Swaps, Idle, TypeInv, TypeOK
  <2>3. CASE guiPc = "assign"
    <3>1. Len(guiQueue) >= 1 /\ Head(guiQueue) = guiQueue[1]
      BY <2>3, SwapInHand DEF TypeInv, SwapHasMessage
    <3>2. Head(guiQueue') = guiQueue'[1] /\ guiQueue'[1] = guiQueue[1]
      BY <3>1, <2>1, <2>2, ReceiverTypes, AppendProperties,
         HeadTailProperties, EmptySeq
    <3>q. QED
      BY <2>1, <3>1, <3>2 DEF NewIsRegistered
  <2>q. QED
    BY <2>1, <2>3 DEF NewIsRegistered
<1>4. CASE SwapRegister
  BY <1>4 DEF SwapRegister, NewIsRegistered
<1>5. CASE SwapAssign
  BY <1>5 DEF SwapAssign, NewIsRegistered, Idle
<1>6. CASE DestroyStop
  BY <1>6 DEF DestroyStop, NewIsRegistered, MainFree, Idle
<1>7. CASE DestroyUnregister
  BY <1>7 DEF DestroyUnregister, NewIsRegistered
<1>8. ASSUME NEW s \in Sessions,
             ProcessStep(s) \/ ConnectFails(s) \/ HandleStop(s)
      PROVE  NewIsRegistered'
  BY <1>8, <1>0 DEF ProcessStep, ConfigRejected, EnterConnect, ConnectReady,
     ConnectThrows, ConnectStopped, ThreadFinished, ConnectFails, ProcStep,
     HandleStop, android
<1>9. ASSUME NEW t \in Enders, EndLock(t) \/ EndClear(t) \/ EndFinish(t)
      PROVE  NewIsRegistered'
  BY <1>9, <1>0 DEF EndLock, EndClear, EndFinish, android
<1>10. ASSUME NEW t \in Enders, EndUnregister(t)
       PROVE  NewIsRegistered'
  <2>1. UNCHANGED gui /\ registered' = Unregister(mDeviceStateReceiver)
    BY <1>10 DEF EndUnregister
  <2>2. guiPc = "assign" => mDeviceStateReceiver # Head(guiQueue).new
    BY SwapInHand, ReceiverTypes DEF TypeInv, SwapHasMessage
  <2>q. QED
    BY <2>1, <2>2 DEF NewIsRegistered, Unregister, gui
<1>11. CASE UNCHANGED vars
  BY <1>11, <1>0 DEF vars, android
<1>q. QED
  BY <1>1, <1>2, <1>3, <1>4, <1>5, <1>6, <1>7, <1>8, <1>9, <1>10, <1>11
     DEF Next, CommandStep, MainStep, EndStep

LEMMA NextFieldIsRegistered ==
    TypeInv /\ NewIsRegistered /\ FieldIsRegistered /\ [Next]_vars
        => FieldIsRegistered'
<1> SUFFICES ASSUME TypeInv, NewIsRegistered, FieldIsRegistered, [Next]_vars
             PROVE  FieldIsRegistered'
  OBVIOUS
<1>e. endPc \in [Enders -> EndStates]
  BY DEF TypeInv, TypeOK
<1>0. ASSUME UNCHANGED <<mDeviceStateReceiver, registered, guiPc>>,
             \A t \in Enders : endPc[t] = "clear" => endPc'[t] = "clear"
      PROVE  FieldIsRegistered'
  BY <1>0 DEF FieldIsRegistered
<1>1. CASE Bind \/ OnStartCommand \/ StopVPN
  BY <1>1, <1>0 DEF Bind, OnStartCommand, StopVPN, service, gui
<1>2. CASE OnRevoke
  BY <1>2, <1>0, <1>e DEF OnRevoke, service, gui, Idle
<1>3. CASE CommandStep
  BY <1>3, <1>0 DEF CommandStep, FetchNoProfile, FetchProfile, StopOld,
     ForceStop, WakeUp, Instantiate, StartThread, PostSwap, service, android,
     gui
<1>4. CASE SwapRegister
  BY <1>4 DEF SwapRegister, FieldIsRegistered, Idle
<1>5. CASE SwapAssign
  BY <1>5 DEF SwapAssign, FieldIsRegistered, NewIsRegistered, android
<1>6. CASE DestroyStop
  BY <1>6, <1>0 DEF DestroyStop, service, android
<1>7. CASE DestroyUnregister
  BY <1>7 DEF DestroyUnregister, FieldIsRegistered
<1>8. ASSUME NEW s \in Sessions, ProcessStep(s) \/ ConnectFails(s)
      PROVE  FieldIsRegistered'
  BY <1>8, <1>0 DEF ProcessStep, ConfigRejected, EnterConnect, ConnectReady,
     ConnectThrows, ConnectStopped, ThreadFinished, ConnectFails, ProcStep,
     service, android, gui
<1>9. ASSUME NEW s \in Sessions, HandleStop(s)
      PROVE  FieldIsRegistered'
  BY <1>9, <1>0, <1>e DEF HandleStop, service, android, gui, Idle
<1>10. ASSUME NEW t \in Enders, EndLock(t) \/ EndFinish(t)
       PROVE  FieldIsRegistered'
  BY <1>10, <1>0, <1>e DEF EndLock, EndFinish, service, android, gui
<1>11. ASSUME NEW t \in Enders, EndUnregister(t)
       PROVE  FieldIsRegistered'
  <2>1. endPc'[t] = "clear"
    BY <1>11, <1>e DEF EndUnregister
  <2>q. QED
    BY <2>1, <1>11 DEF FieldIsRegistered
<1>12. ASSUME NEW t \in Enders, EndClear(t)
       PROVE  FieldIsRegistered'
  BY <1>12 DEF EndClear, FieldIsRegistered
<1>13. CASE UNCHANGED vars
  BY <1>13, <1>0 DEF vars, service, android, gui
<1>q. QED
  BY <1>1, <1>2, <1>3, <1>4, <1>5, <1>6, <1>7, <1>8, <1>9, <1>10, <1>11,
     <1>12, <1>13 DEF Next, MainStep, EndStep

LEMMA OrderInvariant == Spec => [](TypeInv /\ StartOrder)
<1>1. Init => TypeInv /\ StartOrder
  BY InitServiceInv, InitStartOrder DEF ServiceInv
<1>2. TypeInv /\ StartOrder /\ [Next]_vars => (TypeInv /\ StartOrder)'
  BY NextTypeOK, NextStartOrder
<1>q. QED
  BY <1>1, <1>2, PTL DEF Spec

(* The receiver that the field names is one that hears of the network, for *)
(* any number of replaced sessions: it is older than those still to be     *)
(* swapped in, so no end of an old session takes away a new one's.         *)
THEOREM FieldStaysRegistered == Spec => []FieldIsRegistered
<1>1. Init => ReceiverOrder /\ NewIsRegistered /\ FieldIsRegistered
  BY InitReceiverOrder DEF Init, FieldIsRegistered
<1>2. TypeInv /\ StartOrder /\ ReceiverOrder /\ NewIsRegistered
        /\ FieldIsRegistered /\ [Next]_vars
        => (ReceiverOrder /\ NewIsRegistered /\ FieldIsRegistered)'
  BY NextReceiverOrder, NextNewIsRegistered, NextFieldIsRegistered
<1>q. QED
  BY <1>1, <1>2, OrderInvariant, PTL DEF Spec

(* Whoever sets mProcessThread has found mProcessLock free.                *)
THEOREM LockIsRespected == Spec => LockProtectsThread
<1>1. [Next]_vars => [lockHeld => UNCHANGED mProcessThread]_vars
  <2> SUFFICES ASSUME Next, lockHeld
               PROVE  UNCHANGED mProcessThread
    OBVIOUS
  <2>1. CASE Bind \/ OnStartCommand \/ StopVPN \/ OnRevoke
    BY <2>1 DEF Bind, OnStartCommand, StopVPN, OnRevoke, service
  <2>2. CASE CommandStep
    BY <2>2 DEF CommandStep, FetchNoProfile, FetchProfile, StopOld, ForceStop,
       WakeUp, Instantiate, StartThread, PostSwap, service
  <2>3. CASE MainStep
    BY <2>3 DEF MainStep, SwapRegister, SwapAssign, DestroyStop,
       DestroyUnregister, service
  <2>4. ASSUME NEW s \in Sessions,
               ProcessStep(s) \/ ConnectFails(s) \/ HandleStop(s)
        PROVE  UNCHANGED mProcessThread
    BY <2>4 DEF ProcessStep, ConfigRejected, EnterConnect, ConnectReady,
       ConnectThrows, ConnectStopped, ThreadFinished, ConnectFails, ProcStep,
       HandleStop, service
  <2>5. ASSUME NEW t \in Enders, EndStep(t)
        PROVE  UNCHANGED mProcessThread
    BY <2>5 DEF EndStep, EndLock, EndUnregister, EndClear, EndFinish, service
  <2>q. QED
    BY <2>1, <2>2, <2>3, <2>4, <2>5 DEF Next
<1>q. QED
  BY <1>1, PTL DEF Spec, LockProtectsThread

-----------------------------------------------------------------------------
(* The first start, as long as there is no second one.                     *)

(* Nobody talks to a session that was not yet started.                     *)
LaterIdle ==
    /\ mManagement <= cmdSession
    /\ \A s \in Sessions :
         s > startIds => stopQueue[s] = 0 /\ endPc[s] = Idle

Ending == \E t \in Enders : endPc[t] # Idle
Coming == cmdQueue # << >> \/ cmdPc \in PreStart

BeforeStart ==
    startIds = 0 => /\ ~Ending /\ cmdQueue = << >> /\ cmdPc = Idle
                    /\ alive /\ destroyPc = Idle

(* Only the end of the session takes away what it needs.                   *)
FirstIsKept ==
    startIds = 1 =>
        /\ Ending => Asked(1)
        /\ ~Asked(1) /\ (Coming \/ Live(1)) =>
               alive /\ started /\ destroyPc = Idle
        /\ ~Asked(1) /\ (cmdPc # Idle \/ Live(1)) => lastConnected
        /\ ~Asked(1) /\ Live(1) => mProcessThread = 1

KeepInv == ServiceInv /\ StartOrder /\ LaterIdle /\ BeforeStart /\ FirstIsKept

LEMMA InitKeepInv == Init => KeepInv
<1> SUFFICES ASSUME Init PROVE KeepInv
  OBVIOUS
<1>1. ServiceInv /\ StartOrder
  BY InitServiceInv, InitStartOrder
<1>2. LaterIdle /\ BeforeStart
  BY DEF Init, LaterIdle, BeforeStart, Ending, None, Enders
<1>3. FirstIsKept
  BY DEF Init, FirstIsKept
<1>q. QED
  BY <1>1, <1>2, <1>3 DEF KeepInv

(* A stop asked for stays asked for.                                       *)
LEMMA AskedStays ==
    ASSUME TypeInv, [Next]_vars, NEW s \in Sessions, Asked(s)
    PROVE  Asked(s)'
<1>t. stopQueue \in [Sessions -> Nat] /\ stopEffect \in [Sessions -> Effects]
  BY DEF TypeInv, TypeOK
<1>0. UNCHANGED <<stopQueue, stopEffect>> => Asked(s)'
  BY DEF Asked
<1>p. ASSUME NEW r, stopQueue' = PostStop(r), UNCHANGED stopEffect
      PROVE  Asked(s)'
  <2>1. stopQueue[s] > 0 => stopQueue'[s] > 0
    BY <1>p, <1>t DEF PostStop
  <2>q. QED
    BY <2>1, <1>p DEF Asked
<1>1. CASE Bind \/ OnStartCommand
  BY <1>1, <1>0 DEF Bind, OnStartCommand, session
<1>2. CASE StopVPN \/ OnRevoke \/ StopOld \/ DestroyStop
  BY <1>2, <1>0, <1>p DEF StopVPN, OnRevoke, StopOld, DestroyStop
<1>3. CASE FetchNoProfile \/ FetchProfile \/ ForceStop \/ WakeUp
             \/ Instantiate \/ StartThread \/ PostSwap
  BY <1>3, <1>0 DEF FetchNoProfile, FetchProfile, ForceStop, WakeUp,
     Instantiate, StartThread, PostSwap, session
<1>4. CASE SwapRegister \/ SwapAssign \/ DestroyUnregister
  BY <1>4, <1>0 DEF SwapRegister, SwapAssign, DestroyUnregister, session
<1>5. ASSUME NEW r \in Sessions, ProcessStep(r) \/ ConnectFails(r)
      PROVE  Asked(s)'
  BY <1>5, <1>0 DEF ProcessStep, ConfigRejected, EnterConnect, ConnectReady,
     ConnectThrows, ConnectStopped, ThreadFinished, ConnectFails, ProcStep
<1>6. ASSUME NEW r \in Sessions, HandleStop(r)
      PROVE  Asked(s)'
  <2>1. CASE r = s
    BY <2>1, <1>6, <1>t DEF HandleStop, EffectOf, Asked
  <2>2. CASE r # s
    BY <2>2, <1>6, <1>t DEF HandleStop, Asked
  <2>q. QED
    BY <2>1, <2>2
<1>7. ASSUME NEW t \in Enders, EndStep(t)
      PROVE  Asked(s)'
  BY <1>7, <1>0 DEF EndStep, EndLock, EndUnregister, EndClear, EndFinish,
     session
<1>8. CASE UNCHANGED vars
  BY <1>8, <1>0 DEF vars, session
<1>q. QED
  BY <1>1, <1>2, <1>3, <1>4, <1>5, <1>6, <1>7, <1>8 DEF Next, CommandStep,
     MainStep

(* StopVPN, OnRevoke, StopOld and DestroyStop talk to a session that was   *)
(* started.                                                                *)
LEMMA PostKeepsIdle ==
    ASSUME TypeInv, StartOrder, LaterIdle,
           stopQueue' = PostStop(mManagement), UNCHANGED startIds,
           NEW s \in Sessions, s > startIds'
    PROVE  stopQueue'[s] = 0
<1>1. mManagement <= startIds /\ mManagement \in Nat
  BY OrderTypes DEF LaterIdle, StartOrder, TypeInv, TypeOK, MaybeSession,
     None
<1>2. s # mManagement
  BY <1>1, OrderTypes
<1>3. stopQueue \in [Sessions -> Nat]
  BY DEF TypeInv, TypeOK
<1>q. QED
  BY <1>2, <1>3 DEF PostStop, LaterIdle

LEMMA NextLaterIdle ==
    TypeInv /\ StartOrder /\ LaterIdle /\ [Next]_vars => LaterIdle'
<1> SUFFICES ASSUME TypeInv, StartOrder, LaterIdle, [Next]_vars
             PROVE  LaterIdle'
  OBVIOUS
<1>e. endPc \in [Enders -> EndStates] /\ stopQueue \in [Sessions -> Nat]
  BY DEF TypeInv, TypeOK
<1>b. Binder \notin Sessions
  BY DEF Binder, Sessions
<1>0. UNCHANGED <<mManagement, cmdSession, startIds, stopQueue, endPc>>
        => LaterIdle'
  BY DEF LaterIdle
<1>1. CASE Bind
  BY <1>1, <1>0 DEF Bind, service, command, session
<1>2. CASE OnStartCommand
  BY <1>2, OrderTypes DEF OnStartCommand, LaterIdle, service, session
<1>3. CASE StopVPN \/ OnRevoke \/ StopOld \/ DestroyStop
  <2>1. UNCHANGED <<mManagement, cmdSession, startIds>>
    BY <1>3 DEF StopVPN, OnRevoke, StopOld, DestroyStop, service, android,
       command
  <2>2. \A s \in Sessions : endPc'[s] = endPc[s]
    BY <1>3, <1>e, <1>b, Domains DEF StopVPN, OnRevoke, StopOld, DestroyStop
  <2>3. stopQueue' = stopQueue \/ stopQueue' = PostStop(mManagement)
    BY <1>3 DEF StopVPN, OnRevoke, StopOld, DestroyStop
  <2>4. \A s \in Sessions : s > startIds' => stopQueue'[s] = 0
    BY <2>1, <2>3, PostKeepsIdle DEF LaterIdle
  <2>q. QED
    BY <2>1, <2>2, <2>4 DEF LaterIdle
<1>4. CASE FetchNoProfile \/ ForceStop \/ WakeUp \/ StartThread \/ PostSwap
  BY <1>4, <1>0 DEF FetchNoProfile, ForceStop, WakeUp, StartThread, PostSwap,
     service, android, session
<1>5. CASE FetchProfile
  <2>1. cmdSession < cmdSession' /\ cmdSession' \in Nat
    BY <1>5, TailKeepsOrder, OrderTypes DEF FetchProfile, StartOrder
  <2>2. mManagement \in Nat
    BY OrderTypes DEF TypeInv, TypeOK, MaybeSession, None
  <2>3. mManagement' <= cmdSession'
    BY <1>5, <2>1, <2>2, OrderTypes DEF FetchProfile, LaterIdle, service
  <2>q. QED
    BY <1>5, <2>3 DEF FetchProfile, LaterIdle, android, session
<1>6. CASE Instantiate
  <2>1. mManagement' <= cmdSession'
    BY <1>6, OrderTypes DEF Instantiate
  <2>q. QED
    BY <1>6, <2>1 DEF Instantiate, LaterIdle, android, session
<1>7. CASE SwapRegister \/ SwapAssign \/ DestroyUnregister
  BY <1>7, <1>0 DEF SwapRegister, SwapAssign, DestroyUnregister, service,
     android, command, session
<1>8. ASSUME NEW s \in Sessions, ProcessStep(s) \/ ConnectFails(s)
      PROVE  LaterIdle'
  BY <1>8, <1>0 DEF ProcessStep, ConfigRejected, EnterConnect, ConnectReady,
     ConnectThrows, ConnectStopped, ThreadFinished, ConnectFails, ProcStep,
     service, android, command
<1>9. ASSUME NEW s \in Sessions, HandleStop(s)
      PROVE  LaterIdle'
  <2>1. ~(s > startIds)
    BY <1>9 DEF HandleStop, LaterIdle
  <2>2. UNCHANGED <<mManagement, cmdSession, startIds>>
    BY <1>9 DEF HandleStop, service, android, command
  <2>3. \A r \in Sessions :
          r # s => stopQueue'[r] = stopQueue[r] /\ endPc'[r] = endPc[r]
    BY <1>9, <1>e, Domains DEF HandleStop
  <2>q. QED
    BY <2>1, <2>2, <2>3 DEF LaterIdle
<1>10. ASSUME NEW t \in Enders, EndStep(t)
       PROVE  LaterIdle'
  <2>1. endPc[t] # Idle
    BY <1>10 DEF EndStep, EndLock, EndUnregister, EndClear, EndFinish, Idle
  <2>2. UNCHANGED <<mManagement, cmdSession, startIds, stopQueue>>
    BY <1>10 DEF EndStep, EndLock, EndUnregister, EndClear, EndFinish,
       service, android, command, session
  <2>3. \A r \in Sessions : r # t => endPc'[r] = endPc[r]
    BY <1>10, <1>e, Domains DEF EndStep, EndLock, EndUnregister, EndClear,
       EndFinish
  <2>q. QED
    BY <2>1, <2>2, <2>3 DEF LaterIdle
<1>11. CASE UNCHANGED vars
  BY <1>11, <1>0 DEF vars, service, android, command, session
<1>q. QED
  BY <1>1, <1>2, <1>3, <1>4, <1>5, <1>6, <1>7, <1>8, <1>9, <1>10, <1>11
     DEF Next, CommandStep, MainStep

(* A thread belongs to a session that was started.                         *)
LEMMA ThreadIsStarted ==
    ASSUME TypeInv, StartOrder, NEW s \in Sessions, proc[s] # "none"
    PROVE  s <= startIds /\ s <= cmdSession /\ s >= 1
<1>1. s <= cmdSession
  BY OrderTypes DEF StartOrder
<1>q. QED
  BY <1>1, OrderTypes DEF StartOrder, Sessions

LEMMA NextBeforeStart ==
    TypeInv /\ StartOrder /\ LaterIdle /\ BeforeStart /\ [Next]_vars
        => BeforeStart'
<1> SUFFICES ASSUME TypeInv, StartOrder, LaterIdle, BeforeStart, Next
             PROVE  BeforeStart'
  BY DEF BeforeStart, Ending, vars, service, android, command, gui
<1>0. UNCHANGED <<startIds, endPc, cmdQueue, cmdPc, alive, destroyPc>>
        => BeforeStart'
  BY DEF BeforeStart, Ending
<1>n. startIds' # 0 => BeforeStart'
  BY DEF BeforeStart
<1>1. CASE Bind \/ StopVPN
  BY <1>1, <1>0 DEF Bind, StopVPN, command, gui
<1>2. CASE OnStartCommand
  BY <1>2, <1>n, OrderTypes DEF OnStartCommand
<1>3. CASE OnRevoke
  <2>1. PICK s \in Sessions : proc[s] = "ready"
    BY <1>3 DEF OnRevoke
  <2>2. startIds # 0
    BY <2>1, ThreadIsStarted, OrderTypes
  <2>q. QED
    BY <2>2, <1>3, <1>n DEF OnRevoke
<1>4. CASE CommandStep
  <2>1. cmdQueue # << >> \/ cmdPc # Idle
    BY <1>4 DEF CommandStep, FetchNoProfile, FetchProfile, StopOld, ForceStop,
       WakeUp, Instantiate, StartThread, PostSwap, Idle
  <2>2. UNCHANGED startIds
    BY <1>4 DEF CommandStep, FetchNoProfile, FetchProfile, StopOld, ForceStop,
       WakeUp, Instantiate, StartThread, PostSwap, android
  <2>q. QED
    BY <2>1, <2>2 DEF BeforeStart
<1>5. CASE SwapRegister \/ SwapAssign
  BY <1>5, <1>0 DEF SwapRegister, SwapAssign, android, command
<1>6. CASE DestroyStop
  BY <1>6, <1>n, OrderTypes DEF DestroyStop, GoingDown, android
<1>7. CASE DestroyUnregister
  BY <1>7 DEF DestroyUnregister, BeforeStart, Idle
<1>8. ASSUME NEW s \in Sessions, ProcessStep(s) \/ ConnectFails(s)
      PROVE  BeforeStart'
  BY <1>8, <1>0 DEF ProcessStep, ConfigRejected, EnterConnect, ConnectReady,
     ConnectThrows, ConnectStopped, ThreadFinished, ConnectFails, ProcStep,
     android, command, gui
<1>9. ASSUME NEW s \in Sessions, HandleStop(s)
      PROVE  BeforeStart'
  <2>1. ~(s > startIds) /\ s >= 1
    BY <1>9, OrderTypes DEF HandleStop, LaterIdle, Sessions
  <2>q. QED
    BY <2>1, <1>9, <1>n, OrderTypes DEF HandleStop, android
<1>10. ASSUME NEW t \in Enders, EndStep(t)
       PROVE  BeforeStart'
  <2>1. Ending
    BY <1>10 DEF EndStep, EndLock, EndUnregister, EndClear, EndFinish, Idle,
       Ending
  <2>2. UNCHANGED startIds
    BY <1>10 DEF EndStep, EndLock, EndUnregister, EndClear, EndFinish, android
  <2>q. QED
    BY <2>1, <2>2 DEF BeforeStart
<1>q. QED
  BY <1>1, <1>2, <1>3, <1>4, <1>5, <1>6, <1>7, <1>8, <1>9, <1>10
     DEF Next, MainStep

keepVars == <<startIds, alive, started, destroyPc, lastConnected,
              mProcessThread, endPc>>

LEMMA NextFirstIsKept == KeepInv /\ [Next]_vars => FirstIsKept'
<1> SUFFICES ASSUME KeepInv, [Next]_vars, startIds' = 1
             PROVE  FirstIsKept'
  BY DEF FirstIsKept
<1>i. /\ TypeInv /\ StartOrder /\ LaterIdle /\ BeforeStart /\ FirstIsKept
      /\ ReplacedIsAsked
  BY DEF KeepInv, ServiceInv
<1>t. /\ proc \in [Sessions -> ProcStates]
      /\ stopQueue \in [Sessions -> Nat]
  BY <1>i DEF TypeInv, TypeOK
<1>s. 1 \in Sessions
  BY MaxStartAssumption DEF Sessions
<1>a. Asked(1) => Asked(1)'
  BY <1>i, <1>s, AskedStays
<1>d. Asked(1)' => FirstIsKept'
  BY DEF FirstIsKept
(* What is kept as long as the thread and the command thread do not begin  *)
(* anything.                                                               *)
<1>0. ASSUME UNCHANGED keepVars, Live(1)' => Live(1), Coming' => Coming,
             cmdPc' # Idle => cmdPc # Idle
      PROVE  FirstIsKept'
  BY <1>0, <1>a, <1>i DEF FirstIsKept, keepVars, Ending
<1>1. CASE OnStartCommand
  <2>1. startIds = 0 /\ cmdPc = Idle /\ alive /\ destroyPc = Idle /\ ~Ending
    BY <1>1, <1>i, OrderTypes DEF OnStartCommand, BeforeStart
  <2>2. ~(proc[1] # "none")
    BY <2>1, <1>i, <1>s, ThreadIsStarted
  <2>q. QED
    BY <1>1, <2>1, <2>2 DEF OnStartCommand, FirstIsKept, Ending, Live, gui,
       session
<1>2. CASE Bind \/ StopVPN
  BY <1>2, <1>0 DEF Bind, StopVPN, keepVars, service, command, gui, session,
     Coming, Live
<1>3. CASE OnRevoke
  <2>1. PICK s \in Sessions : proc[s] = "ready"
    BY <1>3 DEF OnRevoke
  <2>2. s = 1
    BY <2>1, <1>3, <1>i, ThreadIsStarted, OrderTypes DEF OnRevoke
  <2>3. CASE mManagement = 1
    <3>1. stopQueue'[1] > 0
      BY <2>3, <1>3, <1>t, <1>s DEF OnRevoke, PostStop
    <3>q. QED
      BY <3>1, <1>d DEF Asked
  <2>4. CASE mManagement # 1
    BY <2>1, <2>2, <2>4, <1>i, <1>a, <1>d DEF ReplacedIsAsked
  <2>q. QED
    BY <2>3, <2>4
<1>4. CASE StopOld \/ ForceStop \/ WakeUp \/ Instantiate
  <2>1. cmdPc \in PreStart /\ cmdPc # Idle
    BY <1>4, StatesDiffer DEF StopOld, ForceStop, WakeUp, Instantiate
  <2>2. UNCHANGED keepVars /\ UNCHANGED proc
    BY <1>4 DEF StopOld, ForceStop, WakeUp, Instantiate, keepVars, service,
       android, gui, session
  <2>q. QED
    BY <2>1, <2>2, <1>0 DEF Coming, Live
<1>5. CASE FetchNoProfile \/ FetchProfile
  <2>1. /\ cmdPc = Idle /\ cmdQueue # << >> /\ cmdQueue' = Tail(cmdQueue)
        /\ UNCHANGED <<startIds, alive, destroyPc, proc, endPc>>
    BY <1>5 DEF FetchNoProfile, FetchProfile, android, gui, session
  <2>2. cmdSession < Head(cmdQueue) /\ Head(cmdQueue) <= startIds
    BY <2>1, <1>i, TailKeepsOrder, OrderTypes DEF StartOrder
  <2>3. ~Live(1)
    BY <2>1, <2>2, <1>i, <1>s, ThreadIsStarted, TailKeepsOrder, OrderTypes
       DEF Live
  <2>4. cmdQueue' = << >>
    <3>1. Len(cmdQueue') \in Nat /\ cmdQueue' \in Seq(Sessions)
      BY <2>1, <1>i, HeadTailProperties, OrderTypes, LenProperties
    <3>2. ~(1 \in 1 .. Len(cmdQueue'))
      <4> SUFFICES ASSUME 1 \in 1 .. Len(cmdQueue') PROVE FALSE
        OBVIOUS
      <4>1. Head(cmdQueue) < cmdQueue'[1] /\ cmdQueue'[1] <= startIds
        BY <2>1, <1>i, TailKeepsOrder
      <4>2. cmdQueue'[1] \in Sessions /\ Head(cmdQueue) \in Sessions
        BY <3>1, ElementOfSeq, <2>1, <1>i, TailKeepsOrder
      <4>q. QED
        BY <4>1, <4>2, <2>1, OrderTypes, <1>i DEF Sessions
    <3>q. QED
      BY <3>1, <3>2, EmptySeq
  <2>5. CASE FetchNoProfile
    <3>1. cmdPc' = Idle
      BY <2>5, <2>1 DEF FetchNoProfile
    <3>2. ~Live(1)' /\ ~Coming'
      BY <3>1, <2>1, <2>3, <2>4, StatesDiffer DEF Live, Coming
    <3>q. QED
      BY <3>1, <3>2, <2>1, <1>i, <1>a DEF FirstIsKept, Ending
  <2>6. CASE FetchProfile
    <3>1. UNCHANGED started /\ lastConnected'
      BY <2>6 DEF FetchProfile, android
    <3>2. ~Live(1)' /\ Coming
      BY <2>1, <2>3 DEF Live, Coming
    <3>q. QED
      BY <3>1, <3>2, <2>1, <1>i, <1>a DEF FirstIsKept, Ending
  <2>q. QED
    BY <1>5, <2>5, <2>6
<1>6. CASE StartThread
  <2>1. cmdPc \in PreStart /\ cmdPc # Idle
    BY <1>6, StatesDiffer DEF StartThread
  <2>2. cmdSession = 1
    BY <2>1, <1>6, <1>i, OrderTypes DEF StartThread, StartOrder, android,
       Sessions
  <2>3. /\ UNCHANGED <<startIds, alive, started, destroyPc, lastConnected,
                       endPc>>
        /\ mProcessThread' = 1
    BY <1>6, <2>2 DEF StartThread, android, gui
  <2>q. QED
    BY <2>1, <2>3, <1>i, <1>a DEF FirstIsKept, Ending, Coming
<1>7. CASE PostSwap
  <2>1. cmdPc' \notin PreStart /\ cmdPc' = Idle
    BY <1>7, StatesDiffer DEF PostSwap
  <2>2. UNCHANGED keepVars /\ UNCHANGED <<proc, cmdQueue>>
    BY <1>7 DEF PostSwap, keepVars, service, android, session
  <2>q. QED
    BY <2>1, <2>2, <1>0 DEF Coming, Live
<1>8. CASE SwapRegister \/ SwapAssign
  BY <1>8, <1>0 DEF SwapRegister, SwapAssign, keepVars, service, android,
     command, session, Coming, Live
<1>9. CASE DestroyStop
  <2>1. ~started
    BY <1>9 DEF DestroyStop, GoingDown
  <2>2. UNCHANGED <<startIds, endPc, lastConnected, mProcessThread, proc,
                    cmdQueue, cmdPc>>
    BY <1>9 DEF DestroyStop, service, android, command
  <2>q. QED
    BY <2>1, <2>2, <1>i, <1>a DEF FirstIsKept, Ending, Coming, Live
<1>10. CASE DestroyUnregister
  <2>1. destroyPc # Idle
    BY <1>10 DEF DestroyUnregister, Idle
  <2>2. UNCHANGED <<startIds, endPc, lastConnected, mProcessThread, proc,
                    cmdQueue, cmdPc>>
    BY <1>10 DEF DestroyUnregister, command, session
  <2>q. QED
    BY <2>1, <2>2, <1>i, <1>a DEF FirstIsKept, Ending, Coming, Live
<1>11. ASSUME NEW s \in Sessions, ProcessStep(s) \/ ConnectFails(s)
       PROVE  FirstIsKept'
  <2>1. Live(1)' => Live(1)
    BY <1>11, <1>t, <1>s DEF ProcessStep, ConfigRejected, EnterConnect,
       ConnectReady, ConnectThrows, ConnectStopped, ThreadFinished,
       ConnectFails, ProcStep, Live
  <2>2. UNCHANGED <<keepVars, command>>
    BY <1>11 DEF ProcessStep, ConfigRejected, EnterConnect, ConnectReady,
       ConnectThrows, ConnectStopped, ThreadFinished, ConnectFails, ProcStep,
       keepVars, service, android, gui
  <2>q. QED
    BY <2>1, <2>2, <1>0 DEF Coming, command
<1>12. ASSUME NEW s \in Sessions, HandleStop(s)
       PROVE  FirstIsKept'
  <2>1. s = 1
    BY <1>12, <1>i, OrderTypes DEF HandleStop, LaterIdle, Sessions, android
  <2>2. stopQueue[1] > 0
    BY <2>1, <1>12 DEF HandleStop
  <2>q. QED
    BY <2>2, <1>a, <1>d DEF Asked
<1>13. ASSUME NEW t \in Enders, EndStep(t)
       PROVE  FirstIsKept'
  <2>1. Ending
    BY <1>13 DEF EndStep, EndLock, EndUnregister, EndClear, EndFinish, Idle,
       Ending
  <2>2. UNCHANGED startIds
    BY <1>13 DEF EndStep, EndLock, EndUnregister, EndClear, EndFinish, android
  <2>q. QED
    BY <2>1, <2>2, <1>i, <1>a, <1>d DEF FirstIsKept
<1>14. CASE UNCHANGED vars
  BY <1>14, <1>0 DEF vars, keepVars, service, android, command, gui, session,
     Coming, Live
<1>q. QED
  BY <1>1, <1>2, <1>3, <1>4, <1>5, <1>6, <1>7, <1>8, <1>9, <1>10, <1>11,
     <1>12, <1>13, <1>14 DEF Next, CommandStep, MainStep

(* With a single start the service keeps the session it runs until         *)
(* somebody asks it to stop: whoever runs endVpnService was asked first.   *)
THEOREM FirstSessionKept == Spec => []KeptUntilAsked
<1>1. Init => KeepInv
  BY InitKeepInv
<1>2. KeepInv /\ [Next]_vars => KeepInv'
  BY NextServiceInv, NextStartOrder, NextLaterIdle, NextBeforeStart,
     NextFirstIsKept DEF KeepInv, ServiceInv
<1>3. KeepInv => KeptUntilAsked
  <2> SUFFICES ASSUME KeepInv, startIds <= 1,
                      NEW s \in Sessions, Live(s), ~Asked(s)
               PROVE  alive /\ started /\ lastConnected /\ mProcessThread = s
    BY DEF KeptUntilAsked
  <2>1. TypeInv /\ StartOrder /\ FirstIsKept
    BY DEF KeepInv, ServiceInv
  <2>2. s = 1 /\ startIds = 1
    BY <2>1, ThreadIsStarted, OrderTypes DEF Live
  <2>q. QED
    BY <2>1, <2>2 DEF FirstIsKept
<1>q. QED
  BY <1>1, <1>2, <1>3, PTL DEF Spec

-----------------------------------------------------------------------------
(***************************************************************************)
(* UiFlow: the application.                                                *)
(***************************************************************************)

(* Every step of the composition is a step of the service or none.         *)
LEMMA UiStepIsStep == [UiNext]_uiVars => [Next]_vars
<1> SUFFICES ASSUME [UiNext]_uiVars PROVE Next \/ UNCHANGED vars
  OBVIOUS
<1>1. CASE Toggle \/ ChooseServer
  BY <1>1 DEF Toggle, ChooseServer, AskStop, Connect, Next
<1>2. CASE Leave \/ ServiceConnected \/ Reconnect \/ Show
  BY <1>2 DEF Leave, ServiceConnected, Reconnect, Show
<1>3. CASE Deliver
  BY <1>3 DEF Deliver, Next
<1>4. CASE StopNow \/ SwitchNow
  BY <1>4 DEF StopNow, SwitchNow, StopAfterDelay, Next
<1>5. CASE UiCommandStep
  BY <1>5 DEF UiCommandStep, NoProfile, Next, CommandStep
<1>6. CASE UiMainStep
  BY <1>6 DEF UiMainStep, Next
<1>7. ASSUME NEW s \in Sessions,
             UiProcessStep(s) \/ ReactorEnds(s) \/ UiHandleStop(s)
      PROVE  Next
  BY <1>7 DEF UiProcessStep, ConfigRefused, ThreadEnds, ReactorEnds,
     UiHandleStop, Next, ProcessStep
<1>8. ASSUME NEW s \in Sessions, Trying(s) \/ Connected(s)
      PROVE  UNCHANGED vars
  BY <1>8 DEF Trying, Connected
<1>9. ASSUME NEW t \in Enders, UiEndStep(t)
      PROVE  Next
  BY <1>9 DEF UiEndStep, Next
<1>10. CASE UNCHANGED uiVars
  BY <1>10 DEF uiVars
<1>q. QED
  BY <1>1, <1>2, <1>3, <1>4, <1>5, <1>6, <1>7, <1>8, <1>9, <1>10 DEF UiNext

(* Every action of UiNext contains one of OpenVPNService or leaves its     *)
(* variables alone, so what is proved of the service can be used here.     *)
LEMMA UiServiceSpec == UiSpec => Spec
<1>1. UiInit => Init
  BY DEF UiInit
<1>2. [UiNext]_uiVars => [Next]_vars
  BY UiStepIsStep
<1>q. QED
  BY <1>1, <1>2, PTL DEF UiSpec, Spec

LEMMA UiService == UiSpec => [](TypeInv /\ StartOrder)
  BY UiServiceSpec, OrderInvariant, PTL

-----------------------------------------------------------------------------
(* Types.                                                                  *)

ShownLevels == Levels \ {"busy"}

(* Every coroutine and every intent stems from a tap of its own.           *)
TapsCover ==
    waits["stop"] + waits["switch"] + waits["reconnect"] + intents <= taps

StatusTypes == level \in Levels /\ updates \in Seq(ShownLevels)

CountTypes == /\ waits \in [Waits -> Nat]
              /\ intents \in Nat
              /\ taps \in 0 .. MaxTap
              /\ TapsCover

OwnTypes == /\ StatusTypes /\ CountTypes
            /\ shown \in {"rest", "connecting", "connected"}
            /\ mService \in BOOLEAN
            /\ silent \in SUBSET Sessions

counts == <<waits, intents, taps>>

LEMMA LevelsAre ==
    /\ "notconnected" \in ShownLevels /\ "start" \in ShownLevels
    /\ "connected" \in ShownLevels /\ "busy" \notin ShownLevels
    /\ ShownLevels \subseteq Levels /\ "busy" \in Levels
    /\ \A l \in Levels : l # "busy" => l \in ShownLevels
    /\ \A l \in ShownLevels :
         Face(l) \in {"rest", "connecting", "connected"}
  BY DEF ShownLevels, Levels, Face

LEMMA AnnounceTypes ==
    ASSUME StatusTypes, NEW l \in Levels, Announce(l)
    PROVE  StatusTypes'
<1>1. CASE l = "busy"
  BY <1>1 DEF StatusTypes, Announce
<1>2. CASE l # "busy"
  <2>1. l \in ShownLevels
    BY <1>2, LevelsAre
  <2>2. updates' \in Seq(ShownLevels)
    BY <1>2, <2>1, AppendProperties DEF StatusTypes, Announce
  <2>q. QED
    BY <2>2 DEF StatusTypes, Announce
<1>q. QED
  BY <1>1, <1>2

LEMMA InitOwnTypes == UiInit => OwnTypes
<1> SUFFICES ASSUME UiInit PROVE OwnTypes
  OBVIOUS
<1>1. StatusTypes
  BY LevelsAre DEF UiInit, StatusTypes
<1>2. CountTypes
  BY MaxTapAssumption DEF UiInit, CountTypes, TapsCover, Waits
<1>q. QED
  BY <1>1, <1>2 DEF UiInit, OwnTypes

LEMMA NextCountTypes == CountTypes /\ [UiNext]_uiVars => CountTypes'
<1> SUFFICES ASSUME CountTypes, [UiNext]_uiVars PROVE CountTypes'
  OBVIOUS
<1>0. UNCHANGED counts => CountTypes'
  BY DEF CountTypes, TapsCover, counts
<1>w. "stop" \in Waits /\ "switch" \in Waits /\ "reconnect" \in Waits
      /\ waits["stop"] \in Nat /\ waits["switch"] \in Nat
      /\ waits["reconnect"] \in Nat
  BY DEF Waits, CountTypes
<1>1. CASE Toggle \/ ChooseServer
  <2>1. taps' = taps + 1 /\ taps' \in 0 .. MaxTap
    BY <1>1, MaxTapAssumption DEF Toggle, ChooseServer, UserActs, CountTypes
  <2>2. ASSUME NEW w \in {"stop", "switch"},
               waits' = [waits EXCEPT ![w] = @ + 1], UNCHANGED intents
        PROVE  CountTypes'
    <3>1. waits' \in [Waits -> Nat]
      BY <2>2, <1>w DEF CountTypes
    <3>2. waits'[w] = waits[w] + 1
          /\ \A v \in Waits : v # w => waits'[v] = waits[v]
      BY <2>2, <1>w DEF CountTypes
    <3>3. TapsCover'
      BY <3>2, <2>1, <2>2, <1>w DEF CountTypes, TapsCover
    <3>q. QED
      BY <3>1, <3>3, <2>1, <2>2 DEF CountTypes
  <2>3. ASSUME intents' \in {intents, intents + 1}, UNCHANGED waits
        PROVE  CountTypes'
    BY <2>3, <2>1, <1>w DEF CountTypes, TapsCover
  <2>q. QED
    BY <1>1, <2>2, <2>3 DEF Toggle, ChooseServer, AskStop, Connect
<1>2. CASE Leave
  <2>1. taps' = taps + 1 /\ taps' \in 0 .. MaxTap
    BY <1>2, MaxTapAssumption DEF Leave, CountTypes
  <2>q. QED
    BY <1>2, <2>1, <1>w DEF Leave, CountTypes, TapsCover
<1>3. CASE StopNow
  <2>1. \A v \in Waits : waits'[v] = waits[v] - (IF v = "stop" THEN 1 ELSE 0)
    BY <1>3, <1>w DEF StopNow, StopAfterDelay, CountTypes
  <2>2. waits["stop"] > 0
    BY <1>3 DEF StopNow, StopAfterDelay
  <2>3. waits' \in [Waits -> Nat]
    <3>1. \A v \in Waits : waits'[v] \in Nat
      BY <2>1, <2>2 DEF CountTypes
    <3>q. QED
      BY <3>1, <1>3 DEF StopNow, StopAfterDelay
  <2>4. UNCHANGED <<intents, taps>>
    BY <1>3 DEF StopNow, StopAfterDelay
  <2>q. QED
    BY <2>1, <2>3, <2>4, <1>w DEF CountTypes, TapsCover
<1>4. CASE SwitchNow
  <2>1. \A v \in Waits :
          waits'[v] = waits[v] + (IF v = "reconnect" THEN 1 ELSE 0)
                               - (IF v = "switch" THEN 1 ELSE 0)
    BY <1>4, <1>w DEF SwitchNow, StopAfterDelay, CountTypes
  <2>2. waits["switch"] > 0
    BY <1>4 DEF SwitchNow, StopAfterDelay
  <2>3. waits' \in [Waits -> Nat]
    <3>1. \A v \in Waits : waits'[v] \in Nat
      BY <2>1, <2>2 DEF CountTypes
    <3>q. QED
      BY <3>1, <1>4 DEF SwitchNow, StopAfterDelay
  <2>4. UNCHANGED <<intents, taps>>
    BY <1>4 DEF SwitchNow, StopAfterDelay
  <2>q. QED
    BY <2>1, <2>3, <2>4, <1>w DEF CountTypes, TapsCover
<1>5. CASE Reconnect
  <2>1. waits' \in [Waits -> Nat] /\ waits'["reconnect"] = waits["reconnect"] - 1
        /\ \A v \in Waits : v # "reconnect" => waits'[v] = waits[v]
    BY <1>5, <1>w DEF Reconnect, CountTypes
  <2>2. intents' \in {intents, intents + 1} /\ UNCHANGED taps
    BY <1>5 DEF Reconnect
  <2>q. QED
    BY <2>1, <2>2, <1>w DEF CountTypes, TapsCover
<1>6. CASE Deliver
  <2>1. intents > 0 /\ intents' = intents - 1 /\ UNCHANGED <<waits, taps>>
    BY <1>6 DEF Deliver
  <2>q. QED
    BY <2>1, <1>w DEF CountTypes, TapsCover
<1>7. CASE ServiceConnected \/ Show
  BY <1>7, <1>0 DEF ServiceConnected, Show, counts
<1>8. CASE UiCommandStep \/ UiMainStep
  BY <1>8, <1>0 DEF UiCommandStep, NoProfile, UiMainStep, UiUnchanged,
     screenVars, counts
<1>9. ASSUME NEW s \in Sessions,
             \/ UiProcessStep(s) \/ ReactorEnds(s) \/ Trying(s)
             \/ Connected(s) \/ UiHandleStop(s)
      PROVE  CountTypes'
  BY <1>9, <1>0 DEF UiProcessStep, ConfigRefused, ThreadEnds, ReactorEnds,
     Trying, Connected, UiHandleStop, UiUnchanged, screenVars, counts
<1>10. ASSUME NEW t \in Enders, UiEndStep(t)
       PROVE  CountTypes'
  BY <1>10, <1>0 DEF UiEndStep, UiUnchanged, screenVars, counts
<1>11. CASE UNCHANGED uiVars
  BY <1>11, <1>0 DEF uiVars, screenVars, counts
<1>q. QED
  BY <1>1, <1>2, <1>3, <1>4, <1>5, <1>6, <1>7, <1>8, <1>9, <1>10, <1>11
     DEF UiNext

LEMMA NextOwnTypes == TypeInv /\ OwnTypes /\ [UiNext]_uiVars => OwnTypes'
<1> SUFFICES ASSUME TypeInv, OwnTypes, [UiNext]_uiVars PROVE OwnTypes'
  OBVIOUS
<1>c. CountTypes'
  BY NextCountTypes DEF OwnTypes
<1>0. ASSUME StatusTypes', UNCHANGED <<shown, mService, silent>>
      PROVE  OwnTypes'
  BY <1>0, <1>c DEF OwnTypes
<1>u. UNCHANGED status => StatusTypes'
  BY DEF OwnTypes, StatusTypes, status
<1>a. ASSUME NEW l \in Levels, Announce(l)
      PROVE  StatusTypes'
  BY <1>a, AnnounceTypes DEF OwnTypes
<1>1. CASE Toggle \/ ChooseServer
  BY <1>1, <1>0, <1>u DEF Toggle, ChooseServer
<1>2. CASE StopNow \/ SwitchNow \/ Reconnect
  BY <1>2, <1>0, <1>u DEF StopNow, SwitchNow, StopAfterDelay, Reconnect
<1>3. CASE Leave
  <2>1. updates' \in Seq(ShownLevels)
    <3>1. CASE level = "busy"
      BY <3>1, <1>3 DEF Leave
    <3>2. CASE level # "busy"
      <4>1. level \in ShownLevels
        BY <3>2, LevelsAre DEF OwnTypes, StatusTypes
      <4>q. QED
        BY <4>1, <3>2, <1>3 DEF Leave
    <3>q. QED
      BY <3>1, <3>2
  <2>q. QED
    BY <2>1, <1>3, <1>c DEF Leave, OwnTypes, StatusTypes
<1>4. CASE ServiceConnected
  BY <1>4, <1>c, <1>u DEF ServiceConnected, OwnTypes
<1>5. CASE Deliver
  <2>1. "start" \in Levels
    BY LevelsAre
  <2>q. QED
    BY <2>1, <1>5, <1>a, <1>0 DEF Deliver
<1>6. CASE Show
  <2>1. Head(updates) \in ShownLevels /\ Tail(updates) \in Seq(ShownLevels)
    BY <1>6, HeadTailProperties DEF Show, OwnTypes, StatusTypes
  <2>2. shown' \in {"rest", "connecting", "connected"}
    BY <2>1, <1>6, LevelsAre DEF Show
  <2>q. QED
    BY <2>1, <2>2, <1>6, <1>c DEF Show, OwnTypes, StatusTypes
<1>7. CASE UiCommandStep
  <2>1. CASE NoProfile
    <3>1. Head(cmdQueue) \in Sessions
      BY <2>1, HeadTailProperties DEF NoProfile, FetchNoProfile, TypeInv,
         TypeOK
    <3>2. UNCHANGED <<status, shown, mService>>
      BY <2>1 DEF NoProfile, screenVars
    <3>q. QED
      BY <3>1, <3>2, <2>1, <1>c, <1>u DEF NoProfile, OwnTypes
  <2>2. CASE UiUnchanged
    BY <2>2, <1>0, <1>u DEF UiUnchanged, screenVars
  <2>q. QED
    BY <1>7, <2>1, <2>2 DEF UiCommandStep
<1>8. CASE UiMainStep
  BY <1>8, <1>0, <1>u DEF UiMainStep, UiUnchanged, screenVars
<1>9. ASSUME NEW s \in Sessions, UiProcessStep(s) \/ ReactorEnds(s)
      PROVE  OwnTypes'
  <2>1. CASE ConfigRefused(s)
    BY <2>1, <1>c, <1>u DEF ConfigRefused, OwnTypes, screenVars
  <2>2. CASE ThreadEnds(s) \/ ReactorEnds(s)
    <3>1. "notconnected" \in Levels
      BY LevelsAre
    <3>q. QED
      BY <3>1, <2>2, <1>a, <1>0 DEF ThreadEnds, ReactorEnds, screenVars
  <2>3. CASE UiUnchanged
    BY <2>3, <1>0, <1>u DEF UiUnchanged, screenVars
  <2>q. QED
    BY <1>9, <2>1, <2>2, <2>3 DEF UiProcessStep
<1>10. ASSUME NEW s \in Sessions, Trying(s) \/ Connected(s)
       PROVE  OwnTypes'
  <2>1. "busy" \in Levels /\ "connected" \in Levels
    BY LevelsAre
  <2>q. QED
    BY <2>1, <1>10, <1>a, <1>0 DEF Trying, Connected, screenVars
<1>11. ASSUME NEW s \in Sessions, UiHandleStop(s)
       PROVE  OwnTypes'
  BY <1>11, <1>0, <1>u DEF UiHandleStop, UiUnchanged, screenVars
<1>12. ASSUME NEW t \in Enders, UiEndStep(t)
       PROVE  OwnTypes'
  BY <1>12, <1>0, <1>u DEF UiEndStep, UiUnchanged, screenVars
<1>13. CASE UNCHANGED uiVars
  BY <1>13, <1>0, <1>u DEF uiVars, screenVars
<1>q. QED
  BY <1>1, <1>2, <1>3, <1>4, <1>5, <1>6, <1>7, <1>8, <1>9, <1>10, <1>11,
     <1>12, <1>13 DEF UiNext

LEMMA OwnInvariant == UiSpec => [](TypeInv /\ OwnTypes)
<1>1. UiInit => OwnTypes
  BY InitOwnTypes
<1>2. TypeInv /\ OwnTypes /\ [UiNext]_uiVars => OwnTypes'
  BY NextOwnTypes
<1>q. QED
  BY <1>1, <1>2, UiService, PTL DEF UiSpec

(* The counters of coroutines and intents stay within the taps that are    *)
(* their cause, and every update waiting is one that the button shows.     *)
THEOREM UiTypeCorrect == UiSpec => []UiTypeOK
<1>1. TypeInv /\ OwnTypes => UiTypeOK
  <2> SUFFICES ASSUME TypeInv, OwnTypes PROVE UiTypeOK
    OBVIOUS
  <2>1. "stop" \in Waits /\ "switch" \in Waits /\ "reconnect" \in Waits
    BY DEF Waits
  <2>2. waits["stop"] \in Nat /\ waits["switch"] \in Nat
        /\ waits["reconnect"] \in Nat /\ intents \in Nat /\ TapsCover
        /\ taps \in 0 .. MaxTap
    BY <2>1 DEF OwnTypes, CountTypes
  <2>3. /\ waits["stop"] \in 0 .. MaxTap /\ waits["switch"] \in 0 .. MaxTap
        /\ waits["reconnect"] \in 0 .. MaxTap /\ intents \in 0 .. MaxTap
    BY <2>2, MaxTapAssumption DEF TapsCover
  <2>4. waits \in [Waits -> 0 .. MaxTap]
    BY <2>3 DEF OwnTypes, CountTypes, Waits
  <2>q. QED
    BY <2>2, <2>3, <2>4 DEF UiTypeOK, TypeInv, OwnTypes, StatusTypes,
       ShownLevels
<1>q. QED
  BY <1>1, OwnInvariant, PTL

-----------------------------------------------------------------------------
(* The button.                                                             *)

(* The last update waiting, or else the button, is that of the level.      *)
LastIsLevel ==
    level # "busy" => IF updates = << >> THEN shown = Face(level)
                      ELSE updates[Len(updates)] = level

LEMMA NextLastIsLevel ==
    OwnTypes /\ LastIsLevel /\ [UiNext]_uiVars => LastIsLevel'
<1> SUFFICES ASSUME OwnTypes, LastIsLevel, [UiNext]_uiVars
             PROVE  LastIsLevel'
  OBVIOUS
<1>u. updates \in Seq(ShownLevels) /\ Len(updates) \in Nat
  BY LenProperties DEF OwnTypes, StatusTypes
<1>0. UNCHANGED <<level, updates, shown>> => LastIsLevel'
  BY DEF LastIsLevel
<1>a. ASSUME NEW l \in Levels, Announce(l)
      PROVE  LastIsLevel'
  <2>1. CASE l = "busy"
    BY <2>1, <1>a DEF Announce, LastIsLevel
  <2>2. CASE l # "busy"
    <3>1. l \in ShownLevels
      BY <2>2, LevelsAre
    <3>2. /\ Len(updates') = Len(updates) + 1
          /\ updates'[Len(updates) + 1] = l /\ updates' # << >>
      BY <3>1, <2>2, <1>a, <1>u, AppendProperties DEF Announce
    <3>q. QED
      BY <3>2, <1>a DEF Announce, LastIsLevel
  <2>q. QED
    BY <2>1, <2>2
<1>1. CASE Toggle \/ ChooseServer \/ ServiceConnected \/ StopNow \/ SwitchNow
             \/ Reconnect
  BY <1>1, <1>0 DEF Toggle, ChooseServer, ServiceConnected, StopNow, SwitchNow,
     StopAfterDelay, Reconnect, status
<1>2. CASE Leave
  <2>1. CASE level = "busy"
    BY <2>1, <1>2 DEF Leave, LastIsLevel
  <2>2. CASE level # "busy"
    <3>1. updates' = <<level>> /\ level' = level
      BY <2>2, <1>2 DEF Leave
    <3>2. updates' # << >> /\ Len(updates') = 1 /\ updates'[1] = level
      BY <3>1
    <3>q. QED
      BY <3>1, <3>2 DEF LastIsLevel
  <2>q. QED
    BY <2>1, <2>2
<1>3. CASE Deliver
  BY <1>3, <1>a, LevelsAre DEF Deliver
<1>4. CASE Show
  <2>1. /\ updates # << >> /\ updates' = Tail(updates) /\ level' = level
        /\ shown' = Face(Head(updates))
    BY <1>4 DEF Show
  <2>2. /\ Len(updates) >= 1 /\ Head(updates) = updates[1]
        /\ Len(updates') = Len(updates) - 1
        /\ \A i \in 1 .. Len(updates') : updates'[i] = updates[i + 1]
    BY <2>1, <1>u, HeadTailProperties, EmptySeq
  <2>3. CASE Len(updates) = 1
    <3>1. updates' = << >>
      BY <2>1, <2>2, <2>3, <1>u, HeadTailProperties, EmptySeq
    <3>q. QED
      BY <3>1, <2>1, <2>2, <2>3 DEF LastIsLevel
  <2>4. CASE Len(updates) > 1
    <3>1. updates' # << >> /\ updates'[Len(updates')] = updates[Len(updates)]
      <4>1. Len(updates') \in 1 .. Len(updates')
        BY <2>2, <2>4, <1>u
      <4>2. updates'[Len(updates')] = updates[Len(updates') + 1]
        BY <4>1, <2>2
      <4>3. Len(updates') + 1 = Len(updates)
        BY <2>2, <1>u
      <4>q. QED
        BY <4>2, <4>3, <2>2, <2>4, <1>u, EmptySeq
    <3>q. QED
      BY <3>1, <2>1 DEF LastIsLevel
  <2>q. QED
    BY <2>2, <2>3, <2>4, <1>u
<1>5. CASE UiCommandStep \/ UiMainStep
  BY <1>5, <1>0 DEF UiCommandStep, NoProfile, UiMainStep, UiUnchanged,
     screenVars, status
<1>6. ASSUME NEW s \in Sessions, UiProcessStep(s) \/ ReactorEnds(s)
      PROVE  LastIsLevel'
  <2>1. CASE ThreadEnds(s) \/ ReactorEnds(s)
    BY <2>1, <1>a, LevelsAre DEF ThreadEnds, ReactorEnds
  <2>2. CASE ConfigRefused(s) \/ UiUnchanged
    BY <2>2, <1>0 DEF ConfigRefused, UiUnchanged, screenVars, status
  <2>q. QED
    BY <1>6, <2>1, <2>2 DEF UiProcessStep
<1>7. ASSUME NEW s \in Sessions, Trying(s) \/ Connected(s)
      PROVE  LastIsLevel'
  BY <1>7, <1>a, LevelsAre DEF Trying, Connected
<1>8. ASSUME NEW s \in Sessions, UiHandleStop(s)
      PROVE  LastIsLevel'
  BY <1>8, <1>0 DEF UiHandleStop, UiUnchanged, screenVars, status
<1>9. ASSUME NEW t \in Enders, UiEndStep(t)
      PROVE  LastIsLevel'
  BY <1>9, <1>0 DEF UiEndStep, UiUnchanged, screenVars, status
<1>10. CASE UNCHANGED uiVars
  BY <1>10, <1>0 DEF uiVars, screenVars, status
<1>q. QED
  BY <1>1, <1>2, <1>3, <1>4, <1>5, <1>6, <1>7, <1>8, <1>9, <1>10 DEF UiNext

(* However many updates wait and however often the activity is created     *)
(* anew, the button ends up showing the level.                             *)
THEOREM ButtonShowsLevel == UiSpec => []ShownIsLevel
<1>1. UiInit => LastIsLevel
  BY DEF UiInit, LastIsLevel, Face
<1>2. OwnTypes /\ LastIsLevel /\ [UiNext]_uiVars => LastIsLevel'
  BY NextLastIsLevel
<1>3. LastIsLevel => ShownIsLevel
  BY DEF LastIsLevel, ShownIsLevel
<1>q. QED
  BY <1>1, <1>2, <1>3, OwnInvariant, PTL DEF UiSpec

-----------------------------------------------------------------------------
(* A session that runs under an inactive status.                           *)

Ended(r) == proc[r] \in {"finishing", "exited"}

(* A start under way set the status to LEVEL_START; only the end of a      *)
(* session can have hidden it since.                                       *)
ComingIsShown == Coming /\ ~Active => \E r \in Sessions : Ended(r)

LEMMA ThreadsGoOn ==
    ASSUME TypeInv, NEW s \in Sessions, ProcessStep(s) \/ ConnectFails(s)
    PROVE  /\ \A r \in Sessions : /\ Ended(r) => Ended(r)'
                                  /\ Live(r)' => Live(r)
           /\ UNCHANGED <<command, startIds>>
<1>1. UNCHANGED <<command, startIds>>
  BY DEF ProcessStep, ConfigRejected, EnterConnect, ConnectReady,
     ConnectThrows, ConnectStopped, ThreadFinished, ConnectFails, ProcStep,
     android
<1>2. ASSUME NEW r \in Sessions
      PROVE  (Ended(r) => Ended(r)') /\ (Live(r)' => Live(r))
  BY DEF ProcessStep, ConfigRejected, EnterConnect, ConnectReady,
     ConnectThrows, ConnectStopped, ThreadFinished, ConnectFails, ProcStep,
     Ended, Live, TypeInv, TypeOK
<1>q. QED
  BY <1>1, <1>2

LEMMA NextRunningIsShown ==
    TypeInv /\ StartOrder /\ ComingIsShown /\ RunningIsShown
      /\ [UiNext]_uiVars => ComingIsShown' /\ RunningIsShown'
<1> SUFFICES ASSUME TypeInv, StartOrder, ComingIsShown, RunningIsShown,
                    [UiNext]_uiVars
             PROVE  ComingIsShown' /\ RunningIsShown'
  OBVIOUS
<1>0. ASSUME UNCHANGED proc, Coming' => Coming, Active => Active'
      PROVE  ComingIsShown' /\ RunningIsShown'
  BY <1>0 DEF ComingIsShown, RunningIsShown, Ended, Live
<1>1. CASE Toggle \/ ChooseServer
  BY <1>1, <1>0 DEF Toggle, ChooseServer, AskStop, Connect, Bind, vars,
     command, session, status, Coming, Active
<1>2. CASE Leave \/ ServiceConnected \/ Reconnect \/ Show
  BY <1>2, <1>0 DEF Leave, ServiceConnected, Reconnect, Show, vars, command,
     session, status, Coming, Active
<1>3. CASE StopNow \/ SwitchNow
  BY <1>3, <1>0 DEF StopNow, SwitchNow, StopAfterDelay, StopVPN, vars,
     command, session, status, Coming, Active
<1>4. CASE Deliver
  <2>1. Active'
    BY <1>4 DEF Deliver, Announce, Active
  <2>q. QED
    BY <2>1 DEF ComingIsShown, RunningIsShown
<1>5. CASE UiCommandStep
  <2>1. UNCHANGED level
    BY <1>5 DEF UiCommandStep, NoProfile, UiUnchanged, status
  <2>2. CASE NoProfile \/ FetchProfile
    <3>1. cmdQueue # << >> /\ UNCHANGED proc
      BY <2>2 DEF NoProfile, FetchNoProfile, FetchProfile, session
    <3>q. QED
      BY <3>1, <2>1, <1>0 DEF Coming, Active
  <2>3. CASE StopOld \/ ForceStop \/ WakeUp \/ Instantiate
    <3>1. cmdPc \in PreStart /\ UNCHANGED proc
      BY <2>3, StatesDiffer DEF StopOld, ForceStop, WakeUp, Instantiate,
         session
    <3>q. QED
      BY <3>1, <2>1, <1>0 DEF Coming, Active
  <2>4. CASE StartThread
    <3>1. Coming /\ proc[cmdSession] = "none" /\ cmdSession \in Sessions
      BY <2>4, StatesDiffer, OrderTypes DEF StartThread, Coming, StartOrder
    <3>2. \A r \in Sessions : r # cmdSession => proc'[r] = proc[r]
      BY <2>4 DEF StartThread, TypeInv, TypeOK
    <3>3. \A r \in Sessions : Ended(r) => r # cmdSession /\ Ended(r)'
      BY <3>1, <3>2 DEF Ended
    <3>4. ComingIsShown'
      BY <3>1, <3>3, <2>1 DEF ComingIsShown, Active
    <3>5. ASSUME NEW s \in Sessions, Live(s)', ~Active'
          PROVE  \E r \in Sessions \ {s} : Ended(r)'
      <4>1. CASE s = cmdSession
        BY <4>1, <3>1, <3>3, <3>5, <2>1 DEF ComingIsShown, Active
      <4>2. CASE s # cmdSession
        <5>1. Live(s)
          BY <4>2, <3>2, <3>5 DEF Live
        <5>2. PICK r \in Sessions \ {s} : Ended(r)
          BY <5>1, <3>5, <2>1 DEF RunningIsShown, Active, Ended
        <5>q. QED
          BY <5>2, <3>3
      <4>q. QED
        BY <4>1, <4>2
    <3>q. QED
      BY <3>4, <3>5 DEF RunningIsShown, Ended
  <2>5. CASE PostSwap
    <3>1. cmdPc' \notin PreStart /\ UNCHANGED <<proc, cmdQueue>>
      BY <2>5, StatesDiffer DEF PostSwap, session
    <3>q. QED
      BY <3>1, <2>1, <1>0 DEF Coming, Active
  <2>q. QED
    BY <1>5, <2>2, <2>3, <2>4, <2>5 DEF UiCommandStep
<1>6. CASE UiMainStep
  BY <1>6, <1>0 DEF UiMainStep, MainStep, SwapRegister, SwapAssign,
     DestroyStop, DestroyUnregister, UiUnchanged, status, command, session,
     Coming, Active
<1>7. ASSUME NEW s \in Sessions, UiProcessStep(s) \/ ReactorEnds(s)
      PROVE  ComingIsShown' /\ RunningIsShown'
  <2>1. /\ \A r \in Sessions : (Ended(r) => Ended(r)') /\ (Live(r)' => Live(r))
        /\ UNCHANGED command
    BY <1>7, ThreadsGoOn DEF UiProcessStep, ConfigRefused, ThreadEnds,
       ReactorEnds, ProcessStep
  <2>2. CASE ThreadEnds(s) \/ ReactorEnds(s)
    <3>1. proc'[s] \in {"finishing", "exited"}
      BY <2>2 DEF ThreadEnds, ReactorEnds, ThreadFinished, ConnectStopped,
         ConnectFails, ProcStep, TypeInv, TypeOK
    <3>2. \A q \in Sessions : Live(q)' => s \in Sessions \ {q}
      BY <3>1 DEF Live
    <3>q. QED
      BY <3>1, <3>2 DEF ComingIsShown, RunningIsShown, Ended
  <2>3. CASE ConfigRefused(s) \/ UiUnchanged
    <3>1. UNCHANGED level
      BY <2>3 DEF ConfigRefused, UiUnchanged, status
    <3>2. ComingIsShown'
      BY <3>1, <2>1 DEF ComingIsShown, Coming, Active, command
    <3>3. ASSUME NEW q \in Sessions, Live(q)', ~Active'
          PROVE  \E r \in Sessions \ {q} : Ended(r)'
      BY <3>1, <3>3, <2>1 DEF RunningIsShown, Active, Ended
    <3>q. QED
      BY <3>2, <3>3 DEF RunningIsShown, Ended
  <2>q. QED
    BY <1>7, <2>2, <2>3 DEF UiProcessStep
<1>8. ASSUME NEW s \in Sessions, Trying(s) \/ Connected(s)
      PROVE  ComingIsShown' /\ RunningIsShown'
  BY <1>8 DEF Trying, Connected, Announce, Active, ComingIsShown,
     RunningIsShown
<1>9. ASSUME NEW s \in Sessions, UiHandleStop(s)
      PROVE  ComingIsShown' /\ RunningIsShown'
  BY <1>9, <1>0 DEF UiHandleStop, HandleStop, UiUnchanged, status, command,
     Coming, Active
<1>10. ASSUME NEW t \in Enders, UiEndStep(t)
       PROVE  ComingIsShown' /\ RunningIsShown'
  BY <1>10, <1>0 DEF UiEndStep, EndStep, EndLock, EndUnregister, EndClear,
     EndFinish, UiUnchanged, status, command, session, Coming, Active
<1>11. CASE UNCHANGED uiVars
  BY <1>11, <1>0 DEF uiVars, vars, status, command, session, Coming, Active
<1>q. QED
  BY <1>1, <1>2, <1>3, <1>4, <1>5, <1>6, <1>7, <1>8, <1>9, <1>10, <1>11
     DEF UiNext

(* With any number of sessions, a session runs under a button that offers  *)
(* to connect only if another one has ended since.                         *)
THEOREM HiddenByAnotherEnd == UiSpec => []RunningIsShown
<1>1. UiInit => ComingIsShown /\ RunningIsShown
  <2> SUFFICES ASSUME UiInit PROVE ComingIsShown /\ RunningIsShown
    OBVIOUS
  <2>1. ~Coming
    BY StatesDiffer DEF UiInit, Init, Coming
  <2>q. QED
    BY <2>1 DEF UiInit, Init, ComingIsShown, RunningIsShown, Live
<1>2. TypeInv /\ StartOrder /\ ComingIsShown /\ RunningIsShown
        /\ [UiNext]_uiVars => ComingIsShown' /\ RunningIsShown'
  BY NextRunningIsShown
<1>q. QED
  BY <1>1, <1>2, UiService, PTL DEF UiSpec

-----------------------------------------------------------------------------
(* An active status.                                                       *)

(* The levels of a session under way come from a thread that has not       *)
(* announced its end.                                                      *)
BusyIsReal ==
    level \in {"busy", "connected"} =>
        \E s \in Sessions : proc[s] \in {"setup", "ready", "finishing"}

(* LEVEL_START stands for the newest start: queued, being worked on, with  *)
(* a thread, or ended without a status.                                    *)
Queued(s) == \E i \in 1 .. Len(cmdQueue) : cmdQueue[i] = s
Prepared(s) == cmdPc \in PreStart /\ cmdSession = s
Running(s) == s \in Sessions /\ proc[s] \in {"config", "setup", "ready",
                                             "finishing"}
StartIsReal ==
    level = "start" =>
        \/ Queued(startIds) \/ Prepared(startIds) \/ Running(startIds)
        \/ startIds \in silent

realVars == <<level, silent, startIds, cmdQueue, cmdPc, cmdSession, proc>>

LEMMA FetchKeepsReal ==
    ASSUME TypeInv, StartOrder, StartIsReal, cmdPc = Idle,
           cmdQueue # << >>, cmdQueue' = Tail(cmdQueue),
           UNCHANGED <<level, startIds, proc>>,
           silent \subseteq silent',
           \/ Head(cmdQueue) \in silent'
           \/ cmdPc' \in PreStart /\ cmdSession' = Head(cmdQueue)
    PROVE  StartIsReal'
<1> SUFFICES ASSUME level = "start", ~(startIds \in silent'),
                    ~Running(startIds)
             PROVE  Queued(startIds)' \/ Prepared(startIds)'
  BY DEF StartIsReal, Running
<1>1. Queued(startIds)
  BY StatesDiffer DEF StartIsReal, Prepared
<1>2. PICK i \in 1 .. Len(cmdQueue) : cmdQueue[i] = startIds
  BY <1>1 DEF Queued
<1>3. CASE i = 1
  BY <1>2, <1>3, TailKeepsOrder DEF Prepared
<1>4. CASE i # 1
  <2>1. i - 1 \in 1 .. Len(cmdQueue')
    BY <1>4, TailKeepsOrder, OrderTypes
  <2>2. cmdQueue'[i - 1] = cmdQueue[(i - 1) + 1]
    BY <2>1, TailKeepsOrder
  <2>q. QED
    BY <1>2, <2>1, <2>2 DEF Queued
<1>q. QED
  BY <1>3, <1>4

LEMMA NextActiveIsReal ==
    TypeInv /\ StartOrder /\ BusyIsReal /\ StartIsReal /\ [UiNext]_uiVars
        => BusyIsReal' /\ StartIsReal'
<1> SUFFICES ASSUME TypeInv, StartOrder, BusyIsReal, StartIsReal,
                    [UiNext]_uiVars
             PROVE  BusyIsReal' /\ StartIsReal'
  OBVIOUS
<1>t. proc \in [Sessions -> ProcStates]
  BY DEF TypeInv, TypeOK
<1>0. UNCHANGED realVars => BusyIsReal' /\ StartIsReal'
  BY DEF realVars, BusyIsReal, StartIsReal, Queued, Prepared, Running
<1>1. CASE Toggle \/ ChooseServer
  BY <1>1, <1>0 DEF Toggle, ChooseServer, AskStop, Connect, Bind, vars,
     command, session, android, status, realVars
<1>2. CASE Leave \/ ServiceConnected \/ Reconnect \/ Show
  BY <1>2, <1>0 DEF Leave, ServiceConnected, Reconnect, Show, vars, command,
     session, android, status, realVars
<1>3. CASE StopNow \/ SwitchNow
  BY <1>3, <1>0 DEF StopNow, SwitchNow, StopAfterDelay, StopVPN, vars,
     command, session, android, status, realVars
<1>4. CASE Deliver
  <2>1. /\ cmdQueue' = Append(cmdQueue, startIds') /\ startIds' = startIds + 1
        /\ level' = "start" /\ startIds < MaxStart
    BY <1>4 DEF Deliver, OnStartCommand, Announce
  <2>2. startIds' \in Sessions
    BY <2>1, OrderTypes, MaxStartAssumption DEF Sessions
  <2>3. Len(cmdQueue') = Len(cmdQueue) + 1
        /\ cmdQueue'[Len(cmdQueue) + 1] = startIds'
    BY <2>1, <2>2, OrderTypes, AppendProperties
  <2>4. Len(cmdQueue) + 1 \in 1 .. Len(cmdQueue')
    BY <2>3, OrderTypes
  <2>q. QED
    BY <2>1, <2>3, <2>4 DEF BusyIsReal, StartIsReal, Queued
<1>5. CASE UiCommandStep
  <2>1. UNCHANGED level
    BY <1>5 DEF UiCommandStep, NoProfile, UiUnchanged, status
  <2>2. CASE NoProfile
    <3>1. /\ cmdPc = Idle /\ cmdQueue # << >> /\ cmdQueue' = Tail(cmdQueue)
          /\ UNCHANGED <<startIds, proc>>
          /\ silent' = silent \cup {Head(cmdQueue)}
      BY <2>2 DEF NoProfile, FetchNoProfile, session
    <3>q. QED
      BY <2>1, <3>1, FetchKeepsReal DEF BusyIsReal
  <2>3. CASE FetchProfile /\ UiUnchanged
    <3>1. /\ cmdPc = Idle /\ cmdQueue # << >> /\ cmdQueue' = Tail(cmdQueue)
          /\ UNCHANGED <<startIds, proc, silent>>
          /\ cmdPc' \in PreStart /\ cmdSession' = Head(cmdQueue)
      BY <2>3, StatesDiffer DEF FetchProfile, UiUnchanged, session, android
    <3>q. QED
      BY <2>1, <3>1, FetchKeepsReal DEF BusyIsReal
  <2>4. CASE (StopOld \/ ForceStop \/ WakeUp \/ Instantiate) /\ UiUnchanged
    <3>1. cmdPc' \in PreStart
      BY <2>4, StatesDiffer DEF StopOld, ForceStop, WakeUp, Instantiate
    <3>2. UNCHANGED <<silent, startIds, cmdQueue, cmdSession, proc>>
      BY <2>4 DEF StopOld, ForceStop, WakeUp, Instantiate, UiUnchanged,
         session, android
    <3>q. QED
      BY <2>1, <3>1, <3>2 DEF BusyIsReal, StartIsReal, Queued, Prepared,
         Running
  <2>5. CASE StartThread /\ UiUnchanged
    <3>1. /\ cmdSession \in Sessions /\ proc[cmdSession] = "none"
          /\ proc' = [proc EXCEPT ![cmdSession] = "config"]
          /\ UNCHANGED <<silent, startIds, cmdQueue, cmdSession>>
      BY <2>5, StatesDiffer, OrderTypes DEF StartThread, StartOrder,
         UiUnchanged, android
    <3>2. proc'[cmdSession] = "config"
          /\ \A s \in Sessions : s # cmdSession => proc'[s] = proc[s]
      BY <3>1, <1>t
    <3>3. BusyIsReal'
      BY <2>1, <3>1, <3>2 DEF BusyIsReal
    <3>4. \A s : Prepared(s) \/ Running(s) => Running(s)'
      BY <3>1, <3>2 DEF Prepared, Running
    <3>q. QED
      BY <2>1, <3>1, <3>3, <3>4 DEF StartIsReal, Queued
  <2>6. CASE PostSwap /\ UiUnchanged
    <3>1. /\ UNCHANGED <<silent, startIds, cmdQueue, cmdSession, proc>>
          /\ cmdPc \notin PreStart
      BY <2>6, StatesDiffer DEF PostSwap, UiUnchanged, session, android
    <3>q. QED
      BY <2>1, <3>1 DEF BusyIsReal, StartIsReal, Queued, Prepared, Running
  <2>q. QED
    BY <1>5, <2>2, <2>3, <2>4, <2>5, <2>6 DEF UiCommandStep
<1>6. CASE UiMainStep
  BY <1>6, <1>0 DEF UiMainStep, MainStep, SwapRegister, SwapAssign,
     DestroyStop, DestroyUnregister, UiUnchanged, status, command, session,
     android, realVars
<1>7. ASSUME NEW s \in Sessions, UiProcessStep(s) \/ ReactorEnds(s)
      PROVE  BusyIsReal' /\ StartIsReal'
  <2>1. CASE ThreadEnds(s) \/ ReactorEnds(s)
    BY <2>1 DEF ThreadEnds, ReactorEnds, Announce, BusyIsReal, StartIsReal
  <2>2. CASE ConfigRefused(s)
    <3>1. /\ proc[s] = "config" /\ proc' = [proc EXCEPT ![s] = "exited"]
          /\ silent' = silent \cup {s}
          /\ UNCHANGED <<level, startIds, cmdQueue, cmdPc, cmdSession>>
      BY <2>2 DEF ConfigRefused, ConfigRejected, ProcStep, android, command,
         status
    <3>2. \A r \in Sessions : r # s => proc'[r] = proc[r]
      BY <3>1, <1>t
    <3>3. BusyIsReal'
      BY <3>1, <3>2 DEF BusyIsReal
    <3>4. \A r : Running(r) => Running(r)' \/ r \in silent'
      BY <3>1, <3>2 DEF Running
    <3>q. QED
      BY <3>1, <3>3, <3>4 DEF StartIsReal, Queued, Prepared
  <2>3. CASE (EnterConnect(s) \/ ConnectReady(s) \/ ConnectThrows(s))
               /\ UiUnchanged
    <3>1. /\ proc[s] \in {"config", "setup"}
          /\ UNCHANGED <<level, silent, startIds, cmdQueue, cmdPc, cmdSession>>
      BY <2>3 DEF EnterConnect, ConnectReady, ConnectThrows, ProcStep,
         UiUnchanged, android, command, status
    <3>2. /\ proc'[s] \in {"setup", "ready", "finishing"}
          /\ \A r \in Sessions : r # s => proc'[r] = proc[r]
      BY <2>3, <1>t DEF EnterConnect, ConnectReady, ConnectThrows, ProcStep
    <3>3. BusyIsReal'
      BY <3>1, <3>2 DEF BusyIsReal
    <3>4. \A r : Running(r) => Running(r)'
      BY <3>1, <3>2 DEF Running
    <3>q. QED
      BY <3>1, <3>3, <3>4 DEF StartIsReal, Queued, Prepared
  <2>q. QED
    BY <1>7, <2>1, <2>2, <2>3 DEF UiProcessStep
<1>8. ASSUME NEW s \in Sessions, Trying(s) \/ Connected(s)
      PROVE  BusyIsReal' /\ StartIsReal'
  <2>1. /\ proc'[s] \in {"setup", "ready", "finishing"}
        /\ level' # "start"
    BY <1>8 DEF Trying, Connected, Announce, vars, session
  <2>q. QED
    BY <2>1 DEF BusyIsReal, StartIsReal
<1>9. ASSUME NEW s \in Sessions, UiHandleStop(s)
      PROVE  BusyIsReal' /\ StartIsReal'
  BY <1>9, <1>0 DEF UiHandleStop, HandleStop, UiUnchanged, status, command,
     android, realVars
<1>10. ASSUME NEW t \in Enders, UiEndStep(t)
       PROVE  BusyIsReal' /\ StartIsReal'
  BY <1>10, <1>0 DEF UiEndStep, EndStep, EndLock, EndUnregister, EndClear,
     EndFinish, UiUnchanged, status, command, session, android, realVars
<1>11. CASE UNCHANGED uiVars
  BY <1>11, <1>0 DEF uiVars, vars, status, command, session, android,
     realVars
<1>q. QED
  BY <1>1, <1>2, <1>3, <1>4, <1>5, <1>6, <1>7, <1>8, <1>9, <1>10, <1>11
     DEF UiNext

(* An active status stands for a start or a session under way, or is the   *)
(* LEVEL_START of a newest start that ended without a status.              *)
THEOREM ActiveStatusIsReal == UiSpec => []ActiveIsReal
<1>1. UiInit => BusyIsReal /\ StartIsReal
  BY DEF UiInit, BusyIsReal, StartIsReal
<1>2. TypeInv /\ StartOrder /\ BusyIsReal /\ StartIsReal
        /\ [UiNext]_uiVars => BusyIsReal' /\ StartIsReal'
  BY NextActiveIsReal
<1>3. TypeInv /\ StartOrder /\ OwnTypes /\ BusyIsReal /\ StartIsReal
        => ActiveIsReal
  <2> SUFFICES ASSUME TypeInv, OwnTypes, BusyIsReal, StartIsReal, Active,
                      ~(level = "start" /\ startIds \in silent)
               PROVE  \/ cmdQueue # << >> \/ cmdPc # Idle
                      \/ \E s \in Sessions : Live(s) \/ proc[s] = "finishing"
    BY DEF ActiveIsReal
  <2>1. CASE level = "start"
    <3>1. Queued(startIds) => cmdQueue # << >>
      BY EmptySeq, OrderTypes DEF Queued
    <3>2. Prepared(startIds) => cmdPc # Idle
      BY StatesDiffer DEF Prepared
    <3>q. QED
      BY <2>1, <3>1, <3>2 DEF StartIsReal, Running, Live
  <2>2. CASE level \in {"busy", "connected"}
    BY <2>2 DEF BusyIsReal, Live
  <2>q. QED
    BY <2>1, <2>2 DEF OwnTypes, StatusTypes, Levels, Active
<1>q. QED
  BY <1>1, <1>2, <1>3, UiService, OwnInvariant, PTL DEF UiSpec
=============================================================================
