------------------------ MODULE ClientConnect_proofs ------------------------
(***************************************************************************)
(* What holds of a native session for every generation counter and every   *)
(* number of calls from foreign threads; and that it implements            *)
(* NativeSession, as long as the generation counter has not come round.    *)
(***************************************************************************)
EXTENDS ClientConnect, SequenceTheorems, TLAPS

-----------------------------------------------------------------------------
(* Nothing happens after stop().                                           *)

SetupIsLive == phase = "setup" => ~halt

HaltInv == HaltIsFinal /\ SetupIsLive

LEMMA NextHaltInv == HaltInv /\ [Next]_vars => HaltInv'
<1> SUFFICES ASSUME HaltInv, [Next]_vars
             PROVE  HaltInv'
  OBVIOUS
<1> USE DEF HaltInv, HaltIsFinal, SetupIsLive, Active, flags, timers
<1>1. CASE Start
  BY <1>1 DEF Start, NewClient
<1>2. CASE RunReactor
  BY <1>2 DEF RunReactor
<1>3. CASE RunHandler
  <2> DEFINE q == Tail(posted)
  <2>0. Rest /\ Reactor
    BY <1>3 DEF RunHandler
  <2>1. CASE Stop(q)
    BY <2>0, <2>1 DEF Stop, Rest, Reactor
  <2>2. CASE Pause(q)
    BY <2>0, <2>2 DEF Pause, Rest, Reactor
  <2>3. CASE Resume(q)
    BY <2>0, <2>3 DEF Resume, NewClient, Ignore, Rest, Reactor
  <2>4. CASE Reconnect(q)
    BY <2>0, <2>4 DEF Reconnect, RestartLater, Ignore, Rest, Reactor
  <2>5. CASE ResolveDone(q)
    BY <2>0, <2>5 DEF ResolveDone, NewClient, Ignore, Rest, Reactor
  <2>6. ASSUME NEW gen, RestartCallback(q, gen)
        PROVE  HaltInv'
    BY <2>0, <2>6 DEF RestartCallback, Resume, NewClient, Ignore, Rest,
                      Reactor
  <2>7. ASSUME NEW gen, PollCallback(q, gen)
        PROVE  HaltInv'
    BY <2>0, <2>7 DEF PollCallback, NewClient, Ignore, Rest, Reactor
  <2>q. QED
    BY <1>3, <2>1, <2>2, <2>3, <2>4, <2>5, <2>6, <2>7
       DEF RunHandler, ConnCallback
<1>4. CASE RunReturns
  BY <1>4 DEF RunReturns
<1>5. CASE RestartExpires
  BY <1>5 DEF RestartExpires, Rest
<1>6. CASE PollExpires
  BY <1>6 DEF PollExpires, Rest
<1>7. CASE ConnExpires
  BY <1>7 DEF ConnExpires, Rest
<1>8. CASE Resolved
  BY <1>8 DEF Resolved, Rest
<1>9. ASSUME NEW h, ForeignCall(h)
      PROVE  HaltInv'
  BY <1>9 DEF ForeignCall
<1>10. CASE ForeignStop
  BY <1>10 DEF ForeignStop
<1>11. CASE FirstPacket
  BY <1>11 DEF FirstPacket, Rest
<1>12. CASE Connected
  BY <1>12 DEF Connected, Rest
<1>13. CASE TerminateRetry
  BY <1>13 DEF TerminateRetry, RestartLater, Rest
<1>14. CASE TerminateFatal
  BY <1>14 DEF TerminateFatal, Stop, Rest, Reactor
<1>15. CASE UNCHANGED vars
  BY <1>15 DEF vars
<1>q. QED
  BY <1>1, <1>2, <1>3, <1>4, <1>5, <1>6, <1>7, <1>8, <1>9, <1>10, <1>11,
     <1>12, <1>13, <1>14, <1>15 DEF Next, ReactorStep

(* Once stop() has run there is no protocol session, no timer and no later *)
(* event, whatever handlers were still in the queue of the reactor.        *)
THEOREM HaltedStaysDown == Spec => []HaltIsFinal
<1>1. Init => HaltInv
  BY DEF Init, HaltInv, HaltIsFinal, SetupIsLive
<1>2. HaltInv => HaltIsFinal
  BY DEF HaltInv
<1>q. QED
  BY <1>1, <1>2, NextHaltInv, PTL DEF Spec

-----------------------------------------------------------------------------
(* Types.                                                                  *)

LEMMA SuccessorType == ASSUME NEW g \in Gens PROVE Successor(g) \in Gens \ {0}
  BY MaxGenAssumption DEF Gens, Successor

LEMMA TailType == posted \in Seq(Handlers) /\ posted # << >> =>
                    Tail(posted) \in Seq(Handlers) /\ Head(posted) \in Handlers
  BY HeadTailProperties

(* The variables the methods of ClientConnect write, whatever the queue.   *)
MethodTypes ==
    /\ posted' \in Seq(Handlers)
    /\ generation' \in Gens /\ halt' \in BOOLEAN /\ paused' \in BOOLEAN
    /\ client' \in ClientStates /\ packet' \in BOOLEAN
    /\ resolving' \in BOOLEAN /\ work' \in BOOLEAN
    /\ restartTimer' \in Gens \cup {Off} /\ pollTimer' \in Gens \cup {Off}
    /\ connTimer' \in BOOLEAN /\ connPending' \in BOOLEAN

LEMMA StopTypes ==
    ASSUME TypeOK, NEW q \in Seq(Handlers), Stop(q)
    PROVE  MethodTypes
<1>1. /\ halt' \in BOOLEAN /\ client' \in ClientStates
      /\ resolving' \in BOOLEAN /\ work' \in BOOLEAN
  BY DEF TypeOK, Stop, ClientStates
<1>2. /\ restartTimer' \in Gens \cup {Off} /\ pollTimer' \in Gens \cup {Off}
      /\ connTimer' \in BOOLEAN /\ connPending' \in BOOLEAN
  BY DEF TypeOK, Stop, timers
<1>q. QED
  BY <1>1, <1>2 DEF TypeOK, Stop, MethodTypes

LEMMA PauseTypes ==
    ASSUME TypeOK, NEW q \in Seq(Handlers), Pause(q)
    PROVE  MethodTypes
<1>1. paused' \in BOOLEAN /\ client' \in ClientStates /\ work' \in BOOLEAN
  BY DEF TypeOK, Pause, ClientStates
<1>2. /\ restartTimer' \in Gens \cup {Off} /\ pollTimer' \in Gens \cup {Off}
      /\ connTimer' \in BOOLEAN /\ connPending' \in BOOLEAN
  BY DEF TypeOK, Pause, timers
<1>q. QED
  BY <1>1, <1>2 DEF TypeOK, Pause, MethodTypes

LEMMA NewClientTypes ==
    ASSUME TypeOK, NEW q \in Seq(Handlers), NEW p \in BOOLEAN, NewClient(q, p)
    PROVE  MethodTypes
<1>1. generation' \in Gens
  BY SuccessorType DEF TypeOK, NewClient
<1>2. /\ restartTimer' \in Gens \cup {Off} /\ pollTimer' \in Gens \cup {Off}
      /\ connPending' \in BOOLEAN
  BY <1>1 DEF NewClient
<1>3. connTimer' \in BOOLEAN
  BY DEF TypeOK, NewClient
<1>4. client' \in ClientStates /\ packet' \in BOOLEAN /\ work' \in BOOLEAN
  BY DEF NewClient, ClientStates
<1>q. QED
  BY <1>1, <1>2, <1>3, <1>4 DEF TypeOK, NewClient, MethodTypes

LEMMA IgnoreTypes ==
    ASSUME TypeOK, NEW q \in Seq(Handlers), Ignore(q)
    PROVE  MethodTypes
  BY DEF TypeOK, Ignore, MethodTypes, flags, timers

LEMMA RestartLaterTypes ==
    ASSUME TypeOK, NEW q \in Seq(Handlers), RestartLater(q),
           client' \in ClientStates
    PROVE  MethodTypes
  BY DEF TypeOK, RestartLater, MethodTypes, flags

LEMMA ResumeTypes ==
    ASSUME TypeOK, NEW q \in Seq(Handlers), Resume(q)
    PROVE  MethodTypes
  BY NewClientTypes, IgnoreTypes DEF Resume

LEMMA MethodKeepsTypes ==
    ASSUME TypeOK, MethodTypes, Rest
    PROVE  TypeOK'
  BY DEF TypeOK, MethodTypes, Rest

LEMMA NextTypeOK == TypeOK /\ [Next]_vars => TypeOK'
<1> SUFFICES ASSUME TypeOK, [Next]_vars
             PROVE  TypeOK'
  OBVIOUS
<1> USE DEF TypeOK
<1>1. CASE Start
  <2>0. posted \in Seq(Handlers) /\ paused \in BOOLEAN /\ Rest
    BY <1>1 DEF Start, Rest
  <2>1. CASE Resolves
    <3>1. MethodTypes
      BY <1>1, <2>1 DEF Start, MethodTypes, flags, timers
    <3>q. QED
      BY <2>0, <3>1, MethodKeepsTypes
  <2>2. CASE ~Resolves
    <3>1. NewClient(posted, paused)
      BY <1>1, <2>2 DEF Start
    <3>q. QED
      BY <2>0, <3>1, NewClientTypes, MethodKeepsTypes
  <2>q. QED
    BY <2>1, <2>2
<1>2. CASE RunReactor
  BY <1>2 DEF RunReactor, flags, timers
<1>3. CASE RunHandler
  <2> DEFINE q == Tail(posted)
  <2>0. Rest /\ q \in Seq(Handlers) /\ paused \in BOOLEAN
    BY <1>3, TailType DEF RunHandler
  <2>1. Stop(q) => MethodTypes
    BY <2>0, StopTypes
  <2>2. Pause(q) => MethodTypes
    BY <2>0, PauseTypes
  <2>3. Resume(q) => MethodTypes
    BY <2>0, ResumeTypes
  <2>4. Reconnect(q) => MethodTypes
    BY <2>0, RestartLaterTypes, IgnoreTypes DEF Reconnect
  <2>5. ResolveDone(q) => MethodTypes
    BY <2>0, NewClientTypes, IgnoreTypes DEF ResolveDone
  <2>6. ASSUME NEW gen, RestartCallback(q, gen)
        PROVE  MethodTypes
    BY <2>0, <2>3, <2>6, NewClientTypes, IgnoreTypes DEF RestartCallback
  <2>7. ASSUME NEW gen, PollCallback(q, gen)
        PROVE  MethodTypes
    BY <2>0, <2>7, NewClientTypes, IgnoreTypes DEF PollCallback
  <2>8. MethodTypes
    BY <1>3, <2>1, <2>2, <2>3, <2>4, <2>5, <2>6, <2>7
       DEF RunHandler, ConnCallback
  <2>q. QED
    BY <2>0, <2>8, MethodKeepsTypes
<1>4. CASE RunReturns
  BY <1>4 DEF RunReturns, flags, timers
<1>5. CASE RestartExpires
  <2>1. [h |-> "restart", gen |-> restartTimer] \in Handlers
    BY <1>5 DEF RestartExpires, Handlers
  <2>q. QED
    BY <1>5, <2>1 DEF RestartExpires, Post, Rest, flags
<1>6. CASE PollExpires
  <2>1. [h |-> "poll", gen |-> pollTimer] \in Handlers
    BY <1>6 DEF PollExpires, Handlers
  <2>q. QED
    BY <1>6, <2>1 DEF PollExpires, Post, Rest, flags
<1>7. CASE ConnExpires
  <2>1. [h |-> "conn"] \in Handlers
    BY DEF Handlers
  <2>2. posted' \in Seq(Handlers)
    BY <1>7, <2>1, AppendProperties DEF ConnExpires, Post
  <2>3. connTimer' \in BOOLEAN
    BY <1>7 DEF ConnExpires
  <2>q. QED
    BY <1>7, <2>2, <2>3 DEF ConnExpires, Rest, flags
<1>8. CASE Resolved
  <2>1. [h |-> "resolved"] \in Handlers
    BY DEF Handlers
  <2>2. posted' \in Seq(Handlers)
    BY <1>8, <2>1, AppendProperties DEF Resolved, Post
  <2>3. resolving' \in BOOLEAN
    BY <1>8 DEF Resolved
  <2>q. QED
    BY <1>8, <2>2, <2>3 DEF Resolved, Rest, flags, timers
<1>9. ASSUME NEW h \in {"pause", "resume", "reconnect"}, ForeignCall(h)
      PROVE  TypeOK'
  BY <1>9 DEF ForeignCall, Post, Handlers, flags, timers
<1>10. CASE ForeignStop
  BY <1>10 DEF ForeignStop, Post, Handlers, flags, timers
<1>11. CASE FirstPacket
  BY <1>11 DEF FirstPacket, Rest, flags, timers
<1>12. CASE Connected
  BY <1>12 DEF Connected, Rest, ClientStates, flags
<1>13. CASE TerminateRetry
  <2>1. client' \in ClientStates /\ posted \in Seq(Handlers)
    BY <1>13 DEF TerminateRetry, ClientStates
  <2>q. QED
    BY <1>13, <2>1, RestartLaterTypes, MethodKeepsTypes DEF TerminateRetry
<1>14. CASE TerminateFatal
  BY <1>14, StopTypes, MethodKeepsTypes DEF TerminateFatal
<1>15. CASE UNCHANGED vars
  BY <1>15 DEF vars, flags, timers
<1>q. QED
  BY <1>1, <1>2, <1>3, <1>4, <1>5, <1>6, <1>7, <1>8, <1>9, <1>10, <1>11,
     <1>12, <1>13, <1>14, <1>15 DEF Next, ReactorStep

LEMMA InitTypeOK == Init => TypeOK
<1> SUFFICES ASSUME Init PROVE TypeOK
  OBVIOUS
<1>1. posted \in Seq(Handlers)
  BY DEF Init
<1>2. generation \in Gens
  BY MaxGenAssumption DEF Init, Gens
<1>q. QED
  BY <1>1, <1>2 DEF Init, TypeOK, ClientStates

(* Every flag, timer and queued handler keeps its type; the generation     *)
(* counter stays within its width.                                         *)
THEOREM TypeCorrect == Spec => []TypeOK
  BY InitTypeOK, NextTypeOK, PTL DEF Spec

-----------------------------------------------------------------------------
(* The session keeps trying.                                               *)

(* Handler x will create a protocol session when it runs at generation g.  *)
WillTry(x, g) == \/ x = [h |-> "restart", gen |-> g]
                 \/ g = 0 /\ x = [h |-> "resolved"]
TryQueued(q, g) == \E i \in 1 .. Len(q) : WillTry(q[i], g)

Trying == \/ Active
          \/ resolving /\ generation = 0
          \/ restartTimer = generation
          \/ TryQueued(posted, generation)

Begun == phase # "setup" \/ generation > 0 \/ resolving

TryInv == /\ TypeOK
          /\ Begun /\ ~halt => Trying \/ work
          /\ work => paused

LEMMA TailKeepsTry ==
    ASSUME posted \in Seq(Handlers), posted # << >>, NEW g,
           TryQueued(posted, g), ~WillTry(Head(posted), g)
    PROVE  TryQueued(Tail(posted), g)
<1>1. PICK i \in 1 .. Len(posted) : WillTry(posted[i], g)
  BY DEF TryQueued
<1>2. Head(posted) = posted[1] /\ Len(Tail(posted)) = Len(posted) - 1
  BY HeadTailProperties
<1>3. i # 1
  BY <1>1, <1>2
<1>4. Len(posted) \in Nat
  BY LenProperties
<1>5. i - 1 \in 1 .. Len(Tail(posted))
  BY <1>2, <1>3, <1>4
<1>6. Tail(posted)[i - 1] = posted[i]
  BY <1>2, <1>4, <1>5, HeadTailProperties
<1>q. QED
  BY <1>1, <1>5, <1>6 DEF TryQueued

LEMMA AppendKeepsTry ==
    ASSUME posted \in Seq(Handlers), NEW x \in Handlers, NEW g,
           TryQueued(posted, g) \/ WillTry(x, g)
    PROVE  TryQueued(Append(posted, x), g)
<1>1. /\ Len(Append(posted, x)) = Len(posted) + 1
      /\ \A i \in 1 .. Len(posted) : Append(posted, x)[i] = posted[i]
      /\ Append(posted, x)[Len(posted) + 1] = x
  BY AppendProperties
<1>2. Len(posted) \in Nat
  BY LenProperties
<1>q. QED
  BY <1>1, <1>2 DEF TryQueued

LEMMA NextTryInv == TryInv /\ [Next]_vars => TryInv'
<1> SUFFICES ASSUME TryInv, [Next]_vars
             PROVE  TryInv'
  OBVIOUS
<1>0. TypeOK /\ TypeOK'
  BY NextTypeOK DEF TryInv
<1> USE <1>0 DEF TryInv, Begun, Trying, Active, flags, timers
<1>1. CASE Start
  BY <1>1 DEF Start, NewClient, TypeOK
<1>2. CASE RunReactor
  BY <1>2 DEF RunReactor
<1>3. CASE RunHandler
  <2> DEFINE x == Head(posted)
             q == Tail(posted)
  <2>0. Rest /\ Reactor /\ posted # << >> /\ posted \in Seq(Handlers)
    BY <1>3 DEF RunHandler, TypeOK
  <2> HIDE DEF x, q
  <2>1. ASSUME Ignore(q), halt \/ ~WillTry(x, generation)
        PROVE  TryInv'
    <3>1. TryQueued(posted, generation) /\ ~halt
            => TryQueued(q, generation)
      BY <2>0, <2>1, TailKeepsTry DEF x, q
    <3>q. QED
      BY <2>0, <2>1, <3>1 DEF Ignore, Rest, Reactor
  <2>2. ASSUME NEW p \in BOOLEAN, NewClient(q, p)
        PROVE  TryInv'
    BY <2>0, <2>2 DEF NewClient, Rest, Reactor
  <2>3. CASE x.h = "stop" \/ x.h = "conn"
    <3>1. Stop(q)
      BY <1>3, <2>3 DEF RunHandler, ConnCallback, x, q
    <3>q. QED
      BY <2>0, <3>1 DEF Stop, Rest, Reactor
  <2>4. CASE x.h = "pause"
    <3>1. Pause(q) /\ ~WillTry(x, generation)
      BY <1>3, <2>4 DEF RunHandler, WillTry, x, q
    <3>2. CASE halt \/ paused
      <4>1. TryQueued(posted, generation) => TryQueued(q, generation)
        BY <2>0, <3>1, TailKeepsTry DEF x, q
      <4>q. QED
        BY <2>0, <3>1, <3>2, <4>1 DEF Pause, Rest, Reactor
    <3>3. CASE ~halt /\ ~paused
      BY <2>0, <3>1, <3>3 DEF Pause, Rest, Reactor
    <3>q. QED
      BY <3>2, <3>3
  <2>5. CASE x.h = "resume"
    <3>1. Resume(q) /\ ~WillTry(x, generation)
      BY <1>3, <2>5 DEF RunHandler, WillTry, x, q
    <3>q. QED
      BY <2>1, <2>2, <3>1 DEF Resume
  <2>6. CASE x.h = "reconnect"
    <3>1. Reconnect(q)
      BY <1>3, <2>6 DEF RunHandler, x, q
    <3>q. QED
      BY <2>0, <2>1, <3>1 DEF Reconnect, RestartLater, Rest, Reactor
  <2>7. CASE x.h = "resolved"
    <3>1. ResolveDone(q)
      BY <1>3, <2>7 DEF RunHandler, x, q
    <3>2. generation # 0 => ~WillTry(x, generation)
      BY <2>7 DEF WillTry
    <3>q. QED
      BY <2>1, <2>2, <3>1, <3>2 DEF ResolveDone, TypeOK
  <2>8. CASE x.h = "restart"
    <3>1. RestartCallback(q, x.gen)
      BY <1>3, <2>8 DEF RunHandler, x, q
    <3>2. x.gen # generation => ~WillTry(x, generation)
      BY <2>8 DEF WillTry
    <3>q. QED
      BY <2>1, <2>2, <3>1, <3>2 DEF RestartCallback, Resume, TypeOK
  <2>9. CASE x.h = "poll"
    <3>1. PollCallback(q, x.gen) /\ ~WillTry(x, generation)
      BY <1>3, <2>9 DEF RunHandler, WillTry, x, q
    <3>q. QED
      BY <2>1, <2>2, <3>1 DEF PollCallback, TypeOK
  <2>q. QED
    BY <1>3, <2>3, <2>4, <2>5, <2>6, <2>7, <2>8, <2>9 DEF RunHandler, x
<1>4. CASE RunReturns
  BY <1>4 DEF RunReturns, Reactor
<1>5. CASE RestartExpires
  <2> DEFINE x == [h |-> "restart", gen |-> restartTimer]
  <2>1. x \in Handlers /\ (restartTimer = generation => WillTry(x, generation))
    BY <1>5 DEF RestartExpires, Handlers, TypeOK, WillTry
  <2>2. restartTimer = generation \/ TryQueued(posted, generation)
          => TryQueued(posted', generation)
    BY <1>5, <2>1, AppendKeepsTry DEF RestartExpires, Post, TypeOK
  <2>q. QED
    BY <1>5, <2>2 DEF RestartExpires, Rest, Reactor
<1>6. CASE PollExpires
  <2> DEFINE x == [h |-> "poll", gen |-> pollTimer]
  <2>1. x \in Handlers
    BY <1>6 DEF PollExpires, Handlers, TypeOK
  <2>2. TryQueued(posted, generation) => TryQueued(posted', generation)
    BY <1>6, <2>1, AppendKeepsTry DEF PollExpires, Post, TypeOK
  <2>q. QED
    BY <1>6, <2>2 DEF PollExpires, Rest, Reactor
<1>7. CASE ConnExpires
  <2>1. [h |-> "conn"] \in Handlers
    BY DEF Handlers
  <2>2. TryQueued(posted, generation) => TryQueued(posted', generation)
    BY <1>7, <2>1, AppendKeepsTry DEF ConnExpires, Post, TypeOK
  <2>q. QED
    BY <1>7, <2>2 DEF ConnExpires, Rest, Reactor
<1>8. CASE Resolved
  <2> DEFINE x == [h |-> "resolved"]
  <2>1. x \in Handlers /\ (generation = 0 => WillTry(x, generation))
    BY DEF Handlers, WillTry
  <2>2. generation = 0 \/ TryQueued(posted, generation)
          => TryQueued(posted', generation)
    BY <1>8, <2>1, AppendKeepsTry DEF Resolved, Post, TypeOK
  <2>q. QED
    BY <1>8, <2>2 DEF Resolved, Rest, Reactor
<1>9. ASSUME NEW h \in {"pause", "resume", "reconnect"}, ForeignCall(h)
      PROVE  TryInv'
  <2>1. [h |-> h] \in Handlers
    BY DEF Handlers
  <2>2. TryQueued(posted, generation) => TryQueued(posted', generation)
    BY <1>9, <2>1, AppendKeepsTry DEF ForeignCall, Post, TypeOK
  <2>q. QED
    BY <1>9, <2>2 DEF ForeignCall
<1>10. CASE ForeignStop
  <2>1. [h |-> "stop"] \in Handlers
    BY DEF Handlers
  <2>2. TryQueued(posted, generation) => TryQueued(posted', generation)
    BY <1>10, <2>1, AppendKeepsTry DEF ForeignStop, Post, TypeOK
  <2>q. QED
    BY <1>10, <2>2 DEF ForeignStop
<1>11. CASE FirstPacket
  BY <1>11 DEF FirstPacket, Rest
<1>12. CASE Connected
  BY <1>12 DEF Connected, Rest
<1>13. CASE TerminateRetry
  BY <1>13 DEF TerminateRetry, RestartLater, Rest
<1>14. CASE TerminateFatal
  BY <1>14 DEF TerminateFatal, Stop, Rest, Reactor
<1>15. CASE UNCHANGED vars
  BY <1>15 DEF vars
<1>q. QED
  BY <1>1, <1>2, <1>3, <1>4, <1>5, <1>6, <1>7, <1>8, <1>9, <1>10, <1>11,
     <1>12, <1>13, <1>14, <1>15 DEF Next, ReactorStep

LEMMA TryInvariant == Spec => []TryInv
<1>1. Init => TryInv
  <2> SUFFICES ASSUME Init PROVE TryInv
    OBVIOUS
  <2>1. TypeOK
    BY InitTypeOK
  <2>2. ~Begun /\ ~work
    BY DEF Init, Begun
  <2>q. QED
    BY <2>1, <2>2 DEF TryInv
<1>q. QED
  BY <1>1, NextTryInv, PTL DEF Spec

(* "always-try-to-reconnect": while the reactor runs, a session that is    *)
(* neither halted nor paused has a protocol session, a resolve, a restart  *)
(* timer or a queued handler that leads to one.                            *)
THEOREM KeepsTrying == Spec => []AlwaysTries
<1>1. TryInv => AlwaysTries
  <2> SUFFICES ASSUME TryInv, phase = "running", ~halt, ~paused
               PROVE  \/ Active \/ resolving \/ restartTimer # Off
                      \/ \E i \in DOMAIN posted :
                           \/ posted[i].h \in {"resolved", "restart"}
    BY DEF AlwaysTries
  <2>1. Trying
    BY DEF TryInv, Begun
  <2>2. CASE restartTimer = generation
    <3>1. generation # Off
      BY MaxGenAssumption DEF TryInv, TypeOK, Gens, Off
    <3>q. QED
      BY <2>2, <3>1
  <2>3. CASE TryQueued(posted, generation)
    <3>1. PICK i \in 1 .. Len(posted) : WillTry(posted[i], generation)
      BY <2>3 DEF TryQueued
    <3>2. i \in DOMAIN posted
      BY <3>1 DEF TryInv, TypeOK
    <3>3. posted[i].h \in {"resolved", "restart"}
      BY <3>1 DEF WillTry
    <3>q. QED
      BY <3>2, <3>3
  <2>q. QED
    BY <2>1, <2>2, <2>3 DEF Trying
<1>q. QED
  BY <1>1, TryInvariant, PTL

(* connect() "doesn't return until disconnect": while the session is not   *)
(* halted the reactor has something to wait for, paused or not.            *)
THEOREM ReturnsAfterStop == Spec => []ReturnsOnlyHalted
<1>1. TryInv => ReturnsOnlyHalted
  <2> SUFFICES ASSUME TryInv, phase = "running", ~halt
               PROVE  HasWork
    BY DEF ReturnsOnlyHalted
  <2>1. Trying \/ work
    BY DEF TryInv, Begun
  <2>2. CASE restartTimer = generation
    <3>1. generation # Off
      BY MaxGenAssumption DEF TryInv, TypeOK, Gens, Off
    <3>q. QED
      BY <2>2, <3>1 DEF HasWork
  <2>3. CASE TryQueued(posted, generation)
    <3>1. PICK i \in 1 .. Len(posted) : WillTry(posted[i], generation)
      BY <2>3 DEF TryQueued
    <3>2. posted # << >>
      BY <3>1 DEF TryInv, TypeOK
    <3>q. QED
      BY <3>2 DEF HasWork
  <2>q. QED
    BY <2>1, <2>2, <2>3 DEF Trying, HasWork
<1>q. QED
  BY <1>1, TryInvariant, PTL

-----------------------------------------------------------------------------
(* What is queued.  The reactor removes the head, everybody else appends.  *)

Has(q, x) == \E i \in 1 .. Len(q) : q[i] = x

LEMMA HasAppend ==
    ASSUME posted \in Seq(Handlers), NEW x \in Handlers, NEW y
    PROVE  Has(Append(posted, x), y) <=> Has(posted, y) \/ x = y
<1>1. /\ Len(Append(posted, x)) = Len(posted) + 1
      /\ \A i \in 1 .. Len(posted) : Append(posted, x)[i] = posted[i]
      /\ Append(posted, x)[Len(posted) + 1] = x
  BY AppendProperties
<1>2. Len(posted) \in Nat
  BY LenProperties
<1>3. 1 .. Len(posted) + 1 = 1 .. Len(posted) \cup {Len(posted) + 1}
  BY <1>2
<1>q. QED
  BY <1>1, <1>3 DEF Has

LEMMA HasTail ==
    ASSUME posted \in Seq(Handlers), posted # << >>, NEW y
    PROVE  /\ Has(Tail(posted), y) => Has(posted, y)
           /\ Has(posted, y) => Has(Tail(posted), y) \/ Head(posted) = y
           /\ Has(posted, Head(posted))
<1>1. Head(posted) = posted[1] /\ Len(Tail(posted)) = Len(posted) - 1
  BY HeadTailProperties
<1>2. Len(posted) \in Nat /\ Len(posted) >= 1
  BY LenProperties, EmptySeq
<1>3. \A j \in 1 .. Len(Tail(posted)) :
        j + 1 \in 1 .. Len(posted) /\ Tail(posted)[j] = posted[j + 1]
  BY <1>1, <1>2, HeadTailProperties
<1>4. \A i \in 1 .. Len(posted) : i = 1 \/ i - 1 \in 1 .. Len(Tail(posted))
  BY <1>1, <1>2
<1>5. \A i \in 1 .. Len(posted) : i # 1 => Tail(posted)[i - 1] = posted[i]
  BY <1>2, <1>3, <1>4
<1>6. Has(Tail(posted), y) => Has(posted, y)
  BY <1>3 DEF Has
<1>7. Has(posted, y) => Has(Tail(posted), y) \/ Head(posted) = y
  BY <1>1, <1>4, <1>5 DEF Has
<1>8. Has(posted, Head(posted))
  BY <1>1, <1>2 DEF Has
<1>q. QED
  BY <1>6, <1>7, <1>8

-----------------------------------------------------------------------------
(* Every attempt is timed.                                                 *)

Conn == [h |-> "conn"]

TimedInv ==
    ~halt => /\ client = "connecting" => connPending
             /\ connPending => connTimer \/ Has(posted, Conn)

LEMMA NextTimedInv == TypeOK /\ TimedInv /\ [Next]_vars => TimedInv'
<1> SUFFICES ASSUME TypeOK, TimedInv, [Next]_vars
             PROVE  TimedInv'
  OBVIOUS
<1>p. posted \in Seq(Handlers) /\ Conn \in Handlers
  BY DEF TypeOK, Conn, Handlers
<1> USE DEF TimedInv, Active, flags, timers
<1>1. CASE Start
  BY <1>1 DEF Start, NewClient
<1>2. CASE RunReactor
  BY <1>2 DEF RunReactor
<1>3. CASE RunHandler
  <2> DEFINE x == Head(posted)
             q == Tail(posted)
  <2>0. posted # << >>
    BY <1>3 DEF RunHandler
  <2>t. x.h # "conn" /\ Has(posted, Conn) => Has(q, Conn)
    BY <1>p, <2>0, HasTail DEF Conn
  <2> HIDE DEF x, q
  <2>1. CASE Stop(q)
    BY <2>1 DEF Stop
  <2>2. CASE x.h # "conn" /\ Pause(q)
    BY <2>2, <2>t DEF Pause
  <2>3. CASE x.h # "conn" /\ Ignore(q)
    BY <2>3, <2>t DEF Ignore
  <2>4. ASSUME x.h # "conn", NEW p, NewClient(q, p)
        PROVE  TimedInv'
    BY <2>4, <2>t DEF NewClient
  <2>5. CASE x.h # "conn" /\ Reconnect(q)
    BY <2>3, <2>5, <2>t DEF Reconnect, RestartLater
  <2>6. x.h \in {"stop", "conn"} => Stop(q)
    BY <1>3 DEF RunHandler, ConnCallback, x, q
  <2>7. x.h \notin {"stop", "conn", "pause", "reconnect"}
          => Ignore(q) \/ \E p : NewClient(q, p)
    BY <1>3 DEF RunHandler, Resume, ResolveDone, RestartCallback,
       PollCallback, x, q
  <2>8. (x.h = "pause" => Pause(q)) /\ (x.h = "reconnect" => Reconnect(q))
    BY <1>3 DEF RunHandler, x, q
  <2>q. QED
    BY <2>1, <2>2, <2>3, <2>4, <2>5, <2>6, <2>7, <2>8
<1>4. CASE RunReturns
  BY <1>4 DEF RunReturns
<1>5. CASE RestartExpires
  <2>1. [h |-> "restart", gen |-> restartTimer] \in Handlers
    BY <1>5 DEF RestartExpires, Handlers, TypeOK
  <2>2. Has(posted, Conn) => Has(posted', Conn)
    BY <1>5, <1>p, <2>1, HasAppend DEF RestartExpires, Post
  <2>q. QED
    BY <1>5, <2>2 DEF RestartExpires
<1>6. CASE PollExpires
  <2>1. [h |-> "poll", gen |-> pollTimer] \in Handlers
    BY <1>6 DEF PollExpires, Handlers, TypeOK
  <2>2. Has(posted, Conn) => Has(posted', Conn)
    BY <1>6, <1>p, <2>1, HasAppend DEF PollExpires, Post
  <2>q. QED
    BY <1>6, <2>2 DEF PollExpires
<1>7. CASE ConnExpires
  <2>1. posted' = Append(posted, Conn)
    BY <1>7 DEF ConnExpires, Post, Conn
  <2>2. Has(posted', Conn)
    BY <1>p, <2>1, HasAppend
  <2>q. QED
    BY <1>7, <2>2 DEF ConnExpires
<1>8. CASE Resolved
  <2>1. [h |-> "resolved"] \in Handlers
    BY DEF Handlers
  <2>2. Has(posted, Conn) => Has(posted', Conn)
    BY <1>8, <1>p, <2>1, HasAppend DEF Resolved, Post
  <2>q. QED
    BY <1>8, <2>2 DEF Resolved
<1>9. ASSUME NEW h \in {"pause", "resume", "reconnect"}, ForeignCall(h)
      PROVE  TimedInv'
  <2>1. [h |-> h] \in Handlers
    BY DEF Handlers
  <2>2. Has(posted, Conn) => Has(posted', Conn)
    BY <1>9, <1>p, <2>1, HasAppend DEF ForeignCall, Post
  <2>q. QED
    BY <1>9, <2>2 DEF ForeignCall
<1>10. CASE ForeignStop
  <2>1. [h |-> "stop"] \in Handlers
    BY DEF Handlers
  <2>2. Has(posted, Conn) => Has(posted', Conn)
    BY <1>10, <1>p, <2>1, HasAppend DEF ForeignStop, Post
  <2>q. QED
    BY <1>10, <2>2 DEF ForeignStop
<1>11. CASE FirstPacket
  BY <1>11 DEF FirstPacket
<1>12. CASE Connected
  BY <1>12 DEF Connected
<1>13. CASE TerminateRetry
  BY <1>13 DEF TerminateRetry, RestartLater
<1>14. CASE TerminateFatal
  BY <1>14 DEF TerminateFatal, Stop
<1>15. CASE UNCHANGED vars
  BY <1>15 DEF vars
<1>q. QED
  BY <1>1, <1>2, <1>3, <1>4, <1>5, <1>6, <1>7, <1>8, <1>9, <1>10, <1>11,
     <1>12, <1>13, <1>14, <1>15 DEF Next, ReactorStep

(* The connection timer, or its handler in the queue, watches every        *)
(* attempt to connect, over restarts, pauses and changes of servers.       *)
THEOREM AttemptsAreTimed == Spec => []AttemptIsTimed
<1>1. Init => TimedInv
  BY DEF Init, TimedInv
<1>2. TypeOK /\ TimedInv => AttemptIsTimed
  <2> SUFFICES ASSUME TypeOK, TimedInv, ~halt, client = "connecting"
               PROVE  connTimer \/ Queued("conn")
    BY DEF AttemptIsTimed
  <2>1. connTimer \/ Has(posted, Conn)
    BY DEF TimedInv
  <2>2. Has(posted, Conn) => Queued("conn")
    BY DEF Has, Conn, Queued, TypeOK
  <2>q. QED
    BY <2>1, <2>2
<1>q. QED
  BY <1>1, <1>2, NextTimedInv, InitTypeOK, NextTypeOK, PTL DEF Spec

-----------------------------------------------------------------------------
(***************************************************************************)
(* ClientConnect implements NativeSession, for every counter width and     *)
(* every number of calls, as long as the generation counter has not come   *)
(* round: a handler that waits in the queue while 2^32 sessions are made   *)
(* would be taken for one of the present session.                          *)
(***************************************************************************)

NoWrap == generation < MaxGen

RestartAt(g) == [h |-> "restart", gen |-> g]
PollAt(g) == [h |-> "poll", gen |-> g]
Done == [h |-> "resolved"]

(* Timers are armed for the present generation; handlers are queued for it *)
(* or an earlier one; no server is polled before the first session.        *)
GenInv ==
    /\ restartTimer # Off => restartTimer = generation
    /\ pollTimer # Off => pollTimer = generation /\ generation > 0
    /\ \A g \in Gens : Has(posted, RestartAt(g)) => g <= generation
    /\ \A g \in Gens : Has(posted, PollAt(g)) => g <= generation /\ g > 0
    /\ Active => generation > 0

-----------------------------------------------------------------------------
(* What is due, by what is in the queue.                                   *)

Restarting ==
    ~halt /\ (restartTimer # Off \/ Has(posted, RestartAt(generation)))

Starting ==
    /\ ~halt
    /\ \/ generation = 0 /\ (phase = "setup" \/ resolving \/ Has(posted, Done))
       \/ /\ generation > 0 /\ ~packet
          /\ pollTimer # Off \/ Has(posted, PollAt(generation))

LEMMA RestartingIs == TypeOK => (Restarting <=> ~halt /\ RestartDue)
<1> SUFFICES ASSUME TypeOK PROVE Restarting <=> ~halt /\ RestartDue
  OBVIOUS
<1>1. DOMAIN posted = 1 .. Len(posted) /\ \A i \in 1 .. Len(posted) : posted[i] \in Handlers
  BY ElementOfSeq DEF TypeOK
<1>2. ASSUME NEW i \in 1 .. Len(posted), posted[i].h = "restart",
             posted[i].gen = generation
      PROVE  posted[i] = RestartAt(generation)
  BY <1>1, <1>2 DEF Handlers, RestartAt
<1>3. Has(posted, RestartAt(generation)) <=>
        \E i \in DOMAIN posted :
          posted[i].h = "restart" /\ posted[i].gen = generation
  BY <1>1, <1>2 DEF Has, RestartAt
<1>q. QED
  BY <1>3 DEF Restarting, RestartDue

LEMMA StartingIs == TypeOK => (Starting <=> ~halt /\ SessionDue)
<1> SUFFICES ASSUME TypeOK PROVE Starting <=> ~halt /\ SessionDue
  OBVIOUS
<1>1. DOMAIN posted = 1 .. Len(posted) /\ \A i \in 1 .. Len(posted) : posted[i] \in Handlers
  BY ElementOfSeq DEF TypeOK
<1>2. ASSUME NEW i \in 1 .. Len(posted), posted[i].h = "poll",
             posted[i].gen = generation
      PROVE  posted[i] = PollAt(generation)
  BY <1>1, <1>2 DEF Handlers, PollAt
<1>3. Has(posted, PollAt(generation)) <=>
        \E i \in DOMAIN posted :
          posted[i].h = "poll" /\ posted[i].gen = generation
  BY <1>1, <1>2 DEF Has, PollAt
<1>4. ASSUME NEW i \in 1 .. Len(posted), posted[i].h = "resolved"
      PROVE  posted[i] = Done
  BY <1>1, <1>4 DEF Handlers, Done
<1>5. Has(posted, Done) <=> Queued("resolved")
  BY <1>1, <1>4 DEF Has, Done, Queued
<1>q. QED
  BY <1>3, <1>5 DEF Starting, SessionDue

-----------------------------------------------------------------------------
(* The steps of NativeSession, as they are seen here.                      *)

Stutters ==
    /\ paused' = paused /\ halt' = halt
    /\ Active' <=> Active
    /\ Starting' <=> Starting
    /\ Restarting' <=> Restarting

Pauses ==
    /\ ~halt /\ ~halt' /\ ~paused /\ paused' /\ ~Active'
    /\ Starting' => Starting
    /\ Restarting' => Restarting

Reconnects ==
    /\ ~halt /\ ~halt' /\ Restarting'
    /\ Starting' => Starting
    /\ paused' = paused /\ (Active' <=> Active)

Halts ==
    /\ ~halt /\ halt' /\ ~Active' /\ ~Starting' /\ ~Restarting'
    /\ paused' = paused

NewOne == ~halt /\ ~halt' /\ Active' /\ Starting' /\ ~Restarting'
Resumes == paused /\ ~paused' /\ NewOne
Restarts == Restarting /\ ~paused' /\ NewOne
NextOne == Starting /\ paused' = paused /\ NewOne

Answers ==
    /\ Active /\ Active' /\ ~Starting'
    /\ paused' = paused /\ halt' = halt
    /\ Restarting' <=> Restarting

Loses ==
    /\ Active /\ ~Active' /\ Restarting'
    /\ Starting' => Starting
    /\ paused' = paused /\ halt' = halt

Move == \/ Stutters \/ Pauses \/ Reconnects \/ Halts \/ Resumes \/ Restarts
        \/ NextOne \/ Answers \/ Loses

LEMMA Cancelled ==
    ASSUME NEW p \in BOOLEAN, NEW q \in BOOLEAN, q => p
    PROVE  q \in {FALSE, p}
  OBVIOUS

LEMMA Same == ASSUME NEW p \in BOOLEAN, NEW q \in BOOLEAN, q <=> p PROVE q = p
  OBVIOUS

LEMMA MoveIsNative ==
    ASSUME TypeOK, TypeOK', Move
    PROVE  [Native!NativeNext]_(Native!session)
<1>1. /\ paused \in BOOLEAN /\ paused' \in BOOLEAN
      /\ halt \in BOOLEAN /\ halt' \in BOOLEAN
  BY DEF TypeOK
<1>2. /\ Starting <=> ~halt /\ SessionDue
      /\ Restarting <=> ~halt /\ RestartDue
  BY StartingIs, RestartingIs
<1>3. /\ Starting' <=> (~halt /\ SessionDue)'
      /\ Restarting' <=> (~halt /\ RestartDue)'
  BY StartingIs, RestartingIs, PTL
<1>d. /\ (~halt /\ SessionDue) \in BOOLEAN
      /\ (~halt /\ SessionDue)' \in BOOLEAN
      /\ (~halt /\ RestartDue) \in BOOLEAN
      /\ (~halt /\ RestartDue)' \in BOOLEAN
      /\ Active \in BOOLEAN /\ Active' \in BOOLEAN
  BY DEF Active
<1>a. (Starting' => Starting) => Native!CancelDue
  BY <1>2, <1>3, <1>d, Cancelled DEF Native!CancelDue
<1>b. (Restarting' => Restarting) => Native!CancelRestart
  BY <1>2, <1>3, <1>d, Cancelled DEF Native!CancelRestart
<1>c. (Active' <=> Active) => UNCHANGED Active
  BY <1>d, Same
<1>e. (Starting' <=> Starting) => (~halt /\ SessionDue)' = (~halt /\ SessionDue)
  BY <1>2, <1>3, <1>d, Same
<1>f. (Restarting' <=> Restarting) => (~halt /\ RestartDue)' = (~halt /\ RestartDue)
  BY <1>2, <1>3, <1>d, Same
<1>4. CASE Stutters
  <2>1. /\ paused' = paused /\ halt' = halt /\ UNCHANGED Active
        /\ (~halt /\ SessionDue)' = (~halt /\ SessionDue)
        /\ (~halt /\ RestartDue)' = (~halt /\ RestartDue)
    BY <1>4, <1>c, <1>e, <1>f DEF Stutters
  <2>q. QED
    BY <2>1 DEF Native!session
<1>5. CASE Pauses
  <2>1. Native!CancelDue /\ Native!CancelRestart
    BY <1>5, <1>a, <1>b DEF Pauses
  <2>q. QED
    BY <1>1, <1>5, <2>1 DEF Pauses, Native!NativeNext, Native!PauseSession
<1>6. CASE Reconnects
  <2>1. Native!CancelDue /\ UNCHANGED Active
    BY <1>6, <1>a, <1>c DEF Reconnects
  <2>q. QED
    BY <1>1, <1>2, <1>3, <1>6, <2>1 DEF Reconnects, Native!NativeNext,
       Native!Reconnect
<1>7. CASE Halts
  BY <1>1, <1>2, <1>3, <1>7 DEF Halts, Native!NativeNext, Native!HaltSession
<1>8. CASE Resumes
  BY <1>1, <1>2, <1>3, <1>8 DEF Resumes, NewOne, Native!NativeNext,
     Native!ResumeSession, Native!NewSession
<1>9. CASE Restarts
  BY <1>1, <1>2, <1>3, <1>9 DEF Restarts, NewOne, Native!NativeNext,
     Native!RestartSession, Native!NewSession
<1>10. CASE NextOne
  BY <1>1, <1>2, <1>3, <1>10 DEF NextOne, NewOne, Native!NativeNext,
     Native!NextServer, Native!NewSession
<1>11. CASE Answers
  BY <1>1, <1>2, <1>3, <1>11 DEF Answers, Native!NativeNext,
     Native!ServerAnswers
<1>12. CASE Loses
  <2>1. Native!CancelDue
    BY <1>12, <1>a DEF Loses
  <2>q. QED
    BY <1>1, <1>2, <1>3, <1>12, <2>1 DEF Loses, Native!NativeNext,
       Native!ConnectionLost
<1>q. QED
  BY <1>4, <1>5, <1>6, <1>7, <1>8, <1>9, <1>10, <1>11, <1>12 DEF Move

-----------------------------------------------------------------------------
(* The methods.  They run with a queue that holds nothing new.             *)

Kept(q) == \A y : Has(q, y) => Has(posted, y)

LEMMA GenTypes ==
    ASSUME TypeOK
    PROVE  /\ generation \in Nat /\ generation <= MaxGen /\ generation # Off
           /\ generation \in Gens /\ MaxGen \in Nat /\ Gens \subseteq Nat
  BY MaxGenAssumption DEF TypeOK, Gens, Off

LEMMA NewClientStarts ==
    ASSUME TypeOK, GenInv, NoWrap, NEW q, Kept(q), NEW p, NewClient(q, p),
           ~halt
    PROVE  NewOne /\ GenInv' /\ paused' = p
<1>1. /\ generation' = Successor(generation) /\ paused' = p
      /\ client' = "connecting" /\ packet' = FALSE /\ restartTimer' = Off
      /\ pollTimer' = generation' /\ posted' = q /\ halt' = halt
  BY DEF NewClient
<1>2. generation' = generation + 1 /\ generation' \in Gens
  BY <1>1, GenTypes DEF NoWrap, Successor, Gens
<1>3. generation' # Off /\ generation' > 0 /\ ~(generation' <= generation)
  BY <1>2, GenTypes DEF NoWrap, Off
<1>4. ~Has(q, RestartAt(generation'))
  BY <1>2, <1>3 DEF Kept, GenInv
<1>5. Active'
  BY <1>1 DEF Active
<1>6. Starting'
  BY <1>1, <1>3 DEF Starting
<1>7. ~Restarting'
  BY <1>1, <1>4 DEF Restarting
<1>8. \A g \in Gens : g <= generation => g <= generation'
  BY <1>2, GenTypes
<1>9. GenInv'
  BY <1>1, <1>3, <1>8 DEF GenInv, Kept
<1>q. QED
  BY <1>1, <1>5, <1>6, <1>7, <1>9 DEF NewOne

LEMMA StopHalts ==
    ASSUME TypeOK, GenInv, NEW q, Kept(q), Stop(q)
    PROVE  /\ GenInv'
           /\ ~halt => Halts
           /\ halt => Stutters
<1>1. posted' = q /\ generation' = generation /\ paused' = paused
  BY DEF Stop
<1>2. CASE halt
  <2>1. UNCHANGED <<halt, client, timers>>
    BY <1>2 DEF Stop
  <2>2. GenInv'
    BY <1>1, <2>1 DEF GenInv, Kept, Active, timers
  <2>3. Stutters
    BY <1>1, <1>2, <2>1 DEF Stutters, Active, Starting, Restarting
  <2>q. QED
    BY <1>2, <2>2, <2>3
<1>3. CASE ~halt
  <2>1. /\ halt' /\ restartTimer' = Off /\ pollTimer' = Off
        /\ client' = IF Active THEN "stopped" ELSE client
    BY <1>3 DEF Stop
  <2>2. ~Active'
    BY <2>1 DEF Active
  <2>3. GenInv'
    BY <1>1, <2>1, <2>2 DEF GenInv, Kept
  <2>4. Halts
    BY <1>1, <1>3, <2>1, <2>2 DEF Halts, Starting, Restarting
  <2>q. QED
    BY <1>3, <2>3, <2>4
<1>q. QED
  BY <1>2, <1>3

LEMMA RestartLaterMoves ==
    ASSUME TypeOK, GenInv, NEW q, Kept(q), RestartLater(q), ~halt,
           phase' = phase, Active' => Active
    PROVE  /\ GenInv' /\ Restarting' /\ (Starting' => Starting)
           /\ UNCHANGED <<paused, halt>>
<1>1. /\ posted' = q /\ generation' = generation /\ paused' = paused
      /\ halt' = halt /\ packet' = packet /\ resolving' = resolving
      /\ restartTimer' = generation /\ pollTimer' = Off
  BY DEF RestartLater, flags
<1>2. GenInv'
  BY <1>1 DEF GenInv, Kept
<1>3. Restarting'
  BY <1>1, GenTypes DEF Restarting
<1>4. Starting' => Starting
  BY <1>1 DEF Starting, Kept
<1>q. QED
  BY <1>1, <1>2, <1>3, <1>4

(* Nothing that is due changes: the handler that was removed or added      *)
(* means nothing, or nothing any more.                                     *)
LEMMA QueueOnly ==
    ASSUME TypeOK, GenInv,
           UNCHANGED <<phase, flags, client, packet, resolving, restartTimer,
                       pollTimer>>,
           ~halt => (Has(posted', RestartAt(generation))
                       <=> Has(posted, RestartAt(generation))),
           ~halt /\ generation = 0 => (Has(posted', Done) <=> Has(posted, Done)),
           ~halt /\ ~packet => (Has(posted', PollAt(generation))
                                  <=> Has(posted, PollAt(generation))),
           \A g \in Gens : Has(posted', RestartAt(g)) => Has(posted, RestartAt(g)),
           \A g \in Gens : Has(posted', PollAt(g)) => Has(posted, PollAt(g))
    PROVE  GenInv' /\ Stutters
<1>1. /\ generation' = generation /\ halt' = halt /\ paused' = paused
      /\ Active' <=> Active
  BY DEF flags, Active
<1>2. GenInv'
  BY <1>1 DEF GenInv
<1>3. Restarting' <=> Restarting
  BY <1>1 DEF Restarting
<1>4. Starting' <=> Starting
  BY <1>1 DEF Starting
<1>q. QED
  BY <1>1, <1>2, <1>3, <1>4 DEF Stutters

LEMMA AppendedOnly ==
    ASSUME TypeOK, GenInv,
           UNCHANGED <<phase, flags, client, packet, resolving, restartTimer,
                       pollTimer>>,
           NEW x \in Handlers, posted' = Append(posted, x),
           x.h \notin {"restart", "poll", "resolved"}
    PROVE  GenInv' /\ Stutters
<1>1. \A y : Has(posted', y) <=> Has(posted, y) \/ x = y
  BY HasAppend DEF TypeOK
<1>2. x # Done /\ \A g : x # RestartAt(g) /\ x # PollAt(g)
  BY DEF Done, RestartAt, PollAt
<1>q. QED
  BY <1>1, <1>2, QueueOnly

-----------------------------------------------------------------------------
(* The handlers.                                                           *)

LEMMA HandlerMoves ==
    ASSUME TypeOK, GenInv, NoWrap, RunHandler
    PROVE  GenInv' /\ Move
<1> DEFINE x == Head(posted)
           q == Tail(posted)
<1>0. /\ posted # << >> /\ posted \in Seq(Handlers) /\ x \in Handlers
      /\ phase' = phase
  BY HeadTailProperties DEF RunHandler, TypeOK, Rest
<1>1. Kept(q) /\ Has(posted, x)
  BY <1>0, HasTail DEF Kept
<1>2. \A y : y # x => (Has(q, y) <=> Has(posted, y))
  BY <1>0, HasTail
<1> HIDE DEF q
<1>3. /\ x.h \notin {"restart", "poll", "resolved"} =>
           x # Done /\ \A g : x # RestartAt(g) /\ x # PollAt(g)
      /\ x.h = "resolved" => x = Done
      /\ x.h = "restart" => x.gen \in Gens /\ x = RestartAt(x.gen)
      /\ x.h = "poll" => x.gen \in Gens /\ x = PollAt(x.gen)
      /\ x.h # "resolved" => x # Done
      /\ \A g : x = RestartAt(g) => x.h = "restart" /\ x.gen = g
      /\ \A g : x = PollAt(g) => x.h = "poll" /\ x.gen = g
  <2> HIDE DEF x
  <2>q. QED
    BY <1>0 DEF Handlers, Done, RestartAt, PollAt
<1>h. RunHandler =>
        \/ x.h \in {"stop", "conn"} /\ Stop(q)
        \/ x.h = "pause" /\ Pause(q)
        \/ x.h = "resume" /\ Resume(q)
        \/ x.h = "reconnect" /\ Reconnect(q)
        \/ x.h = "resolved" /\ ResolveDone(q)
        \/ x.h = "restart" /\ RestartCallback(q, x.gen)
        \/ x.h = "poll" /\ PollCallback(q, x.gen)
  BY DEF RunHandler, ConnCallback, q
<1> HIDE DEF x
<1>4. ASSUME Ignore(q),
             x = RestartAt(generation) => halt,
             x = PollAt(generation) => halt \/ packet,
             x = Done => halt \/ generation # 0
      PROVE  GenInv' /\ Move
  <2>1. /\ posted' = q
        /\ UNCHANGED <<phase, flags, client, packet, resolving, restartTimer,
                       pollTimer>>
    BY <1>0, <1>4 DEF Ignore, timers
  <2>2. \A y : Has(posted', y) => Has(posted, y)
    BY <1>1, <2>1 DEF Kept
  <2>q. QED
    BY <1>2, <1>4, <2>1, <2>2, QueueOnly DEF Move
<1>5. CASE x.h \in {"stop", "conn"} /\ Stop(q)
  BY <1>1, <1>5, StopHalts DEF Move
<1>6. CASE x.h = "pause" /\ Pause(q)
  <2>1. CASE halt \/ paused
    <3>1. Ignore(q)
      BY <1>6, <2>1 DEF Pause, Ignore, flags
    <3>q. QED
      BY <1>3, <1>4, <1>6, <3>1
  <2>2. CASE ~halt /\ ~paused
    <3>1. /\ posted' = q /\ generation' = generation /\ halt' = halt
          /\ packet' = packet /\ resolving' = resolving
          /\ paused' /\ restartTimer' = Off /\ pollTimer' = Off
          /\ client' = IF Active THEN "stopped" ELSE client
      BY <1>6, <2>2 DEF Pause
    <3>2. ~Active'
      BY <3>1 DEF Active
    <3>3. GenInv'
      BY <1>1, <3>1, <3>2 DEF GenInv, Kept
    <3>4. (Starting' => Starting) /\ (Restarting' => Restarting)
      BY <1>0, <1>1, <3>1 DEF Starting, Restarting, Kept
    <3>q. QED
      BY <2>2, <3>1, <3>2, <3>3, <3>4 DEF Pauses, Move
  <2>q. QED
    BY <2>1, <2>2
<1>7. CASE x.h = "resume" /\ Resume(q)
  <2>1. CASE ~halt /\ paused
    <3>1. NewClient(q, FALSE)
      BY <1>7, <2>1 DEF Resume
    <3>2. NewOne /\ GenInv' /\ paused' = FALSE
      BY <1>1, <2>1, <3>1, NewClientStarts
    <3>q. QED
      BY <2>1, <3>2 DEF Resumes, Move
  <2>2. CASE ~(~halt /\ paused)
    <3>1. Ignore(q)
      BY <1>7, <2>2 DEF Resume
    <3>q. QED
      BY <1>3, <1>4, <1>7, <3>1
  <2>q. QED
    BY <2>1, <2>2
<1>8. CASE x.h = "reconnect" /\ Reconnect(q)
  <2>1. CASE halt
    <3>1. Ignore(q)
      BY <1>8, <2>1 DEF Reconnect
    <3>q. QED
      BY <1>3, <1>4, <1>8, <3>1
  <2>2. CASE ~halt
    <3>1. RestartLater(q) /\ client' = client
      BY <1>8, <2>2 DEF Reconnect
    <3>2. Active' <=> Active
      BY <3>1 DEF Active
    <3>3. /\ GenInv' /\ Restarting' /\ (Starting' => Starting)
          /\ UNCHANGED <<paused, halt>>
      BY <1>0, <1>1, <2>2, <3>1, <3>2, RestartLaterMoves
    <3>q. QED
      BY <2>2, <3>2, <3>3 DEF Reconnects, Move
  <2>q. QED
    BY <2>1, <2>2
<1>9. CASE x.h = "resolved" /\ ResolveDone(q)
  <2>1. CASE ~halt /\ generation = 0
    <3>1. NewClient(q, paused)
      BY <1>9, <2>1 DEF ResolveDone
    <3>2. NewOne /\ GenInv' /\ paused' = paused
      BY <1>1, <2>1, <3>1, NewClientStarts
    <3>3. Starting
      BY <1>1, <1>3, <1>9, <2>1 DEF Starting
    <3>q. QED
      BY <3>2, <3>3 DEF NextOne, Move
  <2>2. CASE ~(~halt /\ generation = 0)
    <3>1. Ignore(q)
      BY <1>9, <2>2 DEF ResolveDone
    <3>q. QED
      BY <1>3, <1>4, <1>9, <2>2, <3>1
  <2>q. QED
    BY <2>1, <2>2
<1>10. CASE x.h = "restart" /\ RestartCallback(q, x.gen)
  <2>1. CASE x.gen # generation \/ halt
    <3>1. Ignore(q)
      BY <1>10, <2>1 DEF RestartCallback
    <3>q. QED
      BY <1>3, <1>4, <1>10, <2>1, <3>1
  <2>2. CASE x.gen = generation /\ ~halt /\ paused
    <3>1. NewClient(q, FALSE)
      BY <1>10, <2>2 DEF RestartCallback, Resume
    <3>2. NewOne /\ GenInv' /\ paused' = FALSE
      BY <1>1, <2>2, <3>1, NewClientStarts
    <3>q. QED
      BY <2>2, <3>2 DEF Resumes, Move
  <2>3. CASE x.gen = generation /\ ~halt /\ ~paused
    <3>1. NewClient(q, paused)
      BY <1>10, <2>3 DEF RestartCallback
    <3>2. NewOne /\ GenInv' /\ paused' = paused
      BY <1>1, <2>3, <3>1, NewClientStarts
    <3>3. Restarting
      BY <1>1, <1>3, <1>10, <2>3 DEF Restarting
    <3>q. QED
      BY <2>3, <3>2, <3>3 DEF Restarts, Move
  <2>q. QED
    BY <2>1, <2>2, <2>3
<1>11. CASE x.h = "poll" /\ PollCallback(q, x.gen)
  <2>1. CASE x.gen = generation /\ ~halt /\ ~packet
    <3>1. NewClient(q, paused)
      BY <1>11, <2>1 DEF PollCallback
    <3>2. NewOne /\ GenInv' /\ paused' = paused
      BY <1>1, <2>1, <3>1, NewClientStarts
    <3>3. generation > 0 /\ Has(posted, PollAt(generation))
      BY <1>1, <1>3, <1>11, <2>1 DEF GenInv
    <3>4. Starting
      BY <2>1, <3>3 DEF Starting
    <3>q. QED
      BY <3>2, <3>4 DEF NextOne, Move
  <2>2. CASE ~(x.gen = generation /\ ~halt /\ ~packet)
    <3>1. Ignore(q)
      BY <1>11, <2>2 DEF PollCallback
    <3>q. QED
      BY <1>3, <1>4, <1>11, <2>2, <3>1
  <2>q. QED
    BY <2>1, <2>2
<1>q. QED
  BY <1>h, <1>5, <1>6, <1>7, <1>8, <1>9, <1>10, <1>11

-----------------------------------------------------------------------------
(* All steps.                                                              *)

LEMMA StepMoves ==
    ASSUME TypeOK, HaltInv, GenInv, NoWrap, [Next]_vars
    PROVE  GenInv' /\ Move
<1>p. /\ posted \in Seq(Handlers)
      /\ phase = "setup" => ~halt
      /\ halt => ~Active /\ ~resolving
      /\ \A y : Has(posted, y) => Has(posted, y)
  BY DEF TypeOK, HaltInv, HaltIsFinal, SetupIsLive
<1>s. Kept(posted)
  BY DEF Kept
<1>1. CASE Start
  <2>1. CASE Resolves
    <3>1. /\ UNCHANGED <<posted, flags, client, packet, timers, phase>>
          /\ phase = "setup" /\ generation = 0
      BY <1>1, <2>1 DEF Start
    <3>2. GenInv'
      BY <3>1 DEF GenInv, Active, flags, timers
    <3>3. Stutters
      BY <3>1 DEF Stutters, Active, Starting, Restarting, flags, timers
    <3>q. QED
      BY <3>2, <3>3 DEF Move
  <2>2. CASE ~Resolves
    <3>1. NewClient(posted, paused) /\ phase = "setup" /\ generation = 0
      BY <1>1, <2>2 DEF Start
    <3>2. NewOne /\ GenInv' /\ paused' = paused
      BY <1>p, <1>s, <3>1, NewClientStarts
    <3>3. Starting
      BY <1>p, <3>1 DEF Starting
    <3>q. QED
      BY <3>2, <3>3 DEF NextOne, Move
  <2>q. QED
    BY <2>1, <2>2
<1>2. CASE RunReactor
  <2>1. /\ UNCHANGED <<posted, flags, client, packet, resolving, timers>>
        /\ generation > 0 \/ resolving
    BY <1>2 DEF RunReactor
  <2>2. GenInv'
    BY <2>1 DEF GenInv, Active, flags, timers
  <2>3. Starting' <=> Starting
    BY <2>1, GenTypes DEF Starting, flags, timers
  <2>4. Stutters
    BY <2>1, <2>3 DEF Stutters, Active, Restarting, flags, timers
  <2>q. QED
    BY <2>2, <2>4 DEF Move
<1>3. CASE RunHandler
  BY <1>3, HandlerMoves
<1>4. CASE RunReturns
  <2>1. /\ UNCHANGED <<posted, flags, client, packet, resolving, timers>>
        /\ phase # "setup" /\ phase' # "setup"
    BY <1>4 DEF RunReturns, Reactor
  <2>2. GenInv'
    BY <2>1 DEF GenInv, Active, flags, timers
  <2>3. Stutters
    BY <2>1 DEF Stutters, Active, Starting, Restarting, flags, timers
  <2>q. QED
    BY <2>2, <2>3 DEF Move
<1>5. CASE RestartExpires
  <2>1. /\ restartTimer # Off /\ restartTimer' = Off
        /\ posted' = Append(posted, RestartAt(restartTimer))
        /\ UNCHANGED <<phase, flags, client, packet, resolving, pollTimer>>
    BY <1>5 DEF RestartExpires, Post, RestartAt, Rest
  <2>2. restartTimer = generation /\ RestartAt(generation) \in Handlers
    BY <2>1, GenTypes DEF GenInv, RestartAt, Handlers
  <2>3. \A y : Has(posted', y) <=> Has(posted, y) \/ RestartAt(generation) = y
    BY <1>p, <2>1, <2>2, HasAppend
  <2>4. RestartAt(generation) # Done
        /\ \A g : /\ RestartAt(generation) # PollAt(g)
                  /\ RestartAt(generation) = RestartAt(g) => g = generation
    BY DEF RestartAt, Done, PollAt
  <2>5. GenInv'
    BY <2>1, <2>3, <2>4, GenTypes DEF GenInv, Active, flags
  <2>6. Restarting' <=> Restarting
    BY <2>1, <2>3 DEF Restarting, flags
  <2>7. Stutters
    BY <2>1, <2>3, <2>4, <2>6 DEF Stutters, Active, Starting, flags
  <2>q. QED
    BY <2>5, <2>7 DEF Move
<1>6. CASE PollExpires
  <2>1. /\ pollTimer # Off /\ pollTimer' = Off
        /\ posted' = Append(posted, PollAt(pollTimer))
        /\ UNCHANGED <<phase, flags, client, packet, resolving, restartTimer>>
    BY <1>6 DEF PollExpires, Post, PollAt, Rest
  <2>2. pollTimer = generation /\ generation > 0 /\ PollAt(generation) \in Handlers
    BY <2>1, GenTypes DEF GenInv, PollAt, Handlers
  <2>3. \A y : Has(posted', y) <=> Has(posted, y) \/ PollAt(generation) = y
    BY <1>p, <2>1, <2>2, HasAppend
  <2>4. PollAt(generation) # Done
        /\ \A g : /\ PollAt(generation) # RestartAt(g)
                  /\ PollAt(generation) = PollAt(g) => g = generation
    BY DEF RestartAt, Done, PollAt
  <2>5. GenInv'
    BY <2>1, <2>2, <2>3, <2>4, GenTypes DEF GenInv, Active, flags
  <2>6. Starting' <=> Starting
    BY <2>1, <2>2, <2>3, <2>4 DEF Starting, flags
  <2>7. Stutters
    BY <2>1, <2>3, <2>4, <2>6 DEF Stutters, Active, Restarting, flags
  <2>q. QED
    BY <2>5, <2>7 DEF Move
<1>7. CASE ConnExpires
  <2>1. Conn \in Handlers /\ Conn.h = "conn"
    BY DEF Conn, Handlers
  <2>2. /\ posted' = Append(posted, Conn)
        /\ UNCHANGED <<phase, flags, client, packet, resolving, restartTimer,
                       pollTimer>>
    BY <1>7 DEF ConnExpires, Post, Conn, Rest
  <2>q. QED
    BY <2>1, <2>2, AppendedOnly DEF Move
<1>8. CASE Resolved
  <2>1. /\ resolving /\ posted' = Append(posted, Done)
        /\ UNCHANGED <<phase, flags, client, packet, timers>>
    BY <1>8 DEF Resolved, Post, Done, Rest
  <2>2. Done \in Handlers /\ \A g : Done # RestartAt(g) /\ Done # PollAt(g)
    BY DEF Done, RestartAt, PollAt, Handlers
  <2>3. \A y : Has(posted', y) <=> Has(posted, y) \/ Done = y
    BY <1>p, <2>1, <2>2, HasAppend
  <2>4. GenInv'
    BY <2>1, <2>2, <2>3 DEF GenInv, Active, flags, timers
  <2>5. Starting' <=> Starting
    BY <2>1, <2>2, <2>3 DEF Starting, flags, timers
  <2>6. Stutters
    BY <2>1, <2>2, <2>3, <2>5 DEF Stutters, Active, Restarting, flags, timers
  <2>q. QED
    BY <2>4, <2>6 DEF Move
<1>9. ASSUME NEW h \in {"pause", "resume", "reconnect"}, ForeignCall(h)
      PROVE  GenInv' /\ Move
  <2> DEFINE x == [h |-> h]
  <2>1. x \in Handlers /\ x.h \notin {"restart", "poll", "resolved"}
    BY DEF Handlers
  <2>2. /\ posted' = Append(posted, x)
        /\ UNCHANGED <<phase, flags, client, packet, resolving, restartTimer,
                       pollTimer>>
    BY <1>9 DEF ForeignCall, Post, timers
  <2> HIDE DEF x
  <2>q. QED
    BY <2>1, <2>2, AppendedOnly DEF Move
<1>10. CASE ForeignStop
  <2> DEFINE x == [h |-> "stop"]
  <2>1. x \in Handlers /\ x.h \notin {"restart", "poll", "resolved"}
    BY DEF Handlers
  <2>2. /\ posted' = Append(posted, x)
        /\ UNCHANGED <<phase, flags, client, packet, resolving, restartTimer,
                       pollTimer>>
    BY <1>10 DEF ForeignStop, Post, timers
  <2> HIDE DEF x
  <2>q. QED
    BY <2>1, <2>2, AppendedOnly DEF Move
<1>11. CASE FirstPacket
  <2>1. /\ client = "connecting" /\ packet'
        /\ UNCHANGED <<phase, posted, flags, client, resolving, timers>>
    BY <1>11 DEF FirstPacket, Rest
  <2>2. Active /\ Active' /\ generation > 0
    BY <2>1 DEF Active, GenInv
  <2>3. ~Starting'
    BY <2>1, <2>2, GenTypes DEF Starting, flags
  <2>4. GenInv'
    BY <2>1 DEF GenInv, Active, flags, timers
  <2>q. QED
    BY <2>1, <2>2, <2>3, <2>4 DEF Answers, Move, Restarting, flags, timers
<1>12. CASE Connected
  <2>1. /\ client = "connecting" /\ client' = "connected"
        /\ UNCHANGED <<phase, posted, flags, packet, resolving, restartTimer,
                       pollTimer>>
    BY <1>12 DEF Connected, Rest
  <2>2. Active /\ Active'
    BY <2>1 DEF Active
  <2>3. GenInv'
    BY <2>1, <2>2 DEF GenInv, flags
  <2>4. Stutters
    BY <2>1, <2>2 DEF Stutters, Starting, Restarting, flags
  <2>q. QED
    BY <2>3, <2>4 DEF Move
<1>13. CASE TerminateRetry
  <2>1. /\ Active /\ ~halt /\ client' = "stopped" /\ RestartLater(posted)
        /\ phase' = phase
    BY <1>13 DEF TerminateRetry, Rest
  <2>2. ~Active'
    BY <2>1 DEF Active
  <2>3. /\ GenInv' /\ Restarting' /\ (Starting' => Starting)
        /\ UNCHANGED <<paused, halt>>
    BY <1>s, <2>1, <2>2, RestartLaterMoves
  <2>q. QED
    BY <2>1, <2>2, <2>3 DEF Loses, Move
<1>14. CASE TerminateFatal
  BY <1>14, <1>s, StopHalts DEF TerminateFatal, Move
<1>15. CASE UNCHANGED vars
  <2>1. GenInv'
    BY <1>15 DEF vars, GenInv, Active, flags, timers
  <2>2. Stutters
    BY <1>15 DEF vars, Stutters, Active, Starting, Restarting, flags, timers
  <2>q. QED
    BY <2>1, <2>2 DEF Move
<1>q. QED
  BY <1>1, <1>2, <1>3, <1>4, <1>5, <1>6, <1>7, <1>8, <1>9, <1>10, <1>11,
     <1>12, <1>13, <1>14, <1>15 DEF Next, ReactorStep

LEMMA InitMoves == Init => GenInv /\ Native!NativeInit
<1> SUFFICES ASSUME Init PROVE GenInv /\ Native!NativeInit
  OBVIOUS
<1>1. \A y : ~Has(posted, y)
  BY DEF Init, Has
<1>2. GenInv
  BY <1>1 DEF Init, GenInv, Active
<1>3. ~Active /\ Starting /\ ~Restarting
  BY <1>1 DEF Init, Active, Starting, Restarting
<1>4. (~halt /\ SessionDue) /\ ~(~halt /\ RestartDue)
  BY <1>3, InitTypeOK, StartingIs, RestartingIs
<1>q. QED
  BY <1>2, <1>3, <1>4 DEF Native!NativeInit, Init

(* In any order of calls, timers and packets ClientConnect behaves as the  *)
(* abstract session the Java side is modelled against, as long as fewer    *)
(* sessions were made than the counter can number.                         *)
THEOREM NativeSessionImplemented == Spec /\ []NoWrap => ImplementsNativeSession
<1>1. TypeOK /\ HaltInv /\ GenInv /\ NoWrap /\ [Next]_vars
        => GenInv' /\ [Native!NativeNext]_(Native!session)
  <2> SUFFICES ASSUME TypeOK, HaltInv, GenInv, NoWrap, [Next]_vars
               PROVE  GenInv' /\ [Native!NativeNext]_(Native!session)
    OBVIOUS
  <2>1. GenInv' /\ Move
    BY StepMoves
  <2>2. TypeOK'
    BY NextTypeOK
  <2>q. QED
    BY <2>1, <2>2, MoveIsNative
<1>2. Init => HaltInv
  BY DEF Init, HaltInv, HaltIsFinal, SetupIsLive
<1>q. QED
  BY <1>1, <1>2, InitMoves, InitTypeOK, NextTypeOK, NextHaltInv, PTL
     DEF Spec, ImplementsNativeSession, Native!NativeSpec
=============================================================================
