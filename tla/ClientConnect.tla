---------------------------- MODULE ClientConnect ----------------------------
(***************************************************************************)
(* The native session of one OpenVPNClient::connect() call: the reactor    *)
(* (io_context) with its queue of posted handlers, the three timers of     *)
(* ClientConnect, and the calls other threads make through ClientAPI.      *)
(* The protocol session itself (class Client) is reduced to what           *)
(* ClientConnect sees of it.                                               *)
(*                                                                         *)
(* A timer that has expired is a handler in the queue: cancelling or       *)
(* re-arming it afterwards does not take the handler back.                 *)
(***************************************************************************)
EXTENDS Naturals, Sequences

CONSTANTS MaxGen,     \* largest value of the unsigned generation counter
          MaxPosted,  \* bound on handlers posted by foreign threads
          Resolves    \* does the remote list want a bulk resolve?

ASSUME MaxGenAssumption == MaxGen \in Nat \ {0}
ASSUME MaxPostedAssumption == MaxPosted \in Nat
ASSUME ResolvesAssumption == Resolves \in BOOLEAN

VARIABLES
    phase,        \* of connect(): setting up, running the reactor, returned
    ready,        \* foreign_thread_ready
    stopCalled,   \* async_stop_local_.stop_called
    posted,       \* handlers waiting in io_context
    generation, halt, paused,
    client,       \* the current protocol session
    packet,       \* its first_packet_received_
    resolving,    \* a bulk resolve is under way
    work,         \* asio_work holds the reactor
    restartTimer, \* generation captured by restart_wait_timer, or Off
    pollTimer,    \* generation captured by server_poll_timer, or Off
    connTimer,    \* conn_timer is armed
    connPending,  \* conn_timer_pending
    event         \* the last event given to the application

flags  == <<generation, halt, paused>>
timers == <<restartTimer, pollTimer, connTimer, connPending>>
vars   == <<phase, ready, stopCalled, posted, flags, client, packet,
            resolving, work, timers, event>>

Off == MaxGen + 1
Gens == 0 .. MaxGen
Handlers == [h : {"pause", "resume", "reconnect", "stop", "resolved", "conn"}]
            \cup [h : {"restart", "poll"}, gen : Gens]
ClientStates == {"none", "connecting", "connected", "stopped"}
Active == client \in {"connecting", "connected"}

TypeOK ==
    /\ phase \in {"setup", "running", "returned"}
    /\ ready \in BOOLEAN /\ stopCalled \in BOOLEAN
    /\ posted \in Seq(Handlers)
    /\ generation \in Gens /\ halt \in BOOLEAN /\ paused \in BOOLEAN
    /\ client \in ClientStates /\ packet \in BOOLEAN
    /\ resolving \in BOOLEAN /\ work \in BOOLEAN
    /\ restartTimer \in Gens \cup {Off} /\ pollTimer \in Gens \cup {Off}
    /\ connTimer \in BOOLEAN /\ connPending \in BOOLEAN

Queued(h) == \E i \in DOMAIN posted : posted[i].h = h

(* ++generation skips 0 when the counter wraps.                            *)
Successor(g) == IF g = MaxGen THEN 1 ELSE g + 1

Post(q, handler) == Append(q, handler)

-----------------------------------------------------------------------------
(* What the methods of ClientConnect do to its state; q is the queue with  *)
(* the running handler removed.                                            *)

(* Mutant: stop() forgets asio_work.reset().                               *)
Stop_KeepsWork(q) ==
    /\ posted' = q
    /\ IF halt
       THEN UNCHANGED <<halt, client, resolving, work, timers, event>>
       ELSE /\ halt' = TRUE
            /\ client' = IF Active THEN "stopped" ELSE client
            /\ resolving' = FALSE
            /\ restartTimer' = Off /\ pollTimer' = Off
            /\ connTimer' = FALSE /\ connPending' = FALSE
            /\ event' = "Disconnected"
            /\ UNCHANGED work
    /\ UNCHANGED <<generation, paused, packet>>

(* stop(): nothing when already halted.                                    *)
Stop(q) ==
    /\ posted' = q
    /\ IF halt
       THEN UNCHANGED <<halt, client, resolving, work, timers, event>>
       ELSE /\ halt' = TRUE
            /\ client' = IF Active THEN "stopped" ELSE client
            /\ resolving' = FALSE
            /\ restartTimer' = Off /\ pollTimer' = Off
            /\ connTimer' = FALSE /\ connPending' = FALSE
            /\ work' = FALSE
            /\ event' = "Disconnected"
    /\ UNCHANGED <<generation, paused, packet>>

(* new_client(); the connection timer keeps running over restarts.         *)
NewClient(q, p) ==
    /\ posted' = q
    /\ generation' = Successor(generation)
    /\ paused' = p
    /\ client' = "connecting" /\ packet' = FALSE
    /\ work' = FALSE
    /\ restartTimer' = Off
    /\ pollTimer' = generation'
    /\ connTimer' = (connTimer \/ ~connPending)
    /\ connPending' = TRUE
    /\ event' = IF generation' > 1 THEN "Reconnecting"
                ELSE IF p # paused THEN "Resume" ELSE event
    /\ UNCHANGED <<halt, resolving>>

(* Mutant: pause() takes no asio_work.                                     *)
Pause_NoWork(q) ==
    /\ posted' = q
    /\ IF halt \/ paused
       THEN UNCHANGED <<paused, client, timers, event>>
       ELSE /\ paused' = TRUE
            /\ client' = IF Active THEN "stopped" ELSE client
            /\ restartTimer' = Off /\ pollTimer' = Off
            /\ connTimer' = FALSE /\ connPending' = FALSE
            /\ event' = "Pause"
    /\ UNCHANGED <<generation, halt, packet, resolving, work>>

(* pause()                                                                 *)
Pause(q) ==
    /\ posted' = q
    /\ IF halt \/ paused
       THEN UNCHANGED <<paused, client, work, timers, event>>
       ELSE /\ paused' = TRUE
            /\ client' = IF Active THEN "stopped" ELSE client
            /\ restartTimer' = Off /\ pollTimer' = Off
            /\ connTimer' = FALSE /\ connPending' = FALSE
            /\ work' = TRUE
            /\ event' = "Pause"
    /\ UNCHANGED <<generation, halt, packet, resolving>>

Ignore(q) ==
    /\ posted' = q
    /\ UNCHANGED <<flags, client, packet, resolving, work, timers, event>>

(* resume()                                                                *)
Resume(q) == IF ~halt /\ paused THEN NewClient(q, FALSE) ELSE Ignore(q)

(* Mutant: the timer captures the generation of the next session.          *)
RestartLater_NextGen(q) ==
    /\ posted' = q
    /\ pollTimer' = Off
    /\ restartTimer' = Successor(generation)
    /\ UNCHANGED <<flags, packet, resolving, work, connTimer, connPending>>

(* The end of queue_restart() and of reconnect().                          *)
RestartLater(q) ==
    /\ posted' = q
    /\ pollTimer' = Off
    /\ restartTimer' = generation
    /\ UNCHANGED <<flags, packet, resolving, work, connTimer, connPending>>

(* reconnect()                                                             *)
Reconnect(q) ==
    IF halt THEN Ignore(q) ELSE RestartLater(q) /\ UNCHANGED <<client, event>>

(* Mutant: the callback does not compare its generation.                   *)
RestartCallback_AnyGen(q, gen) ==
    IF halt THEN Ignore(q)
    ELSE IF paused THEN Resume(q)
    ELSE NewClient(q, paused)

(* restart_wait_callback()                                                 *)
RestartCallback(q, gen) ==
    IF gen # generation \/ halt THEN Ignore(q)
    ELSE IF paused THEN Resume(q)
    ELSE NewClient(q, paused)

(* server_poll_callback()                                                  *)
PollCallback(q, gen) ==
    IF gen = generation /\ ~halt /\ ~packet THEN NewClient(q, paused)
    ELSE Ignore(q)

(* conn_timer_callback(); the application answers false to                 *)
(* pause_on_connection_timeout.                                            *)
ConnCallback(q) == Stop(q)

(* bulk_resolve_done()                                                     *)
ResolveDone(q) ==
    IF ~halt /\ generation = 0 THEN NewClient(q, paused) ELSE Ignore(q)

-----------------------------------------------------------------------------
Init ==
    /\ phase = "setup" /\ ready = FALSE /\ stopCalled = FALSE
    /\ posted = << >>
    /\ generation = 0 /\ halt = FALSE /\ paused = FALSE
    /\ client = "none" /\ packet = FALSE
    /\ resolving = FALSE /\ work = FALSE
    /\ restartTimer = Off /\ pollTimer = Off
    /\ connTimer = FALSE /\ connPending = FALSE
    /\ event = "none"

(* start() in connect_setup.                                               *)
Start ==
    /\ phase = "setup" /\ generation = 0 /\ ~resolving
    /\ IF Resolves
       THEN /\ resolving' = TRUE
            /\ event' = "Resolve"
            /\ UNCHANGED <<posted, flags, client, packet, work, timers>>
       ELSE NewClient(posted, paused)
    /\ UNCHANGED <<phase, ready, stopCalled>>

(* enable_foreign_thread_access, then connect_run.                         *)
RunReactor ==
    /\ phase = "setup" /\ (generation > 0 \/ resolving)
    /\ phase' = "running" /\ ready' = TRUE
    /\ UNCHANGED <<stopCalled, posted, flags, client, packet, resolving, work,
                   timers, event>>

(* OpenVPNClient::pause, resume and reconnect on a foreign thread.         *)
ForeignCall(h) ==
    /\ ready /\ ~halt /\ Len(posted) < MaxPosted
    /\ posted' = Post(posted, [h |-> h])
    /\ UNCHANGED <<phase, ready, stopCalled, flags, client, packet, resolving,
                   work, timers, event>>

(* OpenVPNClient::stop: the stop scope posts graceful_stop once.           *)
ForeignStop ==
    /\ ready /\ ~stopCalled /\ phase = "running"
    /\ stopCalled' = TRUE
    /\ posted' = Post(posted, [h |-> "stop"])
    /\ UNCHANGED <<phase, ready, flags, client, packet, resolving, work,
                   timers, event>>

Rest == UNCHANGED <<phase, ready, stopCalled>>
Reactor == phase = "running"

(* The reactor runs the handler at the head of its queue.                  *)
RunHandler ==
    /\ Reactor /\ posted # << >> /\ Rest
    /\ LET handler == Head(posted) q == Tail(posted) IN
       \/ handler.h = "stop" /\ Stop(q)
       \/ handler.h = "pause" /\ Pause(q)
       \/ handler.h = "resume" /\ Resume(q)
       \/ handler.h = "reconnect" /\ Reconnect(q)
       \/ handler.h = "resolved" /\ ResolveDone(q)
       \/ handler.h = "restart" /\ RestartCallback(q, handler.gen)
       \/ handler.h = "poll" /\ PollCallback(q, handler.gen)
       \/ handler.h = "conn" /\ ConnCallback(q)

(* Timers expire and the resolver finishes: their handlers are queued.     *)
RestartExpires ==
    /\ Reactor /\ restartTimer # Off
    /\ posted' = Post(posted, [h |-> "restart", gen |-> restartTimer])
    /\ restartTimer' = Off
    /\ Rest /\ UNCHANGED <<flags, client, packet, resolving, work, pollTimer,
                           connTimer, connPending, event>>

PollExpires ==
    /\ Reactor /\ pollTimer # Off
    /\ posted' = Post(posted, [h |-> "poll", gen |-> pollTimer])
    /\ pollTimer' = Off
    /\ Rest /\ UNCHANGED <<flags, client, packet, resolving, work,
                           restartTimer, connTimer, connPending, event>>

ConnExpires ==
    /\ Reactor /\ connTimer
    /\ posted' = Post(posted, [h |-> "conn"])
    /\ connTimer' = FALSE
    /\ Rest /\ UNCHANGED <<flags, client, packet, resolving, work,
                           restartTimer, pollTimer, connPending, event>>

Resolved ==
    /\ Reactor /\ resolving
    /\ posted' = Post(posted, [h |-> "resolved"])
    /\ resolving' = FALSE
    /\ Rest /\ UNCHANGED <<flags, client, packet, work, timers, event>>

(* The first packet of the server.                                         *)
FirstPacket ==
    /\ Reactor /\ client = "connecting" /\ ~packet
    /\ packet' = TRUE /\ event' = "Connecting"
    /\ Rest /\ UNCHANGED <<posted, flags, client, resolving, work, timers>>

(* Mutant: conn_timer_pending is not reset.                                *)
Connected_StillPending ==
    /\ Reactor /\ client = "connecting" /\ packet
    /\ client' = "connected"
    /\ connTimer' = FALSE
    /\ event' = "Connected"
    /\ Rest /\ UNCHANGED <<posted, flags, packet, resolving, work,
                           restartTimer, pollTimer, connPending>>

(* client_proto_connected()                                                *)
Connected ==
    /\ Reactor /\ client = "connecting" /\ packet
    /\ client' = "connected"
    /\ connTimer' = FALSE /\ connPending' = FALSE
    /\ event' = "Connected"
    /\ Rest /\ UNCHANGED <<posted, flags, packet, resolving, work,
                           restartTimer, pollTimer>>

(* client_proto_terminate() after an error worth a retry, and after one    *)
(* that is not.                                                            *)
TerminateRetry ==
    /\ Reactor /\ Active /\ ~halt
    /\ client' = "stopped"
    /\ RestartLater(posted)
    /\ Rest /\ UNCHANGED event

TerminateFatal == Reactor /\ Active /\ ~halt /\ Stop(posted) /\ Rest

(* io_context::run returns when nothing is left to wait for.               *)
HasWork ==
    \/ posted # << >> \/ work \/ resolving \/ Active
    \/ restartTimer # Off \/ pollTimer # Off \/ connTimer

RunReturns ==
    /\ Reactor /\ ~HasWork
    /\ phase' = "returned"
    /\ UNCHANGED <<ready, stopCalled, posted, flags, client, packet,
                   resolving, work, timers, event>>

ReactorStep ==
    \/ Start \/ RunReactor \/ RunHandler \/ RunReturns
    \/ RestartExpires \/ PollExpires \/ ConnExpires \/ Resolved

Next ==
    \/ ReactorStep
    \/ \E h \in {"pause", "resume", "reconnect"} : ForeignCall(h)
    \/ ForeignStop
    \/ FirstPacket \/ Connected \/ TerminateRetry \/ TerminateFatal

Spec == Init /\ [][Next]_vars

(* The reactor runs what is queued and timers expire; nothing is expected  *)
(* of the server or of the other threads.                                  *)
Fairness ==
    /\ WF_vars(Start) /\ WF_vars(RunReactor) /\ WF_vars(RunHandler)
    /\ WF_vars(RunReturns) /\ WF_vars(Resolved) /\ WF_vars(RestartExpires)
    /\ WF_vars(PollExpires) /\ WF_vars(ConnExpires)

FairSpec == Spec /\ Fairness

-----------------------------------------------------------------------------
(* A halted session stays down: whatever handlers were still queued when   *)
(* stop() ran, there is no protocol session, no timer and no later event.  *)
HaltIsFinal ==
    halt => /\ ~Active /\ ~resolving /\ ~work
            /\ restartTimer = Off /\ pollTimer = Off /\ ~connTimer
            /\ event = "Disconnected"

(* "doesn't return until disconnect": the reactor never runs out of work,  *)
(* in any order of pauses, restarts and terminations, before stop().       *)
ReturnsOnlyHalted == phase = "running" /\ ~halt => HasWork

(* "always-try-to-reconnect": a session that is neither halted nor paused  *)
(* has a protocol session, or something that will create one.              *)
AlwaysTries ==
    phase = "running" /\ ~halt /\ ~paused =>
        \/ Active \/ resolving \/ restartTimer # Off
        \/ \E i \in DOMAIN posted :
             \/ posted[i].h \in {"resolved", "restart"}

(* Every attempt to connect is under the connection timeout.               *)
AttemptIsTimed ==
    phase = "running" /\ ~halt /\ client = "connecting" =>
        connTimer \/ Queued("conn")

(* A stop posted to the reactor ends in connect() returning.               *)
StopReturns == stopCalled ~> phase = "returned"

(* An attempt does not go on for ever: it connects, is paused, or ends.    *)
AttemptEnds ==
    client = "connecting" ~> (client = "connected" \/ paused \/ halt)

-----------------------------------------------------------------------------
(* The session the Java side of the client sees.                           *)

RestartDue ==
    \/ restartTimer # Off
    \/ \E i \in DOMAIN posted :
          posted[i].h = "restart" /\ posted[i].gen = generation

SessionDue ==
    \/ generation = 0 /\ (phase = "setup" \/ resolving \/ Queued("resolved"))
    \/ /\ ~packet /\ generation > 0
       /\ \/ pollTimer # Off
          \/ \E i \in DOMAIN posted :
                posted[i].h = "poll" /\ posted[i].gen = generation

Native == INSTANCE NativeSession
            WITH up <- Active, due <- ~halt /\ SessionDue,
                 restart <- ~halt /\ RestartDue, halted <- halt

(* In any order of calls, timers and packets ClientConnect behaves as the  *)
(* abstract session: a pause or a stop ends the protocol session, and a    *)
(* session comes up only if one was due, never from a stale handler.       *)
ImplementsNativeSession == Native!NativeSpec
=============================================================================
