---------------------------- MODULE NativeSession ----------------------------
(***************************************************************************)
(* What the native client (ClientConnect) promises to the Java side of it: *)
(* an abstract session that is paused, resumed and asked to reconnect.     *)
(*                                                                         *)
(* A pause stops the protocol session at once. It cannot take back what    *)
(* the reactor has already queued, so a restart or the start of another    *)
(* session that was due before the pause may still take place after it.    *)
(***************************************************************************)
VARIABLES
    paused,  \* the session is paused
    up,      \* there is a protocol session, connecting or connected
    due,     \* a resolution or a silent server will bring a new session
    restart, \* a restart is due
    halted   \* the session has been stopped for good

session == <<paused, up, due, restart, halted>>

NativeTypeOK ==
    /\ paused \in BOOLEAN /\ up \in BOOLEAN /\ due \in BOOLEAN
    /\ restart \in BOOLEAN /\ halted \in BOOLEAN

NativeInit ==
    /\ paused = FALSE /\ up = FALSE /\ due = TRUE
    /\ restart = FALSE /\ halted = FALSE

(* What was due may have been queued already.                              *)
CancelDue == due' \in {FALSE, due}
CancelRestart == restart' \in {FALSE, restart}

NewSession == ~halted /\ up' = TRUE /\ due' = TRUE /\ restart' = FALSE
              /\ halted' = halted

(* The calls of the application.                                           *)
PauseSession ==
    /\ ~halted /\ ~paused
    /\ paused' = TRUE /\ up' = FALSE
    /\ CancelDue /\ CancelRestart
    /\ halted' = halted

ResumeSession == paused /\ NewSession /\ paused' = FALSE

Reconnect ==
    /\ ~halted
    /\ restart' = TRUE
    /\ CancelDue
    /\ UNCHANGED <<paused, up>> /\ halted' = halted

HaltSession ==
    /\ ~halted
    /\ halted' = TRUE /\ up' = FALSE /\ due' = FALSE /\ restart' = FALSE
    /\ UNCHANGED paused

(* What the session does of its own accord.                                *)
RestartSession == restart /\ NewSession /\ paused' = FALSE

NextServer == due /\ NewSession /\ UNCHANGED paused

ServerAnswers ==
    /\ up /\ due' = FALSE
    /\ UNCHANGED <<paused, up, restart>> /\ halted' = halted

ConnectionLost ==
    /\ up /\ up' = FALSE /\ restart' = TRUE
    /\ CancelDue
    /\ UNCHANGED paused /\ halted' = halted

NativeNext ==
    \/ PauseSession \/ ResumeSession \/ Reconnect \/ HaltSession
    \/ RestartSession \/ NextServer \/ ServerAnswers \/ ConnectionLost

NativeSpec == NativeInit /\ [][NativeNext]_session
=============================================================================
