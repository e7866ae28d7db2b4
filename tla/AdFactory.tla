----------------------------- MODULE AdFactory -----------------------------
(***************************************************************************)
(* Loading and showing advertisements.  Everything runs on the main thread *)
(* in coroutines of the scope of some activity, so a step is a coroutine   *)
(* between two suspensions: loadAll looks which places need an ad and      *)
(* launches a child for each; the child, which runs later, enters the      *)
(* place in loadingPlace, waits for the SDK, and takes it out again.  An   *)
(* activity that is destroyed cancels the coroutines of its scope where    *)
(* they wait.                                                              *)
(*                                                                         *)
(* Every type of ad has one place (ids), so a place stands for its type.   *)
(* What follows a shown ad (after) belongs to the screens.                 *)
(***************************************************************************)
EXTENDS Naturals, FiniteSets

CONSTANTS Places,     \* "start", "finish", "report"
          Scopes,     \* activities
          Starter,    \* the StartActivity, which loads when it opens
          MaxShow     \* bound on the ads asked for

ASSUME StarterAssumption == Starter \in Scopes
ASSUME MaxShowAssumption == MaxShow \in Nat

VARIABLES
    result,        \* loaded ads of each place
    loadingPlace,  \* how often each place is in the list
    life,          \* of each activity
    checks,        \* loadAll coroutines posted by each scope
    launched,      \* children that have not run yet
    loading,       \* children waiting for the SDK
    shows,         \* ads asked for so far
    \* history
    abandoned,     \* children cancelled while they waited
    overlap,       \* a check found a child launched but not yet run
    setback        \* a load failed or something was cancelled

vars == <<result, loadingPlace, life, checks, launched, loading, shows,
          abandoned, overlap, setback>>

(* No more coroutines than there were checks: one, and one per ad shown.   *)
Counts == 0 .. MaxShow + 1

TypeOK ==
    /\ result \in [Places -> Counts]
    /\ loadingPlace \in [Places -> Counts]
    /\ life \in [Scopes -> {"new", "open", "destroyed"}]
    /\ checks \in [Scopes -> Counts]
    /\ launched \in [Scopes -> [Places -> Counts]]
    /\ loading \in [Scopes -> [Places -> Counts]]
    /\ shows \in 0 .. MaxShow
    /\ abandoned \in [Places -> Counts]
    /\ overlap \in [Places -> BOOLEAN]
    /\ setback \in BOOLEAN

Init ==
    /\ result = [p \in Places |-> 0]
    /\ loadingPlace = [p \in Places |-> 0]
    /\ life = [a \in Scopes |-> "new"]
    /\ checks = [a \in Scopes |-> 0]
    /\ launched = [a \in Scopes |-> [p \in Places |-> 0]]
    /\ loading = [a \in Scopes |-> [p \in Places |-> 0]]
    /\ shows = 0
    /\ abandoned = [p \in Places |-> 0]
    /\ overlap = [p \in Places |-> FALSE]
    /\ setback = FALSE

-----------------------------------------------------------------------------
(* An activity opens; the first one loads at once.                         *)
Open(a) ==
    /\ life[a] = "new" /\ (a = Starter \/ life[Starter] # "new")
    /\ life' = [life EXCEPT ![a] = "open"]
    /\ checks' = [checks EXCEPT ![a] = IF a = Starter THEN 1 ELSE 0]
    /\ UNCHANGED <<result, loadingPlace, launched, loading, shows, abandoned,
                   overlap, setback>>

(* Mutant: an ad under way does not count.                                 *)
CheckIfNeedLoad_ResultOnly(p) == result[p] = 0

CheckIfNeedLoad(p) == result[p] = 0 /\ loadingPlace[p] = 0

Launched(p) == \E a \in Scopes : launched[a][p] > 0

(* loadAll: the check of all places, and a child for each that needs one.  *)
LoadAll(a) ==
    /\ checks[a] > 0
    /\ checks' = [checks EXCEPT ![a] = @ - 1]
    /\ launched' = [launched EXCEPT ![a] =
         [p \in Places |-> IF CheckIfNeedLoad(p) THEN @[p] + 1 ELSE @[p]]]
    /\ overlap' = [p \in Places |->
         overlap[p] \/ (CheckIfNeedLoad(p) /\ Launched(p))]
    /\ UNCHANGED <<result, loadingPlace, life, loading, shows, abandoned,
                   setback>>

BeginLoad(a, p) ==
    /\ launched[a][p] > 0
    /\ launched' = [launched EXCEPT ![a][p] = @ - 1]
    /\ loadingPlace' = [loadingPlace EXCEPT ![p] = @ + 1]
    /\ loading' = [loading EXCEPT ![a][p] = @ + 1]
    /\ UNCHANGED <<result, life, checks, shows, abandoned, overlap, setback>>

(* Mutant: the place is only taken out when there is an ad.                *)
EndLoad_KeepsFailed(a, p, loaded) ==
    /\ loading[a][p] > 0
    /\ loading' = [loading EXCEPT ![a][p] = @ - 1]
    /\ IF loaded
       THEN /\ loadingPlace' = [loadingPlace EXCEPT ![p] = @ - 1]
            /\ result' = [result EXCEPT ![p] = @ + 1]
       ELSE UNCHANGED <<loadingPlace, result>>
    /\ setback' = (setback \/ ~loaded)
    /\ UNCHANGED <<life, checks, launched, shows, abandoned, overlap>>

(* The SDK has answered, with an ad or with null, and the child goes on.   *)
EndLoad(a, p, loaded) ==
    /\ loading[a][p] > 0
    /\ loading' = [loading EXCEPT ![a][p] = @ - 1]
    /\ loadingPlace' = [loadingPlace EXCEPT ![p] = @ - 1]
    /\ result' = [result EXCEPT ![p] = IF loaded THEN @ + 1 ELSE @]
    /\ setback' = (setback \/ ~loaded)
    /\ UNCHANGED <<life, checks, launched, shows, abandoned, overlap>>

(* Mutant: a shown ad is not replaced.                                     *)
Show_NoReload(a, p) ==
    /\ life[a] = "open" /\ shows < MaxShow
    /\ shows' = shows + 1
    /\ result' = [result EXCEPT ![p] = IF @ > 0 THEN @ - 1 ELSE 0]
    /\ UNCHANGED <<loadingPlace, life, checks, launched, loading, abandoned,
                   overlap, setback>>

(* Mutant: an ad is taken without a look whether there is one.            *)
Show_Unchecked(a, p) ==
    /\ life[a] = "open" /\ shows < MaxShow
    /\ shows' = shows + 1
    /\ result' = [result EXCEPT ![p] = @ - 1]
    /\ checks' = [checks EXCEPT ![a] = @ + 1]
    /\ UNCHANGED <<loadingPlace, life, launched, loading, abandoned, overlap,
                   setback>>

(* show: without an ad of the type nothing is loaded either, and an ad     *)
(* that fails to show is kept.                                             *)
Show(a, p) ==
    /\ life[a] = "open" /\ shows < MaxShow
    /\ shows' = shows + 1
    /\ \/ UNCHANGED <<result, checks>>
       \/ /\ result[p] > 0
          /\ result' = [result EXCEPT ![p] = @ - 1]
          /\ checks' = [checks EXCEPT ![a] = @ + 1]
    /\ UNCHANGED <<loadingPlace, life, launched, loading, abandoned, overlap,
                   setback>>

(* The scope is cancelled: join() throws, and what follows it is skipped.  *)
Destroy(a) ==
    /\ life[a] = "open"
    /\ life' = [life EXCEPT ![a] = "destroyed"]
    /\ checks' = [checks EXCEPT ![a] = 0]
    /\ launched' = [launched EXCEPT ![a] = [p \in Places |-> 0]]
    /\ loading' = [loading EXCEPT ![a] = [p \in Places |-> 0]]
    /\ abandoned' = [p \in Places |-> abandoned[p] + loading[a][p]]
    /\ setback' = (setback \/ checks[a] > 0
                     \/ \E p \in Places : launched[a][p] + loading[a][p] > 0)
    /\ UNCHANGED <<result, loadingPlace, shows, overlap>>

Next ==
    \E a \in Scopes :
        \/ Open(a) \/ LoadAll(a) \/ Destroy(a)
        \/ \E p \in Places :
             \/ BeginLoad(a, p) \/ Show(a, p)
             \/ \E loaded \in BOOLEAN : EndLoad(a, p, loaded)

Spec == Init /\ [][Next]_vars

(* The app is opened, the main thread runs what is posted and the SDK      *)
(* answers.  Shows and the end of an activity are not owed.                *)
Fairness ==
    /\ WF_vars(Open(Starter))
    /\ \A a \in Scopes :
         /\ WF_vars(LoadAll(a))
         /\ \A p \in Places :
              /\ WF_vars(BeginLoad(a, p))
              /\ WF_vars(\E loaded \in BOOLEAN : EndLoad(a, p, loaded))

FairSpec == Spec /\ Fairness

-----------------------------------------------------------------------------
Busy(p) == {a \in Scopes : loading[a][p] > 0}

(* A place counts as loading, and so is not loaded again, only while some  *)
(* coroutine waits for it, unless a scope was cancelled during the wait:   *)
(* then it stays in loadingPlace as long as the process lives.             *)
LoadingIsReal ==
    \A p \in Places : loadingPlace[p] > abandoned[p] <=> Busy(p) # {}

(* A place never has two ads or two loads, unless a second loadAll looked  *)
(* at it between the launch of a child and its first step.                 *)
OneAdPerPlace ==
    \A p \in Places :
        ~overlap[p] => result[p] + loadingPlace[p] - abandoned[p] <= 1

(* As long as no load fails and no scope is cancelled, every place gets an *)
(* ad, and another one after each that is shown.                           *)
AdsReturn == \A p \in Places : []<>(result[p] > 0 \/ setback)
=============================================================================
