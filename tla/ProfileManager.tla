--------------------------- MODULE ProfileManager ---------------------------
(***************************************************************************)
(* The profile from the choice of a server to the session that uses it,    *)
(* across deaths of the process:                                           *)
(*                                                                         *)
(*   - the main thread changes CertUtils.profile, writes it to its file,   *)
(*     enters it in the list of profiles and starts the service            *)
(*     (VPN.setConnectionList, OpenConnector.connect);                     *)
(*   - the command thread of the service fetches the profile an intent     *)
(*     names, or the last connected one after a restart (fetchVPNProfile,  *)
(*     ProfileManager.get), from the map in memory and, failing that, from *)
(*     the list in the preferences and the files;                          *)
(*   - the process may die at any moment; a service that was started is    *)
(*     started again with a null intent.                                   *)
(*                                                                         *)
(* Every process makes a profile of its own with a fresh UUID: the number  *)
(* of the process stands for it.  The content of a profile is its mVersion.*)
(* Nothing that is reachable in the app removes a profile or makes a       *)
(* temporary one.                                                          *)
(***************************************************************************)
EXTENDS Naturals, Sequences

CONSTANTS MaxBoot,   \* bound on the processes
          MaxTap,    \* bound on the connects of the user
          Tries      \* retries of get(); 10 or 100 in the code

ASSUME MaxBootAssumption == MaxBoot \in Nat \ {0}
ASSUME MaxTapAssumption == MaxTap \in Nat
ASSUME TriesAssumption == Tries \in Nat /\ Tries >= 3

Uuids == 1 .. MaxBoot
None == 0
Versions == 0 .. 2 * MaxTap

VARIABLES
    \* volatile
    boot,          \* the process, and the UUID of CertUtils.profile
    version,       \* mVersion of CertUtils.profile
    instance,      \* which ProfileManager object the static field names
    profiles,      \* the map of each of them
    unread,        \* the entries loadVPNList of each has yet to read
    mainPc, pm,    \* setConnectionList, and the object it works on
    cmdQueue, cmdPc, want, tries,  \* startOpenVPN up to fetchVPNProfile
    cm,            \* the object whose loadVPNList the command thread runs
    running,       \* the profile of the session
    \* preferences, as the process sees them and as they are stored
    vpnlist, lastConnected, storedList, storedLast,
    \* kept
    files,         \* version in each profile's file; 0 without a file
    torn,          \* profiles whose file is truncated and not yet written
    started, taps,
    \* history
    whole,         \* the objects whose last loadVPNList has come to its end
    clash,         \* a reload began between addProfile and saveProfileList
    partial,       \* an object that was not whole left names out of the list
    sound          \* at the last death everything was stored

objects == <<instance, profiles, unread, whole>>
memory == <<boot, version, objects>>
main == <<mainPc, pm>>
command == <<cmdQueue, cmdPc, want, tries, cm>>
prefs == <<vpnlist, lastConnected>>
stored == <<storedList, storedLast>>
disk == <<files, torn>>
history == <<clash, partial, sound>>
vars == <<memory, main, command, running, prefs, stored, disk, started, taps,
          history>>

(* An entry of a map is CertUtils.profile itself or a copy read from a     *)
(* file.                                                                   *)
Own == [own |-> TRUE, version |-> 0]
Copy(v) == [own |-> FALSE, version |-> v]
Entries == {Own} \cup {Copy(v) : v \in Versions}
Maps == UNION {[U -> Entries] : U \in SUBSET Uuids}

(* An intent names a profile and its version, or nothing after a restart.  *)
Intent(u, v, isNull) == [uuid |-> u, version |-> v, null |-> isNull]
Restart == Intent(None, 0, TRUE)
Intents == {Restart} \cup
             {Intent(u, v, isNull) : u \in Uuids, v \in Versions, isNull \in BOOLEAN}
NoSession == Restart

TypeOK ==
    /\ boot \in Uuids /\ version \in Versions
    /\ instance \in 0 .. 2 /\ profiles \in [1 .. 2 -> Maps]
    /\ unread \in [1 .. 2 -> SUBSET Uuids] /\ whole \in SUBSET (1 .. 2)
    /\ mainPc \in {"idle", "write", "instance", "create", "load", "loading",
                   "add", "list", "decide", "send"}
    /\ pm \in 0 .. 2 /\ cm \in 0 .. 2
    /\ cmdQueue \in Seq(Intents)
    /\ cmdPc \in {"idle", "check", "create", "load", "loading", "look", "absent"}
    /\ want \in Intents /\ tries \in 0 .. Tries
    /\ running \in Intents
    /\ vpnlist \in SUBSET Uuids /\ storedList \in SUBSET Uuids
    /\ lastConnected \in Uuids \cup {None} /\ storedLast \in Uuids \cup {None}
    /\ files \in [Uuids -> Versions] /\ torn \in SUBSET Uuids
    /\ started \in BOOLEAN /\ taps \in 0 .. MaxTap
    /\ clash \in BOOLEAN /\ partial \in BOOLEAN /\ sound \in BOOLEAN

NoEntries == [u \in {} |-> Own]
NoMaps == [i \in 1 .. 2 |-> NoEntries]
NothingUnread == [i \in 1 .. 2 |-> {}]

(* The first process, just after App.onCreate.                             *)
Init ==
    /\ boot = 1 /\ version = 0
    /\ instance = 0 /\ profiles = NoMaps
    /\ unread = NothingUnread /\ whole = {}
    /\ mainPc = "idle" /\ pm = 0
    /\ cmdQueue = << >> /\ cmdPc = "idle" /\ want = Restart /\ tries = 0
    /\ cm = 0
    /\ running = NoSession
    /\ vpnlist = {} /\ lastConnected = None
    /\ storedList = {} /\ storedLast = None
    /\ files = [u \in Uuids |-> 0] /\ torn = {}
    /\ started = FALSE /\ taps = 0
    /\ clash = FALSE /\ partial = FALSE /\ sound = FALSE

-----------------------------------------------------------------------------
(* ProfileManager.                                                         *)

(* checkInstance names the new object before anything is in its map; the   *)
(* static field may name another one by the time its list is loaded.       *)
Publish ==
    /\ instance' = instance + 1
    /\ UNCHANGED <<profiles, unread, whole>>

(* The lock of an object, which loadVPNList and addProfile take.  Neither  *)
(* get nor saveProfileList does.                                           *)
Locked(i) ==
    \/ mainPc = "loading" /\ pm = i
    \/ cmdPc = "loading" /\ cm = i

(* loadVPNList of object i: an empty map, the entries of the list one by   *)
(* one, those whose file can be read.                                      *)
BeginLoad(i) ==
    /\ i = instance /\ ~Locked(i)
    /\ profiles' = [profiles EXCEPT ![i] = NoEntries]
    /\ unread' = [unread EXCEPT ![i] = vpnlist]
    /\ whole' = whole \ {i}
    /\ UNCHANGED instance

Readable(u) == files[u] > 0 /\ u \notin torn

With(entries, u, entry) ==
    [k \in DOMAIN entries \cup {u} |-> IF k = u THEN entry ELSE entries[k]]

(* Mutant: one entry that cannot be read ends the loading.                 *)
ReadEntry_AllOrNothing(i, u) ==
    /\ u \in unread[i]
    /\ IF Readable(u)
       THEN /\ profiles' = [profiles EXCEPT ![i] = With(@, u, Copy(files[u]))]
            /\ unread' = [unread EXCEPT ![i] = @ \ {u}]
       ELSE /\ unread' = [unread EXCEPT ![i] = {}]
            /\ UNCHANGED profiles
    /\ UNCHANGED <<instance, whole>>

ReadEntry(i, u) ==
    /\ u \in unread[i]
    /\ unread' = [unread EXCEPT ![i] = @ \ {u}]
    /\ profiles' = IF Readable(u)
                   THEN [profiles EXCEPT ![i] = With(@, u, Copy(files[u]))]
                   ELSE profiles
    /\ UNCHANGED <<instance, whole>>

EndLoad(i) ==
    /\ unread[i] = {}
    /\ whole' = whole \cup {i}
    /\ UNCHANGED <<instance, profiles, unread>>

VersionOf(entry) == IF entry.own THEN version ELSE entry.version

(* saveProfile: the version, openFileOutput, which truncates; then the     *)
(* object is written and the file closed.                                  *)
OpenFile ==
    /\ version' = version + 1
    /\ torn' = torn \cup {boot}

WriteFile ==
    /\ files' = [files EXCEPT ![boot] = version]
    /\ torn' = torn \ {boot}

-----------------------------------------------------------------------------
(* The main thread.                                                        *)

MainStep(from, to) == mainPc = from /\ mainPc' = to

(* VpsFactory.connect, setConnectionList.                                  *)
ChooseServer ==
    /\ taps < MaxTap /\ taps' = taps + 1
    /\ MainStep("idle", "write")
    /\ OpenFile
    /\ UNCHANGED <<boot, objects, pm, command, running, prefs,
                   stored, files, started, history>>

SaveProfile ==
    /\ MainStep("write", "instance")
    /\ WriteFile
    /\ UNCHANGED <<memory, pm, command, running, prefs, stored, started, taps,
                   history>>

(* getInstance: checkInstance, and the object the static field then names. *)
GetInstance ==
    /\ mainPc = "instance"
    /\ mainPc' = IF instance = 0 THEN "create" ELSE "add"
    /\ pm' = instance
    /\ UNCHANGED <<memory, command, running, prefs, stored, disk, started,
                   taps, history>>

CreateInstance ==
    /\ MainStep("create", "load")
    /\ Publish
    /\ UNCHANGED <<boot, version, pm, command, running, prefs, stored, disk,
                   started, taps, history>>

LoadList ==
    /\ MainStep("load", "loading")
    /\ pm' = instance
    /\ BeginLoad(pm')
    /\ UNCHANGED <<boot, version, command, running, prefs, stored, disk,
                   started, taps, history>>

LoadEntry(u) ==
    /\ mainPc = "loading" /\ ReadEntry(pm, u)
    /\ UNCHANGED <<boot, version, main, command, running, prefs, stored, disk,
                   started, taps, history>>

GotInstance ==
    /\ MainStep("loading", "add")
    /\ EndLoad(pm)
    /\ pm' = instance
    /\ UNCHANGED <<boot, version, command, running, prefs, stored, disk,
                   started, taps, history>>

(* Mutant: the profile of the process is not entered.                      *)
AddProfile_Missing ==
    /\ MainStep("add", "list")
    /\ UNCHANGED <<memory, pm, command, running, prefs, stored, disk, started,
                   taps, history>>

AddProfile ==
    /\ MainStep("add", "list")
    /\ ~Locked(pm)
    /\ profiles' = [profiles EXCEPT ![pm] = With(@, boot, Own)]
    /\ UNCHANGED <<boot, version, instance, unread, whole, pm, command, running,
                   prefs, stored, disk, started, taps, history>>

SaveProfileList ==
    /\ MainStep("list", "decide")
    /\ vpnlist' = DOMAIN profiles[pm]
    /\ partial' = (partial \/ (pm \notin whole /\ ~(vpnlist \subseteq vpnlist')))
    /\ UNCHANGED <<memory, pm, command, running, lastConnected, stored, disk,
                   started, taps, clash, sound>>

Busy == cmdQueue # << >> \/ cmdPc # "idle" \/ running # NoSession

(* connect() finds a VPN active and does nothing.                          *)
AlreadyActive ==
    /\ MainStep("decide", "idle")
    /\ Busy
    /\ UNCHANGED <<memory, pm, command, running, prefs, stored, disk, started,
                   taps, history>>

(* updateLRU saves the profile once more.  The status may be inactive even *)
(* when the service is busy, see UiFlow.                                   *)
UpdateLRU ==
    /\ MainStep("decide", "send")
    /\ OpenFile
    /\ UNCHANGED <<boot, objects, pm, command, running, prefs,
                   stored, files, started, taps, history>>

(* The file is written and the service started.                            *)
StartOpenVpn ==
    /\ MainStep("send", "idle")
    /\ WriteFile
    /\ cmdQueue' = Append(cmdQueue, Intent(boot, version, FALSE))
    /\ started' = TRUE
    /\ UNCHANGED <<memory, pm, cmdPc, want, tries, cm, running, prefs, stored,
                   taps, history>>

-----------------------------------------------------------------------------
(* The command thread.                                                     *)

FetchIntent ==
    /\ cmdPc = "idle" /\ cmdQueue # << >> /\ ~Head(cmdQueue).null
    /\ want' = Head(cmdQueue) /\ tries' = Tries
    /\ cmdQueue' = Tail(cmdQueue) /\ cmdPc' = "check"
    /\ UNCHANGED <<memory, main, cm, running, prefs, stored, disk, started, taps,
                   history>>

(* getLastConnectedProfile accepts any version.                            *)
FetchLast ==
    /\ cmdPc = "idle" /\ cmdQueue # << >> /\ Head(cmdQueue).null
    /\ want' = Intent(lastConnected, 0, TRUE) /\ tries' = Tries
    /\ cmdQueue' = Tail(cmdQueue)
    /\ cmdPc' = IF lastConnected = None THEN "absent" ELSE "check"
    /\ UNCHANGED <<memory, main, cm, running, prefs, stored, disk, started, taps,
                   history>>

(* checkInstance, without the lock of the class that getInstance takes.    *)
CheckInstance ==
    /\ cmdPc = "check"
    /\ cmdPc' = IF instance = 0 THEN "create" ELSE "look"
    /\ UNCHANGED <<memory, main, cmdQueue, want, tries, cm, running, prefs,
                   stored, disk, started, taps, history>>

NewInstance ==
    /\ cmdPc = "create" /\ cmdPc' = "load"
    /\ Publish
    /\ UNCHANGED <<boot, version, main, cmdQueue, want, tries, cm, running,
                   prefs, stored, disk, started, taps, history>>

ReloadList ==
    /\ cmdPc = "load" /\ cmdPc' = "loading"
    /\ cm' = instance
    /\ BeginLoad(cm')
    /\ clash' = (clash \/ (mainPc = "list" /\ pm = cm'))
    /\ UNCHANGED <<boot, version, main, cmdQueue, want, tries, running, prefs,
                   stored, disk, started, taps, partial, sound>>

(* The tries last a second at least, in which a file being written is      *)
(* finished, so the last one does not find it truncated.                   *)
ReloadEntry(u) ==
    /\ cmdPc = "loading" /\ ReadEntry(cm, u)
    /\ tries = 0 /\ u = boot => mainPc \notin {"write", "send"}
    /\ UNCHANGED <<boot, version, main, command, running, prefs, stored, disk,
                   started, taps, history>>

Reloaded ==
    /\ cmdPc = "loading" /\ cmdPc' = "look"
    /\ EndLoad(cm)
    /\ UNCHANGED <<boot, version, main, cmdQueue, want, tries, cm, running,
                   prefs, stored, disk, started, taps, history>>

Entry == profiles[instance][want.uuid]
Known == want.uuid \in DOMAIN profiles[instance]
Current == Known /\ VersionOf(Entry) >= want.version

(* Mutant: the map is asked once.                                          *)
Retry_Never ==
    /\ cmdPc = "look" /\ ~Current /\ tries > 0
    /\ tries' = 0
    /\ UNCHANGED <<memory, main, cmdQueue, cmdPc, want, cm, running, prefs,
                   stored, disk, started, taps, history>>

(* A tenth of a second, and the list once more.                            *)
Retry ==
    /\ cmdPc = "look" /\ ~Current /\ tries > 0
    /\ tries' = tries - 1 /\ cmdPc' = "load"
    /\ UNCHANGED <<memory, main, cmdQueue, want, cm, running, prefs, stored,
                   disk, started, taps, history>>

GiveUp ==
    /\ cmdPc = "look" /\ ~Known /\ tries = 0
    /\ cmdPc' = "absent"
    /\ UNCHANGED <<memory, main, cmdQueue, want, tries, cm, running, prefs,
                   stored, disk, started, taps, history>>

(* setConnectedVpnProfile, and the session that replaces any other.        *)
Found ==
    /\ cmdPc = "look" /\ Known /\ (Current \/ tries = 0)
    /\ lastConnected' = want.uuid
    /\ running' = Intent(want.uuid, VersionOf(Entry), want.null)
    /\ cmdPc' = "idle"
    /\ UNCHANGED <<memory, main, cmdQueue, want, tries, cm, vpnlist, stored,
                   disk, started, taps, history>>

(* No profile, and no alwaysOnVpn, which nothing sets: stopSelf(startId).  *)
NoProfile ==
    /\ cmdPc = "absent"
    /\ cmdPc' = "idle"
    /\ started' = (started /\ cmdQueue # << >>)
    /\ UNCHANGED <<memory, main, cmdQueue, want, tries, cm, running, prefs,
                   stored, disk, taps, history>>

(* endVpnService, or a session that ends of its own accord.                *)
SessionEnds(ended) ==
    /\ running # NoSession
    /\ running' = NoSession
    /\ IF ended THEN lastConnected' = None /\ started' = FALSE
                ELSE UNCHANGED <<lastConnected, started>>
    /\ UNCHANGED <<memory, main, command, vpnlist, stored, disk, taps, history>>

-----------------------------------------------------------------------------
(* The system.                                                             *)

(* Editor.apply stores what is in memory some time later; the list and the *)
(* last profile are in different files.                                    *)
StoreList ==
    /\ storedList # vpnlist
    /\ storedList' = vpnlist
    /\ UNCHANGED <<memory, main, command, running, prefs, storedLast, disk,
                   started, taps, history>>

StoreLast ==
    /\ storedLast # lastConnected
    /\ storedLast' = lastConnected
    /\ UNCHANGED <<memory, main, command, running, prefs, storedList, disk,
                   started, taps, history>>

(* Everything the running session needs to come back is stored.            *)
Stored ==
    /\ running # NoSession
    /\ storedLast = running.uuid /\ running.uuid \in storedList
    /\ running.uuid \notin torn

(* The process dies; a service that was started gets a null intent.        *)
ProcessDies ==
    /\ boot < MaxBoot
    /\ boot' = boot + 1 /\ version' = 0
    /\ instance' = 0 /\ profiles' = NoMaps
    /\ unread' = NothingUnread /\ whole' = {}
    /\ mainPc' = "idle" /\ pm' = 0
    /\ cmdQueue' = IF started THEN <<Restart>> ELSE << >>
    /\ cmdPc' = "idle" /\ want' = Restart /\ tries' = 0 /\ cm' = 0
    /\ running' = NoSession
    /\ vpnlist' = storedList /\ lastConnected' = storedLast
    /\ clash' = FALSE /\ partial' = FALSE /\ sound' = Stored
    /\ UNCHANGED <<stored, disk, started, taps>>

Next ==
    \/ ChooseServer \/ SaveProfile
    \/ GetInstance \/ CreateInstance \/ LoadList
    \/ (\E u \in Uuids : LoadEntry(u)) \/ GotInstance
    \/ AddProfile \/ SaveProfileList
    \/ AlreadyActive \/ UpdateLRU \/ StartOpenVpn
    \/ FetchIntent \/ FetchLast \/ CheckInstance \/ NewInstance
    \/ ReloadList \/ (\E u \in Uuids : ReloadEntry(u)) \/ Reloaded
    \/ Retry \/ GiveUp \/ Found \/ NoProfile
    \/ (\E ended \in BOOLEAN : SessionEnds(ended))
    \/ StoreList \/ StoreLast \/ ProcessDies

Spec == Init /\ [][Next]_vars

-----------------------------------------------------------------------------
(* A start the user asked for finds its profile: the map or, through the   *)
(* list and the file, a retry has it.  The exception is a reload by the    *)
(* command thread that begins between addProfile and saveProfileList: it   *)
(* drops the profile from the map, and the list saved then may not name it.*)
StartFindsProfile == cmdPc = "absent" /\ ~want.null => clash

(* The session uses the profile as it was when the start was sent, or a    *)
(* later state of it, never an earlier one.                                *)
StartIsCurrent ==
    cmdPc = "look" /\ Known /\ tries = 0 => Current

(* A session that was running when the process died, with everything       *)
(* stored, is found by the restarted service, whatever the two threads make*)
(* and load meanwhile: a load that empties the map under the command       *)
(* thread is made up for by a retry.  The exception is the one defect known*)
(* here: an object is published before its list is loaded, and the main    *)
(* thread, which gets it empty or half full, saves a list that leaves out  *)
(* names the list had.                                                     *)
RestartRecovers ==
    cmdPc = "absent" /\ want.null /\ sound => partial

(* What the list names can be read, unless it is being written or was when *)
(* a process died: no profile is entered before its file.                  *)
ListedAreReadable ==
    \A u \in vpnlist \cup storedList :
        files[u] > 0 /\ (u \in torn => u < boot \/ mainPc \in {"write", "send"})
=============================================================================
