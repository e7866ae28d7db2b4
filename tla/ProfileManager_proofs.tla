----------------------- MODULE ProfileManager_proofs -----------------------
(***************************************************************************)
(* The path of a profile from the choice of a server to the session, for   *)
(* any number of processes, connects and retries.                          *)
(***************************************************************************)
EXTENDS ProfileManager, SequenceTheorems, TLAPS

LEMMA VersionsAre ==
    /\ 0 \in Versions /\ \A v \in Versions : v \in Nat
    /\ \A v \in Nat : v <= 2 * MaxTap => v \in Versions
  BY MaxTapAssumption DEF Versions

LEMMA UuidsAre ==
    /\ 1 \in Uuids /\ None \notin Uuids
    /\ \A u \in Uuids : u \in Nat /\ u >= 1
    /\ \A u \in Uuids : u < MaxBoot => u + 1 \in Uuids
  BY MaxBootAssumption DEF Uuids, None

LEMMA IntentsAre ==
    /\ Restart \in Intents /\ NoSession \in Intents
    /\ Restart.null /\ Restart.version = 0
    /\ \A u \in Uuids, v \in Versions, n \in BOOLEAN : Intent(u, v, n) \in Intents
    /\ \A u, v, n : /\ Intent(u, v, n).uuid = u /\ Intent(u, v, n).version = v
                    /\ Intent(u, v, n).null = n
    /\ \A i \in Intents : /\ i.uuid \in Uuids \cup {None}
                          /\ i.version \in Versions /\ i.null \in BOOLEAN
<1>1. \A u, v, n : /\ Intent(u, v, n).uuid = u /\ Intent(u, v, n).version = v
                   /\ Intent(u, v, n).null = n
  BY DEF Intent
<1>2. /\ Restart \in Intents /\ NoSession \in Intents
      /\ Restart.null /\ Restart.version = 0 /\ Restart.uuid = None
  <2>1. Restart \in Intents /\ NoSession \in Intents
    BY DEF Intents, NoSession
  <2>2. Restart.null /\ Restart.version = 0 /\ Restart.uuid = None
    BY DEF Restart, Intent
  <2>q. QED
    BY <2>1, <2>2
<1>3. \A u \in Uuids, v \in Versions, n \in BOOLEAN : Intent(u, v, n) \in Intents
  BY DEF Intents
<1>4. ASSUME NEW i \in Intents
      PROVE  /\ i.uuid \in Uuids \cup {None}
             /\ i.version \in Versions /\ i.null \in BOOLEAN
  <2>1. CASE i = Restart
    BY <2>1, <1>2, VersionsAre
  <2>2. CASE i # Restart
    <3>1. PICK u \in Uuids, v \in Versions, n \in BOOLEAN : i = Intent(u, v, n)
      BY <2>2 DEF Intents
    <3>q. QED
      BY <3>1, <1>1
  <2>q. QED
    BY <2>1, <2>2
<1>q. QED
  BY <1>1, <1>2, <1>3, <1>4

LEMMA MapsAre ==
    /\ \A m \in Maps : DOMAIN m \in SUBSET Uuids /\ m \in [DOMAIN m -> Entries]
    /\ \A U \in SUBSET Uuids : \A m \in [U -> Entries] : m \in Maps
    /\ Own \in Entries /\ \A v \in Versions : Copy(v) \in Entries
    /\ \A e \in Entries : e.own \in BOOLEAN /\ e.version \in Versions
    /\ Own.own /\ \A v : ~Copy(v).own /\ Copy(v).version = v
<1>1. \A m \in Maps : DOMAIN m \in SUBSET Uuids /\ m \in [DOMAIN m -> Entries]
  BY DEF Maps
<1>2. \A U \in SUBSET Uuids : \A m \in [U -> Entries] : m \in Maps
  BY DEF Maps
<1>3. Own \in Entries /\ \A v \in Versions : Copy(v) \in Entries
  BY DEF Entries
<1>4. ASSUME NEW e \in Entries
      PROVE  e.own \in BOOLEAN /\ e.version \in Versions
  <2>1. CASE e = Own
    BY <2>1, VersionsAre DEF Own
  <2>2. CASE e # Own
    <3>1. PICK v \in Versions : e = Copy(v)
      BY <2>2 DEF Entries
    <3>q. QED
      BY <3>1 DEF Copy
  <2>q. QED
    BY <2>1, <2>2
<1>5. Own.own /\ \A v : ~Copy(v).own /\ Copy(v).version = v
  BY DEF Own, Copy
<1>q. QED
  BY <1>1, <1>2, <1>3, <1>4, <1>5

LEMMA WithType ==
    ASSUME NEW m \in Maps, NEW u \in Uuids, NEW e \in Entries
    PROVE  With(m, u, e) \in Maps
<1> DEFINE U == DOMAIN m \cup {u}
<1>1. U \in SUBSET Uuids /\ \A k \in DOMAIN m : m[k] \in Entries
  BY MapsAre
<1>2. With(m, u, e) \in [U -> Entries]
  BY <1>1 DEF With
<1>q. QED
  BY <1>1, <1>2, MapsAre

LEMMA NothingType ==
    /\ NoEntries \in Maps /\ DOMAIN NoEntries = {}
    /\ NoMaps \in [1 .. 2 -> Maps] /\ \A i \in 1 .. 2 : NoMaps[i] = NoEntries
    /\ NothingUnread \in [1 .. 2 -> SUBSET Uuids]
<1>1. NoEntries \in Maps /\ DOMAIN NoEntries = {}
  BY MapsAre DEF NoEntries
<1>q. QED
  BY <1>1 DEF NoMaps, NothingUnread

-----------------------------------------------------------------------------
(* Types.                                                                  *)

MainStates == {"idle", "write", "instance", "create", "load", "loading", "add",
               "list", "decide", "send"}

CommandStates == {"idle", "check", "create", "load", "loading", "look", "absent"}

(* A connect takes two versions at most.                                   *)
VersionBudget ==
    version + (IF mainPc \in {"idle", "send"} THEN 0 ELSE 1) <= 2 * taps

(* Each thread makes one instance at most, if it found none.               *)
InstanceBound ==
    /\ "create" \in {mainPc, cmdPc} => instance <= 1
    /\ mainPc = "create" /\ cmdPc = "create" => instance = 0
    /\ mainPc = "load" => instance >= 1
    /\ mainPc \in {"loading", "add", "list"} => pm \in 1 .. instance
    /\ cmdPc \in {"load", "look"} => instance >= 1
    /\ cmdPc = "loading" => cm \in 1 .. instance

MemoryTypes ==
    /\ boot \in Uuids /\ version \in Versions
    /\ instance \in 0 .. 2 /\ profiles \in [1 .. 2 -> Maps]
    /\ unread \in [1 .. 2 -> SUBSET Uuids] /\ whole \in SUBSET (1 .. 2)

MainTypes ==
    /\ mainPc \in MainStates /\ pm \in 0 .. 2 /\ taps \in 0 .. MaxTap
    /\ VersionBudget /\ InstanceBound

CommandTypes ==
    /\ cmdQueue \in Seq(Intents)
    /\ cmdPc \in CommandStates
    /\ want \in Intents /\ tries \in 0 .. Tries
    /\ cm \in 0 .. 2
    /\ running \in Intents

KeptTypes ==
    /\ vpnlist \in SUBSET Uuids /\ storedList \in SUBSET Uuids
    /\ lastConnected \in Uuids \cup {None} /\ storedLast \in Uuids \cup {None}
    /\ files \in [Uuids -> Versions] /\ torn \in SUBSET Uuids
    /\ started \in BOOLEAN
    /\ clash \in BOOLEAN /\ partial \in BOOLEAN /\ sound \in BOOLEAN

TypeInv == MemoryTypes /\ MainTypes /\ CommandTypes /\ KeptTypes

LEMMA TypeInvIsTypeOK == TypeInv => TypeOK
  BY DEF TypeInv, MemoryTypes, MainTypes, CommandTypes, KeptTypes, TypeOK,
     MainStates, CommandStates

(* The objects the two threads work on.                                    *)
LEMMA ObjectsAre ==
    ASSUME TypeInv
    PROVE  /\ instance \in 0 .. 2
           /\ mainPc \in {"loading", "add", "list"} => pm \in 1 .. 2
           /\ cmdPc = "loading" => cm \in 1 .. 2
           /\ mainPc = "load" \/ cmdPc \in {"load", "look"} => instance \in 1 .. 2
           /\ mainPc = "create" \/ cmdPc = "create" => instance + 1 \in 1 .. 2
           /\ profiles \in [1 .. 2 -> Maps]
           /\ unread \in [1 .. 2 -> SUBSET Uuids] /\ whole \in SUBSET (1 .. 2)
  BY DEF TypeInv, MemoryTypes, MainTypes, InstanceBound

(* What loadVPNList does to the maps.                                      *)
LEMMA BeginIs ==
    ASSUME TypeInv, NEW i \in 1 .. 2, BeginLoad(i)
    PROVE  /\ profiles'[i] = NoEntries /\ unread'[i] = vpnlist
           /\ \A k \in 1 .. 2 : k # i => /\ profiles'[k] = profiles[k]
                                         /\ unread'[k] = unread[k]
           /\ whole' = whole \ {i} /\ i = instance /\ UNCHANGED instance
           /\ ~Locked(i)
  BY ObjectsAre DEF BeginLoad

LEMMA ReadIs ==
    ASSUME TypeInv, NEW i \in 1 .. 2, NEW u \in Uuids, ReadEntry(i, u)
    PROVE  /\ u \in unread[i] /\ unread'[i] = unread[i] \ {u}
           /\ \A k \in 1 .. 2 : k # i => /\ profiles'[k] = profiles[k]
                                         /\ unread'[k] = unread[k]
           /\ Readable(u) => profiles'[i] = With(profiles[i], u, Copy(files[u]))
           /\ ~Readable(u) => profiles'[i] = profiles[i]
           /\ UNCHANGED <<instance, whole>>
<1>1. Readable(u) \/ ~Readable(u)
  OBVIOUS
<1>2. CASE Readable(u)
  BY <1>2, ObjectsAre DEF ReadEntry
<1>3. CASE ~Readable(u)
  BY <1>3, ObjectsAre DEF ReadEntry
<1>q. QED
  BY <1>1, <1>2, <1>3

LEMMA AddIs ==
    ASSUME TypeInv, AddProfile
    PROVE  /\ pm \in 1 .. 2 /\ profiles'[pm] = With(profiles[pm], boot, Own)
           /\ \A k \in 1 .. 2 : k # pm => profiles'[k] = profiles[k]
           /\ UNCHANGED <<instance, unread, whole, pm, cm>>
           /\ ~Locked(pm) /\ mainPc = "add" /\ mainPc' = "list"
  BY ObjectsAre DEF AddProfile, MainStep, command

(* No step but the beginning of a load takes anything out of a map.        *)
LEMMA ReadGrows ==
    ASSUME TypeInv, NEW i \in 1 .. 2, NEW u \in Uuids, ReadEntry(i, u),
           NEW k \in 1 .. 2
    PROVE  /\ DOMAIN profiles[k] \subseteq DOMAIN profiles'[k]
           /\ DOMAIN profiles'[k] \subseteq
                DOMAIN profiles[k] \cup (IF Readable(u) THEN {u} ELSE {})
           /\ \A v \in DOMAIN profiles[k] \cup unread[k] :
                v \in DOMAIN profiles'[k] \cup unread'[k] \/ (v = u /\ ~Readable(u))
<1>1. CASE k = i /\ Readable(u)
  <2>0. profiles'[k] = With(profiles[k], u, Copy(files[u]))
    BY <1>1, ReadIs
  <2>1. DOMAIN profiles'[k] = DOMAIN profiles[k] \cup {u}
    BY <2>0 DEF With
  <2>2. unread'[k] = unread[k] \ {u}
    BY <1>1, ReadIs
  <2>q. QED
    BY <1>1, <2>1, <2>2
<1>2. CASE k # i \/ ~Readable(u)
  BY <1>2, ReadIs
<1>q. QED
  BY <1>1, <1>2

LEMMA AddGrows ==
    ASSUME TypeInv, AddProfile, NEW k \in 1 .. 2
    PROVE  /\ DOMAIN profiles[k] \subseteq DOMAIN profiles'[k]
           /\ DOMAIN profiles'[k] \subseteq DOMAIN profiles[k] \cup {boot}
<1>1. CASE k = pm
  <2>0. profiles'[k] = With(profiles[k], boot, Own)
    BY <1>1, AddIs
  <2>1. DOMAIN profiles'[k] = DOMAIN profiles[k] \cup {boot}
    BY <2>0 DEF With
  <2>q. QED
    BY <2>1
<1>2. CASE k # pm
  BY <1>2, AddIs
<1>q. QED
  BY <1>1, <1>2

LEMMA InitTypes == Init => TypeInv
<1> SUFFICES ASSUME Init PROVE TypeInv
  OBVIOUS
<1>2. MemoryTypes
  BY NothingType, VersionsAre, UuidsAre DEF Init, MemoryTypes
<1>3. MainTypes
  BY MaxTapAssumption DEF Init, MainTypes, VersionBudget, InstanceBound,
     MainStates
<1>4. CommandTypes
  BY IntentsAre, TriesAssumption DEF Init, CommandTypes, CommandStates
<1>5. KeptTypes
  BY VersionsAre DEF Init, KeptTypes
<1>q. QED
  BY <1>2, <1>3, <1>4, <1>5 DEF TypeInv

LEMMA NextMemoryTypes == TypeInv /\ [Next]_vars => MemoryTypes'
<1> SUFFICES ASSUME TypeInv, [Next]_vars PROVE MemoryTypes'
  OBVIOUS
<1>t. MemoryTypes /\ KeptTypes
  BY DEF TypeInv
<1>0. UNCHANGED memory => MemoryTypes'
  BY <1>t DEF MemoryTypes, memory, objects
<1>1. CASE ChooseServer \/ UpdateLRU
  <2>1. version' = version + 1 /\ version' <= 2 * MaxTap
    BY <1>1, <1>t, VersionsAre, MaxTapAssumption DEF ChooseServer, UpdateLRU,
       MainStep, OpenFile, TypeInv, MainTypes, VersionBudget, MemoryTypes
  <2>2. version' \in Versions
    BY <2>1, <1>t, VersionsAre DEF MemoryTypes
  <2>q. QED
    BY <2>2, <1>1, <1>t DEF ChooseServer, UpdateLRU, MemoryTypes, objects
<1>2. CASE CreateInstance \/ NewInstance
  <2>1. instance + 1 \in 0 .. 2
    BY <1>2, ObjectsAre DEF CreateInstance, NewInstance, MainStep
  <2>q. QED
    BY <2>1, <1>2, <1>t DEF CreateInstance, NewInstance, Publish, MemoryTypes
<1>3. ASSUME NEW i, UNCHANGED <<boot, version>>, BeginLoad(i)
      PROVE  MemoryTypes'
  BY <1>3, <1>t, NothingType DEF BeginLoad, MemoryTypes, KeptTypes
<1>4. ASSUME NEW i, NEW u \in Uuids, UNCHANGED <<boot, version>>,
             i \in 1 .. 2, ReadEntry(i, u)
      PROVE  MemoryTypes'
  <2>1. Copy(files[u]) \in Entries /\ profiles[i] \in Maps
    BY <1>4, <1>t, MapsAre DEF KeptTypes, MemoryTypes
  <2>2. With(profiles[i], u, Copy(files[u])) \in Maps
    BY <2>1, WithType
  <2>3. profiles' \in [1 .. 2 -> Maps]
    BY <2>2, <1>4, <1>t DEF ReadEntry, MemoryTypes
  <2>q. QED
    BY <2>3, <1>4, <1>t DEF ReadEntry, MemoryTypes
<1>5. ASSUME NEW i \in 1 .. 2, UNCHANGED <<boot, version>>, EndLoad(i)
      PROVE  MemoryTypes'
  BY <1>5, <1>t DEF EndLoad, MemoryTypes
<1>6. CASE LoadList
  BY <1>6, <1>3 DEF LoadList
<1>7. CASE ReloadList
  BY <1>7, <1>3 DEF ReloadList
<1>8. CASE \E u \in Uuids : LoadEntry(u)
  BY <1>8, <1>4, ObjectsAre DEF LoadEntry
<1>9. CASE \E u \in Uuids : ReloadEntry(u)
  BY <1>9, <1>4, ObjectsAre DEF ReloadEntry
<1>10. CASE GotInstance
  BY <1>10, <1>5, ObjectsAre DEF GotInstance, MainStep
<1>11. CASE Reloaded
  BY <1>11, <1>5, ObjectsAre DEF Reloaded
<1>12. CASE AddProfile
  <2>1. pm \in 1 .. 2
    BY <1>12, AddIs
  <2>2. With(profiles[pm], boot, Own) \in Maps
    BY <2>1, <1>t, WithType, MapsAre DEF MemoryTypes
  <2>q. QED
    BY <2>1, <2>2, <1>12, <1>t DEF AddProfile, MemoryTypes
<1>13. CASE ProcessDies
  BY <1>13, <1>t, NothingType, UuidsAre, VersionsAre DEF ProcessDies,
     MemoryTypes
<1>14. CASE SaveProfile \/ GetInstance \/ SaveProfileList \/ AlreadyActive
              \/ StartOpenVpn
  BY <1>14, <1>0 DEF SaveProfile, GetInstance, SaveProfileList, AlreadyActive,
     StartOpenVpn
<1>15. CASE FetchIntent \/ FetchLast \/ CheckInstance \/ Retry \/ GiveUp
              \/ Found \/ NoProfile \/ StoreList \/ StoreLast
              \/ \E ended \in BOOLEAN : SessionEnds(ended)
  BY <1>15, <1>0 DEF FetchIntent, FetchLast, CheckInstance, Retry, GiveUp,
     Found, NoProfile, StoreList, StoreLast, SessionEnds
<1>16. CASE UNCHANGED vars
  BY <1>16, <1>0 DEF vars
<1>q. QED
  BY <1>1, <1>2, <1>6, <1>7, <1>8, <1>9, <1>10, <1>11, <1>12, <1>13, <1>14,
     <1>15, <1>16 DEF Next

LEMMA NextVersionBudget ==
    TypeInv /\ [Next]_vars => VersionBudget' /\ taps' \in 0 .. MaxTap
<1> SUFFICES ASSUME TypeInv, [Next]_vars
             PROVE  VersionBudget' /\ taps' \in 0 .. MaxTap
  OBVIOUS
<1>t. /\ version \in Nat /\ taps \in 0 .. MaxTap /\ VersionBudget
  BY VersionsAre DEF TypeInv, MemoryTypes, MainTypes
<1>0. ASSUME UNCHANGED <<version, taps>>,
             mainPc \in {"idle", "send"} => mainPc' \in {"idle", "send"}
      PROVE  VersionBudget' /\ taps' \in 0 .. MaxTap
  BY <1>0, <1>t DEF VersionBudget
<1>1. CASE ChooseServer
  BY <1>1, <1>t, MaxTapAssumption DEF ChooseServer, MainStep, OpenFile,
     VersionBudget
<1>2. CASE UpdateLRU
  BY <1>2, <1>t DEF UpdateLRU, MainStep, OpenFile, VersionBudget
<1>3. CASE SaveProfile \/ GetInstance \/ CreateInstance \/ LoadList
             \/ (\E u \in Uuids : LoadEntry(u)) \/ GotInstance
  BY <1>3, <1>0 DEF SaveProfile, GetInstance, CreateInstance, LoadList,
     LoadEntry, GotInstance, MainStep, memory, main
<1>4. CASE AddProfile \/ SaveProfileList \/ AlreadyActive \/ StartOpenVpn
  BY <1>4, <1>0 DEF AddProfile, SaveProfileList, AlreadyActive, StartOpenVpn,
     MainStep, memory
<1>5. CASE FetchIntent \/ FetchLast \/ CheckInstance \/ NewInstance
             \/ ReloadList \/ (\E u \in Uuids : ReloadEntry(u)) \/ Reloaded
             \/ Retry \/ GiveUp \/ Found \/ NoProfile
  BY <1>5, <1>0 DEF FetchIntent, FetchLast, CheckInstance, NewInstance,
     ReloadList, ReloadEntry, Reloaded, Retry, GiveUp, Found, NoProfile,
     memory, main
<1>6. CASE StoreList \/ StoreLast \/ \E ended \in BOOLEAN : SessionEnds(ended)
  BY <1>6, <1>0 DEF StoreList, StoreLast, SessionEnds, memory, main
<1>7. CASE ProcessDies
  BY <1>7, <1>t DEF ProcessDies, VersionBudget
<1>8. CASE UNCHANGED vars
  BY <1>8, <1>0 DEF vars, memory, main
<1>q. QED
  BY <1>1, <1>2, <1>3, <1>4, <1>5, <1>6, <1>7, <1>8 DEF Next

LEMMA NextInstanceBound == TypeInv /\ [Next]_vars => InstanceBound'
<1> SUFFICES ASSUME TypeInv, [Next]_vars PROVE InstanceBound'
  OBVIOUS
<1>t. /\ InstanceBound /\ instance \in 0 .. 2
  BY DEF TypeInv, MemoryTypes, MainTypes
<1>m. ASSUME UNCHANGED <<instance, cmdPc, cm>>, mainPc' # "create",
             mainPc' # "load",
             mainPc' \in {"loading", "add", "list"} =>
                mainPc \in {"loading", "add", "list"} /\ UNCHANGED pm
      PROVE  InstanceBound'
  BY <1>m, <1>t DEF InstanceBound
<1>c. ASSUME UNCHANGED <<instance, mainPc, pm>>, cmdPc' # "create",
             cmdPc' \in {"load", "look"} => cmdPc \in {"load", "look", "loading"},
             cmdPc' = "loading" => cmdPc = "loading" /\ UNCHANGED cm
      PROVE  InstanceBound'
  BY <1>c, <1>t DEF InstanceBound
<1>0. UNCHANGED <<instance, mainPc, pm, cmdPc, cm>> => InstanceBound'
  BY <1>t DEF InstanceBound
<1>1. CASE ChooseServer \/ SaveProfile \/ AddProfile \/ SaveProfileList
             \/ AlreadyActive \/ UpdateLRU \/ StartOpenVpn
  BY <1>1, <1>m DEF ChooseServer, SaveProfile, AddProfile, SaveProfileList,
     AlreadyActive, UpdateLRU, StartOpenVpn, MainStep, memory, objects, command
<1>2. CASE GetInstance
  BY <1>2, <1>t DEF GetInstance, InstanceBound, memory, objects, command
<1>3. CASE CreateInstance
  BY <1>3, <1>t DEF CreateInstance, MainStep, Publish, InstanceBound, command
<1>4. CASE LoadList
  BY <1>4, <1>t DEF LoadList, MainStep, BeginLoad, InstanceBound, command
<1>5. CASE \E u \in Uuids : LoadEntry(u)
  BY <1>5, <1>0 DEF LoadEntry, ReadEntry, main, command
<1>6. CASE GotInstance
  BY <1>6, <1>t DEF GotInstance, MainStep, EndLoad, InstanceBound, command
<1>7. CASE CheckInstance
  BY <1>7, <1>t DEF CheckInstance, InstanceBound, memory, objects, main
<1>8. CASE NewInstance
  BY <1>8, <1>t DEF NewInstance, Publish, InstanceBound, main
<1>9. CASE ReloadList
  BY <1>9, <1>t DEF ReloadList, BeginLoad, InstanceBound, main
<1>10. CASE \E u \in Uuids : ReloadEntry(u)
  BY <1>10, <1>0 DEF ReloadEntry, ReadEntry, main, command
<1>11. CASE Reloaded
  BY <1>11, <1>t DEF Reloaded, EndLoad, InstanceBound, main
<1>12. CASE FetchIntent \/ FetchLast \/ Retry \/ GiveUp \/ Found \/ NoProfile
  BY <1>12, <1>c DEF FetchIntent, FetchLast, Retry, GiveUp, Found, NoProfile,
     memory, objects, main
<1>13. CASE StoreList \/ StoreLast \/ \E ended \in BOOLEAN : SessionEnds(ended)
  BY <1>13, <1>0 DEF StoreList, StoreLast, SessionEnds, memory, objects, main,
     command
<1>14. CASE ProcessDies
  BY <1>14 DEF ProcessDies, InstanceBound
<1>15. CASE UNCHANGED vars
  BY <1>15, <1>0 DEF vars, memory, objects, main, command
<1>q. QED
  BY <1>1, <1>2, <1>3, <1>4, <1>5, <1>6, <1>7, <1>8, <1>9, <1>10, <1>11,
     <1>12, <1>13, <1>14, <1>15 DEF Next

LEMMA NextMainTypes == TypeInv /\ [Next]_vars => MainTypes'
<1> SUFFICES ASSUME TypeInv, [Next]_vars PROVE MainTypes'
  OBVIOUS
<1>t. mainPc \in MainStates /\ pm \in 0 .. 2 /\ instance \in 0 .. 2
  BY DEF TypeInv, MemoryTypes, MainTypes
<1>s. ASSUME mainPc' \in MainStates, pm' \in 0 .. 2 PROVE MainTypes'
  BY <1>s, NextVersionBudget, NextInstanceBound DEF MainTypes
<1>0. UNCHANGED main => MainTypes'
  BY <1>t, <1>s DEF main
<1>1. CASE ChooseServer \/ SaveProfile \/ CreateInstance \/ AddProfile
             \/ SaveProfileList \/ AlreadyActive \/ UpdateLRU \/ StartOpenVpn
  BY <1>1, <1>t, <1>s DEF ChooseServer, SaveProfile, CreateInstance, AddProfile,
     SaveProfileList, AlreadyActive, UpdateLRU, StartOpenVpn, MainStep,
     MainStates
<1>2. CASE GetInstance \/ LoadList \/ GotInstance
  BY <1>2, <1>t, <1>s DEF GetInstance, LoadList, GotInstance, MainStep,
     MainStates
<1>3. CASE \E u \in Uuids : LoadEntry(u)
  BY <1>3, <1>0 DEF LoadEntry
<1>4. CASE FetchIntent \/ FetchLast \/ CheckInstance \/ NewInstance
             \/ ReloadList \/ (\E u \in Uuids : ReloadEntry(u)) \/ Reloaded
             \/ Retry \/ GiveUp \/ Found \/ NoProfile
  BY <1>4, <1>0 DEF FetchIntent, FetchLast, CheckInstance, NewInstance,
     ReloadList, ReloadEntry, Reloaded, Retry, GiveUp, Found, NoProfile
<1>5. CASE StoreList \/ StoreLast \/ \E ended \in BOOLEAN : SessionEnds(ended)
  BY <1>5, <1>0 DEF StoreList, StoreLast, SessionEnds
<1>6. CASE ProcessDies
  BY <1>6, <1>s DEF ProcessDies, MainStates
<1>7. CASE UNCHANGED vars
  BY <1>7, <1>0 DEF vars
<1>q. QED
  BY <1>1, <1>2, <1>3, <1>4, <1>5, <1>6, <1>7 DEF Next

LEMMA NextCommandTypes == TypeInv /\ [Next]_vars => CommandTypes'
<1> SUFFICES ASSUME TypeInv, [Next]_vars PROVE CommandTypes'
  OBVIOUS
<1>t. CommandTypes /\ MemoryTypes /\ KeptTypes
  BY DEF TypeInv
<1>0. UNCHANGED <<command, running>> => CommandTypes'
  BY <1>t DEF CommandTypes, command
<1>s. ASSUME UNCHANGED <<cmdQueue, want, tries, cm, running>>,
             cmdPc' \in CommandStates
      PROVE  CommandTypes'
  BY <1>s, <1>t DEF CommandTypes
<1>1. CASE StartOpenVpn
  <2>1. Intent(boot, version, FALSE) \in Intents
    BY <1>t, IntentsAre DEF MemoryTypes
  <2>2. cmdQueue' \in Seq(Intents)
    BY <2>1, <1>1, <1>t, AppendProperties DEF StartOpenVpn, CommandTypes
  <2>q. QED
    BY <2>2, <1>1, <1>t DEF StartOpenVpn, CommandTypes
<1>2. CASE FetchIntent \/ FetchLast
  <2>1. Head(cmdQueue) \in Intents /\ cmdQueue' \in Seq(Intents)
    BY <1>2, <1>t, HeadTailProperties DEF FetchIntent, FetchLast, CommandTypes
  <2>2. Intent(lastConnected, 0, TRUE) \in Intents
    BY <1>t, IntentsAre, VersionsAre DEF KeptTypes, Restart
  <2>3. /\ want' \in Intents /\ tries' \in 0 .. Tries
        /\ UNCHANGED <<running, cm>> /\ cmdPc' \in {"absent", "check"}
    <3>1. CASE FetchIntent
      BY <3>1, <2>1, TriesAssumption DEF FetchIntent
    <3>2. CASE FetchLast
      <4>1. want' = Intent(lastConnected, 0, TRUE)
        BY <3>2 DEF FetchLast
      <4>2. want' \in Intents
        BY <4>1, <2>2
      <4>3. tries' = Tries /\ UNCHANGED <<running, cm>>
        BY <3>2 DEF FetchLast
      <4>4. cmdPc' \in {"absent", "check"}
        BY <3>2, Zenon DEF FetchLast
      <4>q. QED
        BY <4>2, <4>3, <4>4, TriesAssumption
    <3>q. QED
      BY <1>2, <3>1, <3>2
  <2>q. QED
    BY <2>1, <2>3, <1>t DEF CommandTypes, CommandStates
<1>3. CASE CheckInstance \/ NewInstance \/ Reloaded \/ GiveUp \/ NoProfile
  BY <1>3, <1>s DEF CheckInstance, NewInstance, Reloaded, GiveUp, NoProfile,
     CommandStates
<1>4. CASE Retry
  BY <1>4, <1>t, TriesAssumption DEF Retry, CommandTypes, CommandStates
<1>10. CASE ReloadList
  BY <1>10, <1>t DEF ReloadList, BeginLoad, TypeInv, MemoryTypes, CommandTypes,
     CommandStates
<1>11. CASE \E u \in Uuids : ReloadEntry(u)
  BY <1>11, <1>0 DEF ReloadEntry
<1>5. CASE Found
  <2>1. instance \in 1 .. 2 /\ Known
    BY <1>5, <1>t DEF Found, TypeInv, MainTypes, InstanceBound, MemoryTypes
  <2>2. profiles[instance] \in Maps
    BY <2>1, <1>t DEF MemoryTypes
  <2>3. want.uuid \in Uuids /\ Entry \in Entries
    BY <2>1, <2>2, MapsAre DEF Known, Entry
  <2>4. VersionOf(Entry) \in Versions /\ want.null \in BOOLEAN
    BY <2>3, <1>t, MapsAre, IntentsAre DEF VersionOf, MemoryTypes, CommandTypes
  <2>5. running' \in Intents
    BY <2>3, <2>4, <1>5, IntentsAre DEF Found
  <2>q. QED
    BY <2>5, <1>5, <1>t DEF Found, CommandTypes, CommandStates
<1>6. CASE \E ended \in BOOLEAN : SessionEnds(ended)
  BY <1>6, <1>t, IntentsAre DEF SessionEnds, CommandTypes, command
<1>7. CASE ProcessDies
  <2>1. cmdQueue' \in Seq(Intents)
    BY <1>7, IntentsAre DEF ProcessDies
  <2>q. QED
    BY <2>1, <1>7, IntentsAre, TriesAssumption DEF ProcessDies, CommandTypes,
       CommandStates
<1>8. CASE ChooseServer \/ SaveProfile \/ GetInstance \/ AddProfile
             \/ SaveProfileList \/ AlreadyActive \/ UpdateLRU \/ StoreList
             \/ StoreLast
  BY <1>8, <1>0 DEF ChooseServer, SaveProfile, GetInstance, AddProfile,
     SaveProfileList, AlreadyActive, UpdateLRU, StoreList, StoreLast
<1>12. CASE CreateInstance \/ LoadList \/ (\E u \in Uuids : LoadEntry(u))
              \/ GotInstance
  BY <1>12, <1>0 DEF CreateInstance, LoadList, LoadEntry, GotInstance
<1>9. CASE UNCHANGED vars
  BY <1>9, <1>0 DEF vars
<1>q. QED
  BY <1>1, <1>2, <1>3, <1>4, <1>5, <1>6, <1>7, <1>8, <1>9, <1>10, <1>11,
     <1>12 DEF Next

LEMMA NextKeptTypes == TypeInv /\ [Next]_vars => KeptTypes'
<1> SUFFICES ASSUME TypeInv, [Next]_vars PROVE KeptTypes'
  OBVIOUS
<1>t. CommandTypes /\ MemoryTypes /\ KeptTypes
  BY DEF TypeInv
<1>0. UNCHANGED <<prefs, stored, disk, started, history>> => KeptTypes'
  BY <1>t DEF KeptTypes, prefs, stored, disk, history
<1>1. CASE ChooseServer \/ UpdateLRU
  BY <1>1, <1>t DEF ChooseServer, UpdateLRU, OpenFile, KeptTypes, MemoryTypes,
     prefs, stored, history
<1>2. CASE SaveProfile \/ StartOpenVpn
  <2>1. files' \in [Uuids -> Versions] /\ torn' \in SUBSET Uuids
    BY <1>2, <1>t DEF SaveProfile, StartOpenVpn, WriteFile, KeptTypes,
       MemoryTypes
  <2>q. QED
    BY <2>1, <1>2, <1>t DEF SaveProfile, StartOpenVpn, KeptTypes, prefs,
       stored, history
<1>3. CASE SaveProfileList
  <2>1. pm \in 1 .. 2
    BY <1>3, <1>t DEF SaveProfileList, MainStep, TypeInv, MainTypes,
       InstanceBound, MemoryTypes
  <2>2. vpnlist' \in SUBSET Uuids
    BY <2>1, <1>3, <1>t, MapsAre DEF SaveProfileList, MemoryTypes
  <2>3. partial' \in BOOLEAN
    BY <1>3, <1>t DEF SaveProfileList, KeptTypes
  <2>q. QED
    BY <2>2, <2>3, <1>3, <1>t DEF SaveProfileList, KeptTypes, stored, disk
<1>4. CASE ReloadList
  <2>1. clash' \in BOOLEAN
    BY <1>4, <1>t DEF ReloadList, KeptTypes
  <2>q. QED
    BY <2>1, <1>4, <1>t DEF ReloadList, KeptTypes, prefs, stored, disk
<1>5. CASE Found
  BY <1>5, <1>t, IntentsAre DEF Found, KeptTypes, CommandTypes, stored, disk,
     history
<1>6. CASE NoProfile
  <2>1. started' \in BOOLEAN
    BY <1>6, <1>t DEF NoProfile, KeptTypes
  <2>q. QED
    BY <2>1, <1>6, <1>t DEF NoProfile, KeptTypes, prefs, stored, disk, history
<1>7. CASE \E ended \in BOOLEAN : SessionEnds(ended)
  BY <1>7, <1>t DEF SessionEnds, KeptTypes, stored, disk, history
<1>8. CASE StoreList \/ StoreLast
  BY <1>8, <1>t DEF StoreList, StoreLast, KeptTypes, prefs, disk, history
<1>9. CASE ProcessDies
  <2>1. sound' \in BOOLEAN
    BY <1>9 DEF ProcessDies, Stored
  <2>q. QED
    BY <2>1, <1>9, <1>t DEF ProcessDies, KeptTypes, stored, disk
<1>10. CASE GetInstance \/ CreateInstance \/ LoadList
              \/ (\E u \in Uuids : LoadEntry(u)) \/ GotInstance \/ AddProfile
              \/ AlreadyActive
  BY <1>10, <1>0 DEF GetInstance, CreateInstance, LoadList, LoadEntry,
     GotInstance, AddProfile, AlreadyActive
<1>12. CASE FetchIntent \/ FetchLast \/ CheckInstance \/ NewInstance
              \/ (\E u \in Uuids : ReloadEntry(u)) \/ Reloaded \/ Retry
              \/ GiveUp
  BY <1>12, <1>0 DEF FetchIntent, FetchLast, CheckInstance, NewInstance,
     ReloadEntry, Reloaded, Retry, GiveUp
<1>11. CASE UNCHANGED vars
  BY <1>11, <1>0 DEF vars
<1>q. QED
  BY <1>1, <1>2, <1>3, <1>4, <1>5, <1>6, <1>7, <1>8, <1>9, <1>10, <1>11,
     <1>12 DEF Next

LEMMA TypeInvariant == Spec => []TypeInv
<1>1. TypeInv /\ [Next]_vars => TypeInv'
  BY NextMemoryTypes, NextMainTypes, NextCommandTypes, NextKeptTypes
     DEF TypeInv
<1>q. QED
  BY <1>1, InitTypes, PTL DEF Spec

(* The two threads make two instances at most, and the version stays       *)
(* within two for a connect.                                               *)
THEOREM ProfileTypesCorrect == Spec => []TypeOK
  BY TypeInvariant, TypeInvIsTypeOK, PTL

-----------------------------------------------------------------------------
(* The list and the files.                                                 *)

(* Only the profile of the running process is written, and only while the  *)
(* main thread is at it.                                                   *)
TornInv ==
    /\ \A u \in torn : u <= boot
    /\ boot \in torn => mainPc \in {"write", "send"}

(* A profile is entered in a map, and from there in the list, after its    *)
(* file was written once.                                                  *)
WrittenInv ==
    /\ mainPc \in {"write", "send"} => version > 0
    /\ mainPc \notin {"idle", "write"} => files[boot] > 0
    /\ \A u \in vpnlist \cup storedList : files[u] > 0
    /\ \A i \in 1 .. 2 : \A u \in DOMAIN profiles[i] : files[u] > 0

FileInv == TornInv /\ WrittenInv

(* What is read from a file was written to it.                             *)
LEMMA ReadingKeepsFiles ==
    ASSUME TypeInv, FileInv, NEW i \in 1 .. 2, NEW u \in Uuids, ReadEntry(i, u),
           UNCHANGED <<boot, version, files, torn, vpnlist, storedList, mainPc>>
    PROVE  FileInv'
<1>1. \A k \in 1 .. 2 : \A v \in DOMAIN profiles'[k] : files[v] > 0
  BY ReadGrows DEF Readable, FileInv, WrittenInv
<1>q. QED
  BY <1>1 DEF FileInv, TornInv, WrittenInv

LEMMA BeginKeepsFiles ==
    ASSUME TypeInv, FileInv, NEW i \in 1 .. 2, BeginLoad(i),
           UNCHANGED <<boot, version, files, torn, vpnlist, storedList>>,
           mainPc' # mainPc => mainPc = "load" /\ mainPc' = "loading"
    PROVE  FileInv'
<1>1. \A k \in 1 .. 2 : profiles'[k] = NoEntries \/ profiles'[k] = profiles[k]
  BY BeginIs
<1>2. \A k \in 1 .. 2 : \A v \in DOMAIN profiles'[k] : files[v] > 0
  BY <1>1, NothingType DEF FileInv, WrittenInv
<1>q. QED
  BY <1>2 DEF FileInv, TornInv, WrittenInv

LEMMA NextFileInv == TypeInv /\ FileInv /\ [Next]_vars => FileInv'
<1> SUFFICES ASSUME TypeInv, FileInv, [Next]_vars PROVE FileInv'
  OBVIOUS
<1>t. /\ MemoryTypes /\ KeptTypes /\ boot \in Nat /\ version \in Nat
      /\ \A u \in Uuids : u \in Nat /\ files[u] \in Nat
      /\ instance \in 0 .. 2
  BY VersionsAre, UuidsAre DEF TypeInv, MemoryTypes, KeptTypes
<1>0. ASSUME UNCHANGED <<boot, version, profiles, files, torn, vpnlist,
                         storedList, mainPc>>
      PROVE  FileInv'
  BY <1>0 DEF FileInv, TornInv, WrittenInv
<1>n. ASSUME UNCHANGED <<boot, torn, mainPc>>
      PROVE  TornInv'
  BY <1>n DEF FileInv, TornInv
<1>1. CASE ChooseServer \/ UpdateLRU
  <2>1. /\ version' = version + 1 /\ torn' = torn \cup {boot}
        /\ UNCHANGED <<boot, profiles, files, vpnlist, storedList>>
        /\ mainPc \in {"idle", "decide"}
        /\ mainPc' = IF mainPc = "idle" THEN "write" ELSE "send"
    BY <1>1 DEF ChooseServer, UpdateLRU, OpenFile, MainStep, objects, prefs,
       stored
  <2>2. TornInv'
    BY <2>1, <1>t DEF FileInv, TornInv
  <2>3. WrittenInv'
    BY <2>1, <1>t DEF FileInv, WrittenInv
  <2>q. QED
    BY <2>2, <2>3 DEF FileInv
<1>2. CASE SaveProfile \/ StartOpenVpn
  <2>1. /\ files' = [files EXCEPT ![boot] = version] /\ torn' = torn \ {boot}
        /\ UNCHANGED <<boot, version, profiles, vpnlist, storedList>>
        /\ mainPc \in {"write", "send"} /\ mainPc' \in {"instance", "idle"}
    BY <1>2 DEF SaveProfile, StartOpenVpn, WriteFile, MainStep, memory, objects, prefs,
       stored
  <2>2. version > 0
    BY <2>1 DEF FileInv, WrittenInv
  <2>3. \A u \in Uuids : files'[u] > 0 <=> files[u] > 0 \/ u = boot
    BY <2>1, <2>2, <1>t DEF MemoryTypes, KeptTypes
  <2>4. \A i \in 1 .. 2 : DOMAIN profiles[i] \subseteq Uuids
    BY <1>t, MapsAre DEF MemoryTypes
  <2>5. WrittenInv'
    BY <2>1, <2>2, <2>3, <2>4, <1>t DEF FileInv, WrittenInv, MemoryTypes,
       KeptTypes
  <2>6. TornInv'
    BY <2>1 DEF FileInv, TornInv
  <2>q. QED
    BY <2>5, <2>6 DEF FileInv
<1>3. CASE GetInstance \/ CreateInstance \/ GotInstance
  <2>1. /\ UNCHANGED <<boot, version, profiles, files, vpnlist, storedList,
                       torn>>
        /\ mainPc \notin {"idle", "write"}
        /\ mainPc' \in {"create", "load", "add"}
    BY <1>3 DEF GetInstance, CreateInstance, GotInstance, MainStep, Publish,
       EndLoad, memory, objects, prefs, stored, disk
  <2>2. mainPc \notin {"write", "send"}
    BY <1>3 DEF GetInstance, CreateInstance, GotInstance, MainStep
  <2>q. QED
    BY <2>1, <2>2 DEF FileInv, TornInv, WrittenInv
<1>4. CASE LoadList
  <2>1. mainPc = "load" /\ pm' \in 1 .. 2 /\ BeginLoad(pm')
    BY <1>4, ObjectsAre DEF LoadList, MainStep
  <2>2. /\ UNCHANGED <<boot, version, files, torn, vpnlist, storedList>>
        /\ mainPc' = "loading"
    BY <1>4 DEF LoadList, MainStep, prefs, stored, disk
  <2>q. QED
    BY <2>1, <2>2, BeginKeepsFiles
<1>12. CASE ReloadList
  <2>1. cm' \in 1 .. 2 /\ BeginLoad(cm')
    BY <1>12, ObjectsAre DEF ReloadList
  <2>2. UNCHANGED <<boot, version, files, torn, vpnlist, storedList, mainPc>>
    BY <1>12 DEF ReloadList, main, prefs, stored, disk
  <2>q. QED
    BY <2>1, <2>2, BeginKeepsFiles
<1>13. CASE \E u \in Uuids : LoadEntry(u)
  <2>1. PICK u \in Uuids : LoadEntry(u)
    BY <1>13
  <2>2. /\ pm \in 1 .. 2 /\ ReadEntry(pm, u)
        /\ UNCHANGED <<boot, version, files, torn, vpnlist, storedList, mainPc>>
    BY <2>1, ObjectsAre DEF LoadEntry, main, prefs, stored, disk
  <2>q. QED
    BY <2>2, ReadingKeepsFiles
<1>14. CASE \E u \in Uuids : ReloadEntry(u)
  <2>1. PICK u \in Uuids : ReloadEntry(u)
    BY <1>14
  <2>2. /\ cm \in 1 .. 2 /\ ReadEntry(cm, u)
        /\ UNCHANGED <<boot, version, files, torn, vpnlist, storedList, mainPc>>
    BY <2>1, ObjectsAre DEF ReloadEntry, main, prefs, stored, disk
  <2>q. QED
    BY <2>2, ReadingKeepsFiles
<1>5. CASE AddProfile
  <2>1. /\ UNCHANGED <<boot, version, files, vpnlist, storedList, torn>>
        /\ mainPc = "add" /\ mainPc' = "list"
    BY <1>5 DEF AddProfile, MainStep, prefs, stored, disk
  <2>2. \A i \in 1 .. 2 : DOMAIN profiles'[i] \subseteq DOMAIN profiles[i] \cup {boot}
    BY <1>5, AddGrows
  <2>q. QED
    BY <2>1, <2>2 DEF FileInv, TornInv, WrittenInv
<1>6. CASE SaveProfileList
  <2>1. /\ UNCHANGED <<boot, version, profiles, files, storedList, torn>>
        /\ mainPc = "list" /\ mainPc' = "decide" /\ pm \in 1 .. 2
        /\ vpnlist' = DOMAIN profiles[pm]
    BY <1>6, ObjectsAre DEF SaveProfileList, MainStep, memory, objects, stored,
       disk
  <2>q. QED
    BY <2>1 DEF FileInv, TornInv, WrittenInv
<1>7. CASE AlreadyActive
  BY <1>7 DEF AlreadyActive, MainStep, memory, objects, prefs, stored, disk, FileInv,
     TornInv, WrittenInv
<1>8. CASE StoreList
  BY <1>8 DEF StoreList, memory, objects, main, prefs, disk, FileInv, TornInv,
     WrittenInv
<1>9. CASE FetchIntent \/ FetchLast \/ CheckInstance \/ Retry \/ GiveUp
             \/ Found \/ NoProfile \/ StoreLast
             \/ \E ended \in BOOLEAN : SessionEnds(ended)
  BY <1>9, <1>0 DEF FetchIntent, FetchLast, CheckInstance, Retry, GiveUp, Found,
     NoProfile, StoreLast, SessionEnds, memory, objects, main, prefs, stored,
     disk
<1>15. CASE NewInstance \/ Reloaded
  BY <1>15, <1>0 DEF NewInstance, Reloaded, Publish, EndLoad, main, prefs,
     stored, disk
<1>10. CASE ProcessDies
  <2>1. /\ boot' = boot + 1 /\ version' = 0 /\ mainPc' = "idle"
        /\ vpnlist' = storedList /\ profiles' = NoMaps
        /\ UNCHANGED <<storedList, files, torn>>
    BY <1>10 DEF ProcessDies, stored, disk
  <2>2. TornInv'
    BY <2>1, <1>t DEF FileInv, TornInv, KeptTypes
  <2>3. \A i \in 1 .. 2 : DOMAIN NoMaps[i] = {}
    BY NothingType
  <2>4. WrittenInv'
    BY <2>1, <2>3 DEF FileInv, WrittenInv
  <2>q. QED
    BY <2>2, <2>4 DEF FileInv
<1>11. CASE UNCHANGED vars
  BY <1>11, <1>0 DEF vars, memory, objects, main, prefs, stored, disk
<1>q. QED
  BY <1>1, <1>2, <1>3, <1>4, <1>5, <1>6, <1>7, <1>8, <1>9, <1>10, <1>11,
     <1>12, <1>13, <1>14, <1>15 DEF Next

LEMMA FileInvariant == Spec => [](TypeInv /\ FileInv)
<1>1. Init => FileInv
  BY NothingType DEF Init, FileInv, TornInv, WrittenInv
<1>2. TypeInv /\ FileInv /\ [Next]_vars => FileInv'
  BY NextFileInv
<1>q. QED
  BY <1>1, <1>2, TypeInvariant, PTL DEF Spec

(* Whatever the moment of a death, the list names no profile without a     *)
(* file.                                                                   *)
THEOREM ListNamesFiles == Spec => []ListedAreReadable
<1>1. TypeInv /\ FileInv => ListedAreReadable
  <2> SUFFICES ASSUME TypeInv, FileInv, NEW u \in vpnlist \cup storedList
               PROVE  files[u] > 0 /\ (u \in torn => u < boot \/
                                         mainPc \in {"write", "send"})
    BY DEF ListedAreReadable
  <2>1. u \in Nat /\ boot \in Nat
    BY UuidsAre DEF TypeInv, KeptTypes, MemoryTypes
  <2>q. QED
    BY <2>1 DEF FileInv, TornInv, WrittenInv
<1>q. QED
  BY <1>1, FileInvariant, PTL

-----------------------------------------------------------------------------
(* The start the user asked for.                                           *)

(* The versions of this process only grow, and a file is never ahead.      *)
VersionInv ==
    /\ files[boot] <= version
    /\ \A u \in Uuids : u > boot => files[u] = 0

(* A start names this process's profile in a version that was written.     *)
Sent(i) == IF i.null THEN i.version = 0
           ELSE i.uuid = boot /\ i.version <= files[boot]

SentInv ==
    /\ \A k \in 1 .. Len(cmdQueue) : Sent(cmdQueue[k])
    /\ cmdPc # "idle" => Sent(want)

(* A start of the user waits or is being served.                           *)
Wanted == \/ \E k \in 1 .. Len(cmdQueue) : ~cmdQueue[k].null
          \/ cmdPc # "idle" /\ ~want.null

(* Whoever has sent a start has an instance, and no other is made then.    *)
MadeInv ==
    /\ mainPc \in {"decide", "send"} \/ Wanted => instance >= 1
    /\ mainPc \in {"create", "load", "loading"} => ~Wanted

(* Once it is in the list, the profile stays there; without a clash it     *)
(* gets there before the start is sent.                                    *)
ListedInv ==
    ~clash =>
        /\ mainPc = "list" => boot \in DOMAIN profiles[pm]
        /\ mainPc \in {"decide", "send"} \/ Wanted => boot \in vpnlist

(* The last load has found the profile, or has yet to read it.             *)
LastLook ==
    /\ boot \in DOMAIN profiles[instance] =>
         \/ profiles[instance][boot].own
         \/ want.version <= profiles[instance][boot].version
    /\ ~clash => \/ boot \in DOMAIN profiles[instance]
                 \/ cmdPc = "loading" /\ boot \in unread[instance]

(* Without retries left the map is that of the last one, or better.        *)
LookInv ==
    /\ cmdPc \in {"check", "create"} => tries > 0
    /\ cmdPc # "idle" /\ ~want.null =>
         /\ cmdPc # "create"
         /\ cmdPc = "loading" => cm = instance
         /\ cmdPc \in {"loading", "look"} /\ tries = 0 => LastLook
         /\ cmdPc = "absent" => clash

versionVars == <<boot, version, files>>
wantVars == <<cmdQueue, cmdPc, want>>

LEMMA BootTypes ==
    ASSUME TypeInv
    PROVE  /\ boot \in Uuids /\ boot \in Nat /\ version \in Nat
           /\ \A u \in Uuids : u \in Nat /\ files[u] \in Nat
           /\ instance \in 0 .. 2
           /\ cmdQueue \in Seq(Intents) /\ Len(cmdQueue) \in Nat
           /\ \A k \in 1 .. Len(cmdQueue) : cmdQueue[k] \in Intents
           /\ tries \in 0 .. Tries /\ want \in Intents
           /\ \A i \in Intents : i.version \in Nat /\ i.null \in BOOLEAN
<1>1. boot \in Uuids /\ boot \in Nat /\ version \in Nat /\ instance \in 0 .. 2
  BY VersionsAre, UuidsAre DEF TypeInv, MemoryTypes
<1>2. \A u \in Uuids : u \in Nat /\ files[u] \in Nat
  BY VersionsAre, UuidsAre DEF TypeInv, KeptTypes
<1>3. cmdQueue \in Seq(Intents) /\ Len(cmdQueue) \in Nat
  BY LenProperties DEF TypeInv, CommandTypes
<1>4. \A k \in 1 .. Len(cmdQueue) : cmdQueue[k] \in Intents
  BY <1>3, ElementOfSeq
<1>5. tries \in 0 .. Tries /\ want \in Intents
  BY DEF TypeInv, CommandTypes
<1>6. \A i \in Intents : i.version \in Nat /\ i.null \in BOOLEAN
  BY IntentsAre, VersionsAre
<1>q. QED
  BY <1>1, <1>2, <1>3, <1>4, <1>5, <1>6

LEMMA HeadIs ==
    ASSUME TypeInv, cmdQueue # << >>, cmdQueue' = Tail(cmdQueue)
    PROVE  /\ Len(cmdQueue) >= 1 /\ Head(cmdQueue) = cmdQueue[1]
           /\ Len(cmdQueue') = Len(cmdQueue) - 1
           /\ 1 \in 1 .. Len(cmdQueue)
           /\ \A k \in 1 .. Len(cmdQueue') :
                /\ k + 1 \in 1 .. Len(cmdQueue)
                /\ cmdQueue'[k] = cmdQueue[k + 1]
<1>1. /\ Len(cmdQueue) >= 1 /\ Head(cmdQueue) = cmdQueue[1]
      /\ Len(cmdQueue') = Len(cmdQueue) - 1
  BY BootTypes, HeadTailProperties, EmptySeq
<1>2. \A k \in 1 .. Len(cmdQueue') :
        k + 1 \in 1 .. Len(cmdQueue) /\ cmdQueue'[k] = cmdQueue[k + 1]
  BY <1>1, BootTypes, HeadTailProperties
<1>q. QED
  BY <1>1, <1>2, BootTypes

LEMMA NextVersionInv == TypeInv /\ VersionInv /\ [Next]_vars => VersionInv'
<1> SUFFICES ASSUME TypeInv, VersionInv, [Next]_vars PROVE VersionInv'
  OBVIOUS
<1>0. UNCHANGED versionVars => VersionInv'
  BY DEF VersionInv, versionVars
<1>1. CASE ChooseServer \/ UpdateLRU
  BY <1>1, BootTypes DEF ChooseServer, UpdateLRU, OpenFile, VersionInv
<1>2. CASE SaveProfile \/ StartOpenVpn
  <2>1. /\ files' = [files EXCEPT ![boot] = version]
        /\ UNCHANGED <<boot, version>>
    BY <1>2 DEF SaveProfile, StartOpenVpn, WriteFile, memory
  <2>2. files'[boot] = version /\ \A u \in Uuids : u # boot => files'[u] = files[u]
    BY <2>1, BootTypes DEF TypeInv, KeptTypes
  <2>q. QED
    BY <2>1, <2>2, BootTypes DEF VersionInv
<1>3. CASE ProcessDies
  <2>1. boot' \in Uuids /\ boot' = boot + 1 /\ version' = 0 /\ UNCHANGED files
    BY <1>3, BootTypes, UuidsAre DEF ProcessDies, disk
  <2>q. QED
    BY <2>1, BootTypes DEF VersionInv
<1>4. CASE GetInstance \/ AddProfile \/ SaveProfileList \/ AlreadyActive
             \/ FetchIntent \/ FetchLast \/ CheckInstance \/ Retry \/ GiveUp
             \/ Found \/ NoProfile \/ StoreList \/ StoreLast
             \/ \E ended \in BOOLEAN : SessionEnds(ended)
  BY <1>4, <1>0 DEF GetInstance, AddProfile, SaveProfileList, AlreadyActive,
     FetchIntent, FetchLast, CheckInstance, Retry, GiveUp, Found, NoProfile,
     StoreList, StoreLast, SessionEnds, memory, disk, versionVars
<1>6. CASE CreateInstance \/ LoadList \/ (\E u \in Uuids : LoadEntry(u))
             \/ GotInstance \/ NewInstance \/ ReloadList
             \/ (\E u \in Uuids : ReloadEntry(u)) \/ Reloaded
  BY <1>6, <1>0 DEF CreateInstance, LoadList, LoadEntry, GotInstance,
     NewInstance, ReloadList, ReloadEntry, Reloaded, disk, versionVars
<1>5. CASE UNCHANGED vars
  BY <1>5, <1>0 DEF vars, memory, disk, versionVars
<1>q. QED
  BY <1>1, <1>2, <1>3, <1>4, <1>5, <1>6 DEF Next

LEMMA NextSentInv ==
    TypeInv /\ VersionInv /\ SentInv /\ [Next]_vars => SentInv'
<1> SUFFICES ASSUME TypeInv, VersionInv, SentInv, [Next]_vars PROVE SentInv'
  OBVIOUS
<1>0. UNCHANGED <<boot, files, wantVars>> => SentInv'
  BY DEF SentInv, Sent, wantVars
<1>1. CASE SaveProfile \/ StartOpenVpn
  <2>1. /\ files' = [files EXCEPT ![boot] = version]
        /\ UNCHANGED <<boot, version, cmdPc, want>>
    BY <1>1 DEF SaveProfile, StartOpenVpn, WriteFile, memory, command
  <2>2. files'[boot] = version /\ files[boot] <= files'[boot]
    BY <2>1, BootTypes DEF TypeInv, KeptTypes, VersionInv
  <2>3. \A i \in Intents : Sent(i) => Sent(i)'
    BY <2>1, <2>2, BootTypes DEF Sent
  <2>4. CASE SaveProfile
    BY <2>4, <2>1, <2>3, BootTypes DEF SaveProfile, command, SentInv
  <2>5. CASE StartOpenVpn
    <3> DEFINE i == Intent(boot, version, FALSE)
    <3>1. i \in Intents
      BY IntentsAre DEF TypeInv, MemoryTypes
    <3>2. cmdQueue' = Append(cmdQueue, i)
      BY <2>5 DEF StartOpenVpn
    <3>3. ~i.null /\ i.uuid = boot /\ i.version = version
      BY DEF Intent
    <3>4. i' = i
      BY <2>1
    <3> HIDE DEF i
    <3>5. Sent(i)'
      BY <3>3, <3>4, <2>1, <2>2, BootTypes DEF Sent
    <3>6. ASSUME NEW k \in 1 .. Len(cmdQueue')
          PROVE  Sent(cmdQueue[k])' 
      <4>1. Len(cmdQueue') = Len(cmdQueue) + 1
            /\ cmdQueue'[Len(cmdQueue) + 1] = i
            /\ \A j \in 1 .. Len(cmdQueue) : cmdQueue'[j] = cmdQueue[j]
        BY <3>1, <3>2, BootTypes, AppendProperties
      <4>2. CASE k = Len(cmdQueue) + 1
        BY <4>1, <4>2, <3>5, <3>4 DEF Sent
      <4>3. CASE k \in 1 .. Len(cmdQueue)
        <5>1. Sent(cmdQueue[k]) /\ cmdQueue[k] \in Intents
          BY <4>3, BootTypes DEF SentInv
        <5>q. QED
          BY <5>1, <4>1, <4>3, <2>1, <2>2, BootTypes DEF Sent
      <4>q. QED
        BY <4>1, <4>2, <4>3, BootTypes
    <3>q. QED
      BY <3>6, <2>1, <2>3, BootTypes DEF SentInv
  <2>q. QED
    BY <1>1, <2>4, <2>5
<1>2. CASE FetchIntent \/ FetchLast
  <2>1. cmdQueue # << >> /\ cmdQueue' = Tail(cmdQueue)
        /\ UNCHANGED <<boot, files>>
    BY <1>2 DEF FetchIntent, FetchLast, memory, disk
  <2>2. Sent(want')
    <3>1. CASE FetchIntent
      BY <3>1, <2>1, HeadIs DEF FetchIntent, SentInv
    <3>2. CASE FetchLast
      <4>1. want' = Intent(lastConnected, 0, TRUE)
        BY <3>2 DEF FetchLast
      <4>2. want'.null /\ want'.version = 0
        BY <4>1 DEF Intent
      <4>q. QED
        BY <4>2 DEF Sent
    <3>q. QED
      BY <1>2, <3>1, <3>2
  <2>3. \A k \in 1 .. Len(cmdQueue') : Sent(cmdQueue'[k])
    BY <2>1, HeadIs DEF SentInv
  <2>q. QED
    BY <2>1, <2>2, <2>3 DEF SentInv, Sent
<1>3. CASE ProcessDies
  <2>1. cmdPc' = "idle" /\ \A k \in 1 .. Len(cmdQueue') : cmdQueue'[k] = Restart
    BY <1>3 DEF ProcessDies
  <2>q. QED
    BY <2>1, IntentsAre DEF SentInv, Sent
<1>4. CASE CheckInstance \/ NewInstance \/ ReloadList
             \/ (\E u \in Uuids : ReloadEntry(u)) \/ Reloaded \/ Retry
             \/ GiveUp \/ Found \/ NoProfile
  <2>1. /\ UNCHANGED <<boot, files, cmdQueue, want>>
        /\ cmdPc' # "idle" => cmdPc # "idle"
    BY <1>4 DEF CheckInstance, NewInstance, ReloadList, ReloadEntry, Reloaded,
       Retry, GiveUp, Found, NoProfile, memory, command, disk
  <2>q. QED
    BY <2>1 DEF SentInv, Sent
<1>7. CASE CreateInstance \/ LoadList \/ (\E u \in Uuids : LoadEntry(u))
             \/ GotInstance
  BY <1>7, <1>0 DEF CreateInstance, LoadList, LoadEntry, GotInstance, command,
     disk, wantVars
<1>5. CASE ChooseServer \/ GetInstance \/ AddProfile \/ SaveProfileList
             \/ AlreadyActive \/ UpdateLRU \/ StoreList \/ StoreLast
             \/ \E ended \in BOOLEAN : SessionEnds(ended)
  BY <1>5, <1>0 DEF ChooseServer, GetInstance, AddProfile, SaveProfileList,
     AlreadyActive, UpdateLRU, StoreList, StoreLast, SessionEnds, memory,
     command, disk, wantVars
<1>6. CASE UNCHANGED vars
  BY <1>6, <1>0 DEF vars, memory, command, disk, wantVars
<1>q. QED
  BY <1>1, <1>2, <1>3, <1>4, <1>5, <1>6, <1>7 DEF Next

(* No step but StartOpenVpn makes a start wanted.                          *)
LEMMA FetchKeepsWanted ==
    ASSUME TypeInv, FetchIntent \/ FetchLast, Wanted'
    PROVE  Wanted
<1>1. cmdQueue # << >> /\ cmdQueue' = Tail(cmdQueue)
  BY DEF FetchIntent, FetchLast
<1>2. want'.null \/ want' = cmdQueue[1]
  <2>1. CASE FetchIntent
    BY <2>1, <1>1, HeadIs DEF FetchIntent
  <2>2. CASE FetchLast
    <3>1. want' = Intent(lastConnected, 0, TRUE)
      BY <2>2 DEF FetchLast
    <3>q. QED
      BY <3>1 DEF Intent
  <2>q. QED
    BY <2>1, <2>2
<1>q. QED
  BY <1>1, <1>2, HeadIs DEF Wanted

LEMMA DeathWantsNothing ==
    ASSUME ProcessDies
    PROVE  ~Wanted'
<1>1. cmdPc' = "idle" /\ \A k \in 1 .. Len(cmdQueue') : cmdQueue'[k] = Restart
  BY DEF ProcessDies
<1>q. QED
  BY <1>1, IntentsAre DEF Wanted

LEMMA NextWanted ==
    ASSUME TypeInv, [Next]_vars, Wanted'
    PROVE  Wanted \/ (mainPc = "send" /\ StartOpenVpn)
<1>0. ASSUME UNCHANGED <<cmdQueue, want>>, cmdPc' # "idle" => cmdPc # "idle"
      PROVE  Wanted
  BY <1>0 DEF Wanted
<1>1. CASE ChooseServer \/ SaveProfile \/ GetInstance \/ CreateInstance
             \/ LoadList \/ (\E u \in Uuids : LoadEntry(u)) \/ GotInstance
             \/ AddProfile \/ SaveProfileList \/ AlreadyActive \/ UpdateLRU
  BY <1>1, <1>0 DEF ChooseServer, SaveProfile, GetInstance, CreateInstance,
     LoadList, LoadEntry, GotInstance, AddProfile, SaveProfileList,
     AlreadyActive, UpdateLRU, command
<1>2. CASE StartOpenVpn
  BY <1>2 DEF StartOpenVpn, MainStep
<1>3. CASE FetchIntent \/ FetchLast
  BY <1>3, FetchKeepsWanted
<1>4. CASE CheckInstance \/ NewInstance \/ ReloadList
             \/ (\E u \in Uuids : ReloadEntry(u)) \/ Reloaded \/ Retry
             \/ GiveUp \/ Found \/ NoProfile
  BY <1>4, <1>0 DEF CheckInstance, NewInstance, ReloadList, ReloadEntry,
     Reloaded, Retry, GiveUp, Found, NoProfile, command
<1>5. CASE StoreList \/ StoreLast \/ \E ended \in BOOLEAN : SessionEnds(ended)
  BY <1>5, <1>0 DEF StoreList, StoreLast, SessionEnds, command
<1>6. CASE ProcessDies
  BY <1>6, DeathWantsNothing
<1>7. CASE UNCHANGED vars
  BY <1>7, <1>0 DEF vars, command
<1>q. QED
  BY <1>1, <1>2, <1>3, <1>4, <1>5, <1>6, <1>7 DEF Next

LEMMA NextMadeInv == TypeInv /\ MadeInv /\ [Next]_vars => MadeInv'
<1> SUFFICES ASSUME TypeInv, MadeInv, [Next]_vars PROVE MadeInv'
  OBVIOUS
<1>i. instance \in 0 .. 2
  BY ObjectsAre
<1>w. Wanted' => Wanted \/ mainPc = "send"
  BY NextWanted
<1>m. ASSUME UNCHANGED instance,
             mainPc' \in {"decide", "send"} =>
                mainPc \in {"list", "decide", "send"},
             mainPc' \in {"create", "load", "loading"} =>
                mainPc \in {"create", "load", "loading"}
      PROVE  MadeInv'
  <2>1. mainPc = "list" => instance >= 1
    BY <1>i DEF TypeInv, MainTypes, InstanceBound
  <2>q. QED
    BY <1>m, <1>w, <1>i, <2>1 DEF MadeInv
<1>0. UNCHANGED <<instance, mainPc>> => MadeInv'
  BY <1>m
<1>1. CASE ChooseServer \/ SaveProfile \/ AddProfile \/ SaveProfileList
             \/ AlreadyActive \/ UpdateLRU \/ StartOpenVpn
  BY <1>1, <1>m DEF ChooseServer, SaveProfile, AddProfile, SaveProfileList,
     AlreadyActive, UpdateLRU, StartOpenVpn, MainStep, memory, objects
<1>2. CASE GetInstance
  BY <1>2, <1>w, <1>i DEF GetInstance, MadeInv, memory, objects
<1>3. CASE CreateInstance
  BY <1>3, <1>w, <1>i DEF CreateInstance, MainStep, Publish, MadeInv
<1>4. CASE LoadList \/ (\E u \in Uuids : LoadEntry(u)) \/ GotInstance
  BY <1>4, <1>m DEF LoadList, LoadEntry, GotInstance, MainStep, BeginLoad,
     ReadEntry, EndLoad, main
<1>5. CASE NewInstance
  BY <1>5, <1>w, <1>i DEF NewInstance, Publish, MadeInv, main
<1>6. CASE ReloadList \/ (\E u \in Uuids : ReloadEntry(u)) \/ Reloaded
  BY <1>6, <1>0 DEF ReloadList, ReloadEntry, Reloaded, BeginLoad, ReadEntry,
     EndLoad, main
<1>7. CASE FetchIntent \/ FetchLast \/ CheckInstance \/ Retry \/ GiveUp
             \/ Found \/ NoProfile \/ StoreList \/ StoreLast
             \/ \E ended \in BOOLEAN : SessionEnds(ended)
  BY <1>7, <1>0 DEF FetchIntent, FetchLast, CheckInstance, Retry, GiveUp,
     Found, NoProfile, StoreList, StoreLast, SessionEnds, memory, objects, main
<1>8. CASE ProcessDies
  <2>1. ~Wanted' /\ mainPc' = "idle"
    BY <1>8, DeathWantsNothing DEF ProcessDies
  <2>q. QED
    BY <2>1 DEF MadeInv
<1>9. CASE UNCHANGED vars
  BY <1>9, <1>0 DEF vars, memory, objects, main
<1>q. QED
  BY <1>1, <1>2, <1>3, <1>4, <1>5, <1>6, <1>7, <1>8, <1>9 DEF Next

LEMMA NextListedInv == TypeInv /\ ListedInv /\ [Next]_vars => ListedInv'
<1> SUFFICES ASSUME TypeInv, ListedInv, [Next]_vars, ~clash'
             PROVE  /\ mainPc' = "list" => boot' \in DOMAIN profiles'[pm']
                    /\ mainPc' \in {"decide", "send"} \/ Wanted'
                         => boot' \in vpnlist'
  BY DEF ListedInv
<1>p. mainPc = "list" => pm \in 1 .. 2
  BY ObjectsAre
<1>w. ASSUME ~clash, UNCHANGED <<boot, vpnlist>>,
             mainPc' = "list" => mainPc = "list" /\ UNCHANGED pm /\
                DOMAIN profiles[pm] \subseteq DOMAIN profiles'[pm],
             mainPc' \in {"decide", "send"} => mainPc \in {"decide", "send"}
      PROVE  /\ mainPc' = "list" => boot' \in DOMAIN profiles'[pm']
             /\ mainPc' \in {"decide", "send"} \/ Wanted' => boot' \in vpnlist'
  <2>1. Wanted' => Wanted \/ mainPc = "send"
    BY NextWanted
  <2>q. QED
    BY <1>w, <2>1 DEF ListedInv
<1>0. UNCHANGED <<clash, boot, vpnlist, mainPc, pm, profiles>>
        => /\ mainPc' = "list" => boot' \in DOMAIN profiles'[pm']
           /\ mainPc' \in {"decide", "send"} \/ Wanted' => boot' \in vpnlist'
  BY <1>w
<1>1. CASE ChooseServer \/ SaveProfile \/ GetInstance \/ AlreadyActive
             \/ UpdateLRU
  <2>1. UNCHANGED <<clash, boot, vpnlist>>
    BY <1>1 DEF ChooseServer, SaveProfile, GetInstance, AlreadyActive,
       UpdateLRU, memory, prefs, history
  <2>2. /\ mainPc' # "list"
        /\ mainPc' \in {"decide", "send"} => mainPc \in {"decide", "send"}
    BY <1>1 DEF ChooseServer, SaveProfile, GetInstance, AlreadyActive,
       UpdateLRU, MainStep
  <2>q. QED
    BY <2>1, <2>2, <1>w
<1>2. CASE CreateInstance \/ LoadList \/ (\E u \in Uuids : LoadEntry(u))
             \/ GotInstance \/ StartOpenVpn
  <2>1. UNCHANGED <<clash, boot, vpnlist>>
    BY <1>2 DEF CreateInstance, LoadList, LoadEntry, GotInstance, StartOpenVpn,
       memory, prefs, history
  <2>2. mainPc' # "list" /\ mainPc' \notin {"decide", "send"}
    BY <1>2 DEF CreateInstance, LoadList, LoadEntry, GotInstance, StartOpenVpn,
       MainStep, main
  <2>q. QED
    BY <2>1, <2>2, <1>w
<1>3. CASE AddProfile
  <2>1. pm \in 1 .. 2 /\ UNCHANGED pm /\ profiles'[pm] = With(profiles[pm], boot, Own)
    BY <1>3, AddIs
  <2>2. boot \in DOMAIN profiles'[pm]
    BY <2>1 DEF With
  <2>3. UNCHANGED <<clash, boot, vpnlist>> /\ mainPc' = "list" /\ mainPc = "add"
    BY <1>3 DEF AddProfile, MainStep, prefs, history
  <2>4. Wanted' => Wanted
    BY <2>3, NextWanted
  <2>q. QED
    BY <2>1, <2>2, <2>3, <2>4 DEF ListedInv
<1>4. CASE SaveProfileList
  BY <1>4 DEF SaveProfileList, MainStep, ListedInv, memory, objects
<1>5. CASE ReloadList
  <2>1. /\ UNCHANGED <<boot, vpnlist, mainPc, pm>> /\ cm' \in 1 .. 2
        /\ BeginLoad(cm') /\ ~clash /\ ~(mainPc = "list" /\ pm = cm')
    BY <1>5, ObjectsAre DEF ReloadList, main, prefs
  <2>2. mainPc = "list" => profiles'[pm] = profiles[pm]
    BY <2>1, <1>p, BeginIs
  <2>q. QED
    BY <2>1, <2>2, <1>w
<1>6. CASE \E u \in Uuids : ReloadEntry(u)
  <2>1. PICK u \in Uuids : ReloadEntry(u)
    BY <1>6
  <2>2. cm \in 1 .. 2 /\ ReadEntry(cm, u)
        /\ UNCHANGED <<clash, boot, vpnlist, mainPc, pm>>
    BY <2>1, ObjectsAre DEF ReloadEntry, main, prefs, history
  <2>3. mainPc = "list" => DOMAIN profiles[pm] \subseteq DOMAIN profiles'[pm]
    BY <2>2, <1>p, ReadGrows
  <2>q. QED
    BY <2>2, <2>3, <1>w
<1>7. CASE NewInstance \/ Reloaded
  BY <1>7, <1>0 DEF NewInstance, Reloaded, Publish, EndLoad, main, prefs,
     history
<1>8. CASE FetchIntent \/ FetchLast \/ CheckInstance \/ Retry \/ GiveUp
             \/ Found \/ NoProfile \/ StoreList \/ StoreLast
             \/ \E ended \in BOOLEAN : SessionEnds(ended)
  BY <1>8, <1>0 DEF FetchIntent, FetchLast, CheckInstance, Retry, GiveUp, Found,
     NoProfile, StoreList, StoreLast, SessionEnds, memory, objects, main,
     prefs, history
<1>9. CASE ProcessDies
  BY <1>9, DeathWantsNothing DEF ProcessDies
<1>10. CASE UNCHANGED vars
  BY <1>10, <1>0 DEF vars, memory, objects, main, prefs, history
<1>q. QED
  BY <1>1, <1>2, <1>3, <1>4, <1>5, <1>6, <1>7, <1>8, <1>9, <1>10 DEF Next

LEMMA NextLookInv ==
    TypeInv /\ FileInv /\ SentInv /\ MadeInv /\ ListedInv /\ LookInv
        /\ [Next]_vars => LookInv'
<1> SUFFICES ASSUME TypeInv, FileInv, SentInv, MadeInv, ListedInv, LookInv,
                    [Next]_vars
             PROVE  LookInv'
  OBVIOUS
<1>0. ASSUME UNCHANGED <<cmdPc, tries, want, profiles, unread, instance, cm,
                         boot, clash>>
      PROVE  LookInv'
  BY <1>0 DEF LookInv, LastLook
<1>i. cmdPc # "idle" /\ ~want.null => Wanted
  BY DEF Wanted
<1>1. CASE ChooseServer \/ SaveProfile \/ GetInstance \/ SaveProfileList
             \/ AlreadyActive \/ UpdateLRU \/ StartOpenVpn \/ StoreList
             \/ StoreLast \/ \E ended \in BOOLEAN : SessionEnds(ended)
  BY <1>1, <1>0 DEF ChooseServer, SaveProfile, GetInstance, SaveProfileList,
     AlreadyActive, UpdateLRU, StartOpenVpn, StoreList, StoreLast,
     SessionEnds, OpenFile, WriteFile, memory, objects, command, history
<1>2. CASE CreateInstance \/ LoadList \/ (\E u \in Uuids : LoadEntry(u))
             \/ GotInstance
  <2>1. /\ UNCHANGED <<cmdPc, tries, want>>
        /\ mainPc \in {"create", "load", "loading"}
    BY <1>2 DEF CreateInstance, LoadList, LoadEntry, GotInstance, MainStep,
       command
  <2>2. cmdPc # "idle" => want.null
    BY <2>1, <1>i DEF MadeInv
  <2>q. QED
    BY <2>1, <2>2 DEF LookInv
<1>3. CASE AddProfile
  <2>1. /\ UNCHANGED <<cmdPc, tries, want, instance, unread, cm, boot, clash>>
        /\ pm \in 1 .. 2 /\ profiles'[pm] = With(profiles[pm], boot, Own)
        /\ \A k \in 1 .. 2 : k # pm => profiles'[k] = profiles[k]
    BY <1>3, AddIs DEF AddProfile, command, history
  <2>2. LastLook /\ instance \in 1 .. 2 => LastLook'
    <3>1. CASE instance = pm
      <4>1. profiles'[instance] = With(profiles[instance], boot, Own)
        BY <3>1, <2>1
      <4>2. /\ boot \in DOMAIN profiles'[instance]
            /\ profiles'[instance][boot] = Own
        BY <4>1 DEF With
      <4>q. QED
        BY <4>2, <2>1, MapsAre DEF LastLook
    <3>2. CASE instance # pm
      BY <3>2, <2>1 DEF LastLook
    <3>q. QED
      BY <3>1, <3>2
  <2>3. cmdPc \in {"loading", "look"} => instance \in 1 .. 2
    BY ObjectsAre DEF TypeInv, MainTypes, InstanceBound
  <2>q. QED
    BY <2>1, <2>2, <2>3 DEF LookInv
<1>4. CASE FetchIntent
  BY <1>4, TriesAssumption DEF FetchIntent, LookInv
<1>5. CASE FetchLast
  <2>1. want'.null
    <3>1. want' = Intent(lastConnected, 0, TRUE)
      BY <1>5 DEF FetchLast
    <3>q. QED
      BY <3>1 DEF Intent
  <2>2. tries' > 0
    <3>1. tries' = Tries
      BY <1>5 DEF FetchLast
    <3>q. QED
      BY <3>1, TriesAssumption
  <2>q. QED
    BY <2>1, <2>2 DEF LookInv
<1>6. CASE CheckInstance
  <2>1. /\ cmdPc = "check" /\ tries > 0 /\ UNCHANGED <<want, tries>>
        /\ cmdPc' = IF instance = 0 THEN "create" ELSE "look"
    BY <1>6 DEF CheckInstance, LookInv
  <2>2. ~want.null => cmdPc' = "look"
    BY <2>1, <1>i, ObjectsAre DEF MadeInv
  <2>q. QED
    BY <2>1, <2>2 DEF LookInv
<1>7. CASE NewInstance
  BY <1>7 DEF NewInstance, LookInv
<1>8. CASE ReloadList
  <2>1. /\ cmdPc = "load" /\ cmdPc' = "loading" /\ cm' = instance
        /\ BeginLoad(cm') /\ cm' \in 1 .. 2
        /\ UNCHANGED <<want, tries, boot, vpnlist>> /\ (clash => clash')
    BY <1>8, ObjectsAre DEF ReloadList, prefs
  <2>2. /\ profiles'[instance] = NoEntries /\ unread'[instance] = vpnlist
        /\ instance' = instance
    BY <2>1, BeginIs
  <2>3. ASSUME ~want.null PROVE LastLook'
    <3>1. boot \notin DOMAIN profiles'[instance]
      BY <2>2, NothingType
    <3>2. ~clash' => boot \in vpnlist
      BY <2>1, <2>3, <1>i DEF ListedInv
    <3>q. QED
      BY <3>1, <3>2, <2>1, <2>2 DEF LastLook
  <2>q. QED
    BY <2>1, <2>2, <2>3 DEF LookInv
<1>9. CASE \E u \in Uuids : ReloadEntry(u)
  <2>1. PICK u \in Uuids : ReloadEntry(u)
    BY <1>9
  <2>2. /\ cmdPc = "loading" /\ ReadEntry(cm, u) /\ cm \in 1 .. 2
        /\ UNCHANGED <<cmdPc, tries, want, cm, boot, clash>>
        /\ tries = 0 /\ u = boot => mainPc \notin {"write", "send"}
    BY <2>1, ObjectsAre DEF ReloadEntry, command, history
  <2>3. UNCHANGED instance
    BY <2>2, ReadIs
  <2>4. ASSUME ~want.null, tries = 0, LastLook, cm = instance
        PROVE  LastLook'
    <3>1. CASE u = boot
      <4>1. boot \notin torn
        BY <3>1, <2>2, <2>4 DEF FileInv, TornInv
      <4>2. CASE files[boot] > 0
        <5>1. Readable(u)
          BY <3>1, <4>1, <4>2 DEF Readable
        <5>2. profiles'[instance] = With(profiles[instance], boot, Copy(files[boot]))
          BY <5>1, <3>1, <2>2, <2>4, ReadIs
        <5>3. /\ boot \in DOMAIN profiles'[instance]
              /\ profiles'[instance][boot] = Copy(files[boot])
          BY <5>2 DEF With
        <5>4. want.version <= files[boot]
          BY <2>2, <2>4 DEF SentInv, Sent
        <5>q. QED
          BY <5>3, <5>4, <2>2, <2>3, MapsAre DEF LastLook
      <4>3. CASE ~(files[boot] > 0)
        <5>1. clash
          BY <4>3, <2>2, <2>4, <1>i DEF ListedInv, FileInv, WrittenInv
        <5>2. ~Readable(u)
          BY <4>3, <3>1 DEF Readable
        <5>3. profiles'[instance] = profiles[instance]
          BY <5>2, <2>2, <2>4, ReadIs
        <5>q. QED
          BY <5>1, <5>3, <2>2, <2>3, <2>4 DEF LastLook
      <4>q. QED
        BY <4>2, <4>3
    <3>2. CASE u # boot
      <4>1. unread'[instance] = unread[instance] \ {u}
        BY <2>2, <2>4, ReadIs
      <4>2. /\ boot \in DOMAIN profiles'[instance]
                 <=> boot \in DOMAIN profiles[instance]
            /\ boot \in DOMAIN profiles[instance] =>
                 profiles'[instance][boot] = profiles[instance][boot]
        <5>1. CASE Readable(u)
          <6>1. profiles'[instance] = With(profiles[instance], u, Copy(files[u]))
            BY <5>1, <2>2, <2>4, ReadIs
          <6>q. QED
            BY <6>1, <3>2 DEF With
        <5>2. CASE ~Readable(u)
          BY <5>2, <2>2, <2>4, ReadIs
        <5>q. QED
          BY <5>1, <5>2
      <4>q. QED
        BY <3>2, <4>1, <4>2, <2>2, <2>3, <2>4 DEF LastLook
    <3>q. QED
      BY <3>1, <3>2
  <2>q. QED
    BY <2>2, <2>3, <2>4 DEF LookInv
<1>10. CASE Reloaded
  <2>1. /\ cmdPc = "loading" /\ cmdPc' = "look" /\ unread[cm] = {}
        /\ UNCHANGED <<want, tries, cm, boot, clash, instance, profiles, unread>>
    BY <1>10 DEF Reloaded, EndLoad, history
  <2>2. LastLook /\ cm = instance => LastLook'
    BY <2>1 DEF LastLook
  <2>q. QED
    BY <2>1, <2>2 DEF LookInv
<1>11. CASE Retry
  BY <1>11, BootTypes DEF Retry, LookInv
<1>12. CASE GiveUp
  <2>1. /\ cmdPc = "look" /\ ~Known /\ tries = 0 /\ cmdPc' = "absent"
        /\ UNCHANGED <<want, tries, clash>>
    BY <1>12 DEF GiveUp, history
  <2>2. ~want.null => want.uuid = boot
    BY <2>1 DEF SentInv, Sent
  <2>q. QED
    BY <2>1, <2>2 DEF LookInv, LastLook, Known
<1>13. CASE Found \/ NoProfile \/ ProcessDies
  BY <1>13 DEF Found, NoProfile, ProcessDies, LookInv
<1>14. CASE UNCHANGED vars
  BY <1>14, <1>0 DEF vars, memory, objects, command, history
<1>q. QED
  BY <1>1, <1>2, <1>3, <1>4, <1>5, <1>6, <1>7, <1>8, <1>9, <1>10, <1>11,
     <1>12, <1>13, <1>14 DEF Next

StartInv ==
    FileInv /\ VersionInv /\ SentInv /\ MadeInv /\ ListedInv /\ LookInv

LEMMA StartInvariant == Spec => [](TypeInv /\ StartInv)
<1>1. Init => VersionInv /\ SentInv /\ MadeInv /\ ListedInv /\ LookInv
  <2> SUFFICES ASSUME Init
               PROVE  VersionInv /\ SentInv /\ MadeInv /\ ListedInv /\ LookInv
    OBVIOUS
  <2>1. Len(cmdQueue) = 0
    BY EmptySeq DEF Init
  <2>q. QED
    BY <2>1, UuidsAre DEF Init, VersionInv, SentInv, MadeInv, ListedInv,
       LookInv, Wanted
<1>2. TypeInv /\ FileInv /\ VersionInv /\ SentInv /\ MadeInv /\ ListedInv
        /\ LookInv /\ [Next]_vars
        => VersionInv' /\ SentInv' /\ MadeInv' /\ ListedInv' /\ LookInv'
  BY NextVersionInv, NextSentInv, NextMadeInv, NextListedInv, NextLookInv
<1>3. FileInv /\ VersionInv /\ SentInv /\ MadeInv /\ ListedInv /\ LookInv
        <=> StartInv
  BY DEF StartInv
<1>q. QED
  BY <1>1, <1>2, <1>3, FileInvariant, PTL DEF Spec

(* Whatever the two threads do in between, a start finds its profile       *)
(* unless a reload began between addProfile and saveProfileList.           *)
THEOREM StartsFindProfiles == Spec => []StartFindsProfile
<1>1. StartInv => StartFindsProfile
  BY DEF StartInv, LookInv, StartFindsProfile
<1>q. QED
  BY <1>1, StartInvariant, PTL

(* The session never gets an older profile than the one the start named.   *)
THEOREM StartsAreCurrent == Spec => []StartIsCurrent
<1>1. TypeInv /\ StartInv => StartIsCurrent
  <2> SUFFICES ASSUME TypeInv, StartInv, cmdPc = "look", Known, tries = 0
               PROVE  Current
    BY DEF StartIsCurrent
  <2>1. instance \in 1 .. 2
    BY ObjectsAre
  <2>2. profiles[instance] \in Maps
    BY <2>1 DEF TypeInv, MemoryTypes
  <2>3. Entry.version \in Nat
    BY <2>2, MapsAre, VersionsAre DEF Known, Entry
  <2>4. CASE want.null
    <3>1. want.version = 0
      BY <2>4 DEF StartInv, SentInv, Sent
    <3>q. QED
      BY <3>1, <2>3, BootTypes DEF Current, VersionOf
  <2>5. CASE ~want.null
    <3>1. want.uuid = boot /\ want.version <= version
      BY <2>5, BootTypes DEF StartInv, SentInv, Sent, VersionInv
    <3>2. Entry.own \/ want.version <= Entry.version
      BY <2>5, <3>1 DEF StartInv, LookInv, LastLook, Known, Entry
    <3>q. QED
      BY <3>1, <3>2, <2>3, BootTypes DEF Current, VersionOf
  <2>q. QED
    BY <2>4, <2>5
<1>q. QED
  BY <1>1, StartInvariant, PTL

-----------------------------------------------------------------------------
(* The restart after the death of the process.                             *)

(* The null intent is the first thing the new process does.                *)
QueueInv ==
    \A k \in 1 .. Len(cmdQueue) :
        cmdQueue[k].null => k = 1 /\ cmdPc = "idle" /\ running = NoSession

(* The profile u of the session that ran is in every map that was loaded,  *)
(* and a load that goes on has read it or will.                            *)
Kept(u) ==
    /\ u < boot /\ u \in vpnlist /\ u \notin torn /\ files[u] > 0
    /\ \A i \in whole : u \in DOMAIN profiles[i]
    /\ mainPc = "loading" => u \in DOMAIN profiles[pm] \cup unread[pm]
    /\ cmdPc = "loading" => u \in DOMAIN profiles[cm] \cup unread[cm]
    /\ \A k \in 1 .. Len(cmdQueue) : cmdQueue[k].null => lastConnected = u
    /\ cmdPc # "idle" /\ want.null => want.uuid = u /\ cmdPc # "absent"

(* The main thread can put an empty map under the command thread twice:    *)
(* when it publishes its object, and when it loads it.                     *)
Setbacks == IF mainPc = "create" THEN 2 ELSE IF mainPc = "load" THEN 1 ELSE 0
Used == Tries - tries + Setbacks

(* So two retries may be in vain, but not a third.                         *)
RetryInv ==
    cmdPc # "idle" /\ want.null =>
        /\ cmdPc \in {"check", "create"} => tries = Tries
        /\ cmdPc \in {"load", "loading", "look"} => Used <= 3
        /\ cmdPc = "look" /\ instance \notin whole => Used <= 2
        /\ cmdPc = "loading" /\ cm # instance => Used <= 2

RecoverInv == sound /\ ~partial => RetryInv /\ \E u \in Uuids : Kept(u)

LEMMA NextQueueInv == TypeInv /\ QueueInv /\ [Next]_vars => QueueInv'
<1> SUFFICES ASSUME TypeInv, QueueInv, [Next]_vars PROVE QueueInv'
  OBVIOUS
<1>0. ASSUME UNCHANGED cmdQueue,
             cmdPc = "idle" => cmdPc' = "idle",
             running = NoSession => running' = NoSession
      PROVE  QueueInv'
  BY <1>0 DEF QueueInv
<1>1. CASE StartOpenVpn
  <2> DEFINE i == Intent(boot, version, FALSE)
  <2>1. cmdQueue' = Append(cmdQueue, i) /\ UNCHANGED <<cmdPc, running>>
    BY <1>1 DEF StartOpenVpn
  <2>2. i \in Intents
    BY IntentsAre DEF TypeInv, MemoryTypes
  <2>3. ~i.null
    BY DEF Intent
  <2> HIDE DEF i
  <2>4. /\ Len(cmdQueue') = Len(cmdQueue) + 1
        /\ cmdQueue'[Len(cmdQueue) + 1] = i
        /\ \A j \in 1 .. Len(cmdQueue) : cmdQueue'[j] = cmdQueue[j]
    BY <2>1, <2>2, BootTypes, AppendProperties
  <2>5. ASSUME NEW k \in 1 .. Len(cmdQueue'), cmdQueue'[k].null
        PROVE  k \in 1 .. Len(cmdQueue) /\ cmdQueue'[k] = cmdQueue[k]
    BY <2>3, <2>4, <2>5, BootTypes
  <2>q. QED
    BY <2>1, <2>5 DEF QueueInv
<1>2. CASE FetchIntent \/ FetchLast
  <2>1. cmdQueue # << >> /\ cmdQueue' = Tail(cmdQueue)
    BY <1>2 DEF FetchIntent, FetchLast
  <2>2. \A k \in 1 .. Len(cmdQueue') :
          /\ k + 1 \in 1 .. Len(cmdQueue) /\ k + 1 # 1
          /\ cmdQueue'[k] = cmdQueue[k + 1]
    BY <2>1, HeadIs, BootTypes
  <2>q. QED
    BY <2>2 DEF QueueInv
<1>3. CASE CheckInstance \/ NewInstance \/ ReloadList
             \/ (\E u \in Uuids : ReloadEntry(u)) \/ Reloaded \/ Retry
             \/ GiveUp \/ Found \/ NoProfile
  BY <1>3 DEF CheckInstance, NewInstance, ReloadList, ReloadEntry, Reloaded,
     Retry, GiveUp, Found, NoProfile, command, QueueInv
<1>4. CASE \E ended \in BOOLEAN : SessionEnds(ended)
  BY <1>4, <1>0 DEF SessionEnds, command
<1>5. CASE ProcessDies
  <2>1. cmdPc' = "idle" /\ running' = NoSession
    BY <1>5 DEF ProcessDies
  <2>2. \A k \in 1 .. Len(cmdQueue') : k = 1
    BY <1>5 DEF ProcessDies
  <2>q. QED
    BY <2>1, <2>2 DEF QueueInv
<1>8. CASE CreateInstance \/ LoadList \/ (\E u \in Uuids : LoadEntry(u))
             \/ GotInstance
  BY <1>8, <1>0 DEF CreateInstance, LoadList, LoadEntry, GotInstance, command
<1>6. CASE ChooseServer \/ SaveProfile \/ GetInstance \/ AddProfile
             \/ SaveProfileList \/ AlreadyActive \/ UpdateLRU \/ StoreList
             \/ StoreLast
  BY <1>6, <1>0 DEF ChooseServer, SaveProfile, GetInstance, AddProfile,
     SaveProfileList, AlreadyActive, UpdateLRU, StoreList, StoreLast, command
<1>7. CASE UNCHANGED vars
  BY <1>7, <1>0 DEF vars, command
<1>q. QED
  BY <1>1, <1>2, <1>3, <1>4, <1>5, <1>6, <1>7, <1>8 DEF Next

LEMMA NextRetryInv ==
    ASSUME TypeInv, StartInv, RetryInv, NEW u \in Uuids, Kept(u),
           [Next]_vars, ~ProcessDies
    PROVE  RetryInv'
<1>n. /\ Tries \in Nat /\ tries \in Nat /\ tries <= Tries
      /\ Setbacks \in 0 .. 2
  BY BootTypes, TriesAssumption DEF Setbacks
<1>p. /\ instance \in 0 .. 2
      /\ cmdPc \in {"load", "look"} => instance >= 1
      /\ cmdPc = "loading" => cm \in 1 .. instance
  BY ObjectsAre DEF TypeInv, MainTypes, InstanceBound
<1>m. ASSUME UNCHANGED <<cmdPc, want, tries, cm, instance>>,
             whole \subseteq whole', Setbacks' <= Setbacks, Setbacks' \in 0 .. 2
      PROVE  RetryInv'
  <2>1. Used' <= Used /\ Used \in Int /\ Used' \in Int
    <3>1. Used = Tries - tries + Setbacks /\ Used' = Tries - tries' + Setbacks'
      BY DEF Used
    <3>2. tries' = tries
      BY <1>m
    <3>3. \A a, b \in 0 .. 2 : b <= a
            => /\ Tries - tries + b <= Tries - tries + a
               /\ Tries - tries + a \in Int /\ Tries - tries + b \in Int
      BY <1>n
    <3>4. /\ Setbacks \in 0 .. 2 /\ Setbacks' \in 0 .. 2
          /\ Setbacks' <= Setbacks
      BY <1>m, <1>n
    <3>q. QED
      BY <3>1, <3>2, <3>3, <3>4
  <2>q. QED
    BY <1>m, <1>n, <2>1 DEF RetryInv
<1>0. UNCHANGED <<cmdPc, want, tries, cm, instance, whole, mainPc>>
        => RetryInv'
  BY DEF RetryInv, Used, Setbacks
<1>1. CASE ChooseServer \/ SaveProfile \/ AddProfile \/ SaveProfileList
             \/ AlreadyActive \/ UpdateLRU \/ StartOpenVpn
  <2>1. UNCHANGED <<cmdPc, want, tries, cm, instance, whole>>
    BY <1>1 DEF ChooseServer, SaveProfile, AddProfile, SaveProfileList,
       AlreadyActive, UpdateLRU, StartOpenVpn, memory, objects, command
  <2>2. Setbacks' = 0 /\ Setbacks = 0
    BY <1>1 DEF ChooseServer, SaveProfile, AddProfile, SaveProfileList,
       AlreadyActive, UpdateLRU, StartOpenVpn, MainStep, Setbacks
  <2>q. QED
    BY <2>1, <2>2, <1>m
<1>2. CASE GetInstance
  <2>1. UNCHANGED <<cmdPc, want, tries, cm, instance, whole>>
    BY <1>2 DEF GetInstance, memory, objects, command
  <2>2. CASE instance = 0
    BY <2>1, <2>2, <1>p DEF RetryInv
  <2>3. CASE instance # 0
    BY <2>1, <2>3, <1>2, <1>m DEF GetInstance, Setbacks
  <2>q. QED
    BY <2>2, <2>3
<1>3. CASE CreateInstance
  <2>1. /\ UNCHANGED <<cmdPc, want, tries, cm, whole>>
        /\ Setbacks = 2 /\ Setbacks' = 1
    BY <1>3 DEF CreateInstance, MainStep, Publish, Setbacks, command
  <2>q. QED
    BY <2>1, <1>n DEF RetryInv, Used
<1>4. CASE LoadList
  <2>1. /\ UNCHANGED <<cmdPc, want, tries, cm, instance>>
        /\ Setbacks = 1 /\ Setbacks' = 0
    BY <1>4 DEF LoadList, MainStep, BeginLoad, Setbacks, command
  <2>q. QED
    BY <2>1, <1>n DEF RetryInv, Used
<1>5. CASE (\E v \in Uuids : LoadEntry(v)) \/ GotInstance
  <2>1. /\ UNCHANGED <<cmdPc, want, tries, cm, instance>>
        /\ whole \subseteq whole' /\ Setbacks' = 0 /\ Setbacks = 0
    BY <1>5 DEF LoadEntry, GotInstance, MainStep, ReadEntry, EndLoad,
       Setbacks, command, main
  <2>q. QED
    BY <2>1, <1>m
<1>6. CASE FetchIntent \/ FetchLast
  <2>1. CASE FetchIntent
    BY <2>1 DEF FetchIntent, RetryInv
  <2>2. CASE FetchLast
    BY <2>2 DEF FetchLast, RetryInv
  <2>q. QED
    BY <1>6, <2>1, <2>2
<1>7. CASE CheckInstance \/ NewInstance
  <2>1. /\ UNCHANGED <<want, tries, mainPc>> /\ cmdPc \in {"check", "create"}
        /\ cmdPc' \in {"create", "look", "load"}
    BY <1>7 DEF CheckInstance, NewInstance, main
  <2>2. Setbacks' = Setbacks
    BY <2>1 DEF Setbacks
  <2>q. QED
    BY <2>1, <2>2, <1>n DEF RetryInv, Used
<1>8. CASE ReloadList
  <2>1. /\ UNCHANGED <<want, tries, mainPc, instance>> /\ cmdPc = "load"
        /\ cmdPc' = "loading" /\ cm' = instance
    BY <1>8 DEF ReloadList, BeginLoad, main
  <2>2. Setbacks' = Setbacks
    BY <2>1 DEF Setbacks
  <2>q. QED
    BY <2>1, <2>2, <1>n DEF RetryInv, Used
<1>9. CASE \E v \in Uuids : ReloadEntry(v)
  BY <1>9, <1>0 DEF ReloadEntry, ReadEntry, main, command
<1>10. CASE Reloaded
  <2>1. /\ UNCHANGED <<want, tries, mainPc, instance, cm>>
        /\ cmdPc = "loading" /\ cmdPc' = "look" /\ whole' = whole \cup {cm}
    BY <1>10 DEF Reloaded, EndLoad, main
  <2>2. Setbacks' = Setbacks
    BY <2>1 DEF Setbacks
  <2>q. QED
    BY <2>1, <2>2, <1>n DEF RetryInv, Used
<1>11. CASE Retry
  <2>1. /\ UNCHANGED <<want, mainPc, instance, whole>> /\ cmdPc = "look"
        /\ cmdPc' = "load" /\ tries' = tries - 1 /\ tries > 0 /\ ~Current
    BY <1>11 DEF Retry, memory, objects, main
  <2>2. Setbacks' = Setbacks
    BY <2>1 DEF Setbacks
  <2>3. ASSUME want.null PROVE instance \notin whole
    <3>1. SUFFICES ASSUME instance \in whole PROVE FALSE
      OBVIOUS
    <3>2. want.uuid = u /\ want.version = 0
      BY <2>1, <2>3 DEF Kept, StartInv, SentInv, Sent
    <3>3. Known
      BY <3>1, <3>2 DEF Kept, Known
    <3>4. instance \in 1 .. 2
      BY <2>1, <1>p
    <3>5. profiles[instance] \in Maps
      BY <3>4 DEF TypeInv, MemoryTypes
    <3>6. Entry.version \in Nat
      BY <3>3, <3>5, MapsAre, VersionsAre DEF Known, Entry
    <3>q. QED
      BY <3>2, <3>3, <3>6, <2>1, BootTypes DEF Current, VersionOf
  <2>q. QED
    BY <2>1, <2>2, <2>3, <1>n DEF RetryInv, Used
<1>12. CASE GiveUp \/ Found \/ NoProfile
  BY <1>12 DEF GiveUp, Found, NoProfile, RetryInv
<1>13. CASE StoreList \/ StoreLast \/ \E ended \in BOOLEAN : SessionEnds(ended)
  BY <1>13, <1>0 DEF StoreList, StoreLast, SessionEnds, memory, objects, main,
     command
<1>14. CASE UNCHANGED vars
  BY <1>14, <1>0 DEF vars, memory, objects, main, command
<1>q. QED
  BY <1>1, <1>2, <1>3, <1>4, <1>5, <1>6, <1>7, <1>8, <1>9, <1>10, <1>11,
     <1>12, <1>13, <1>14 DEF Next

(* What a step of a load does to the maps that hold u.                     *)
HoldsIt(u) ==
    /\ \A i \in whole : u \in DOMAIN profiles[i]
    /\ mainPc = "loading" => u \in DOMAIN profiles[pm] \cup unread[pm]
    /\ cmdPc = "loading" => u \in DOMAIN profiles[cm] \cup unread[cm]

LEMMA LoadsHold ==
    ASSUME TypeInv, [Next]_vars, ~ProcessDies, NEW u \in Uuids,
           u \in vpnlist, u \notin torn, files[u] > 0, HoldsIt(u)
    PROVE  HoldsIt(u)'
<1>p. /\ mainPc = "loading" => pm \in 1 .. 2
      /\ cmdPc = "loading" => cm \in 1 .. 2
      /\ whole \in SUBSET (1 .. 2)
  BY ObjectsAre
<1>r. Readable(u)
  BY DEF Readable
<1>0. ASSUME UNCHANGED <<whole, profiles, unread, pm, cm>>,
             mainPc' = "loading" => mainPc = "loading",
             cmdPc' = "loading" => cmdPc = "loading"
      PROVE  HoldsIt(u)'
  BY <1>0 DEF HoldsIt
<1>1. CASE ChooseServer \/ SaveProfile \/ SaveProfileList \/ AlreadyActive
             \/ UpdateLRU \/ StartOpenVpn
  BY <1>1, <1>0 DEF ChooseServer, SaveProfile, SaveProfileList, AlreadyActive,
     UpdateLRU, StartOpenVpn, MainStep, memory, objects, command
<1>2. CASE GetInstance \/ CreateInstance
  <2>1. /\ UNCHANGED <<whole, profiles, unread, cmdPc, cm>>
        /\ mainPc' # "loading"
    BY <1>2 DEF GetInstance, CreateInstance, MainStep, Publish, memory,
       objects, command
  <2>q. QED
    BY <2>1 DEF HoldsIt
<1>3. ASSUME NEW i \in 1 .. 2, BeginLoad(i),
             \A k \in {pm', cm'} : k \in {pm, cm, i},
             mainPc' = "loading" => pm' = i \/ (mainPc = "loading" /\ pm' = pm),
             cmdPc' = "loading" => cm' = i \/ (cmdPc = "loading" /\ cm' = cm)
      PROVE  HoldsIt(u)'
  <2>1. /\ u \in unread'[i] /\ ~Locked(i) /\ whole' = whole \ {i}
        /\ \A k \in 1 .. 2 : k # i => /\ profiles'[k] = profiles[k]
                                      /\ unread'[k] = unread[k]
    BY <1>3, BeginIs
  <2>2. \A k \in whole' : u \in DOMAIN profiles'[k]
    BY <2>1, <1>p DEF HoldsIt
  <2>3. mainPc = "loading" => pm # i /\ pm \in 1 .. 2
    BY <2>1, <1>p DEF Locked
  <2>4. cmdPc = "loading" => cm # i /\ cm \in 1 .. 2
    BY <2>1, <1>p DEF Locked
  <2>q. QED
    BY <1>3, <2>1, <2>2, <2>3, <2>4 DEF HoldsIt
<1>4. ASSUME NEW i \in 1 .. 2, NEW v \in Uuids, ReadEntry(i, v),
             UNCHANGED <<mainPc, cmdPc, pm, cm>>
      PROVE  HoldsIt(u)'
  <2>1. \A k \in 1 .. 2 : DOMAIN profiles[k] \subseteq DOMAIN profiles'[k]
    BY <1>4, ReadGrows
  <2>2. ASSUME NEW k \in 1 .. 2, u \in DOMAIN profiles[k] \cup unread[k]
        PROVE  u \in DOMAIN profiles'[k] \cup unread'[k]
    BY <1>4, <1>r, <2>2, ReadGrows
  <2>3. UNCHANGED whole
    BY <1>4, ReadIs
  <2>q. QED
    BY <1>4, <1>p, <2>1, <2>2, <2>3 DEF HoldsIt
<1>5. ASSUME NEW i \in 1 .. 2, EndLoad(i),
             u \in DOMAIN profiles[i] \cup unread[i]
      PROVE  \A k \in whole' : u \in DOMAIN profiles'[k]
  BY <1>5 DEF EndLoad, HoldsIt
<1>6. CASE LoadList
  <2>1. /\ pm' \in 1 .. 2 /\ BeginLoad(pm') /\ UNCHANGED <<cm, cmdPc>>
    BY <1>6, ObjectsAre DEF LoadList, MainStep, command
  <2>q. QED
    BY <2>1, <1>3
<1>7. CASE ReloadList
  <2>1. /\ cm' \in 1 .. 2 /\ BeginLoad(cm') /\ UNCHANGED <<pm, mainPc>>
    BY <1>7, ObjectsAre DEF ReloadList, main
  <2>q. QED
    BY <2>1, <1>3
<1>8. CASE \E v \in Uuids : LoadEntry(v)
  BY <1>8, <1>4, <1>p DEF LoadEntry, main, command
<1>9. CASE \E v \in Uuids : ReloadEntry(v)
  BY <1>9, <1>4, <1>p DEF ReloadEntry, main, command
<1>10. CASE GotInstance
  <2>1. /\ EndLoad(pm) /\ mainPc = "loading" /\ mainPc' # "loading"
        /\ UNCHANGED <<profiles, unread, cm, cmdPc>>
    BY <1>10 DEF GotInstance, MainStep, EndLoad, command
  <2>2. \A k \in whole' : u \in DOMAIN profiles'[k]
    BY <2>1, <1>5, <1>p DEF HoldsIt
  <2>q. QED
    BY <2>1, <2>2 DEF HoldsIt
<1>11. CASE Reloaded
  <2>1. /\ EndLoad(cm) /\ cmdPc = "loading" /\ cmdPc' # "loading"
        /\ UNCHANGED <<profiles, unread, pm, mainPc>>
    BY <1>11 DEF Reloaded, EndLoad, main
  <2>2. \A k \in whole' : u \in DOMAIN profiles'[k]
    BY <2>1, <1>5, <1>p DEF HoldsIt
  <2>q. QED
    BY <2>1, <2>2 DEF HoldsIt
<1>12. CASE AddProfile
  <2>1. \A k \in 1 .. 2 : DOMAIN profiles[k] \subseteq DOMAIN profiles'[k]
    BY <1>12, AddGrows
  <2>2. /\ UNCHANGED <<unread, whole, pm, cm, cmdPc>> /\ mainPc' # "loading"
    BY <1>12 DEF AddProfile, MainStep, command
  <2>q. QED
    BY <2>1, <2>2, <1>p DEF HoldsIt
<1>13. CASE NewInstance
  <2>1. /\ UNCHANGED <<whole, profiles, unread, pm, cm, mainPc>>
        /\ cmdPc' # "loading"
    BY <1>13 DEF NewInstance, Publish, main
  <2>q. QED
    BY <2>1, <1>0
<1>14. CASE FetchIntent \/ FetchLast \/ CheckInstance \/ Retry \/ GiveUp
              \/ Found \/ NoProfile \/ StoreList \/ StoreLast
              \/ \E ended \in BOOLEAN : SessionEnds(ended)
  <2>1. /\ UNCHANGED <<whole, profiles, unread, pm, cm, mainPc>>
        /\ cmdPc' = "loading" => cmdPc = "loading"
    BY <1>14 DEF FetchIntent, FetchLast, CheckInstance, Retry, GiveUp, Found,
       NoProfile, StoreList, StoreLast, SessionEnds, memory, objects, main,
       command
  <2>q. QED
    BY <2>1, <1>0
<1>15. CASE UNCHANGED vars
  BY <1>15, <1>0 DEF vars, memory, objects, main, command
<1>q. QED
  BY <1>1, <1>2, <1>6, <1>7, <1>8, <1>9, <1>10, <1>11, <1>12, <1>13, <1>14,
     <1>15 DEF Next

(* What the history says of this process stays so until it dies.           *)
LEMMA NextHistory ==
    ASSUME [Next]_vars, ~ProcessDies
    PROVE  UNCHANGED sound /\ (partial => partial')
<1>1. CASE SaveProfileList
  BY <1>1 DEF SaveProfileList
<1>2. CASE ReloadList
  BY <1>2 DEF ReloadList
<1>3. CASE ~SaveProfileList /\ ~ReloadList
  <2>1. UNCHANGED history
    BY <1>3 DEF Next, ChooseServer, SaveProfile, GetInstance, CreateInstance,
       LoadList, LoadEntry, GotInstance, AddProfile, AlreadyActive, UpdateLRU,
       StartOpenVpn, FetchIntent, FetchLast, CheckInstance, NewInstance,
       ReloadEntry, Reloaded, Retry, GiveUp, Found, NoProfile, SessionEnds,
       StoreList, StoreLast, vars
  <2>q. QED
    BY <2>1 DEF history
<1>q. QED
  BY <1>1, <1>2, <1>3

(* The list and the file of u stay, unless a map that is not whole leaves  *)
(* names out of the list.                                                  *)
LEMMA StaysReadable ==
    ASSUME TypeInv, [Next]_vars, ~ProcessDies, ~partial', NEW u \in Uuids,
           Kept(u)
    PROVE  /\ ~partial /\ UNCHANGED <<boot, sound>>
           /\ u \in vpnlist' /\ u \notin torn' /\ files'[u] > 0
<1>k. u < boot /\ u \in vpnlist /\ u \notin torn /\ files[u] > 0
  BY DEF Kept
<1>0. UNCHANGED <<boot, sound, partial, vpnlist, torn, files>> =>
        /\ ~partial /\ UNCHANGED <<boot, sound>>
        /\ u \in vpnlist' /\ u \notin torn' /\ files'[u] > 0
  BY <1>k
<1>1. CASE ChooseServer \/ UpdateLRU
  <2>1. /\ torn' = torn \cup {boot}
        /\ UNCHANGED <<boot, sound, partial, vpnlist, files>>
    BY <1>1 DEF ChooseServer, UpdateLRU, OpenFile, prefs, history
  <2>q. QED
    BY <2>1, <1>k, BootTypes
<1>2. CASE SaveProfile \/ StartOpenVpn
  <2>1. /\ files' = [files EXCEPT ![boot] = version] /\ torn' = torn \ {boot}
        /\ UNCHANGED <<boot, sound, partial, vpnlist>>
    BY <1>2 DEF SaveProfile, StartOpenVpn, WriteFile, memory, prefs, history
  <2>q. QED
    BY <2>1, <1>k, BootTypes DEF TypeInv, KeptTypes
<1>3. CASE SaveProfileList
  <2>1. /\ vpnlist' = DOMAIN profiles[pm] /\ ~partial
        /\ pm \in whole \/ vpnlist \subseteq vpnlist'
        /\ UNCHANGED <<boot, sound, torn, files>>
    BY <1>3 DEF SaveProfileList, memory, disk
  <2>2. pm \in whole => u \in DOMAIN profiles[pm]
    BY DEF Kept
  <2>q. QED
    BY <2>1, <2>2, <1>k
<1>4. CASE GetInstance \/ CreateInstance \/ LoadList
             \/ (\E v \in Uuids : LoadEntry(v)) \/ GotInstance \/ AddProfile
             \/ AlreadyActive
  BY <1>4, <1>0 DEF GetInstance, CreateInstance, LoadList, LoadEntry,
     GotInstance, AddProfile, AlreadyActive, memory, prefs, disk, history
<1>5. CASE FetchIntent \/ FetchLast \/ CheckInstance \/ NewInstance
             \/ ReloadList \/ (\E v \in Uuids : ReloadEntry(v)) \/ Reloaded
             \/ Retry \/ GiveUp \/ Found \/ NoProfile
  BY <1>5, <1>0 DEF FetchIntent, FetchLast, CheckInstance, NewInstance,
     ReloadList, ReloadEntry, Reloaded, Retry, GiveUp, Found, NoProfile,
     memory, prefs, disk, history
<1>6. CASE StoreList \/ StoreLast \/ \E ended \in BOOLEAN : SessionEnds(ended)
  BY <1>6, <1>0 DEF StoreList, StoreLast, SessionEnds, memory, prefs, disk,
     history
<1>7. CASE UNCHANGED vars
  BY <1>7, <1>0 DEF vars, memory, prefs, disk, history
<1>q. QED
  BY <1>1, <1>2, <1>3, <1>4, <1>5, <1>6, <1>7 DEF Next

(* The null intent names u until it is served, and finds it.               *)
Serves(u) ==
    /\ \A k \in 1 .. Len(cmdQueue) : cmdQueue[k].null => lastConnected = u
    /\ cmdPc # "idle" /\ want.null => want.uuid = u /\ cmdPc # "absent"

LEMMA StillServes ==
    ASSUME TypeInv, QueueInv, RetryInv, [Next]_vars, ~ProcessDies,
           NEW u \in Uuids, Kept(u)
    PROVE  Serves(u)'
<1>s. Serves(u)
  BY DEF Kept, Serves
<1>0. ASSUME UNCHANGED <<cmdQueue, lastConnected, want>>,
             cmdPc' # "idle" => cmdPc # "idle",
             cmdPc' = "absent" => cmdPc = "absent"
      PROVE  Serves(u)'
  BY <1>0, <1>s DEF Serves
<1>1. CASE ChooseServer \/ SaveProfile \/ GetInstance \/ CreateInstance
             \/ LoadList \/ (\E v \in Uuids : LoadEntry(v)) \/ GotInstance
             \/ AddProfile \/ SaveProfileList \/ AlreadyActive \/ UpdateLRU
  BY <1>1, <1>0 DEF ChooseServer, SaveProfile, GetInstance, CreateInstance,
     LoadList, LoadEntry, GotInstance, AddProfile, SaveProfileList,
     AlreadyActive, UpdateLRU, command, prefs
<1>2. CASE StartOpenVpn
  <2> DEFINE i == Intent(boot, version, FALSE)
  <2>1. /\ cmdQueue' = Append(cmdQueue, i)
        /\ UNCHANGED <<lastConnected, cmdPc, want>>
    BY <1>2 DEF StartOpenVpn, prefs
  <2>2. i \in Intents
    BY IntentsAre DEF TypeInv, MemoryTypes
  <2>3. ~i.null
    BY DEF Intent
  <2> HIDE DEF i
  <2>4. /\ Len(cmdQueue') = Len(cmdQueue) + 1
        /\ cmdQueue'[Len(cmdQueue) + 1] = i
        /\ \A j \in 1 .. Len(cmdQueue) : cmdQueue'[j] = cmdQueue[j]
    BY <2>1, <2>2, BootTypes, AppendProperties
  <2>5. ASSUME NEW k \in 1 .. Len(cmdQueue'), cmdQueue'[k].null
        PROVE  k \in 1 .. Len(cmdQueue) /\ cmdQueue'[k] = cmdQueue[k]
    BY <2>3, <2>4, <2>5, BootTypes
  <2>q. QED
    BY <2>1, <2>5, <1>s DEF Serves
<1>3. CASE FetchIntent
  <2>1. /\ cmdQueue # << >> /\ cmdQueue' = Tail(cmdQueue)
        /\ ~want'.null /\ UNCHANGED lastConnected
    BY <1>3 DEF FetchIntent, prefs
  <2>q. QED
    BY <2>1, HeadIs, <1>s DEF Serves
<1>4. CASE FetchLast
  <2>1. /\ cmdQueue # << >> /\ cmdQueue' = Tail(cmdQueue)
        /\ Head(cmdQueue).null /\ UNCHANGED lastConnected
        /\ want' = Intent(lastConnected, 0, TRUE)
    BY <1>4 DEF FetchLast, prefs
  <2>2. lastConnected = u
    BY <2>1, HeadIs, <1>s DEF Serves
  <2>3. lastConnected # None
    BY <2>2, UuidsAre
  <2>4. cmdPc' = "check"
    BY <2>3, <1>4 DEF FetchLast
  <2>5. want'.uuid = u
    BY <2>1, <2>2 DEF Intent
  <2>q. QED
    BY <2>1, <2>4, <2>5, HeadIs, <1>s DEF Serves
<1>5. CASE CheckInstance \/ NewInstance \/ ReloadList
             \/ (\E v \in Uuids : ReloadEntry(v)) \/ Reloaded \/ Retry
             \/ NoProfile
  BY <1>5, <1>0 DEF CheckInstance, NewInstance, ReloadList, ReloadEntry,
     Reloaded, Retry, NoProfile, command, prefs
<1>6. CASE GiveUp
  <2>1. /\ cmdPc = "look" /\ ~Known /\ tries = 0
        /\ UNCHANGED <<cmdQueue, lastConnected, want>>
    BY <1>6 DEF GiveUp, prefs
  <2>2. ASSUME want.null PROVE FALSE
    <3>1. want.uuid = u
      BY <2>1, <2>2, <1>s DEF Serves
    <3>2. instance \notin whole
      BY <2>1, <3>1 DEF Kept, Known
    <3>3. Used <= 2
      BY <2>1, <2>2, <3>2 DEF RetryInv
    <3>q. QED
      BY <2>1, <3>3, TriesAssumption DEF Used, Setbacks
  <2>q. QED
    BY <2>1, <2>2, <1>s DEF Serves
<1>7. CASE Found \/ \E ended \in BOOLEAN : SessionEnds(ended)
  <2>1. /\ UNCHANGED <<cmdQueue, want>>
        /\ cmdPc' # "idle" => UNCHANGED cmdPc
        /\ cmdPc # "idle" \/ running # NoSession
    BY <1>7 DEF Found, SessionEnds, command
  <2>2. \A k \in 1 .. Len(cmdQueue') : ~cmdQueue'[k].null
    BY <2>1 DEF QueueInv
  <2>q. QED
    BY <2>1, <2>2, <1>s DEF Serves
<1>8. CASE StoreList \/ StoreLast
  BY <1>8, <1>0 DEF StoreList, StoreLast, command, prefs
<1>9. CASE UNCHANGED vars
  BY <1>9, <1>0 DEF vars, command, prefs
<1>q. QED
  BY <1>1, <1>2, <1>3, <1>4, <1>5, <1>6, <1>7, <1>8, <1>9 DEF Next

LEMMA NextRecoverInv ==
    TypeInv /\ StartInv /\ QueueInv /\ RecoverInv /\ [Next]_vars
        => RecoverInv'
<1> SUFFICES ASSUME TypeInv, StartInv, QueueInv, RecoverInv, [Next]_vars,
                    sound', ~partial'
             PROVE  RetryInv' /\ \E u \in Uuids : Kept(u)'
  BY DEF RecoverInv
<1>1. CASE ProcessDies
  <2>1. /\ boot' = boot + 1 /\ vpnlist' = storedList /\ whole' = {}
        /\ lastConnected' = storedLast /\ cmdPc' = "idle" /\ mainPc' = "idle"
        /\ UNCHANGED <<torn, files>> /\ Stored
    BY <1>1 DEF ProcessDies, disk
  <2>2. running.uuid \in Uuids
    BY <2>1, UuidsAre DEF Stored, TypeInv, KeptTypes
  <2>3. PICK u \in Uuids : u = running.uuid
    BY <2>2
  <2>4. /\ u \in storedList /\ storedLast = u /\ u \notin torn
        /\ running # NoSession
    BY <2>1, <2>3 DEF Stored
  <2>5. files[u] > 0 /\ u \in Nat
    BY <2>4, UuidsAre DEF TypeInv, KeptTypes, StartInv, FileInv, WrittenInv
  <2>6. u <= boot
    BY <2>3, <2>4, <2>5, BootTypes DEF StartInv, VersionInv
  <2>7. u < boot' /\ u \in vpnlist' /\ u \notin torn' /\ files'[u] > 0
    BY <2>1, <2>4, <2>5, <2>6, BootTypes
  <2>8. Kept(u)'
    BY <2>1, <2>4, <2>7 DEF Kept
  <2>9. RetryInv'
    BY <2>1 DEF RetryInv
  <2>q. QED
    BY <2>8, <2>9
<1>2. CASE ~ProcessDies
  <2>1. sound /\ ~partial
    BY <1>2, NextHistory
  <2>2. RetryInv /\ \E u \in Uuids : Kept(u)
    BY <2>1 DEF RecoverInv
  <2>3. PICK u \in Uuids : Kept(u)
    BY <2>2
  <2>4. /\ UNCHANGED boot
        /\ u \in vpnlist' /\ u \notin torn' /\ files'[u] > 0
    BY <1>2, <2>3, StaysReadable
  <2>5. HoldsIt(u)'
    <3>1. /\ u \in vpnlist /\ u \notin torn /\ files[u] > 0
          /\ HoldsIt(u)
      BY <2>3 DEF Kept, HoldsIt
    <3>q. QED
      BY <3>1, <1>2, LoadsHold
  <2>6. Serves(u)'
    BY <1>2, <2>2, <2>3, StillServes
  <2>7. Kept(u)'
    BY <2>3, <2>4, <2>5, <2>6 DEF Kept, HoldsIt, Serves
  <2>8. RetryInv'
    BY <1>2, <2>2, <2>3, NextRetryInv
  <2>q. QED
    BY <2>7, <2>8
<1>q. QED
  BY <1>1, <1>2

(* Whatever the new process does first, a session that had everything      *)
(* stored when the process died finds its profile after the restart,       *)
(* unless an object that was published and not loaded has left names out of*)
(* the list.                                                               *)
THEOREM RestartFindsProfile == Spec => []RestartRecovers
<1>1. Init => QueueInv /\ RecoverInv
  <2> SUFFICES ASSUME Init PROVE QueueInv /\ RecoverInv
    OBVIOUS
  <2>1. Len(cmdQueue) = 0
    BY EmptySeq DEF Init
  <2>q. QED
    BY <2>1 DEF Init, QueueInv, RecoverInv
<1>2. TypeInv /\ StartInv /\ QueueInv /\ RecoverInv /\ [Next]_vars
        => QueueInv' /\ RecoverInv'
  BY NextQueueInv, NextRecoverInv
<1>3. RecoverInv => RestartRecovers
  BY DEF RecoverInv, Kept, RestartRecovers
<1>q. QED
  BY <1>1, <1>2, <1>3, StartInvariant, PTL DEF Spec
====
