-------------------------- MODULE TunSetup_proofs --------------------------
(***************************************************************************)
(* Proofs about TunSetup, for every set of option lists, every number of   *)
(* sessions and of interfaces: the type invariant, that descriptors are    *)
(* owned, that a session's tunnel is the one it was pushed, and that       *)
(* persist-tun leaves no gap.  The inductive invariant IInv adds what ties *)
(* a session's record of its tunnel to the interface itself.               *)
(***************************************************************************)
EXTENDS TunSetup, SequenceTheorems, TLAPS

(* An interface is open exactly if the session that made it still has it.  *)
OpenIsOwned ==
  \A d \in DOMAIN tuns : tuns[d].open <=> fd[tuns[d].owner] = d

(* What a session has is its own and is only had while it runs.            *)
OwnedByOwner ==
  \A s \in Sessions : fd[s] # 0 => Running(s) /\ tuns[fd[s]].owner = s

(* The options kept for comparison are those the tunnel was made for.      *)
OptionsOfTunnel ==
  \A s \in Sessions : options[s] # None =>
    fd[s] # 0 /\ tuns[fd[s]].push = options[s]

(* The address kept for the next Connected event is the tunnel's.          *)
ReportedOfTunnel ==
  \A s \in Sessions : fd[s] # 0 => tuns[fd[s]].conf.ip = reported[s]

(* Only with persist-tun are options kept.                                 *)
OptionsNeedPersist == \A s \in Sessions : options[s] # None => persist[s]

UpMatches ==
  \A s \in Sessions : phase[s] = "up" =>
    fd[s] # 0 /\ tuns[fd[s]].push = pushed[s]

(* With persist-tun a session that has made an interface has one.          *)
PersistKeeps ==
  \A s \in Sessions : persist[s] /\ Running(s) =>
    \A d \in DOMAIN tuns : tuns[d].owner = s => fd[s] # 0

IdleMadeNone ==
  \A s \in Sessions : phase[s] = "idle" =>
    \A d \in DOMAIN tuns : tuns[d].owner # s

Inv == /\ OpenIsOwned /\ OwnedByOwner /\ OptionsOfTunnel /\ ReportedOfTunnel
       /\ UpMatches /\ PersistKeeps /\ IdleMadeNone /\ OptionsNeedPersist
IInv == TypeOK /\ Inv

-----------------------------------------------------------------------------
(* The callbacks keep the type of the fields, and the address is the one   *)
(* that was pushed.                                                        *)
LEMMA ConfigureType ==
  ASSUME NEW f \in Fields, NEW o \in Pushes
  PROVE  /\ configure_builder(f, o) \in Fields
         /\ o.ip # None => configure_builder(f, o).ip = o.ip
<1> DEFINE a == tun_ifconfig(f, o)
           b == add_routes(a, o)
           c == tun_builder_reroute_gw(b, o.redirect)
           d == add_dhcp_options(c, o)
           e == tun_builder_set_remote_address(d)
<1>o. o \in PushList BY PushesAssumption
<1>a. a \in Fields /\ a.ip = o.ip
  BY <1>o DEF tun_ifconfig, tun_builder_add_address, Fields, PushList
<1>b. b \in Fields /\ b.ip = o.ip
  <2> HIDE DEF a
  <2> QED BY <1>o, <1>a DEF add_routes, tun_builder_add_routes, Fields, PushList
<1>c. c \in Fields /\ c.ip = o.ip
  <2> HIDE DEF b
  <2>1. DefaultRoute \in Text BY TextAssumption
  <2>2. b.routes \cup {DefaultRoute} \in SUBSET Text BY <2>1, <1>b DEF Fields
  <2> QED BY <1>b, <2>2 DEF tun_builder_reroute_gw, Fields
<1>d. d \in Fields /\ d.ip = o.ip
  <2> HIDE DEF c
  <2> DEFINE g == tun_builder_add_search_domain(c, o.domains)
  <2>1. o.domains # <<>> => Head(o.domains) \in Text
    BY <1>o, HeadTailProperties DEF PushList
  <2>2. g \in Fields /\ g.ip = o.ip
    BY <2>1, <1>c DEF tun_builder_add_search_domain, Fields
  <2>3. d = tun_builder_add_dns_server(g, o.dns) BY DEF add_dhcp_options
  <2> HIDE DEF d, g
  <2> QED BY <1>o, <2>2, <2>3 DEF tun_builder_add_dns_server, Fields, PushList
<1>e. e \in Fields /\ e.ip = o.ip
  <2> HIDE DEF d
  <2> QED BY <1>d DEF tun_builder_set_remote_address, Fields
<1>f. configure_builder(f, o) = IF o.ip = None THEN f ELSE tun_mtu(e, o)
  BY DEF configure_builder
<1> HIDE DEF e
<1>1. CASE o.mtu \in {0, BadMtu} BY <1>1, <1>e, <1>f DEF tun_mtu
<1>2. CASE o.mtu \notin {0, BadMtu}
  <2>1. o.mtu \in Nat BY <1>o, <1>2 DEF PushList
  <2> QED BY <1>2, <2>1, <1>e, <1>f DEF tun_mtu, tun_builder_set_mtu, Fields
<1> QED BY <1>1, <1>2

LEMMA ResetType ==
  ASSUME NEW f \in Fields
  PROVE  ResetInformation(f) \in Fields
BY DEF ResetInformation, NoFields, Fields

(* Closing a descriptor changes whether it is open and nothing else.       *)
LEMMA CloseTunProperties ==
  ASSUME NEW ts \in Seq(Tun), NEW d \in 0 .. Len(ts)
  PROVE  /\ CloseTun(ts, d) \in Seq(Tun)
         /\ Len(CloseTun(ts, d)) = Len(ts)
         /\ \A i \in 1 .. Len(ts) :
              /\ CloseTun(ts, d)[i].conf = ts[i].conf
              /\ CloseTun(ts, d)[i].push = ts[i].push
              /\ CloseTun(ts, d)[i].owner = ts[i].owner
              /\ CloseTun(ts, d)[i].open <=> (ts[i].open /\ i # d)
<1>1. \A i \in 1 .. Len(ts) : ts[i] \in Tun BY ElementOfSeq
<1>2. CASE d = 0 BY <1>2, <1>1 DEF CloseTun, Tun
<1>3. CASE d # 0
  <2> DEFINE t == [ts[d] EXCEPT !.open = FALSE]
  <2>1. d \in 1 .. Len(ts) BY <1>3
  <2>2. /\ t \in Tun
        /\ t.conf = ts[d].conf /\ t.push = ts[d].push
        /\ t.owner = ts[d].owner /\ t.open = FALSE
    BY <2>1, <1>1 DEF Tun
  <2> HIDE DEF t
  <2>3. CloseTun(ts, d) = [ts EXCEPT ![d] = t] BY <1>3 DEF CloseTun, t
  <2>4. CloseTun(ts, d) \in Seq(Tun) /\ Len(CloseTun(ts, d)) = Len(ts)
    BY <2>1, <2>2, <2>3, ExceptSeq
  <2>5. \A i \in 1 .. Len(ts) : CloseTun(ts, d)[i] = IF i = d THEN t ELSE ts[i]
    BY <2>1, <2>3
  <2> QED BY <2>2, <2>4, <2>5
<1> QED BY <1>2, <1>3

-----------------------------------------------------------------------------
LEMMA InitIInv == Init => IInv
<1> SUFFICES ASSUME Init PROVE IInv OBVIOUS
<1>1. tuns \in Seq(Tun) /\ Len(tuns) = 0 /\ DOMAIN tuns = {}
  BY EmptySeq DEF Init
<1>2. NoFields \in Fields BY DEF NoFields, Fields
<1>3. TypeOK
  <2>1. fd \in [Sessions -> 0 .. Len(tuns)] BY <1>1 DEF Init
  <2>2. fields \in Fields BY <1>2 DEF Init
  <2>3. aborted \in BOOLEAN BY DEF Init
  <2>4. phase \in [Sessions -> Phases] BY DEF Init, Phases
  <2> QED BY <1>1, <2>1, <2>2, <2>3, <2>4 DEF Init, TypeOK
<1>4. Inv
  BY <1>1 DEF Init, Inv, OpenIsOwned, OwnedByOwner, OptionsOfTunnel,
              ReportedOfTunnel, UpMatches, PersistKeeps, IdleMadeNone, OptionsNeedPersist
<1> QED BY <1>3, <1>4 DEF IInv

(* What TypeOK says of one session, and of one interface.                  *)
LEMMA TypeFacts ==
  ASSUME TypeOK
  PROVE  /\ tuns \in Seq(Tun) /\ Len(tuns) \in Nat
         /\ DOMAIN tuns = 1 .. Len(tuns)
         /\ \A d \in 1 .. Len(tuns) :
              tuns[d] \in Tun /\ tuns[d].owner \in Sessions
         /\ \A s \in Sessions : fd[s] \in 0 .. Len(tuns)
<1>1. tuns \in Seq(Tun) /\ \A s \in Sessions : fd[s] \in 0 .. Len(tuns)
  BY DEF TypeOK
<1>2. Len(tuns) \in Nat /\ DOMAIN tuns = 1 .. Len(tuns)
  BY <1>1, LenProperties
<1>3. \A d \in 1 .. Len(tuns) : tuns[d] \in Tun BY <1>1, ElementOfSeq
<1>4. \A d \in 1 .. Len(tuns) : tuns[d].owner \in Sessions BY <1>3 DEF Tun
<1> QED BY <1>1, <1>2, <1>3, <1>4

LEMMA StartKeeps ==
  ASSUME IInv, NEW s \in Sessions, NEW p \in BOOLEAN, StartSession(s, p)
  PROVE  IInv'
<1> USE DEF IInv, StartSession
<1>1. TypeOK' BY DEF TypeOK, Phases
<1>2. fd[s] = 0 BY DEF Inv, OwnedByOwner, Running
<1>i. options[s] = None BY <1>2 DEF Inv, OptionsOfTunnel
<1>3. OpenIsOwned' BY DEF Inv, OpenIsOwned
<1>4. OwnedByOwner' BY <1>2 DEF TypeOK, Inv, OwnedByOwner, Running
<1>5. OptionsOfTunnel' /\ ReportedOfTunnel'
  BY DEF Inv, OptionsOfTunnel, ReportedOfTunnel
<1>6. UpMatches' BY DEF TypeOK, Inv, UpMatches
<1>7. PersistKeeps' BY DEF TypeOK, Inv, PersistKeeps, IdleMadeNone, Running
<1>8. IdleMadeNone' /\ OptionsNeedPersist'
  BY <1>i DEF TypeOK, Inv, IdleMadeNone, OptionsNeedPersist
<1> QED BY <1>1, <1>3, <1>4, <1>5, <1>6, <1>7, <1>8 DEF Inv

LEMMA ReuseKeeps ==
  ASSUME IInv, NEW s \in Sessions, NEW o \in Pushes, ReuseTun(s, o)
  PROVE  IInv'
<1> USE DEF IInv, ReuseTun
<1>1. TypeOK' BY DEF TypeOK, Phases
<1>2. fd[s] # 0 /\ tuns[fd[s]].push = o
  BY DEF UsePersistedTun, Capture, Inv, OptionsOfTunnel
<1>3. OpenIsOwned' BY DEF Inv, OpenIsOwned
<1>4. OwnedByOwner' BY DEF TypeOK, Inv, OwnedByOwner, Running
<1>5. OptionsOfTunnel' /\ ReportedOfTunnel'
  BY DEF Inv, OptionsOfTunnel, ReportedOfTunnel
<1>6. UpMatches' BY <1>2 DEF TypeOK, Inv, UpMatches
<1>7. PersistKeeps' BY DEF TypeOK, Inv, PersistKeeps, Running
<1>8. IdleMadeNone' /\ OptionsNeedPersist'
  BY DEF TypeOK, Inv, IdleMadeNone, OptionsNeedPersist
<1> QED BY <1>1, <1>3, <1>4, <1>5, <1>6, <1>7, <1>8 DEF Inv

(* What closing a session's own descriptor leaves: steps in which session  *)
(* s gives up its tunnel differ in phase and options only.                 *)
LEMMA CloseOwnKeeps ==
  ASSUME IInv, NEW s \in Sessions,
         tuns' = CloseTun(tuns, fd[s]), fd' = [fd EXCEPT ![s] = 0]
  PROVE  /\ tuns' \in Seq(Tun)
         /\ DOMAIN tuns' = DOMAIN tuns /\ Len(tuns') = Len(tuns)
         /\ fd' \in [Sessions -> 0 .. Len(tuns')]
         /\ \A d \in DOMAIN tuns : /\ tuns'[d].conf = tuns[d].conf
                                   /\ tuns'[d].push = tuns[d].push
                                   /\ tuns'[d].owner = tuns[d].owner
         /\ OpenIsOwned'
<1>1. TypeOK BY DEF IInv
<1>2. tuns \in Seq(Tun) /\ fd[s] \in 0 .. Len(tuns) BY <1>1, TypeFacts
<1>3. /\ tuns' \in Seq(Tun) /\ Len(tuns') = Len(tuns)
      /\ \A d \in 1 .. Len(tuns) :
           /\ tuns'[d].conf = tuns[d].conf
           /\ tuns'[d].push = tuns[d].push
           /\ tuns'[d].owner = tuns[d].owner
           /\ tuns'[d].open <=> (tuns[d].open /\ d # fd[s])
  BY <1>2, CloseTunProperties
<1>4. DOMAIN tuns = 1 .. Len(tuns) /\ DOMAIN tuns' = 1 .. Len(tuns')
  BY <1>2, <1>3, LenProperties
<1>5. fd' \in [Sessions -> 0 .. Len(tuns')]
  BY <1>1, <1>3, LenProperties, <1>2 DEF TypeOK
<1>6. OpenIsOwned'
  <2> SUFFICES ASSUME NEW d \in 1 .. Len(tuns)
               PROVE  tuns'[d].open <=> fd'[tuns'[d].owner] = d
    BY <1>3, <1>4 DEF OpenIsOwned
  <2>1. tuns[d].owner \in Sessions /\ d # 0 BY <1>1, TypeFacts
  <2>2. tuns[d].open <=> fd[tuns[d].owner] = d
    BY <1>4 DEF IInv, Inv, OpenIsOwned
  <2>3. fd[s] = d => tuns[d].owner = s
    BY <2>1 DEF IInv, Inv, OwnedByOwner
  <2> QED BY <1>1, <1>3, <2>1, <2>2, <2>3 DEF TypeOK
<1> QED BY <1>3, <1>4, <1>5, <1>6

LEMMA FailKeeps ==
  ASSUME IInv, NEW s \in Sessions, NEW o \in Pushes, SetupFails(s, o)
  PROVE  IInv'
<1>1. TypeOK /\ Inv BY DEF IInv
<1>2. /\ tuns' = CloseTun(tuns, fd[s]) /\ fd' = [fd EXCEPT ![s] = 0]
      /\ options' = [options EXCEPT ![s] = None]
      /\ phase' = [phase EXCEPT ![s] = "failed"]
      /\ pushed' = [pushed EXCEPT ![s] = o]
      /\ phase[s] = "connecting"
      /\ persist' = persist /\ reported' = reported
  BY DEF SetupFails
<1>3. /\ tuns' \in Seq(Tun)
      /\ DOMAIN tuns' = DOMAIN tuns
      /\ fd' \in [Sessions -> 0 .. Len(tuns')]
      /\ \A d \in DOMAIN tuns : /\ tuns'[d].conf = tuns[d].conf
                                /\ tuns'[d].push = tuns[d].push
                                /\ tuns'[d].owner = tuns[d].owner
      /\ OpenIsOwned'
  BY <1>2, CloseOwnKeeps
<1>4. TypeOK'
  <2>1. fields' \in Fields /\ aborted' \in BOOLEAN
    <3> DEFINE f == configure_builder(tun_builder_new(fields), o)
    <3>1. f \in Fields BY <1>1, ConfigureType DEF TypeOK, tun_builder_new
    <3>2. ResetInformation(f) \in Fields BY <3>1, ResetType
    <3>3. \/ fields' = f /\ aborted' = (aborted \/ f # fields)
          \/ fields' = ResetInformation(f) /\ aborted' = aborted
      BY DEF SetupFails
    <3> HIDE DEF f
    <3>4. aborted \in BOOLEAN BY <1>1 DEF TypeOK
    <3>5. CASE fields' = f /\ aborted' = (aborted \/ f # fields)
      BY <3>1, <3>5
    <3>6. CASE fields' = ResetInformation(f) /\ aborted' = aborted
      BY <3>2, <3>4, <3>6
    <3> QED BY <3>3, <3>5, <3>6
  <2> QED BY <1>1, <1>2, <1>3, <2>1 DEF TypeOK, Phases
<1>5. \A r \in Sessions : fd[r] # 0 => fd[r] \in DOMAIN tuns
  BY <1>1, TypeFacts
<1>6. OwnedByOwner'
  <2> SUFFICES ASSUME NEW r \in Sessions, fd'[r] # 0
               PROVE  Running(r)' /\ tuns'[fd'[r]].owner = r
    BY DEF OwnedByOwner
  <2>1. r # s /\ fd'[r] = fd[r] BY <1>1, <1>2 DEF TypeOK
  <2>2. Running(r)' <=> Running(r) BY <1>1, <1>2, <2>1 DEF TypeOK, Running
  <2> QED BY <1>1, <1>3, <1>5, <2>1, <2>2 DEF Inv, OwnedByOwner
<1>7. OptionsOfTunnel'
  BY <1>1, <1>2, <1>3, <1>5 DEF TypeOK, Inv, OptionsOfTunnel
<1>8. ReportedOfTunnel'
  BY <1>1, <1>2, <1>3, <1>5 DEF TypeOK, Inv, ReportedOfTunnel
<1>9. UpMatches'
  BY <1>1, <1>2, <1>3, <1>5 DEF TypeOK, Inv, UpMatches
<1>10. PersistKeeps'
  <2> SUFFICES ASSUME NEW r \in Sessions, persist'[r] /\ Running(r)',
                      NEW d \in DOMAIN tuns', tuns'[d].owner = r
               PROVE  fd'[r] # 0
    BY DEF PersistKeeps
  <2>1. r # s BY <1>1, <1>2 DEF TypeOK, Running
  <2>2. Running(r) /\ fd'[r] = fd[r]
    BY <1>1, <1>2, <1>3, <2>1 DEF TypeOK, Running
  <2> QED BY <1>1, <1>2, <1>3, <2>2 DEF Inv, PersistKeeps
<1>11. IdleMadeNone'
  <2> SUFFICES ASSUME NEW r \in Sessions, phase'[r] = "idle",
                      NEW d \in DOMAIN tuns'
               PROVE  tuns'[d].owner # r
    BY DEF IdleMadeNone
  <2>1. phase[r] = "idle" BY <1>1, <1>2 DEF TypeOK
  <2> QED BY <1>1, <1>3, <2>1 DEF Inv, IdleMadeNone
<1>12. OptionsNeedPersist'
  BY <1>1, <1>2 DEF TypeOK, Inv, OptionsNeedPersist
<1> QED BY <1>3, <1>4, <1>6, <1>7, <1>8, <1>9, <1>10, <1>11, <1>12 DEF IInv, Inv

LEMMA LoseKeeps ==
  ASSUME IInv, NEW s \in Sessions, LoseConnection(s)
  PROVE  IInv'
<1>1. TypeOK /\ Inv BY DEF IInv
<1>2. /\ phase[s] = "up" /\ phase' = [phase EXCEPT ![s] = "connecting"]
      /\ fields' = fields /\ persist' = persist /\ options' = options
      /\ pushed' = pushed /\ reported' = reported /\ aborted' = aborted
  BY DEF LoseConnection
<1>3. CASE persist[s]
  <2>1. fd' = fd /\ tuns' = tuns BY <1>3 DEF LoseConnection
  <2>2. TypeOK' BY <1>1, <1>2, <2>1 DEF TypeOK, Phases
  <2>3. Inv'
    BY <1>1, <1>2, <2>1
       DEF TypeOK, Inv, OpenIsOwned, OwnedByOwner, OptionsOfTunnel,
           ReportedOfTunnel, UpMatches, PersistKeeps, IdleMadeNone, Running,
           OptionsNeedPersist
  <2> QED BY <2>2, <2>3 DEF IInv
<1>4. CASE ~persist[s]
  <2>1. tuns' = CloseTun(tuns, fd[s]) /\ fd' = [fd EXCEPT ![s] = 0]
    BY <1>4 DEF LoseConnection
  <2>2. /\ tuns' \in Seq(Tun)
        /\ DOMAIN tuns' = DOMAIN tuns
        /\ fd' \in [Sessions -> 0 .. Len(tuns')]
        /\ \A d \in DOMAIN tuns : /\ tuns'[d].conf = tuns[d].conf
                                  /\ tuns'[d].push = tuns[d].push
                                  /\ tuns'[d].owner = tuns[d].owner
        /\ OpenIsOwned'
    BY <2>1, CloseOwnKeeps
  <2>3. TypeOK' BY <1>1, <1>2, <2>2 DEF TypeOK, Phases
  <2>4. \A r \in Sessions : fd[r] # 0 => fd[r] \in DOMAIN tuns
    BY <1>1, TypeFacts
  <2>5. OwnedByOwner'
    BY <1>1, <1>2, <2>1, <2>2, <2>4 DEF TypeOK, Inv, OwnedByOwner, Running
  \* without persist-tun nothing is kept for comparison
  <2>6. options[s] = None BY <1>1, <1>4 DEF Inv, OptionsNeedPersist
  <2>7. OptionsOfTunnel'
    BY <1>1, <1>2, <2>1, <2>2, <2>4, <2>6 DEF TypeOK, Inv, OptionsOfTunnel
  <2>8. ReportedOfTunnel'
    BY <1>1, <1>2, <2>1, <2>2, <2>4 DEF TypeOK, Inv, ReportedOfTunnel
  <2>9. UpMatches'
    BY <1>1, <1>2, <2>1, <2>2, <2>4 DEF TypeOK, Inv, UpMatches
  <2>10. PersistKeeps'
    <3> SUFFICES ASSUME NEW r \in Sessions, persist'[r] /\ Running(r)',
                        NEW d \in DOMAIN tuns', tuns'[d].owner = r
                 PROVE  fd'[r] # 0
      BY DEF PersistKeeps
    <3>1. r # s BY <1>1, <1>2, <1>4 DEF TypeOK, Running
    <3>2. Running(r) /\ fd'[r] = fd[r]
      BY <1>1, <1>2, <2>1, <2>2, <3>1 DEF TypeOK, Running
    <3> QED BY <1>1, <1>2, <2>1, <2>2, <3>2 DEF Inv, PersistKeeps
  <2>11. IdleMadeNone'
    <3> SUFFICES ASSUME NEW r \in Sessions, phase'[r] = "idle",
                        NEW d \in DOMAIN tuns'
                 PROVE  tuns'[d].owner # r
      BY DEF IdleMadeNone
    <3>1. phase[r] = "idle" BY <1>1, <1>2 DEF TypeOK
    <3> QED BY <1>1, <2>2, <3>1 DEF Inv, IdleMadeNone
  <2>12. OptionsNeedPersist'
    BY <1>1, <1>2 DEF Inv, OptionsNeedPersist
  <2> QED BY <2>2, <2>3, <2>5, <2>7, <2>8, <2>9, <2>10, <2>11, <2>12
          DEF IInv, Inv
<1> QED BY <1>3, <1>4

LEMMA EndKeeps ==
  ASSUME IInv, NEW s \in Sessions, EndSession(s)
  PROVE  IInv'
<1>1. TypeOK /\ Inv BY DEF IInv
<1>2. /\ tuns' = CloseTun(tuns, fd[s]) /\ fd' = [fd EXCEPT ![s] = 0]
      /\ options' = [options EXCEPT ![s] = None]
      /\ phase' = [phase EXCEPT ![s] = "over"]
      /\ fields' = fields /\ pushed' = pushed /\ aborted' = aborted
      /\ persist' = persist /\ reported' = reported
  BY DEF EndSession
<1>3. /\ tuns' \in Seq(Tun)
      /\ DOMAIN tuns' = DOMAIN tuns
      /\ fd' \in [Sessions -> 0 .. Len(tuns')]
      /\ \A d \in DOMAIN tuns : /\ tuns'[d].conf = tuns[d].conf
                                /\ tuns'[d].push = tuns[d].push
                                /\ tuns'[d].owner = tuns[d].owner
      /\ OpenIsOwned'
  BY <1>2, CloseOwnKeeps
<1>4. TypeOK' BY <1>1, <1>2, <1>3 DEF TypeOK, Phases
<1>5. \A r \in Sessions : fd[r] # 0 => fd[r] \in DOMAIN tuns
  BY <1>1, TypeFacts
<1>6. OwnedByOwner'
  <2> SUFFICES ASSUME NEW r \in Sessions, fd'[r] # 0
               PROVE  Running(r)' /\ tuns'[fd'[r]].owner = r
    BY DEF OwnedByOwner
  <2>1. r # s /\ fd'[r] = fd[r] BY <1>1, <1>2 DEF TypeOK
  <2>2. Running(r)' <=> Running(r) BY <1>1, <1>2, <2>1 DEF TypeOK, Running
  <2> QED BY <1>1, <1>3, <1>5, <2>1, <2>2 DEF Inv, OwnedByOwner
<1>7. OptionsOfTunnel'
  BY <1>1, <1>2, <1>3, <1>5 DEF TypeOK, Inv, OptionsOfTunnel
<1>8. ReportedOfTunnel'
  BY <1>1, <1>2, <1>3, <1>5 DEF TypeOK, Inv, ReportedOfTunnel
<1>9. UpMatches'
  BY <1>1, <1>2, <1>3, <1>5 DEF TypeOK, Inv, UpMatches
<1>10. PersistKeeps'
  <2> SUFFICES ASSUME NEW r \in Sessions, persist'[r] /\ Running(r)',
                      NEW d \in DOMAIN tuns', tuns'[d].owner = r
               PROVE  fd'[r] # 0
    BY DEF PersistKeeps
  <2>1. r # s BY <1>1, <1>2 DEF TypeOK, Running
  <2>2. Running(r) /\ fd'[r] = fd[r]
    BY <1>1, <1>2, <1>3, <2>1 DEF TypeOK, Running
  <2> QED BY <1>1, <1>2, <1>3, <2>2 DEF Inv, PersistKeeps
<1>11. IdleMadeNone'
  <2> SUFFICES ASSUME NEW r \in Sessions, phase'[r] = "idle",
                      NEW d \in DOMAIN tuns'
               PROVE  tuns'[d].owner # r
    BY DEF IdleMadeNone
  <2>1. phase[r] = "idle" BY <1>1, <1>2 DEF TypeOK
  <2> QED BY <1>1, <1>3, <2>1 DEF Inv, IdleMadeNone
<1>12. OptionsNeedPersist'
  BY <1>1, <1>2 DEF TypeOK, Inv, OptionsNeedPersist
<1> QED BY <1>3, <1>4, <1>6, <1>7, <1>8, <1>9, <1>10, <1>11, <1>12 DEF IInv, Inv

(* The new interface takes the place of the one the session had.           *)
LEMMA EstablishKeeps ==
  ASSUME IInv, NEW s \in Sessions, NEW o \in Pushes, EstablishTun(s, o)
  PROVE  IInv'
<1> DEFINE f == configure_builder(tun_builder_new(fields), o)
           n == Len(tuns) + 1
           new == openTun(f, o, s)
           old == CloseTun(tuns, fd[s])
<1>1. TypeOK /\ Inv BY DEF IInv
<1>2. /\ phase[s] = "connecting" /\ phase' = [phase EXCEPT ![s] = "up"]
      /\ tuns' = Append(old, new)
      /\ fields' = ResetInformation(f)
      /\ fd' = [fd EXCEPT ![s] = n]
      /\ options' = [options EXCEPT ![s] = IF persist[s] THEN Capture(o) ELSE None]
      /\ pushed' = [pushed EXCEPT ![s] = o]
      /\ reported' = [reported EXCEPT ![s] = o.ip]
      /\ persist' = persist /\ aborted' = aborted
  BY DEF EstablishTun
<1>3. o.ip # None /\ Capture(o) = o
  BY DEF EstablishTun, Abandoned, ConfigureThrows, Capture
<1>4. f \in Fields /\ f.ip = o.ip
  BY <1>1, <1>3, ConfigureType DEF TypeOK, tun_builder_new
<1>5. new \in Tun
  <2> HIDE DEF f
  <2> QED BY <1>4 DEF Tun, openTun
<1>6. tuns \in Seq(Tun) /\ fd[s] \in 0 .. Len(tuns) /\ Len(tuns) \in Nat
  BY <1>1, TypeFacts
<1>7. /\ old \in Seq(Tun) /\ Len(old) = Len(tuns)
      /\ \A i \in 1 .. Len(tuns) :
           /\ old[i].conf = tuns[i].conf
           /\ old[i].push = tuns[i].push
           /\ old[i].owner = tuns[i].owner
           /\ old[i].open <=> (tuns[i].open /\ i # fd[s])
  BY <1>6, CloseTunProperties
<1>8. /\ new.conf.ip = o.ip /\ new.push = o /\ new.owner = s /\ new.open = TRUE
  BY <1>4 DEF openTun
<1> HIDE DEF f, new, old
<1>9. /\ tuns' \in Seq(Tun) /\ Len(tuns') = n
      /\ DOMAIN tuns' = 1 .. n
      /\ tuns'[n] = new
      /\ \A i \in 1 .. Len(tuns) : tuns'[i] = old[i]
  <2>1. /\ Append(old, new) \in Seq(Tun)
        /\ Len(Append(old, new)) = Len(old) + 1
        /\ \A i \in 1 .. Len(old) : Append(old, new)[i] = old[i]
        /\ Append(old, new)[Len(old) + 1] = new
    BY <1>5, <1>7, AppendProperties
  <2>2. DOMAIN Append(old, new) = 1 .. Len(Append(old, new))
    BY <2>1, LenProperties
  <2> QED BY <1>2, <1>7, <2>1, <2>2
<1>10. n \in Nat /\ n # 0 /\ n \notin 1 .. Len(tuns)
       /\ \A d \in 1 .. n : d = n \/ d \in 1 .. Len(tuns)
  BY <1>6
<1>11. \A d \in 1 .. Len(tuns) : /\ tuns'[d].conf = tuns[d].conf
                                 /\ tuns'[d].push = tuns[d].push
                                 /\ tuns'[d].owner = tuns[d].owner
                                 /\ tuns'[d].open <=> (tuns[d].open /\ d # fd[s])
  BY <1>7, <1>9
<1>12. /\ tuns'[n].conf.ip = o.ip /\ tuns'[n].push = o
       /\ tuns'[n].owner = s /\ tuns'[n].open = TRUE
  BY <1>8, <1>9
<1> HIDE DEF n
<1>13. DOMAIN tuns = 1 .. Len(tuns)
       /\ \A d \in 1 .. Len(tuns) : tuns[d].owner \in Sessions /\ d # 0
  BY <1>1, TypeFacts
<1>14. \A r \in Sessions : fd[r] # 0 => fd[r] \in 1 .. Len(tuns)
  BY <1>1, TypeFacts
<1>15. fd[s] # 0 => tuns[fd[s]].owner = s
  BY <1>1 DEF Inv, OwnedByOwner
<1>16. TypeOK'
  <2>1. fields' \in Fields BY <1>2, <1>4, ResetType
  <2>2. fd' \in [Sessions -> 0 .. Len(tuns')]
    <3>1. 0 .. Len(tuns) \subseteq 0 .. n /\ n \in 0 .. n
      BY <1>6 DEF n
    <3> QED BY <1>1, <1>2, <1>9, <3>1 DEF TypeOK
  <2>3. options' \in [Sessions -> Pushes \cup {None}]
    BY <1>1, <1>2, <1>3 DEF TypeOK
  <2>4. reported' \in [Sessions -> Text \cup {None}]
    BY <1>1, <1>2, PushesAssumption DEF TypeOK, PushList
  <2>5. phase' \in [Sessions -> Phases] BY <1>1, <1>2 DEF TypeOK, Phases
  <2> QED BY <1>1, <1>2, <1>9, <2>1, <2>2, <2>3, <2>4, <2>5 DEF TypeOK
<1>17. OpenIsOwned'
  <2> SUFFICES ASSUME NEW d \in 1 .. n
               PROVE  tuns'[d].open <=> fd'[tuns'[d].owner] = d
    BY <1>9 DEF OpenIsOwned
  <2>1. CASE d = n
    <3>1. fd'[s] = n BY <1>1, <1>2 DEF TypeOK
    <3> QED BY <1>12, <2>1, <3>1
  <2>2. CASE d \in 1 .. Len(tuns)
    <3>1. tuns[d].open <=> fd[tuns[d].owner] = d
      BY <1>1, <1>13, <2>2 DEF Inv, OpenIsOwned
    <3>2. CASE tuns[d].owner = s
      BY <1>1, <1>2, <1>10, <1>11, <2>2, <3>1, <3>2 DEF TypeOK
    <3>3. CASE tuns[d].owner # s
      <4>1. d # fd[s] BY <1>13, <1>15, <2>2, <3>3
      <4> QED BY <1>1, <1>2, <1>11, <1>13, <2>2, <3>1, <3>3, <4>1 DEF TypeOK
    <3> QED BY <3>2, <3>3
  <2> QED BY <1>10, <2>1, <2>2
<1>s. /\ fd'[s] = n /\ phase'[s] = "up" /\ pushed'[s] = o /\ reported'[s] = o.ip
      /\ options'[s] = None \/ options'[s] = o
      /\ \A r \in Sessions : r # s =>
           /\ fd'[r] = fd[r] /\ phase'[r] = phase[r] /\ pushed'[r] = pushed[r]
           /\ reported'[r] = reported[r] /\ options'[r] = options[r]
  BY <1>1, <1>2, <1>3 DEF TypeOK
<1>18. OwnedByOwner'
  <2> SUFFICES ASSUME NEW r \in Sessions, fd'[r] # 0
               PROVE  phase'[r] \in {"connecting", "up"} /\ tuns'[fd'[r]].owner = r
    BY DEF OwnedByOwner, Running
  <2>1. CASE r = s BY <1>s, <1>12, <2>1
  <2>2. CASE r # s
    BY <1>1, <1>s, <1>11, <1>14, <2>2 DEF Inv, OwnedByOwner, Running
  <2> QED BY <2>1, <2>2
<1>19. OptionsOfTunnel'
  <2> SUFFICES ASSUME NEW r \in Sessions, options'[r] # None
               PROVE  fd'[r] # 0 /\ tuns'[fd'[r]].push = options'[r]
    BY DEF OptionsOfTunnel
  <2>1. CASE r = s BY <1>s, <1>10, <1>12, <2>1
  <2>2. CASE r # s
    <3>1. fd[r] # 0 /\ tuns[fd[r]].push = options[r]
      BY <1>1, <1>s, <2>2 DEF Inv, OptionsOfTunnel
    <3> QED BY <1>s, <1>11, <1>14, <2>2, <3>1
  <2> QED BY <2>1, <2>2
<1>20. ReportedOfTunnel'
  <2> SUFFICES ASSUME NEW r \in Sessions, fd'[r] # 0
               PROVE  tuns'[fd'[r]].conf.ip = reported'[r]
    BY DEF ReportedOfTunnel
  <2>1. CASE r = s BY <1>s, <1>12, <2>1
  <2>2. CASE r # s
    BY <1>1, <1>s, <1>11, <1>14, <2>2 DEF Inv, ReportedOfTunnel
  <2> QED BY <2>1, <2>2
<1>21. UpMatches'
  <2> SUFFICES ASSUME NEW r \in Sessions, phase'[r] = "up"
               PROVE  fd'[r] # 0 /\ tuns'[fd'[r]].push = pushed'[r]
    BY DEF UpMatches
  <2>1. CASE r = s BY <1>s, <1>10, <1>12, <2>1
  <2>2. CASE r # s
    <3>1. fd[r] # 0 /\ tuns[fd[r]].push = pushed[r]
      BY <1>1, <1>s, <2>2 DEF Inv, UpMatches
    <3> QED BY <1>s, <1>11, <1>14, <2>2, <3>1
  <2> QED BY <2>1, <2>2
<1>22. PersistKeeps'
  BY <1>1, <1>2, <1>9, <1>10, <1>11, <1>12, <1>13 DEF TypeOK, Inv, PersistKeeps, Running
<1>23. IdleMadeNone'
  BY <1>1, <1>2, <1>9, <1>10, <1>11, <1>12, <1>13 DEF TypeOK, Inv, IdleMadeNone
<1>24. OptionsNeedPersist'
  BY <1>1, <1>2 DEF TypeOK, Inv, OptionsNeedPersist
<1> QED BY <1>16, <1>17, <1>18, <1>19, <1>20, <1>21, <1>22, <1>23, <1>24
        DEF IInv, Inv

LEMMA RecreateKeeps == IInv /\ RecreateService => IInv'
<1> SUFFICES ASSUME IInv, RecreateService PROVE IInv' OBVIOUS
<1>1. NoFields \in Fields BY DEF NoFields, Fields
<1>2. TypeOK' BY <1>1 DEF IInv, TypeOK, RecreateService
<1>3. Inv'
  BY DEF IInv, Inv, RecreateService, OpenIsOwned, OwnedByOwner,
         OptionsOfTunnel, ReportedOfTunnel, UpMatches, PersistKeeps,
         IdleMadeNone, OptionsNeedPersist, Running
<1> QED BY <1>2, <1>3 DEF IInv

LEMMA StutterKeeps == IInv /\ UNCHANGED vars => IInv'
BY DEF vars, IInv, TypeOK, Inv, OpenIsOwned, OwnedByOwner, OptionsOfTunnel,
       ReportedOfTunnel, UpMatches, PersistKeeps, IdleMadeNone,
       OptionsNeedPersist, Running

LEMMA NextIInv == IInv /\ [Next]_vars => IInv'
<1> SUFFICES ASSUME IInv, Next PROVE IInv'
  BY StutterKeeps
<1>1. CASE RecreateService BY <1>1, RecreateKeeps
<1>2. ASSUME NEW s \in Sessions, NEW p \in BOOLEAN, StartSession(s, p)
      PROVE  IInv'
  BY <1>2, StartKeeps
<1>3. ASSUME NEW s \in Sessions, NEW o \in Pushes, ReuseTun(s, o)
      PROVE  IInv'
  BY <1>3, ReuseKeeps
<1>4. ASSUME NEW s \in Sessions, NEW o \in Pushes, EstablishTun(s, o)
      PROVE  IInv'
  BY <1>4, EstablishKeeps
<1>5. ASSUME NEW s \in Sessions, NEW o \in Pushes, SetupFails(s, o)
      PROVE  IInv'
  BY <1>5, FailKeeps
<1>6. ASSUME NEW s \in Sessions, LoseConnection(s) PROVE IInv'
  BY <1>6, LoseKeeps
<1>7. ASSUME NEW s \in Sessions, EndSession(s) PROVE IInv'
  BY <1>7, EndKeeps
<1> QED BY <1>1, <1>2, <1>3, <1>4, <1>5, <1>6, <1>7 DEF Next

THEOREM Invariance == Spec => []IInv
BY InitIInv, NextIInv, PTL DEF Spec

-----------------------------------------------------------------------------
(* Every variable of TunSetup keeps its type.                              *)
THEOREM TypeCorrect == Spec => []TypeOK
<1>1. IInv => TypeOK BY DEF IInv
<1> QED BY <1>1, Invariance, PTL

(* No descriptor leaks, is closed twice or changes hands, however many     *)
(* sessions overlap and whichever way their configurations end.            *)
THEOREM NoDescriptorLeaks == Spec => []DescriptorsOwned
<1>1. IInv => DescriptorsOwned
  <2> SUFFICES ASSUME IInv PROVE DescriptorsOwned OBVIOUS
  <2>1. /\ \A s \in Sessions : fd[s] # 0 => tuns[fd[s]].owner = s
        /\ \A s \in Sessions : fd[s] # 0 => Running(s)
    BY DEF IInv, Inv, OwnedByOwner
  <2>2. /\ \A s \in Sessions : fd[s] # 0 => fd[s] \in DOMAIN tuns
        /\ \A d \in DOMAIN tuns : tuns[d].owner \in Sessions /\ d # 0
    BY TypeFacts DEF IInv
  <2>3. ASSUME NEW d \in Open
        PROVE  d \in {fd[s] : s \in {r \in Sessions : Running(r)}} \ {0}
    <3>1. d \in DOMAIN tuns /\ fd[tuns[d].owner] = d
      BY DEF Open, IInv, Inv, OpenIsOwned
    <3> QED BY <2>1, <2>2, <3>1
  <2>4. ASSUME NEW d \in {fd[s] : s \in {r \in Sessions : Running(r)}} \ {0}
        PROVE  d \in Open
    <3>1. PICK s \in Sessions : d = fd[s] /\ fd[s] # 0 BY <2>4
    <3> QED BY <2>1, <2>2, <3>1 DEF Open, IInv, Inv, OpenIsOwned
  <2> QED BY <2>1, <2>3, <2>4 DEF DescriptorsOwned
<1> QED BY <1>1, Invariance, PTL

(* A session that is up has an open tunnel that was made for what its      *)
(* server pushed on this connection, and announces that tunnel's address.  *)
THEOREM TunnelIsThePushed == Spec => []TunnelMatchesPush
<1>1. IInv => TunnelMatchesPush
  <2> SUFFICES ASSUME IInv, NEW s \in Sessions, phase[s] = "up"
               PROVE  /\ fd[s] \in Open
                      /\ tuns[fd[s]].push = pushed[s]
                      /\ tuns[fd[s]].conf.ip = reported[s]
    BY DEF TunnelMatchesPush
  <2>1. fd[s] # 0 /\ tuns[fd[s]].push = pushed[s] BY DEF IInv, Inv, UpMatches
  <2>2. tuns[fd[s]].conf.ip = reported[s]
    BY <2>1 DEF IInv, Inv, ReportedOfTunnel
  <2>3. fd[s] \in DOMAIN tuns /\ tuns[fd[s]].owner = s
    BY <2>1, TypeFacts DEF IInv, Inv, OwnedByOwner
  <2>4. fd[s] \in Open BY <2>3 DEF Open, IInv, Inv, OpenIsOwned
  <2> QED BY <2>1, <2>2, <2>4
<1> QED BY <1>1, Invariance, PTL

(* With persist-tun there is no gap between a session's first tunnel and   *)
(* its end or failure.                                                     *)
THEOREM NoGap == Spec => []PersistentTunnel
<1>1. IInv => PersistentTunnel
  <2> SUFFICES ASSUME IInv, NEW s \in Sessions, persist[s], Running(s),
                      NEW d \in DOMAIN tuns, tuns[d].owner = s
               PROVE  fd[s] \in Open
    BY DEF PersistentTunnel
  <2>1. fd[s] # 0 BY DEF IInv, Inv, PersistKeeps
  <2>2. fd[s] \in DOMAIN tuns /\ tuns[fd[s]].owner = s
    BY <2>1, TypeFacts DEF IInv, Inv, OwnedByOwner
  <2> QED BY <2>2 DEF Open, IInv, Inv, OpenIsOwned
<1> QED BY <1>1, Invariance, PTL

-----------------------------------------------------------------------------
(* Clean configurations.                                                   *)

(* Between two configurations only the mtu is left in the fields.          *)
Forgotten(f) == f.ip = None /\ f.routes = {} /\ f.dns = {} /\ f.domain = None

CleanInv == ~aborted => /\ Forgotten(fields)
                        /\ \A d \in DOMAIN tuns : OwnOptions(tuns[d])

(* Started from such fields, the callbacks collect what the list asks for. *)
LEMMA ConfigureCollects ==
  ASSUME NEW f \in Fields, Forgotten(f), NEW o \in Pushes, ~ConfigureThrows(o)
  PROVE  configure_builder(f, o) = Wanted(o)
<1> DEFINE a == tun_ifconfig(f, o)
           b == add_routes(a, o)
           c == tun_builder_reroute_gw(b, o.redirect)
           d == add_dhcp_options(c, o)
           e == tun_builder_set_remote_address(d)
           routes == o.routes \cup {r \in {DefaultRoute} : o.redirect}
           domain == IF o.domains = <<>> THEN None ELSE Head(o.domains)
           conf(ip, rs, ds, dom, m) ==
             [ip |-> ip, routes |-> rs, dns |-> ds, domain |-> dom, mtu |-> m]
<1>o. o \in PushList /\ o.ip # None /\ o.mtu # BadMtu
  BY PushesAssumption DEF ConfigureThrows
<1>a. a = conf(o.ip, {}, {}, None, f.mtu)
  BY DEF tun_ifconfig, tun_builder_add_address, Fields, Forgotten
<1>b. b = conf(o.ip, o.routes, {}, None, f.mtu)
  <2> HIDE DEF a
  <2> QED BY <1>a DEF add_routes, tun_builder_add_routes
<1>c. c = conf(o.ip, routes, {}, None, f.mtu)
  <2> HIDE DEF b
  <2>1. CASE o.redirect
    <3>1. routes = o.routes \cup {DefaultRoute} BY <2>1
    <3>2. c = [b EXCEPT !.routes = @ \cup {DefaultRoute}]
      BY <2>1, <1>o, <1>b DEF tun_builder_reroute_gw
    <3> QED BY <3>1, <3>2, <1>b
  <2>2. CASE ~o.redirect
    <3>1. routes = o.routes BY <2>2
    <3>2. c = b BY <2>2 DEF tun_builder_reroute_gw
    <3> QED BY <3>1, <3>2, <1>b
  <2> QED BY <2>1, <2>2
<1>d. d = conf(o.ip, routes, o.dns, domain, f.mtu)
  <2> HIDE DEF c, routes
  <2> DEFINE g == tun_builder_add_search_domain(c, o.domains)
  <2>1. g = conf(o.ip, routes, {}, domain, f.mtu)
    BY <1>c DEF tun_builder_add_search_domain
  <2>2. d = tun_builder_add_dns_server(g, o.dns) BY DEF add_dhcp_options
  <2> HIDE DEF d, g, domain
  <2> QED BY <2>1, <2>2 DEF tun_builder_add_dns_server
<1>e. e = conf(o.ip, routes, o.dns, domain, 1500)
  <2> HIDE DEF d, routes, domain
  <2> QED BY <1>d DEF tun_builder_set_remote_address
<1>f. configure_builder(f, o) = tun_mtu(e, o)
  BY <1>o DEF configure_builder
<1>w. Wanted(o) = conf(o.ip, routes, o.dns, domain,
                       IF o.mtu = 0 THEN 1500 ELSE o.mtu)
  BY DEF Wanted
<1> HIDE DEF e, routes, domain
<1>1. CASE o.mtu = 0
  BY <1>1, <1>e, <1>f, <1>w DEF tun_mtu
<1>2. CASE o.mtu # 0
  BY <1>2, <1>o, <1>e, <1>f, <1>w DEF tun_mtu, tun_builder_set_mtu
<1> QED BY <1>1, <1>2

LEMMA ResetForgets ==
  ASSUME NEW f
  PROVE  Forgotten(ResetInformation(f))
BY DEF Forgotten, ResetInformation, NoFields

LEMMA CloseKeepsOptions ==
  ASSUME IInv, NEW s \in Sessions, \A d \in DOMAIN tuns : OwnOptions(tuns[d])
  PROVE  \A d \in DOMAIN CloseTun(tuns, fd[s]) :
           OwnOptions(CloseTun(tuns, fd[s])[d])
<1>1. tuns \in Seq(Tun) /\ fd[s] \in 0 .. Len(tuns) BY DEF IInv, TypeOK
<1> DEFINE ts == CloseTun(tuns, fd[s])
<1>2. /\ ts \in Seq(Tun) /\ Len(ts) = Len(tuns)
      /\ \A i \in 1 .. Len(tuns) :
           /\ ts[i].conf = tuns[i].conf
           /\ ts[i].push = tuns[i].push
           /\ ts[i].owner = tuns[i].owner
           /\ ts[i].open <=> (tuns[i].open /\ i # fd[s])
  BY <1>1, CloseTunProperties
<1>3. DOMAIN ts = 1 .. Len(tuns) /\ DOMAIN tuns = 1 .. Len(tuns) BY <1>1, <1>2
<1> HIDE DEF ts
<1>4. \A d \in DOMAIN ts : OwnOptions(ts[d]) BY <1>2, <1>3 DEF OwnOptions
<1> QED BY <1>4 DEF ts

LEMMA NextCleanInv == IInv /\ CleanInv /\ [Next]_vars => CleanInv'
<1> SUFFICES ASSUME IInv, CleanInv, [Next]_vars, ~aborted'
             PROVE  Forgotten(fields') /\ \A d \in DOMAIN tuns' : OwnOptions(tuns'[d])
  BY DEF CleanInv
<1>1. ASSUME ~aborted, UNCHANGED <<fields, tuns>>
      PROVE  Forgotten(fields') /\ \A d \in DOMAIN tuns' : OwnOptions(tuns'[d])
  BY <1>1 DEF CleanInv
<1>2. CASE RecreateService
  BY <1>2 DEF RecreateService, CleanInv, Forgotten, NoFields
<1>3. ASSUME NEW s \in Sessions, NEW p \in BOOLEAN, StartSession(s, p)
      PROVE  ~aborted /\ UNCHANGED <<fields, tuns>>
  BY <1>3 DEF StartSession
<1>4. ASSUME NEW s \in Sessions, NEW o \in Pushes, ReuseTun(s, o)
      PROVE  ~aborted /\ UNCHANGED <<fields, tuns>>
  BY <1>4 DEF ReuseTun
<1>5. ASSUME NEW s \in Sessions, NEW o \in Pushes, EstablishTun(s, o)
      PROVE  Forgotten(fields') /\ \A d \in DOMAIN tuns' : OwnOptions(tuns'[d])
  <2> DEFINE f == configure_builder(tun_builder_new(fields), o)
             ts == CloseTun(tuns, fd[s])
             t == openTun(f, o, s)
  <2>1. /\ tuns' = Append(ts, t) /\ fields' = ResetInformation(f)
        /\ ~Abandoned(o) /\ ~aborted
    BY <1>5 DEF EstablishTun
  <2>2. fields \in Fields /\ tuns \in Seq(Tun) /\ fd[s] \in 0 .. Len(tuns)
    BY DEF IInv, TypeOK
  <2>3. f = Wanted(o)
    BY <2>1, <2>2, ConfigureCollects DEF CleanInv, tun_builder_new, Abandoned
  <2>4. OwnOptions(t) BY <2>3 DEF OwnOptions, openTun
  <2>5. ts \in Seq(Tun) BY <2>2, CloseTunProperties
  <2>6. \A d \in DOMAIN ts : OwnOptions(ts[d])
    BY <2>1, CloseKeepsOptions DEF CleanInv
  <2>7. f \in Fields BY <2>2, ConfigureType DEF tun_builder_new
  <2>8. t \in Tun BY <2>7 DEF openTun, Tun
  <2>9. Forgotten(fields') BY <2>1, ResetForgets
  <2> HIDE DEF ts, t
  <2>10. /\ Append(ts, t) \in Seq(Tun) /\ Len(Append(ts, t)) = Len(ts) + 1
         /\ \A i \in 1 .. Len(ts) : Append(ts, t)[i] = ts[i]
         /\ Append(ts, t)[Len(ts) + 1] = t
    BY <2>5, <2>8, AppendProperties
  <2>11. Len(ts) \in Nat /\ DOMAIN ts = 1 .. Len(ts)
         /\ DOMAIN Append(ts, t) = 1 .. Len(ts) + 1
    BY <2>5, <2>10, LenProperties
  <2>12. \A d \in 1 .. Len(ts) + 1 : d \in 1 .. Len(ts) \/ d = Len(ts) + 1
    BY <2>11
  <2> QED BY <2>1, <2>4, <2>6, <2>9, <2>10, <2>11, <2>12
<1>6. ASSUME NEW s \in Sessions, NEW o \in Pushes, SetupFails(s, o)
      PROVE  Forgotten(fields') /\ \A d \in DOMAIN tuns' : OwnOptions(tuns'[d])
  <2> DEFINE f == configure_builder(tun_builder_new(fields), o)
  <2>0. aborted \in BOOLEAN BY DEF IInv, TypeOK
  <2>1. /\ tuns' = CloseTun(tuns, fd[s]) /\ ~aborted
        /\ fields' = fields \/ fields' = ResetInformation(f)
    <3>1. CASE Abandoned(o)
      <4>1. /\ tuns' = CloseTun(tuns, fd[s]) /\ fields' = f
            /\ aborted' = (aborted \/ f # fields)
        BY <1>6, <3>1 DEF SetupFails
      <4> HIDE DEF f
      <4>2. aborted' <=> (aborted \/ f # fields) BY <4>1
      <4> QED BY <4>1, <4>2
    <3>2. CASE ~Abandoned(o)
      BY <1>6, <3>2 DEF SetupFails
    <3> QED BY <3>1, <3>2
  <2>2. Forgotten(fields') BY <2>1, ResetForgets DEF CleanInv
  <2> QED BY <2>1, <2>2, CloseKeepsOptions DEF CleanInv
<1>7. ASSUME NEW s \in Sessions, LoseConnection(s)
      PROVE  Forgotten(fields') /\ \A d \in DOMAIN tuns' : OwnOptions(tuns'[d])
  <2>1. /\ tuns' = CloseTun(tuns, fd[s]) \/ tuns' = tuns
        /\ fields' = fields /\ ~aborted
    BY <1>7 DEF LoseConnection
  <2> QED BY <2>1, CloseKeepsOptions DEF CleanInv
<1>8. ASSUME NEW s \in Sessions, EndSession(s)
      PROVE  Forgotten(fields') /\ \A d \in DOMAIN tuns' : OwnOptions(tuns'[d])
  <2>1. tuns' = CloseTun(tuns, fd[s]) /\ fields' = fields /\ ~aborted
    BY <1>8 DEF EndSession
  <2> QED BY <2>1, CloseKeepsOptions DEF CleanInv
<1>9. CASE UNCHANGED vars BY <1>9, <1>1 DEF vars
<1> QED BY <1>1, <1>2, <1>3, <1>4, <1>5, <1>6, <1>7, <1>8, <1>9 DEF Next

(* As long as no configuration was abandoned, every tunnel has the options *)
(* of its own server and nothing of a tunnel before it.                    *)
THEOREM TunnelsAreClean == Spec => []CleanConfiguration
<1>1. Init => CleanInv
  BY EmptySeq DEF Init, CleanInv, Forgotten, NoFields
<1>2. CleanInv => CleanConfiguration BY DEF CleanInv, CleanConfiguration
<1> QED BY <1>1, <1>2, NextCleanInv, Invariance, PTL DEF Spec
=============================================================================
