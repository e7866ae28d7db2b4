------------------------------ MODULE TunSetup ------------------------------
(***************************************************************************)
(* How a session turns the options its server pushes into the device's     *)
(* tunnel: tun_start of the native tun client, the TunPersist object that  *)
(* owns the descriptor and decides whether an earlier tunnel may be kept,  *)
(* the callbacks of OpenVPNThreadv3 that collect the configuration in      *)
(* fields of OpenVPNService, and openTun, which builds the interface from  *)
(* them.  The fields belong to the service and outlive a session; a        *)
(* TunPersist lives as long as its session (persist-tun) or as long as one *)
(* connection (without).                                                   *)
(*                                                                         *)
(* tun_start is one handler of the session's reactor thread and nothing    *)
(* else writes the fields, so it is one action.  A new session may start   *)
(* while an older one still runs.  IPv6 doubles every step and is left     *)
(* out; what openTun makes of overlapping routes is NetworkSpace.          *)
(***************************************************************************)
EXTENDS Naturals, Sequences, FiniteSets

CONSTANTS
  MaxSessions, \* bound: how many sessions a behaviour starts
  Text,      \* addresses, networks and names
  DefaultRoute, \* the network of all addresses, 0.0.0.0/0
  Pushes,    \* the option lists the servers may push: see PushList
  None,      \* an unset string, address or capture
  BadMtu,    \* a tun-mtu that does not parse or is out of range
  Refused,   \* addresses the system's addAddress refuses (loopback)
  MaxTuns    \* bound: how many interfaces a behaviour establishes

(* redirect: redirect-gateway; mtu is 0 when the list has no tun-mtu.      *)
PushList ==
  [server : Text, ip : Text \cup {None}, routes : SUBSET Text,
   redirect : BOOLEAN, domains : Seq(Text), dns : SUBSET Text,
   mtu : Nat \cup {BadMtu}]

(* The sessions, numbered in the order they are started.                   *)
Sessions == 1 .. MaxSessions

ASSUME TextAssumption == DefaultRoute \in Text
ASSUME PushesAssumption == Pushes \subseteq PushList
ASSUME NoneAssumption == None \notin Pushes
ASSUME BoundsAssumption == MaxSessions \in Nat /\ MaxTuns \in Nat

VARIABLES
  fields,    \* mLocalIP, mRoutes, mDnslist, mDomain and mMtu of the service
  phase,     \* per session: where it is between connect() and its end
  persist,   \* per session: the profile's mPersistTun
  fd,        \* per session: the descriptor its TunPersist owns, 0 for none
  options,   \* per session: the options the persisted tunnel was made for
  pushed,    \* per session: the options of its current connection
  reported,  \* per session: the address its Connected event announces
  tuns,      \* the interfaces established, by descriptor
  aborted    \* history: a configuration was abandoned part of the way

vars == <<fields, phase, persist, fd, options, pushed, reported, tuns, aborted>>

Fields ==
  [ip : Text \cup {None}, routes : SUBSET Text, dns : SUBSET Text,
   domain : Text \cup {None}, mtu : Nat]
NoFields == [ip |-> None, routes |-> {}, dns |-> {}, domain |-> None, mtu |-> 0]

Tun == [conf : Fields, push : Pushes, owner : Sessions, open : BOOLEAN]

Phases == {"idle", "connecting", "up", "failed", "over"}
Running(s) == phase[s] \in {"connecting", "up"}
Open == {d \in DOMAIN tuns : tuns[d].open}

Init ==
  /\ fields = NoFields
  /\ phase = [s \in Sessions |-> "idle"]
  /\ persist = [s \in Sessions |-> FALSE]
  /\ fd = [s \in Sessions |-> 0]
  /\ options = [s \in Sessions |-> None]
  /\ pushed = [s \in Sessions |-> None]
  /\ reported = [s \in Sessions |-> None]
  /\ tuns = <<>>
  /\ aborted = FALSE

-----------------------------------------------------------------------------
(* The callbacks, each on the fields f it finds.                           *)

tun_builder_add_address(f, ip) == [f EXCEPT !.ip = ip]
tun_builder_add_routes(f, routes) == [f EXCEPT !.routes = @ \cup routes]
(* addRoute(dest, mask, gateway, device) returns early without an address  *)
tun_builder_reroute_gw(f, redirect) ==
  IF redirect /\ f.ip # None
    THEN [f EXCEPT !.routes = @ \cup {DefaultRoute}] ELSE f
tun_builder_add_dns_server(f, dns) == [f EXCEPT !.dns = @ \cup dns]
(* setDomain keeps the domain it has                                       *)
tun_builder_add_search_domain(f, domains) ==
  IF f.domain = None /\ domains # <<>>
    THEN [f EXCEPT !.domain = Head(domains)] ELSE f
tun_builder_set_remote_address(f) == [f EXCEPT !.mtu = 1500]
tun_builder_set_mtu(f, mtu) == [f EXCEPT !.mtu = mtu]
(* The service's tun_builder_new leaves every field as it is.              *)
tun_builder_new(f) == f

(* The configuration fails before its first callback (no ifconfig) or at   *)
(* its last but one (tun-mtu).                                             *)
ConfigureThrows(o) == o.ip = None \/ o.mtu = BadMtu

tun_ifconfig(f, o) == tun_builder_add_address(f, o.ip)
add_routes(f, o) == tun_builder_add_routes(f, o.routes)
add_dhcp_options(f, o) ==
  tun_builder_add_dns_server(tun_builder_add_search_domain(f, o.domains), o.dns)
tun_mtu(f, o) ==
  IF o.mtu \in {0, BadMtu} THEN f ELSE tun_builder_set_mtu(f, o.mtu)

(* The fields after configure_builder has returned or thrown.              *)
configure_builder(f, o) ==
  LET a == tun_ifconfig(f, o)
      b == add_routes(a, o)
      c == tun_builder_reroute_gw(b, o.redirect)
      d == add_dhcp_options(c, o)
      e == tun_builder_set_remote_address(d)
  IN  IF o.ip = None THEN f ELSE tun_mtu(e, o)

(* The interface openTun builds from the fields it finds, for session s.   *)
openTun(f, o, s) == [conf |-> f, push |-> o, owner |-> s, open |-> TRUE]

(* Mutant: the domain is not forgotten.                                    *)
ResetInformation_KeepsDomain(f) ==
  [NoFields EXCEPT !.mtu = f.mtu, !.domain = f.domain]

(* openTun keeps mMtu and forgets the rest.                                *)
ResetInformation(f) == [NoFields EXCEPT !.mtu = f.mtu]

-----------------------------------------------------------------------------
(* What ends a configuration before openTun resets the fields: a bad list, *)
(* or an address for which openTun returns null.                           *)
Abandoned(o) == ConfigureThrows(o) \/ o.ip \in Refused

(* What TunPersist captures of the options; None when the capture throws.  *)
Capture(o) == IF ConfigureThrows(o) THEN None ELSE o

(* Mutant: the captured options are not compared.                          *)
UsePersistedTun_AnyOptions(s, o) ==
  persist[s] /\ fd[s] # 0 /\ Capture(o) # None /\ options[s] # None

UsePersistedTun(s, o) ==
  /\ persist[s]
  /\ fd[s] # 0
  /\ Capture(o) # None
  /\ options[s] = Capture(o)

CloseTun(ts, d) == IF d = 0 THEN ts ELSE [ts EXCEPT ![d].open = FALSE]

(* A session of a profile starts; the client of its first connection is on *)
(* its way.                                                                *)
StartSession(s, p) ==
  /\ phase[s] = "idle"
  /\ s > 1 => phase[s - 1] # "idle"
  /\ phase' = [phase EXCEPT ![s] = "connecting"]
  /\ persist' = [persist EXCEPT ![s] = p]
  /\ UNCHANGED <<fields, fd, options, pushed, reported, tuns, aborted>>

(* tun_start when the persisted tunnel fits: nothing is established.       *)
ReuseTun(s, o) ==
  /\ phase[s] = "connecting"
  /\ UsePersistedTun(s, o)
  /\ pushed' = [pushed EXCEPT ![s] = o]
  /\ phase' = [phase EXCEPT ![s] = "up"]
  /\ UNCHANGED <<fields, persist, fd, options, reported, tuns, aborted>>

(* Mutant: the descriptor is replaced without closing the one it held.     *)
EstablishTun_NotClosed(s, o) ==
  LET f == configure_builder(tun_builder_new(fields), o) IN
  /\ phase[s] = "connecting"
  /\ ~UsePersistedTun(s, o)
  /\ ~Abandoned(o)
  /\ Len(tuns) < MaxTuns
  /\ tuns' = Append(tuns, openTun(f, o, s))
  /\ fields' = ResetInformation(f)
  /\ fd' = [fd EXCEPT ![s] = Len(tuns) + 1]
  /\ options' = [options EXCEPT ![s] = IF persist[s] THEN Capture(o) ELSE None]
  /\ pushed' = [pushed EXCEPT ![s] = o]
  /\ reported' = [reported EXCEPT ![s] = o.ip]
  /\ phase' = [phase EXCEPT ![s] = "up"]
  /\ UNCHANGED <<persist, aborted>>

(* tun_start when the tunnel is configured and established: the new        *)
(* descriptor replaces, and closes, the one the TunPersist still owned.    *)
EstablishTun(s, o) ==
  LET f == configure_builder(tun_builder_new(fields), o) IN
  /\ phase[s] = "connecting"
  /\ ~UsePersistedTun(s, o)
  /\ ~Abandoned(o)
  /\ Len(tuns) < MaxTuns
  /\ tuns' = Append(CloseTun(tuns, fd[s]), openTun(f, o, s))
  /\ fields' = ResetInformation(f)
  /\ fd' = [fd EXCEPT ![s] = Len(tuns) + 1]
  /\ options' = [options EXCEPT ![s] = IF persist[s] THEN Capture(o) ELSE None]
  /\ pushed' = [pushed EXCEPT ![s] = o]
  /\ reported' = [reported EXCEPT ![s] = o.ip]
  /\ phase' = [phase EXCEPT ![s] = "up"]
  /\ UNCHANGED <<persist, aborted>>

(* tun_start when something throws: the options, the null of openTun for a *)
(* refused address, or its null when the system establishes nothing (then  *)
(* the fields are reset).  tun_start closes the TunPersist, and the error  *)
(* is one that ends the session.                                           *)
SetupFails(s, o) ==
  LET f == configure_builder(tun_builder_new(fields), o) IN
  /\ phase[s] = "connecting"
  /\ ~UsePersistedTun(s, o)
  /\ \/ Abandoned(o) /\ fields' = f /\ aborted' = (aborted \/ f # fields)
     \/ ~Abandoned(o) /\ fields' = ResetInformation(f) /\ UNCHANGED aborted
  /\ tuns' = CloseTun(tuns, fd[s])
  /\ fd' = [fd EXCEPT ![s] = 0]
  /\ options' = [options EXCEPT ![s] = None]
  /\ pushed' = [pushed EXCEPT ![s] = o]
  /\ phase' = [phase EXCEPT ![s] = "failed"]
  /\ UNCHANGED <<persist, reported>>

(* Mutant: the stop of the tun client closes the tunnel it was given.      *)
LoseConnection_Closes(s) ==
  /\ phase[s] = "up"
  /\ phase' = [phase EXCEPT ![s] = "connecting"]
  /\ tuns' = CloseTun(tuns, fd[s])
  /\ fd' = [fd EXCEPT ![s] = 0]
  /\ UNCHANGED <<fields, persist, options, pushed, reported, aborted>>

(* The connection ends and the session goes on: a pause, a reconnect, a    *)
(* lost server.  The tun client's stop drops its TunPersist, which without *)
(* persist-tun is the last reference.                                      *)
LoseConnection(s) ==
  /\ phase[s] = "up"
  /\ phase' = [phase EXCEPT ![s] = "connecting"]
  /\ IF persist[s] THEN UNCHANGED <<fd, tuns>>
     ELSE /\ tuns' = CloseTun(tuns, fd[s])
          /\ fd' = [fd EXCEPT ![s] = 0]
  /\ UNCHANGED <<fields, persist, options, pushed, reported, aborted>>

(* The session ends: finalize(true) drops the factory's TunPersist as well *)
EndSession(s) ==
  /\ phase[s] \in {"connecting", "up", "failed"}
  /\ phase' = [phase EXCEPT ![s] = "over"]
  /\ tuns' = CloseTun(tuns, fd[s])
  /\ fd' = [fd EXCEPT ![s] = 0]
  /\ options' = [options EXCEPT ![s] = None]
  /\ UNCHANGED <<fields, persist, pushed, reported, aborted>>

(* The service is destroyed when no session holds it and created anew for  *)
(* the next one; while the app is bound to it, it is not.                  *)
RecreateService ==
  /\ \A s \in Sessions : ~Running(s)
  /\ fields # NoFields
  /\ fields' = NoFields
  /\ UNCHANGED <<phase, persist, fd, options, pushed, reported, tuns, aborted>>

Next ==
  \/ RecreateService
  \/ \E s \in Sessions :
       \/ \E p \in BOOLEAN : StartSession(s, p)
       \/ \E o \in Pushes : ReuseTun(s, o) \/ EstablishTun(s, o) \/ SetupFails(s, o)
       \/ LoseConnection(s)
       \/ EndSession(s)

Spec == Init /\ [][Next]_vars

-----------------------------------------------------------------------------
(* Every variable keeps its type.                                          *)
TypeOK ==
  /\ fields \in Fields
  /\ phase \in [Sessions -> Phases]
  /\ persist \in [Sessions -> BOOLEAN]
  /\ tuns \in Seq(Tun)
  /\ fd \in [Sessions -> 0 .. Len(tuns)]
  /\ options \in [Sessions -> Pushes \cup {None}]
  /\ pushed \in [Sessions -> Pushes \cup {None}]
  /\ reported \in [Sessions -> Text \cup {None}]
  /\ aborted \in BOOLEAN

(* A descriptor is open exactly as long as one running session owns it: no *)
(* path (a reused tunnel, a replaced one, a failure, the end) leaks a      *)
(* descriptor, closes one twice or leaves it to another session.           *)
DescriptorsOwned ==
  /\ Open = {fd[s] : s \in {r \in Sessions : Running(r)}} \ {0}
  /\ \A s \in Sessions : fd[s] # 0 => tuns[fd[s]].owner = s
  /\ \A s \in Sessions : fd[s] # 0 => Running(s)

(* The tunnel of a session that is up was made for the options its server  *)
(* pushed on this very connection, after however many reconnects to        *)
(* servers with other options, and the address the session announces is    *)
(* the tunnel's.                                                           *)
TunnelMatchesPush ==
  \A s \in Sessions : phase[s] = "up" =>
    /\ fd[s] \in Open
    /\ tuns[fd[s]].push = pushed[s]
    /\ tuns[fd[s]].conf.ip = reported[s]

(* "Do not fallback to no VPN connection when OpenVPN is reconnecting"     *)
(* (persisttun_summary): with persist-tun, a session that has had a tunnel *)
(* keeps one open, the old or its replacement, until it ends or fails.     *)
PersistentTunnel ==
  \A s \in Sessions :
    persist[s] /\ Running(s) /\ (\E d \in DOMAIN tuns : tuns[d].owner = s)
      => fd[s] \in Open

(* What one list of options asks for, whatever the order of the callbacks. *)
Wanted(o) ==
  [ip     |-> o.ip,
   routes |-> o.routes \cup {r \in {DefaultRoute} : o.redirect},
   dns    |-> o.dns,
   domain |-> IF o.domains = <<>> THEN None ELSE Head(o.domains),
   mtu    |-> IF o.mtu = 0 THEN 1500 ELSE o.mtu]

OwnOptions(t) == t.conf = Wanted(t.push)

(* As long as every configuration was carried through, a tunnel has the    *)
(* options of its own server and nothing of any tunnel before it, in this  *)
(* session or in an earlier one.  tun_builder_new resets nothing: after a  *)
(* configuration that threw, the next tunnel has its leftovers.            *)
CleanConfiguration == aborted \/ \A d \in DOMAIN tuns : OwnOptions(tuns[d])
=============================================================================
