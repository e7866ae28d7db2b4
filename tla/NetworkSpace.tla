----------------------------- MODULE NetworkSpace -----------------------------
(***************************************************************************)
(* NetworkSpace: the routes of a tunnel, included and excluded, and the    *)
(* merge generateIPList that turns them into disjoint networks, of which   *)
(* the included ones are installed where the system knows no exclusions.   *)
(*                                                                         *)
(* An address has Width bits (32 or 128 in the code). A network is its     *)
(* first address, the length of its mask and whether it is included. The   *)
(* order of networks ignores the inclusion, so a PriorityQueue can hold    *)
(* two networks that tie; which of them it polls first is not specified.   *)
(***************************************************************************)
EXTENDS Integers, FiniteSets, Bags

CONSTANTS Width,     \* bits of an address
          MaxRoutes, \* bound on the routes of a tunnel
          None       \* no network

ASSUME WidthAssumption == Width \in Nat
ASSUME MaxRoutesAssumption == MaxRoutes \in Nat
ASSUME NoneAssumption == None \notin [first : Nat, mask : Nat, included : BOOLEAN]

VARIABLES
    mIpAddresses, \* TreeSet of the routes added
    networks,     \* PriorityQueue of the networks still to merge
    currentNet,   \* the network being merged
    ipsDone,      \* TreeSet of the networks merged
    phase,        \* adding routes, merging them, done
    tied,         \* the queue held two networks that tie and differ
    failed        \* an assertion of the debug build did not hold

vars == <<mIpAddresses, networks, currentNet, ipsDone, phase, tied, failed>>

(* The addresses of a network with a mask of this length: getMaskedAddress *)
(* sets or clears the bits behind the mask, of which a mask longer than an *)
(* address has none.                                                       *)
Size[mask \in 0 .. Width + 1] == IF mask >= Width THEN 1 ELSE 2 * Size[mask + 1]

Address == 0 .. Size[0] - 1

-----------------------------------------------------------------------------
(* Networks.                                                               *)

Last(n) == n.first + Size[n.mask] - 1

Addresses(n) == n.first .. Last(n)

Route == {n \in [first : Address, mask : 0 .. Width, included : BOOLEAN] :
            n.first % Size[n.mask] = 0}

(* equals and compareTo                                                    *)
Equal(m, n) == m.first = n.first /\ m.mask = n.mask

Less(m, n) == m.first < n.first \/ (m.first = n.first /\ m.mask > n.mask)

(* split                                                                   *)
FirstHalf(n) == [n EXCEPT !.mask = @ + 1]

SecondHalf(n) == [n EXCEPT !.mask = @ + 1, !.first = Last(FirstHalf(n)) + 1]

SplitAsserts(n) == Last(SecondHalf(n)) = Last(n)

(* Mutant: the set tells networks apart by their inclusion too.            *)
Insert_Inclusion(set, n) == set \cup {n}

(* TreeSet.add                                                             *)
Insert(set, n) ==
    IF \E m \in set : Equal(m, n) THEN set ELSE set \cup {n}

(* PriorityQueue.add, contains and poll                                    *)
Add(queue, n) == queue (+) SetToBag({n})

Remove(queue, n) == queue (-) SetToBag({n})

Contains(queue, n) == \E m \in BagToSet(queue) : Equal(m, n)

AddIfAbsent(queue, n) == IF Contains(queue, n) THEN queue ELSE Add(queue, n)

Heads(queue) ==
    {n \in BagToSet(queue) : \A m \in BagToSet(queue) : ~Less(m, n)}

Ties(queue) ==
    \E m, n \in BagToSet(queue) : Equal(m, n) /\ m.included # n.included

-----------------------------------------------------------------------------
Unique(set) == \A m, n \in set : Equal(m, n) => m = n

NetType == [first : 0 .. Size[0], mask : 0 .. Width + 1, included : BOOLEAN]

TypeOK ==
    /\ mIpAddresses \subseteq Route /\ Unique(mIpAddresses)
    /\ IsABag(networks) /\ BagToSet(networks) \subseteq NetType
    /\ currentNet \in NetType \cup {None}
    /\ ipsDone \subseteq NetType /\ Unique(ipsDone)
    /\ phase \in {"adding", "merging", "done"}
    /\ tied \in BOOLEAN /\ failed \in BOOLEAN

Init ==
    /\ mIpAddresses = {} /\ networks = EmptyBag /\ currentNet = None
    /\ ipsDone = {} /\ phase = "adding"
    /\ tied = FALSE /\ failed = FALSE

(* addIP and addIPv6                                                       *)
AddIP(n) ==
    /\ phase = "adding" /\ Cardinality(mIpAddresses) < MaxRoutes
    /\ mIpAddresses' = Insert(mIpAddresses, n)
    /\ UNCHANGED <<networks, currentNet, ipsDone, phase, tied, failed>>

(* generateIPList begins: the TreeSet, in its order, becomes the queue.    *)
Generate ==
    LET routes == SetToBag(mIpAddresses) IN
    /\ phase = "adding"
    /\ phase' = "merging"
    /\ \/ /\ mIpAddresses = {}
          /\ UNCHANGED <<networks, currentNet>>
       \/ \E n \in Heads(routes) :
             currentNet' = n /\ networks' = Remove(routes, n)
    /\ UNCHANGED <<mIpAddresses, ipsDone, tied, failed>>

-----------------------------------------------------------------------------
(* One iteration of the loop polls nextNet and does one of the following.  *)

Merging == phase = "merging" /\ currentNet # None

AssertTrue(condition) == failed' = (failed \/ ~condition)

Continue(queue) ==
    /\ networks' = queue
    /\ tied' = (tied \/ Ties(queue))
    /\ UNCHANGED <<mIpAddresses, phase>>

(* Mutant: the loop does not advance past the last network.                *)
KeepCurrent_KeepsLast ==
    /\ Merging
    /\ ipsDone' = Insert(ipsDone, currentNet)
    /\ \/ /\ networks = EmptyBag
          /\ UNCHANGED currentNet
          /\ Continue(networks)
       \/ \E nextNet \in Heads(networks) :
             /\ Last(currentNet) < nextNet.first
             /\ currentNet' = nextNet
             /\ Continue(Remove(networks, nextNet))
    /\ UNCHANGED failed

(* The current network ends before the next, or there is none.             *)
KeepCurrent ==
    /\ Merging
    /\ ipsDone' = Insert(ipsDone, currentNet)
    /\ \/ /\ networks = EmptyBag
          /\ currentNet' = None
          /\ Continue(networks)
       \/ \E nextNet \in Heads(networks) :
             /\ Last(currentNet) < nextNet.first
             /\ currentNet' = nextNet
             /\ Continue(Remove(networks, nextNet))
    /\ UNCHANGED failed

Overlaps(nextNet) == nextNet.first <= Last(currentNet)

Within(nextNet) ==
    currentNet.first = nextNet.first /\ currentNet.mask >= nextNet.mask

(* Mutant: the kinds are not compared.                                     *)
DropCurrent_AnyKind ==
    /\ Merging
    /\ \E nextNet \in Heads(networks) :
          /\ Overlaps(nextNet) /\ Within(nextNet)
          /\ currentNet' = nextNet
          /\ Continue(Remove(networks, nextNet))
    /\ UNCHANGED <<ipsDone, failed>>

(* The current network lies in the next one, of the same kind.             *)
DropCurrent ==
    /\ Merging
    /\ \E nextNet \in Heads(networks) :
          /\ Overlaps(nextNet) /\ Within(nextNet)
          /\ currentNet.included = nextNet.included
          /\ currentNet' = nextNet
          /\ Continue(Remove(networks, nextNet))
    /\ UNCHANGED <<ipsDone, failed>>

(* Mutant: the lower half is added when it is the current network too.     *)
SplitNext_KeepsLower ==
    /\ Merging
    /\ \E nextNet \in Heads(networks) :
          LET lower == FirstHalf(nextNet)
              rest  == AddIfAbsent(Remove(networks, nextNet),
                                   SecondHalf(nextNet))
          IN
          /\ Overlaps(nextNet) /\ Within(nextNet)
          /\ currentNet.included # nextNet.included
          /\ Continue(AddIfAbsent(rest, lower))
          /\ AssertTrue(SplitAsserts(nextNet))
    /\ UNCHANGED <<currentNet, ipsDone>>

(* The current network lies in the next one, of the other kind.            *)
SplitNext ==
    /\ Merging
    /\ \E nextNet \in Heads(networks) :
          LET lower == FirstHalf(nextNet)
              rest  == AddIfAbsent(Remove(networks, nextNet),
                                   SecondHalf(nextNet))
              atEnd == Last(lower) = Last(currentNet)
          IN
          /\ Overlaps(nextNet) /\ Within(nextNet)
          /\ currentNet.included # nextNet.included
          /\ Continue(IF atEnd THEN rest ELSE AddIfAbsent(rest, lower))
          /\ AssertTrue(SplitAsserts(nextNet)
                        /\ (atEnd => lower.mask = currentNet.mask))
    /\ UNCHANGED <<currentNet, ipsDone>>

(* The assertions of the branch for a current network that is larger.      *)
LargerAsserts(nextNet) ==
    /\ currentNet.mask < nextNet.mask
    /\ currentNet.first < nextNet.first
    /\ Last(nextNet) <= Last(currentNet)

(* The next network lies in the current one, of the same kind.             *)
IgnoreNext ==
    /\ Merging
    /\ \E nextNet \in Heads(networks) :
          /\ Overlaps(nextNet) /\ ~Within(nextNet)
          /\ currentNet.included = nextNet.included
          /\ Continue(Remove(networks, nextNet))
          /\ AssertTrue(LargerAsserts(nextNet))
    /\ UNCHANGED <<currentNet, ipsDone>>

(* Mutant: the polled network is not added again.                          *)
SplitCurrent_LosesNext ==
    /\ Merging
    /\ \E nextNet \in Heads(networks) :
          LET upper == SecondHalf(currentNet)
              same  == upper.mask = nextNet.mask
              rest  == Remove(networks, nextNet)
          IN
          /\ Overlaps(nextNet) /\ ~Within(nextNet)
          /\ currentNet.included # nextNet.included
          /\ Continue(IF same THEN rest ELSE Add(rest, upper))
          /\ AssertTrue(LargerAsserts(nextNet) /\ SplitAsserts(currentNet))
          /\ currentNet' = FirstHalf(currentNet)
    /\ UNCHANGED ipsDone

(* The next network lies in the current one, of the other kind.            *)
SplitCurrent ==
    /\ Merging
    /\ \E nextNet \in Heads(networks) :
          LET upper == SecondHalf(currentNet)
              same  == upper.mask = nextNet.mask
          IN
          /\ Overlaps(nextNet) /\ ~Within(nextNet)
          /\ currentNet.included # nextNet.included
          \* nextNet was polled and is added again
          /\ Continue(IF same THEN networks ELSE Add(networks, upper))
          /\ AssertTrue(/\ LargerAsserts(nextNet) /\ SplitAsserts(currentNet)
                        /\ same => upper.first = nextNet.first
                                   /\ Last(upper) = Last(currentNet))
          /\ currentNet' = FirstHalf(currentNet)
    /\ UNCHANGED ipsDone

Return ==
    /\ phase = "merging" /\ currentNet = None
    /\ phase' = "done"
    /\ UNCHANGED <<mIpAddresses, networks, currentNet, ipsDone, tied, failed>>

(* endTun clears the routes for the next tunnel.                           *)
Clear ==
    /\ phase = "done"
    /\ phase' = "adding" /\ mIpAddresses' = {} /\ ipsDone' = {}
    /\ tied' = FALSE /\ failed' = FALSE
    /\ UNCHANGED <<networks, currentNet>>

Merge ==
    Generate \/ KeepCurrent \/ DropCurrent \/ SplitNext \/ IgnoreNext
    \/ SplitCurrent \/ Return

Next == (\E n \in Route : AddIP(n)) \/ Merge \/ Clear

Spec == Init /\ [][Next]_vars

(* The merge is a loop of one thread: it runs on.                          *)
FairSpec == Spec /\ WF_vars(Merge)

-----------------------------------------------------------------------------
Covered(set) == UNION {Addresses(n) : n \in set}

(* The most specific route to an address decides.                          *)
Included(a) ==
    \E n \in mIpAddresses :
        /\ a \in Addresses(n) /\ n.included
        /\ \A m \in mIpAddresses : a \in Addresses(m) => m.mask <= n.mask

(* Three routes one inside the other, the middle one of the other kind.    *)
Nested(m, n) == Addresses(m) \subseteq Addresses(n) /\ m.mask > n.mask

Sandwiched ==
    \E a, b, c \in mIpAddresses :
        /\ Nested(a, b) /\ Nested(b, c)
        /\ a.included = c.included /\ a.included # b.included

(* Without a tie, no address of a route is lost and none is gained at any  *)
(* point of the merge: they are merged, being merged or still queued.      *)
Held == ipsDone \cup BagToSet(networks) \cup ({currentNet} \ {None})

NothingLost ==
    phase = "merging" /\ ~tied => Covered(Held) = Covered(mIpAddresses)

(* Without a tie, the networks of the result do not overlap.               *)
Disjoint ==
    ~tied => \A m, n \in ipsDone :
                m # n => Addresses(m) \cap Addresses(n) = {}

(* Splitting and merging neither lose an address of a route nor give one   *)
(* to two networks of the result.                                          *)
NothingLostOrTwice == NothingLost /\ Disjoint

(* Without a tie and without three nested routes of alternating kinds, the *)
(* included networks of the result are the addresses whose most specific   *)
(* route is included.                                                      *)
MostSpecificWins ==
    phase = "done" /\ ~tied /\ ~Sandwiched =>
        Covered({n \in ipsDone : n.included}) = {a \in Address : Included(a)}

(* Only a tie makes an assertion of the debug build fail.                  *)
FailsOnlyTied == failed => tied

(* The merge comes to an end, ties or not.                                 *)
MergeEnds == phase = "merging" ~> phase = "done"
=============================================================================
