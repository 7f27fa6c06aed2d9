------------------------- MODULE VolumeListingProofs -------------------------
(***************************************************************************)
(* Proofs about VolumeListing, for any number of nodes, devices, volumes,  *)
(* callers and clients, and any page sizes.                                *)
(***************************************************************************)
EXTENDS VolumeListing, MasterControllerProofs, FiniteSetTheorems

-----------------------------------------------------------------------------
\* The number of volumes the controller remembers is a number.
LEMMA RememberedNumber == Cardinality(Remembered) \in Nat
  BY FS_Subset, FS_CardinalityType, VolumeAssumption DEF Remembered

\* The length of a concatenation.
LEMMA Concatenation ==
    ASSUME NEW S, NEW s \in Seq(S), NEW t \in Seq(S)
    PROVE  s \o t \in Seq(S) /\ Len(s \o t) = Len(s) + Len(t)
  OBVIOUS

\* One order of n elements cut at a start: the positions behind it.
LEMMA OrderPositions ==
    ASSUME NEW order \in Orders, NEW start \in Nat, NEW i \in Nat \ {0},
           start + i <= Cardinality(Remembered)
    PROVE  order[start + i] \in Remembered
  BY RememberedNumber DEF Orders, Injection

\* A page has the devices of volumes, and the token counts them.
LEMMA PageEntries ==
    ASSUME TypeOK, NEW start \in Nat, start <= Cardinality(Remembered),
           NEW order \in Orders, NEW maxEntries \in PageSizes
    PROVE  LET page == Page(start, order, maxEntries)
           IN  /\ page.entries \in Seq(DeviceID)
               /\ page.next \in Nat
               /\ page.next # 0 =>
                      /\ page.next = start + Len(page.entries)
                      /\ page.next < Cardinality(Remembered)
<1> DEFINE rem == Cardinality(Remembered) - start
           count == IF maxEntries = 0 \/ maxEntries > rem THEN rem ELSE maxEntries
           id(i) == devicesByVolumeName[order[start + i]].ID
           entries == [i \in 1 .. count |-> id(i)]
           next == IF start + count < Cardinality(Remembered)
                   THEN start + count ELSE 0
<1>1. count \in Nat /\ start + count <= Cardinality(Remembered)
  BY RememberedNumber, ListingAssumption
<1>2. \A i \in 1 .. count : order[start + i] \in Remembered
  <2> TAKE i \in 1 .. count
  <2>1. i \in Nat \ {0} /\ start + i <= Cardinality(Remembered)
    BY <1>1, RememberedNumber
  <2> QED
    BY <2>1, OrderPositions
<1>3. \A v \in Remembered : devicesByVolumeName[v].ID \in DeviceID
  BY DEF Remembered, TypeOK, Address
<1>4. \A i \in 1 .. count : id(i) \in DeviceID
  BY <1>2, <1>3
<1> HIDE DEF count, id
<1>5. entries \in Seq(DeviceID) /\ Len(entries) = count
  BY <1>1, <1>4
<1>6. /\ next \in Nat
      /\ next # 0 => next = start + count /\ next < Cardinality(Remembered)
  BY <1>1, RememberedNumber
<1>7. Page(start, order, maxEntries) = [entries |-> entries, next |-> next]
  BY DEF Page, count, id
<1> HIDE DEF entries, next
<1> QED
  BY <1>5, <1>6, <1>7

-----------------------------------------------------------------------------
\* What a client has is what the invariant says of one client.
WalkOK(w) ==
    /\ w \in Walk
    /\ w.pc = "on" =>
           /\ w.token = Len(w.entries)
           /\ w.quiet => w.token < Cardinality(Remembered) \/ w.token = 0
    /\ w.quiet => w.pc # "aborted"

WalksOK == walk = [l \in Lister |-> walk[l]] /\ \A l \in Lister : WalkOK(walk[l])

LEMMA WalksAreOK ==
    WalksOK <=> walk \in [Lister -> Walk] /\ TokenCounts /\ QuietGoesOn
<1>1. ASSUME WalksOK
      PROVE  walk \in [Lister -> Walk] /\ TokenCounts /\ QuietGoesOn
  <2>1. \A l \in Lister : WalkOK(walk[l])
    BY <1>1 DEF WalksOK
  <2>2. walk \in [Lister -> Walk]
    <3>1. \A l \in Lister : walk[l] \in Walk
      BY <2>1 DEF WalkOK
    <3>2. walk = [l \in Lister |-> walk[l]]
      BY <1>1 DEF WalksOK
    <3> QED
      BY <3>1, <3>2
  <2>3. TokenCounts
    BY <2>1 DEF TokenCounts, WalkOK
  <2>4. QuietGoesOn
    BY <2>1 DEF QuietGoesOn, WalkOK
  <2> QED
    BY <2>2, <2>3, <2>4
<1>2. ASSUME walk \in [Lister -> Walk], TokenCounts, QuietGoesOn
      PROVE  WalksOK
  <2>1. \A l \in Lister : WalkOK(walk[l])
    <3> TAKE l \in Lister
    <3>1. walk[l] \in Walk
      BY <1>2
    <3> QED
      BY <1>2, <3>1 DEF TokenCounts, QuietGoesOn, WalkOK
  <2> QED
    BY <1>2, <2>1 DEF WalksOK
<1> QED
  BY <1>1, <1>2

LEMMA NoWalkOK == WalkOK(NoWalk)
<1>1. NoWalk \in Walk
  BY DEF Walk, NoWalk
<1>2. NoWalk.pc = "off" /\ ~NoWalk.quiet
  BY DEF NoWalk
<1> QED
  BY <1>1, <1>2 DEF WalkOK

\* Nothing that happens in the controller alone makes a walk wrong.
LEMMA ControllerWalks ==
    ASSUME WalksOK, ControllerStep
    PROVE  WalksOK'
<1>0. walk' = [l \in Lister |->
          IF devicesByVolumeName' = devicesByVolumeName THEN walk[l]
          ELSE IF walk[l].pc = "on" THEN [walk[l] EXCEPT !.quiet = FALSE]
          ELSE NoWalk]
  BY DEF ControllerStep
<1> SUFFICES ASSUME NEW l \in Lister
             PROVE  WalkOK(walk[l])'
  BY <1>0 DEF WalksOK
<1>1. WalkOK(walk[l]) /\ walk[l] \in Walk
  BY DEF WalksOK, WalkOK
<1>2. CASE devicesByVolumeName' = devicesByVolumeName
  <2>1. Remembered' = Remembered /\ walk'[l] = walk[l]
    BY <1>0, <1>2 DEF Remembered
  <2> QED
    BY <1>1, <1>2, <2>1 DEF WalkOK
<1>3. CASE devicesByVolumeName' # devicesByVolumeName /\ walk[l].pc = "on"
  <2>1. walk'[l] = [walk[l] EXCEPT !.quiet = FALSE]
    BY <1>0, <1>3
  <2>2. /\ walk'[l].pc = walk[l].pc /\ walk'[l].token = walk[l].token
        /\ walk'[l].entries = walk[l].entries /\ ~walk'[l].quiet
        /\ walk'[l] \in Walk
    BY <1>1, <2>1 DEF Walk
  <2> QED
    BY <1>1, <2>2 DEF WalkOK
<1>4. CASE devicesByVolumeName' # devicesByVolumeName /\ walk[l].pc # "on"
  <2>1. walk'[l] = NoWalk
    BY <1>0, <1>4
  <2>2. NoWalk \in Walk /\ NoWalk.pc = "off" /\ ~NoWalk.quiet
    BY NoWalkOK DEF NoWalk, WalkOK
  <2> QED
    BY <2>1, <2>2 DEF WalkOK
<1> QED
  BY <1>2, <1>3, <1>4

\* What one client does is done to its walk alone.
LEMMA ClientWalks ==
    ASSUME WalksOK, UNCHANGED vars, NEW l \in Lister, NEW w,
           walk' = [walk EXCEPT ![l] = w], WalkOK(w)
    PROVE  WalksOK'
<1>1. Remembered' = Remembered /\ devicesByVolumeName' = devicesByVolumeName
  BY DEF Remembered, vars, tables
<1>2. \A k \in Lister : WalkOK(walk'[k])
  BY DEF WalksOK
<1>3. \A k \in Lister : WalkOK(walk[k])'
  BY <1>1, <1>2 DEF WalkOK
<1>4. walk' = [k \in Lister |-> walk'[k]]
  BY DEF WalksOK
<1> QED
  BY <1>3, <1>4 DEF WalksOK

LEMMA WalkStep ==
    TypeOK /\ WalksOK /\ [ListNext]_listVars => WalksOK'
<1> SUFFICES ASSUME TypeOK, WalksOK, [ListNext]_listVars
             PROVE  WalksOK'
  OBVIOUS
<1>0. \A l \in Lister : WalkOK(walk[l]) /\ walk[l] \in Walk
  BY DEF WalksOK, WalkOK
<1>1. CASE ControllerStep
  BY <1>1, ControllerWalks
<1>2. ASSUME NEW l \in Lister, Begin(l)
      PROVE  WalksOK'
  <2> DEFINE w == [pc |-> "on", token |-> 0, entries |-> <<>>, quiet |-> TRUE]
  <2>1. WalkOK(w)
    BY DEF WalkOK, Walk
  <2> QED
    BY <1>2, <2>1, ClientWalks DEF Begin
<1>3. ASSUME NEW l \in Lister, ListVolumesAborts(l)
      PROVE  WalksOK'
  <2> DEFINE w == [walk[l] EXCEPT !.pc = "aborted"]
  <2>1. walk[l] \in Walk /\ walk[l].pc = "on" /\ WalkOK(walk[l])
    BY <1>0, <1>3 DEF ListVolumesAborts
  <2>2. ~walk[l].quiet
    BY <1>3, <2>1, RememberedNumber DEF ListVolumesAborts, WalkOK, Walk
  <2>3. w \in Walk /\ w.pc = "aborted" /\ w.quiet = walk[l].quiet
    BY <2>1 DEF Walk
  <2>4. WalkOK(w)
    BY <2>2, <2>3 DEF WalkOK
  <2>5. walk' = [walk EXCEPT ![l] = w] /\ UNCHANGED vars
    BY <1>3 DEF ListVolumesAborts
  <2> QED
    BY <2>4, <2>5, ClientWalks
<1>4. ASSUME NEW l \in Lister, ListVolumesAnswers(l)
      PROVE  WalksOK'
  <2>1. PICK order \in Orders, maxEntries \in PageSizes :
            walk' = [walk EXCEPT
                ![l].pc = IF Page(walk[l].token, order, maxEntries).next = 0
                          THEN "done" ELSE "on",
                ![l].token = Page(walk[l].token, order, maxEntries).next,
                ![l].entries =
                    @ \o Page(walk[l].token, order, maxEntries).entries]
    BY <1>4 DEF ListVolumesAnswers
  <2> DEFINE page == Page(walk[l].token, order, maxEntries)
             entries == walk[l].entries \o page.entries
             w == [pc |-> IF page.next = 0 THEN "done" ELSE "on",
                   token |-> page.next, entries |-> entries,
                   quiet |-> walk[l].quiet]
  <2>2. /\ walk[l] \in Walk /\ walk[l].pc = "on" /\ WalkOK(walk[l])
        /\ walk[l].token \in Nat /\ walk[l].token <= Cardinality(Remembered)
        /\ walk[l].entries \in Seq(DeviceID) /\ walk[l].quiet \in BOOLEAN
        /\ walk[l].token = Len(walk[l].entries)
    BY <1>0, <1>4 DEF ListVolumesAnswers, Walk, WalkOK
  <2>3. /\ page.entries \in Seq(DeviceID)
        /\ page.next \in Nat
        /\ page.next # 0 =>
               /\ page.next = walk[l].token + Len(page.entries)
               /\ page.next < Cardinality(Remembered)
    BY <2>2, PageEntries
  <2> HIDE DEF page
  <2>4. /\ entries \in Seq(DeviceID)
        /\ Len(entries) = Len(walk[l].entries) + Len(page.entries)
    <3>1. walk[l].entries \in Seq(DeviceID) /\ page.entries \in Seq(DeviceID)
      BY <2>2, <2>3
    <3> QED
      BY <3>1, Concatenation
  <2>5. w \in Walk
    <3> HIDE DEF entries
    <3> QED
      BY <2>2, <2>3, <2>4 DEF Walk
  <2>6. WalkOK(w)
    <3> HIDE DEF entries
    <3> QED
      BY <2>2, <2>3, <2>4, <2>5, RememberedNumber DEF WalkOK
  <2>7. walk' = [walk EXCEPT ![l] = w]
    <3>1. /\ \A k \in Lister \ {l} : walk'[k] = walk[k]
          /\ walk' = [k \in Lister |-> walk'[k]]
      BY <2>1 DEF WalksOK
    <3>2. walk'[l] = w
      BY <2>1, <2>2 DEF Walk, WalksOK, page
    <3> HIDE DEF w
    <3> QED
      BY <3>1, <3>2 DEF WalksOK
  <2>8. UNCHANGED vars
    BY <1>4 DEF ListVolumesAnswers
  <2> HIDE DEF w
  <2> QED
    BY <2>6, <2>7, <2>8, ClientWalks
<1>5. CASE UNCHANGED listVars
  BY <1>5 DEF listVars, vars, tables, WalksOK, WalkOK, Remembered
<1> QED
  BY <1>1, <1>2, <1>3, <1>4, <1>5 DEF ListNext, ListVolumes

-----------------------------------------------------------------------------
\* Every step of the listing is one of the controller, or none.
LEMMA ListRefines == ListSpec => Spec
<1>1. ListInit => Init
  BY DEF ListInit
<1>2. [ListNext]_listVars => [Next]_vars
  BY DEF ListNext, ControllerStep, Begin, ListVolumes, ListVolumesAborts,
     ListVolumesAnswers, listVars
<1> QED
  BY <1>1, <1>2, PTL DEF ListSpec, Spec

LEMMA ListInitial == ListInit => ListingInv
<1> SUFFICES ASSUME ListInit
             PROVE  ListingInv
  OBVIOUS
<1>1. walk = [l \in Lister |-> NoWalk]
  BY DEF ListInit
<1>2. \A l \in Lister : WalkOK(walk[l])
  BY <1>1, NoWalkOK
<1>3. WalksOK
  BY <1>2 DEF WalksOK, ListInit
<1> QED
  BY <1>3, WalksAreOK DEF ListingInv

LEMMA ListStep == TypeOK /\ ListingInv /\ [ListNext]_listVars => ListingInv'
<1>1. ListingInv <=> WalksOK
  BY WalksAreOK DEF ListingInv
<1>2. ListingInv' <=> WalksOK'
  BY <1>1, PTL
<1>3. TypeOK /\ WalksOK /\ [ListNext]_listVars => WalksOK'
  BY WalkStep
<1> QED
  BY <1>1, <1>2, <1>3

(***************************************************************************)
(* However clients page and whatever the controller does meanwhile, a      *)
(* token counts what was seen, and what nothing disturbs is not aborted.   *)
(***************************************************************************)
THEOREM ListingInvariant == ListSpec => []ListingInv
<1>1. MasterInv => TypeOK
  BY DEF MasterInv
<1>2. ListSpec => []MasterInv
  BY ListRefines, MasterInvariant, PTL
<1> QED
  BY <1>1, <1>2, ListInitial, ListStep, PTL DEF ListSpec

-----------------------------------------------------------------------------
(***************************************************************************)
(* What the two tables say of one identifier.  Only the callbacks of the   *)
(* registry and a restart write to them.                                   *)
(***************************************************************************)
Confirmed(id) == devicesByIDs[id] # Absent

Listed(id) == \E n \in Node : \E a \in devicesByNodes[n] : a.ID = id

LEMMA StaleMeans ==
    ASSUME NEW id \in DeviceID
    PROVE  Stale(id) <=> Confirmed(id) /\ ~Listed(id)
<1>1. id # Absent
  BY ListingAssumption
<1>2. ValidateVolumeCapabilities(id, {"SINGLE_NODE_WRITER"}) = "Confirmed"
          <=> Confirmed(id)
  BY <1>1 DEF ValidateVolumeCapabilities, Confirmed
<1>3. findDeviceNode(id) = {} <=> ~Listed(id)
  BY DEF findDeviceNode, Listed
<1> QED
  BY <1>2, <1>3 DEF Stale

LEMMA StaleStep ==
    ASSUME MasterInv, [Next]_vars, NEW id \in DeviceID, ~Stale(id), Stale(id)'
    PROVE  OnNodeDeleted(id.node)
<1>1. TypeOK /\ IDsAgree
  BY DEF MasterInv
<1>2. Confirmed(id) => Listed(id)
  BY StaleMeans
<1>3. Confirmed(id)' /\ ~Listed(id)'
  BY ListingAssumption DEF Stale, ValidateVolumeCapabilities, Confirmed, Listed,
     findDeviceNode
<1>4. ~UNCHANGED <<devicesByIDs, devicesByNodes>>
  BY <1>2, <1>3 DEF Confirmed, Listed
<1>5. ASSUME NEW c \in Caller,
             \/ CreateVolume(c) \/ CreateVolumeLocks(c) \/ CreateVolumeReturns(c)
             \/ DeleteVolume(c) \/ DeleteVolumeForgets(c) \/ DeleteVolumeReturns(c)
      PROVE  FALSE
  BY <1>4, <1>5 DEF tables, CreateVolume, CreateVolumeLocks, CreateVolumeFinds,
     CreateVolumeFindsNothing, CreateVolumeReturns, CreateVolumeSucceeds,
     CreateVolumeFails, DeleteVolume, DeleteVolumeForgets, DeleteVolumeReturns
<1>6. ASSUME NEW n \in Node, OnNodeAddedUpdate(n) PROVE FALSE
  <2>1. /\ devicesByIDs' = [i \in DeviceID |->
               IF \E a \in Fresh(n) : a.ID = i
               THEN [ID |-> i, report |-> reports[n] + 1]
               ELSE IF \E a \in devicesByNodes[n] : a.ID = i
                    THEN Absent
                    ELSE devicesByIDs[i]]
        /\ devicesByNodes' = [devicesByNodes EXCEPT ![n] = Fresh(n)]
    BY <1>6 DEF OnNodeAddedUpdate
  <2>2. devicesByNodes'[n] = Fresh(n)
    BY <1>1, <2>1 DEF TypeOK
  <2>3. ~\E a \in Fresh(n) : a.ID = id
    BY <1>3, <2>2 DEF Listed
  <2>4. ~\E a \in devicesByNodes[n] : a.ID = id
    BY <1>3, <2>1, <2>3 DEF Confirmed
  <2>5. Confirmed(id)
    BY <1>3, <2>1, <2>3, <2>4 DEF Confirmed
  <2>6. PICK m \in Node : \E a \in devicesByNodes[m] : a.ID = id
    BY <1>2, <2>5 DEF Listed
  <2>7. devicesByNodes'[m] = devicesByNodes[m]
    BY <1>1, <2>1, <2>4, <2>6 DEF TypeOK
  <2> QED
    BY <1>3, <2>6, <2>7 DEF Listed
<1>7. ASSUME NEW n \in Node, OnNodeDeleted(n) PROVE OnNodeDeleted(id.node)
  <2>1. UNCHANGED devicesByIDs /\ devicesByNodes' = [devicesByNodes EXCEPT ![n] = {}]
    BY <1>7 DEF OnNodeDeleted
  <2>2. PICK m \in Node : \E a \in devicesByNodes[m] : a.ID = id
    BY <1>2, <1>3, <2>1 DEF Confirmed, Listed
  <2>3. m = n
    BY <1>1, <1>3, <2>1, <2>2 DEF Listed, TypeOK
  <2>4. id.node = m
    BY <1>1, <2>2 DEF IDsAgree
  <2> QED
    BY <1>7, <2>3, <2>4
<1>8. ~Restart
  BY <1>3 DEF Restart, Confirmed
<1>9. ASSUME NEW n \in Node, OnNodeAdded(n) PROVE FALSE
  BY <1>4, <1>9 DEF OnNodeAdded, tables
<1>10. ~UNCHANGED vars
  BY <1>4 DEF vars, tables
<1> QED
  BY <1>5, <1>6, <1>7, <1>8, <1>9, <1>10 DEF Next

(***************************************************************************)
(* In any cluster, only the deletion of a node leaves identifiers behind   *)
(* that ValidateVolumeCapabilities confirms and DeleteVolume cannot place. *)
(***************************************************************************)
THEOREM OnlyDeletionLeavesIDsHolds == ListSpec => OnlyDeletionLeavesIDs
<1>1. MasterInv /\ [Next]_vars =>
          [\A id \in DeviceID :
              (~Stale(id) /\ Stale(id)') => OnNodeDeleted(id.node)]_listVars
  BY StaleStep
<1> QED
  BY <1>1, ListRefines, MasterInvariant, PTL DEF Spec, OnlyDeletionLeavesIDs
=============================================================================
