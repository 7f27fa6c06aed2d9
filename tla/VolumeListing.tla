---------------------------- MODULE VolumeListing ----------------------------
(***************************************************************************)
(* ListVolumes and ValidateVolumeCapabilities of the controller            *)
(* (pkg/cdi-driver/controllerserver-master), called while everything else  *)
(* the controller does goes on.  A client of ListVolumes follows the       *)
(* tokens it is given from page to page; the controller keeps nothing of   *)
(* it between two pages.                                                   *)
(***************************************************************************)
EXTENDS MasterController, Functions

CONSTANTS
    Lister,     \* clients that list the volumes
    PageSizes   \* the MaxEntries they ask for; 0 asks for all there are

ASSUME ListingAssumption == PageSizes \subseteq Nat /\ Absent \notin DeviceID

VARIABLE walk  \* what every client has been given so far

listVars == <<vars, walk>>

(***************************************************************************)
(* token is the next StartingToken, 0 standing for none.  quiet says that  *)
(* no volume was created, deleted or moved since the listing began; it is  *)
(* there for the properties only.                                          *)
(***************************************************************************)
Walk ==
    [pc : {"off", "on", "done", "aborted"}, token : Nat,
     entries : Seq(DeviceID), quiet : BOOLEAN]

Remembered == {v \in Volume : devicesByVolumeName[v] # Absent}

\* Ranging over the map visits its entries in any order.
Orders == Injection(1 .. Cardinality(Remembered), Remembered)

-----------------------------------------------------------------------------
NoWalk == [pc |-> "off", token |-> 0, entries |-> <<>>, quiet |-> FALSE]

ListInit == Init /\ walk = [l \in Lister |-> NoWalk]

\* A client begins, or begins again after it has come to an end.
Begin(l) ==
    /\ walk[l].pc # "on"
    /\ walk' = [walk EXCEPT ![l] =
           [pc |-> "on", token |-> 0, entries |-> <<>>, quiet |-> TRUE]]
    /\ UNCHANGED vars

\* Mutant: a token is refused as soon as no volume is left behind it.
ListVolumesAbortsEarly(l) ==
    /\ walk[l].pc = "on"
    /\ mutex = Free
    /\ walk[l].token >= Cardinality(Remembered)
    /\ walk' = [walk EXCEPT ![l].pc = "aborted"]
    /\ UNCHANGED vars

\* The token lies behind all volumes there are now.
ListVolumesAborts(l) ==
    /\ walk[l].pc = "on"
    /\ mutex = Free
    /\ walk[l].token > Cardinality(Remembered)
    /\ walk' = [walk EXCEPT ![l].pc = "aborted"]
    /\ UNCHANGED vars

\* Mutant: a token follows a page that ends with the last volume.
PageNeverLast(start, order, maxEntries) ==
    LET rem == Cardinality(Remembered) - start
        count == IF maxEntries = 0 \/ maxEntries > rem THEN rem ELSE maxEntries
    IN  [entries |-> [i \in 1 .. count |->
                         devicesByVolumeName[order[start + i]].ID],
         next |-> IF start + count <= Cardinality(Remembered)
                  THEN start + count ELSE 0]

(***************************************************************************)
(* The page behind the first start volumes of one order: at most           *)
(* maxEntries of them, each shown with the identifier of its device, and   *)
(* a token unless the page ends with the last volume.                      *)
(***************************************************************************)
Page(start, order, maxEntries) ==
    LET rem == Cardinality(Remembered) - start
        count == IF maxEntries = 0 \/ maxEntries > rem THEN rem ELSE maxEntries
    IN  [entries |-> [i \in 1 .. count |->
                         devicesByVolumeName[order[start + i]].ID],
         next |-> IF start + count < Cardinality(Remembered)
                  THEN start + count ELSE 0]

\* The mutex is held for one page; every page is of an order of its own.
ListVolumesAnswers(l) ==
    /\ walk[l].pc = "on"
    /\ mutex = Free
    /\ walk[l].token <= Cardinality(Remembered)
    /\ \E order \in Orders, maxEntries \in PageSizes :
           LET page == Page(walk[l].token, order, maxEntries)
           IN  walk' = [walk EXCEPT
                   ![l].pc = IF page.next = 0 THEN "done" ELSE "on",
                   ![l].token = page.next,
                   ![l].entries = @ \o page.entries]
    /\ UNCHANGED vars

ListVolumes(l) == ListVolumesAborts(l) \/ ListVolumesAnswers(l)

\* ValidateVolumeCapabilities: the identifier and the access modes of the
\* capabilities may be missing, and a single mode is supported.
ValidateVolumeCapabilities(id, modes) ==
    IF id = Absent THEN "InvalidArgument"
    ELSE IF devicesByIDs[id] = Absent THEN "NotFound"
    ELSE IF modes = {} THEN "InvalidArgument"
    ELSE IF modes \subseteq {"SINGLE_NODE_WRITER"} THEN "Confirmed"
    ELSE "NotConfirmed"

\* The rest of the controller goes on.  What a client that has finished was
\* given is forgotten with the next change.
ControllerStep ==
    /\ Next
    /\ walk' = [l \in Lister |->
           IF devicesByVolumeName' = devicesByVolumeName THEN walk[l]
           ELSE IF walk[l].pc = "on" THEN [walk[l] EXCEPT !.quiet = FALSE]
           ELSE NoWalk]

ListNext == ControllerStep \/ \E l \in Lister : Begin(l) \/ ListVolumes(l)

ListSpec == ListInit /\ [][ListNext]_listVars

(***************************************************************************)
(* A client that was given a token uses it, and sync.Mutex lets it in.     *)
(***************************************************************************)
ListFairSpec ==
    ListSpec /\ Fairness /\ \A l \in Lister : SF_listVars(ListVolumes(l))

-----------------------------------------------------------------------------
(***************************************************************************)
(* A token is what it stands for: as many entries as the client has seen,  *)
(* and, while no volume changes, fewer than there are volumes.             *)
(***************************************************************************)
TokenCounts ==
    \A l \in Lister : walk[l].pc = "on" =>
        /\ walk[l].token = Len(walk[l].entries)
        /\ walk[l].quiet =>
               walk[l].token < Cardinality(Remembered) \/ walk[l].token = 0

(***************************************************************************)
(* The inductive invariant of the listings: a token counts, and a listing  *)
(* during which no volume changes is never aborted, whatever nodes and     *)
(* calls do meanwhile.                                                     *)
(***************************************************************************)
QuietGoesOn == \A l \in Lister : walk[l].quiet => walk[l].pc # "aborted"

ListingInv == walk \in [Lister -> Walk] /\ TokenCounts /\ QuietGoesOn

(***************************************************************************)
(* ValidateVolumeCapabilities and the search for a device's node read      *)
(* different tables.  A device that the one confirms and the other does    *)
(* not find is left behind by the deletion of its node (the TODO of        *)
(* OnNodeDeleted) and by nothing else: no report, whatever it leaves out,  *)
(* and no call in between sets the two apart.                              *)
(***************************************************************************)
Stale(id) ==
    /\ ValidateVolumeCapabilities(id, {"SINGLE_NODE_WRITER"}) = "Confirmed"
    /\ findDeviceNode(id) = {}

OnlyDeletionLeavesIDs ==
    [][\A id \in DeviceID :
           (~Stale(id) /\ Stale(id)') => OnNodeDeleted(id.node)]_listVars

\* Every listing comes to an end, although volumes come and go under it and
\* the mutex is held over node calls.
EveryListingEnds ==
    \A l \in Lister : walk[l].pc = "on" ~> walk[l].pc # "on"

-----------------------------------------------------------------------------
(***************************************************************************)
(* What the comments of the source say and the code does not do.           *)
(***************************************************************************)

(***************************************************************************)
(* ListVolumes "SHALL return the information about all the volumes that it *)
(* knows about" (controllerserver-default.go:102), and may miss some only  *)
(* "if volumes are created and/or deleted" meanwhile (lines 103-105): when *)
(* none was, the client has been shown the device of every volume.         *)
(***************************************************************************)
QuietListingShowsAll ==
    \A l \in Lister :
        (walk[l].quiet /\ walk[l].pc = "done") =>
            \A v \in Remembered :
                devicesByVolumeName[v].ID \in Range(walk[l].entries)
=============================================================================
