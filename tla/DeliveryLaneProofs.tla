------------------------- MODULE DeliveryLaneProofs -------------------------
(***************************************************************************)
(* The callers of the delivery transactions, for every value of the         *)
(* constants: they take only steps that HostStore's contract allows, no     *)
(* create is repeated blindly, what is acknowledged is what the platform    *)
(* shows, and messages appear in lane order.                                *)
(*                                                                          *)
(* The inductive invariant has two sides.  Known says of each row what the  *)
(* platform may hold or still receive for it; Owns says what the goroutine  *)
(* that owns a lane may rely on at each place of its code.                  *)
(***************************************************************************)
EXTENDS DeliveryLane, HostStoreOrderProofs

LaneTyped == lane \in [Routes -> Owner] /\ epoch \in [RowKeys -> Nat]

MessagesOf(k) == {id \in DOMAIN posted : posted[id].key = k}
CreatesOf(k) == {c \in wire : c.id = NoRemote /\ c.key = k}

(* The platform numbers its messages, and an edit names one of its row.     *)
PlatformOK ==
    /\ posted \in [DOMAIN posted -> [key: RowKeys, nonce: Nat, rev: Nat, late: BOOLEAN]]
    /\ IsFiniteSet(DOMAIN posted) /\ DOMAIN posted \subseteq RemoteIds
    /\ \A id \in DOMAIN posted : id < FreeId
    /\ wire \subseteq [key: RowKeys, id: Nat, nonce: Nat, rev: Nat]
    /\ \A c \in wire : c.id # NoRemote => c.id \in MessagesOf(c.key)

-----------------------------------------------------------------------------
(* What the platform holds for a row, and what it may still get.            *)

(* A create of the row since its last resend took effect, or still may.     *)
Sent(k) ==
    \/ \E id \in MessagesOf(k) : posted[id].nonce = epoch[k] + 1
    \/ \E c \in CreatesOf(k) : c.nonce = epoch[k] + 1

Calling(k) == \E r \in Routes : lane[r].pc = "call" /\ lane[r].key = k

Shows(k, id) == posted[id].late \/ posted[id].rev = deliveries[k].desired

(* Each nonce was sent once.                                                *)
SentOnce(k) ==
    /\ \A id \in MessagesOf(k) : posted[id].nonce \in 1 .. epoch[k] + 1
    /\ \A c \in CreatesOf(k) : c.nonce \in 1 .. epoch[k] + 1
    /\ \A i, j \in MessagesOf(k) : posted[i].nonce = posted[j].nonce => i = j
    /\ \A c, d \in CreatesOf(k) : c.nonce = d.nonce => c = d
    /\ \A id \in MessagesOf(k), c \in CreatesOf(k) : posted[id].nonce # c.nonce

(* A row that was sent has its message or keeps its intent, so that it is   *)
(* not sent again; what it acknowledges is shown.                           *)
RowKnown(k) ==
    LET row == deliveries[k]
    IN  /\ row.status = "acked" => row.acked = row.desired /\ row.remote # NoRemote
        /\ row.nonce \in {NoNonce, epoch[k] + 1}
        /\ row.op = "create_intent" => row.remote = NoRemote /\ row.nonce = epoch[k] + 1
        /\ row.remote # NoRemote => row.remote \in MessagesOf(k)
        /\ Sent(k) => row.remote # NoRemote \/ (row.op = "create_intent" /\ ~Calling(k))
        /\ Resolved(row) => Shows(k, row.remote)

Known(k) ==
    /\ SentOnce(k)
    /\ IF k \in DOMAIN deliveries THEN RowKnown(k)
       ELSE MessagesOf(k) = {} /\ CreatesOf(k) = {}

-----------------------------------------------------------------------------
(* What the owner of a lane may rely on.                                    *)

HoldsWork(r) ==
    LET m == lane[r].work
    IN  /\ m # NoMsg => m \in DOMAIN inbox /\ inbox[m].route = r /\ inbox[m].state = "admitted"
        /\ lane[r].pc \in {"plan", "next", "live", "turn"} => m # NoMsg

HoldsRow(r) ==
    LET k == lane[r].key
        row == deliveries[k]
        pc == lane[r].pc
    IN  /\ pc \notin {"idle", "plan", "turn", "drain"} => k \in DOMAIN deliveries /\ row.route = r
        /\ pc \in {"create", "call", "landed", "edit", "edited"} => AtHead(k)
        /\ pc = "create" => row.remote = NoRemote
        /\ pc \in {"call", "landed"} => row.op = "create_intent"
        /\ pc \in {"live", "edit", "edited"} => row.remote # NoRemote
        /\ pc = "landed" => lane[r].id \in MessagesOf(k) /\ Shows(k, lane[r].id)
        /\ pc = "edited" => Shows(k, row.remote)

Owns(r) ==
    /\ lane[r].pc # "idle" => serving
    /\ HoldsWork(r) /\ HoldsRow(r)

(* PostedInOrder, of any messages.                                          *)
InOrder(messages) ==
    \A i, j \in DOMAIN messages :
        LET a == messages[i].key
            b == messages[j].key
        IN  /\ deliveries[a].route = deliveries[b].route /\ Before(a, b)
            /\ epoch[a] = 0 /\ epoch[b] = 0
            => i < j

CallersInv ==
    /\ LaneInv /\ LaneTyped /\ PlatformOK
    /\ \A k \in RowKeys : Known(k)
    /\ \A r \in Routes : Owns(r)
    /\ InOrder(posted)

-----------------------------------------------------------------------------
(* The platform.                                                            *)

(* A step leaves what the platform has of a row alone.                      *)
Same(k) ==
    /\ MessagesOf(k)' = MessagesOf(k) /\ CreatesOf(k)' = CreatesOf(k)
    /\ \A id \in MessagesOf(k) : posted'[id] = posted[id]

LEMMA SameAll ==
    ASSUME UNCHANGED <<posted, wire>>, NEW k
    PROVE  Same(k)
BY DEF Same, MessagesOf, CreatesOf

(* The next id is a new one.                                                *)
LEMMA FreshId ==
    ASSUME PlatformOK
    PROVE  /\ FreeId \in Nat \ {NoRemote} /\ FreeId \notin DOMAIN posted
           /\ \A new : DOMAIN new = DOMAIN posted \cup {FreeId} =>
                 /\ IsFiniteSet(DOMAIN new)
                 /\ Cardinality(DOMAIN new) + 1 = FreeId + 1
<1>1. Cardinality(DOMAIN posted) \in Nat
  BY FS_CardinalityType DEF PlatformOK
<1>2. FreeId \in Nat \ {NoRemote}
  BY <1>1 DEF FreeId, NoRemote
<1>3. FreeId \notin DOMAIN posted
  BY <1>2 DEF PlatformOK
<1>4. ASSUME NEW new, DOMAIN new = DOMAIN posted \cup {FreeId}
      PROVE  /\ IsFiniteSet(DOMAIN new)
             /\ Cardinality(DOMAIN new) + 1 = FreeId + 1
  <2>1. /\ IsFiniteSet(DOMAIN posted \cup {FreeId})
        /\ Cardinality(DOMAIN posted \cup {FreeId}) = Cardinality(DOMAIN posted) + 1
    BY <1>3, FS_AddElement DEF PlatformOK
  <2> QED BY <1>4, <2>1 DEF FreeId
<1> QED BY <1>2, <1>3, <1>4

(* A create takes effect.                                                   *)
LEMMA CreateLands ==
    ASSUME PlatformOK, NEW c \in [key: RowKeys, id: Nat, nonce: Nat, rev: Nat],
           c.id = NoRemote, NEW late \in BOOLEAN, HasRoom(c),
           posted' = Landed(c, late), wire' = wire \/ wire' = wire \ {c}
    PROVE  /\ PlatformOK'
           /\ \A j \in RowKeys : j # c.key => Same(j)
           /\ MessagesOf(c.key)' = MessagesOf(c.key) \cup {FreeId}
           /\ FreeId \notin DOMAIN posted /\ FreeId # NoRemote
           /\ DOMAIN posted' = DOMAIN posted \cup {FreeId}
           /\ \A id \in DOMAIN posted : posted'[id] = posted[id] /\ id < FreeId
           /\ posted'[FreeId] = [key |-> c.key, nonce |-> c.nonce, rev |-> c.rev, late |-> FALSE]
           /\ FreeId \in RemoteIds
<1>1. PICK free : free = FreeId
  OBVIOUS
<1> DEFINE msg == [key |-> c.key, nonce |-> c.nonce, rev |-> c.rev, late |-> FALSE]
<1>2. /\ free \in Nat \ {NoRemote} /\ free \notin DOMAIN posted /\ free \in RemoteIds
  BY <1>1, FreshId DEF HasRoom
<1>3. /\ DOMAIN posted' = DOMAIN posted \cup {free}
      /\ \A id \in DOMAIN posted' : posted'[id] = IF id = free THEN msg ELSE posted[id]
      /\ posted' = [id \in DOMAIN posted \cup {free} |-> IF id = free THEN msg ELSE posted[id]]
  BY <1>1 DEF Landed
<1>4. \A id \in DOMAIN posted : posted'[id] = posted[id] /\ id < free
  BY <1>1, <1>2, <1>3 DEF PlatformOK
<1>5. posted'[free] = msg
  BY <1>3
<1>6. IsFiniteSet(DOMAIN posted') /\ FreeId' = free + 1
  <2>1. Cardinality(DOMAIN posted') + 1 = free + 1 /\ IsFiniteSet(DOMAIN posted')
    BY <1>1, <1>3, FreshId
  <2> QED BY <2>1 DEF FreeId
<1>7. PlatformOK'
  <2>1. msg \in [key: RowKeys, nonce: Nat, rev: Nat, late: BOOLEAN]
    OBVIOUS
  <2>2. posted' \in [DOMAIN posted' -> [key: RowKeys, nonce: Nat, rev: Nat, late: BOOLEAN]]
    <3> HIDE DEF msg
    <3> QED BY <1>3, <2>1 DEF PlatformOK
  <2>3. DOMAIN posted' \subseteq RemoteIds /\ \A id \in DOMAIN posted' : id < free + 1
    BY <1>2, <1>3, <1>4, IdsAssumption DEF PlatformOK
  <2>4. wire' \subseteq wire
    OBVIOUS
  <2>5. \A d \in wire' : d.id # NoRemote => d.id \in MessagesOf(d.key)'
    BY <1>3, <1>4, <2>4 DEF PlatformOK, MessagesOf
  <2>6. wire' \subseteq [key: RowKeys, id: Nat, nonce: Nat, rev: Nat]
    BY <2>4 DEF PlatformOK
  <2> QED BY <1>6, <2>2, <2>3, <2>5, <2>6 DEF PlatformOK
<1>8. MessagesOf(c.key)' = MessagesOf(c.key) \cup {free}
  BY <1>3, <1>4, <1>5 DEF MessagesOf
<1>9. ASSUME NEW j \in RowKeys, j # c.key PROVE Same(j)
  <2>1. MessagesOf(j)' = MessagesOf(j)
    BY <1>3, <1>4, <1>5, <1>9 DEF MessagesOf
  <2>2. CreatesOf(j)' = CreatesOf(j)
    BY <1>9 DEF CreatesOf
  <2> QED BY <1>4, <2>1, <2>2 DEF Same, MessagesOf
<1> QED BY <1>1, <1>2, <1>3, <1>4, <1>5, <1>7, <1>8, <1>9

(* An edit takes effect.                                                    *)
LEMMA EditLands ==
    ASSUME PlatformOK, NEW c \in [key: RowKeys, id: Nat, nonce: Nat, rev: Nat],
           c.id # NoRemote, c.id \in MessagesOf(c.key), NEW late \in BOOLEAN,
           posted' = Landed(c, late), wire' = wire \/ wire' = wire \ {c}
    PROVE  /\ PlatformOK'
           /\ \A j \in RowKeys : j # c.key => Same(j)
           /\ DOMAIN posted' = DOMAIN posted
           /\ \A id \in DOMAIN posted :
                 /\ posted'[id].key = posted[id].key /\ posted'[id].nonce = posted[id].nonce
                 /\ id # c.id => posted'[id] = posted[id]
           /\ \A j \in RowKeys : MessagesOf(j)' = MessagesOf(j) /\ CreatesOf(j)' = CreatesOf(j)
           /\ posted'[c.id].rev = c.rev /\ posted'[c.id].late = late
<1>1. c.id \in DOMAIN posted /\ posted[c.id].key = c.key
  BY DEF MessagesOf
<1>2. posted' = [posted EXCEPT ![c.id] = [posted[c.id] EXCEPT !.rev = c.rev, !.late = late]]
  BY DEF Landed
<1>3. PICK msg : msg = [posted[c.id] EXCEPT !.rev = c.rev, !.late = late]
  OBVIOUS
<1>4. /\ msg \in [key: RowKeys, nonce: Nat, rev: Nat, late: BOOLEAN]
      /\ msg.key = c.key /\ msg.nonce = posted[c.id].nonce /\ msg.rev = c.rev /\ msg.late = late
  BY <1>1, <1>3 DEF PlatformOK
<1>5. posted' = [posted EXCEPT ![c.id] = msg]
  BY <1>2, <1>3
<1>6. /\ DOMAIN posted' = DOMAIN posted /\ posted'[c.id] = msg
      /\ \A id \in DOMAIN posted : id # c.id => posted'[id] = posted[id]
  BY <1>1, <1>5
<1>7. \A id \in DOMAIN posted :
         posted'[id].key = posted[id].key /\ posted'[id].nonce = posted[id].nonce
  BY <1>1, <1>4, <1>6
<1>8. ASSUME NEW j \in RowKeys
      PROVE  MessagesOf(j)' = MessagesOf(j) /\ CreatesOf(j)' = CreatesOf(j)
  <2>1. MessagesOf(j)' = MessagesOf(j)
    BY <1>6, <1>7 DEF MessagesOf
  <2>2. CreatesOf(j)' = CreatesOf(j)
    BY DEF CreatesOf
  <2> QED BY <2>1, <2>2
<1>9. PlatformOK'
  <2>1. posted' \in [DOMAIN posted' -> [key: RowKeys, nonce: Nat, rev: Nat, late: BOOLEAN]]
    BY <1>4, <1>5 DEF PlatformOK
  <2>2. FreeId' = FreeId /\ wire' \subseteq wire
    BY <1>6 DEF FreeId
  <2>3. \A d \in wire' : d.id # NoRemote => d.id \in MessagesOf(d.key)'
    BY <1>6, <1>7, <2>2 DEF PlatformOK, MessagesOf
  <2> QED BY <1>6, <2>1, <2>2, <2>3 DEF PlatformOK
<1>10. \A j \in RowKeys : j # c.key => Same(j)
  BY <1>1, <1>6, <1>8 DEF Same, MessagesOf
<1> QED BY <1>4, <1>6, <1>7, <1>8, <1>9, <1>10

(* A call is left on the wire.                                              *)
LEMMA CallWaits ==
    ASSUME PlatformOK, NEW c \in [key: RowKeys, id: Nat, nonce: Nat, rev: Nat],
           c.id # NoRemote => c.id \in MessagesOf(c.key),
           wire' = wire \cup {c}, UNCHANGED posted
    PROVE  /\ PlatformOK'
           /\ \A j \in RowKeys : j # c.key => Same(j)
           /\ \A j \in RowKeys : MessagesOf(j)' = MessagesOf(j)
           /\ c.id # NoRemote => Same(c.key)
           /\ c.id = NoRemote => CreatesOf(c.key)' = CreatesOf(c.key) \cup {c}
<1>1. FreeId' = FreeId /\ \A j : MessagesOf(j)' = MessagesOf(j)
  BY DEF FreeId, MessagesOf
<1>2. PlatformOK'
  <2>1. wire' \subseteq [key: RowKeys, id: Nat, nonce: Nat, rev: Nat]
    BY DEF PlatformOK
  <2>2. \A d \in wire' : d.id # NoRemote => d.id \in MessagesOf(d.key)'
    BY <1>1 DEF PlatformOK
  <2> QED BY <1>1, <2>1, <2>2 DEF PlatformOK
<1>3. \A j \in RowKeys : j # c.key => CreatesOf(j)' = CreatesOf(j)
  BY DEF CreatesOf
<1>4. /\ c.id # NoRemote => CreatesOf(c.key)' = CreatesOf(c.key)
      /\ c.id = NoRemote => CreatesOf(c.key)' = CreatesOf(c.key) \cup {c}
  BY DEF CreatesOf
<1> QED BY <1>1, <1>2, <1>3, <1>4 DEF Same

-----------------------------------------------------------------------------
(* What a step leaves alone.                                                *)

LEMMA SentKept ==
    ASSUME NEW k \in RowKeys, Same(k), epoch'[k] = epoch[k]
    PROVE  /\ SentOnce(k)' <=> SentOnce(k)
           /\ Sent(k)' <=> Sent(k)
BY DEF Same, SentOnce, Sent

LEMMA KnownKept ==
    ASSUME NEW k \in RowKeys, Known(k), Same(k), epoch'[k] = epoch[k],
           k \in DOMAIN deliveries' <=> k \in DOMAIN deliveries,
           k \in DOMAIN deliveries => deliveries'[k] = deliveries[k],
           Calling(k)' => Calling(k)
    PROVE  Known(k)'
<1>1. SentOnce(k)' /\ (Sent(k)' <=> Sent(k))
  BY SentKept DEF Known
<1>2. CASE k \in DOMAIN deliveries
  <2>1. RowKnown(k) /\ deliveries'[k] = deliveries[k]
    BY <1>2 DEF Known
  <2>2. Resolved(deliveries'[k]) => Shows(k, deliveries[k].remote)'
    <3> SUFFICES ASSUME Resolved(deliveries[k]) PROVE Shows(k, deliveries[k].remote)'
      BY <2>1
    <3>1. /\ Shows(k, deliveries[k].remote)
          /\ deliveries[k].remote \in MessagesOf(k)
      BY <2>1 DEF RowKnown, Resolved
    <3>2. posted'[deliveries[k].remote] = posted[deliveries[k].remote]
      BY <3>1 DEF Same
    <3> QED BY <2>1, <3>1, <3>2 DEF Shows
  <2>3. RowKnown(k)'
    BY <1>1, <2>1, <2>2 DEF RowKnown, Same
  <2> QED BY <1>1, <1>2, <2>3 DEF Known
<1>3. CASE k \notin DOMAIN deliveries
  BY <1>1, <1>3 DEF Known, Same
<1> QED BY <1>2, <1>3

(* Only the owner of a row's lane calls for it.                             *)
LEMMA OneCaller ==
    ASSUME CallersInv, NEW k, NEW s \in Routes, lane[s].pc = "call", lane[s].key = k
    PROVE  deliveries[k].route = s
BY DEF CallersInv, Owns, HoldsRow

(* The rows of route s, and what the platform has of them, stay.            *)
RouteKept(s) ==
    /\ \A k \in DOMAIN deliveries :
          deliveries[k].route = s =>
             k \in DOMAIN deliveries' /\ deliveries'[k] = deliveries[k] /\ Same(k)
    /\ \A k \in DOMAIN deliveries' :
          deliveries'[k].route = s => k \in DOMAIN deliveries /\ deliveries[k].route = s

LEMMA HeadKept ==
    ASSUME NEW s, RouteKept(s), NEW k \in DOMAIN deliveries, deliveries[k].route = s, AtHead(k)
    PROVE  AtHead(k)'
<1>1. deliveries'[k] = deliveries[k] /\ k \in DOMAIN deliveries'
  BY DEF RouteKept
<1>2. Unresolved(s)' = Unresolved(s)
  BY DEF Unresolved, RouteKept
<1>3. \A j \in Unresolved(s) : deliveries'[j] = deliveries[j]
  BY DEF Unresolved, RouteKept
<1>4. \A j \in Unresolved(s) : Before(j, k)' <=> Before(j, k)
  BY <1>1, <1>3 DEF Before
<1> QED BY <1>1, <1>2, <1>4 DEF AtHead, IsNext

(* The owner of a lane keeps what it relies on while others move.           *)
LEMMA OwnsKept ==
    ASSUME NEW s \in Routes, Owns(s), lane'[s] = lane[s], serving' = serving,
           RouteKept(s), \A k \in DOMAIN deliveries : RowKnown(k),
           \A m \in DOMAIN inbox :
              inbox[m].route = s /\ inbox[m].state = "admitted" =>
                 /\ m \in DOMAIN inbox' /\ inbox'[m].route = s
                 /\ inbox'[m].state = "admitted"
    PROVE  Owns(s)'
<1>1. HoldsWork(s)'
  BY DEF Owns, HoldsWork
<1>2. HoldsRow(s)'
  <2>1. CASE lane[s].pc \in {"idle", "plan", "turn", "drain"}
    BY <2>1 DEF HoldsRow
  <2>2. CASE lane[s].pc \notin {"idle", "plan", "turn", "drain"}
    <3>1. PICK k : k = lane[s].key
      OBVIOUS
    <3>2. k \in DOMAIN deliveries /\ deliveries[k].route = s
      BY <2>2, <3>1 DEF Owns, HoldsRow
    <3>3. /\ k \in DOMAIN deliveries' /\ deliveries'[k] = deliveries[k]
          /\ AtHead(k) => AtHead(k)'
          /\ Same(k)
      BY <3>2, HeadKept DEF RouteKept
    <3>4. lane[s].pc = "landed" =>
             lane[s].id \in MessagesOf(k)' /\ Shows(k, lane[s].id)'
      BY <3>1, <3>3 DEF Owns, HoldsRow, Same, Shows
    <3>5. lane[s].pc = "edited" => Shows(k, deliveries[k].remote)'
      <4> SUFFICES ASSUME lane[s].pc = "edited" PROVE Shows(k, deliveries[k].remote)'
        OBVIOUS
      <4>1. Shows(k, deliveries[k].remote) /\ deliveries[k].remote # NoRemote
        BY <3>1 DEF Owns, HoldsRow
      <4>2. deliveries[k].remote \in MessagesOf(k)
        BY <3>2, <4>1 DEF RowKnown
      <4> QED BY <3>3, <4>1, <4>2 DEF Same, Shows
    <3> QED BY <3>1, <3>2, <3>3, <3>4, <3>5 DEF Owns, HoldsRow
  <2> QED BY <2>1, <2>2
<1> QED BY <1>1, <1>2 DEF Owns

(* An update of row k.                                                      *)
LEMMA OneRow ==
    ASSUME Inv, NEW k \in DOMAIN deliveries, NEW new, SetRow(k, new)
    PROVE  /\ DOMAIN deliveries' = DOMAIN deliveries /\ deliveries'[k] = new
           /\ \A j \in DOMAIN deliveries : j # k => deliveries'[j] = deliveries[j]
           /\ deliveries[k] \in Row /\ k \in RowKeys
BY DEF SetRow, Inv, TypeOK, RowsOK

(* Messages keep their order as long as rows keep their place.              *)
LEMMA OrderKept ==
    ASSUME InOrder(posted'), epoch \in [RowKeys -> Nat], epoch' \in [RowKeys -> Nat],
           \A k \in RowKeys : epoch[k] <= epoch'[k],
           \A id \in DOMAIN posted' : posted'[id].key \in DOMAIN deliveries /\ posted'[id].key \in RowKeys,
           \A k \in DOMAIN deliveries :
              /\ deliveries'[k].route = deliveries[k].route
              /\ deliveries'[k].seq = deliveries[k].seq
    PROVE  InOrder(posted)'
<1> SUFFICES ASSUME NEW i \in DOMAIN posted', NEW j \in DOMAIN posted',
                    NEW a, NEW b, a = posted'[i].key, b = posted'[j].key,
                    deliveries'[a].route = deliveries'[b].route, Before(a, b)',
                    epoch'[a] = 0, epoch'[b] = 0
             PROVE  i < j
  BY DEF InOrder
<1>1. a \in DOMAIN deliveries /\ b \in DOMAIN deliveries /\ a \in RowKeys /\ b \in RowKeys
  OBVIOUS
<1>2. epoch[a] = 0 /\ epoch[b] = 0
  <2>1. epoch[a] \in Nat /\ epoch[a] <= 0 /\ epoch[b] \in Nat /\ epoch[b] <= 0
    BY <1>1
  <2> QED BY <2>1
<1>3. Before(a, b) /\ deliveries[a].route = deliveries[b].route
  BY <1>1 DEF Before
<1> QED BY <1>2, <1>3 DEF InOrder

(* A step of the owner of a lane at one row.                                *)
LaneFrame(r) ==
    /\ lane' \in [Routes -> Owner]
    /\ \A s \in Routes : s # r => lane'[s] = lane[s]
    /\ UNCHANGED <<epoch, serving>>

RowFrame(k) ==
    /\ UNCHANGED <<conv, inbox>>
    /\ DOMAIN deliveries' = DOMAIN deliveries
    /\ \A j \in DOMAIN deliveries : j # k => deliveries'[j] = deliveries[j]
    /\ deliveries'[k].route = deliveries[k].route
    /\ deliveries'[k].seq = deliveries[k].seq

LEMMA KeysKnown ==
    ASSUME CallersInv, NEW id \in DOMAIN posted
    PROVE  posted[id].key \in RowKeys /\ posted[id].key \in DOMAIN deliveries
<1>1. posted[id].key \in RowKeys
  BY DEF CallersInv, PlatformOK
<1>2. Known(posted[id].key) /\ id \in MessagesOf(posted[id].key)
  BY <1>1 DEF CallersInv, MessagesOf
<1> QED BY <1>1, <1>2 DEF Known

LEMMA OwnerMoves ==
    ASSUME CallersInv, LaneInv', NEW r \in Routes,
           NEW k \in DOMAIN deliveries, deliveries[k].route = r,
           LaneFrame(r), RowFrame(k), PlatformOK',
           \A j \in RowKeys : j # k => Same(j),
           lane'[r].pc = "call" => lane'[r].key = k,
           SentOnce(k)', RowKnown(k)', Owns(r)', InOrder(posted')
    PROVE  CallersInv'
<1>1. LaneInv /\ Inv /\ k \in RowKeys /\ DOMAIN deliveries \subseteq RowKeys
  BY DEF CallersInv, LaneInv, OrderInv, Inv, TypeOK, RowsOK
<1>2. ASSUME NEW j \in RowKeys PROVE Known(j)'
  <2>1. CASE j = k
    BY <2>1 DEF RowFrame, Known
  <2>2. CASE j # k
    <3>1. Calling(j)' => Calling(j)
      BY <2>2 DEF Calling, LaneFrame
    <3>2. Known(j)
      BY DEF CallersInv
    <3> QED BY <2>2, <3>1, <3>2, KnownKept DEF LaneFrame, RowFrame
  <2> QED BY <2>1, <2>2
<1>3. ASSUME NEW s \in Routes PROVE Owns(s)'
  <2>1. CASE s # r
    <3>1. RouteKept(s)
      BY <1>1, <2>1 DEF RouteKept, RowFrame
    <3>2. \A j \in DOMAIN deliveries : RowKnown(j)
      BY <1>1 DEF CallersInv, Known
    <3> QED BY <2>1, <3>1, <3>2, OwnsKept DEF CallersInv, LaneFrame, RowFrame
  <2> QED BY <2>1
<1>4. LaneTyped'
  BY DEF CallersInv, LaneTyped, LaneFrame
<1>5. InOrder(posted)'
  <2>1. \A id \in DOMAIN posted' : posted'[id].key \in DOMAIN deliveries /\ posted'[id].key \in RowKeys
    <3> SUFFICES ASSUME NEW id \in DOMAIN posted'
                 PROVE  posted'[id].key \in DOMAIN deliveries /\ posted'[id].key \in RowKeys
      OBVIOUS
    <3>1. PICK j : j = posted'[id].key
      OBVIOUS
    <3>2. j \in RowKeys /\ id \in MessagesOf(j)'
      BY <3>1 DEF PlatformOK, MessagesOf
    <3>3. Known(j)'
      BY <1>2, <3>2
    <3> QED BY <3>1, <3>2, <3>3 DEF Known, RowFrame
  <2>2. epoch \in [RowKeys -> Nat] /\ epoch' = epoch /\ \A j \in RowKeys : epoch[j] <= epoch'[j]
    BY DEF CallersInv, LaneTyped, LaneFrame
  <2>3. \A j \in DOMAIN deliveries :
           deliveries'[j].route = deliveries[j].route /\ deliveries'[j].seq = deliveries[j].seq
    BY DEF RowFrame
  <2> QED BY <2>1, <2>2, <2>3, OrderKept
<1> QED BY <1>2, <1>3, <1>4, <1>5 DEF CallersInv

(* A step that changes nothing but where the owner of a lane is.            *)
LEMMA LocalMoves ==
    ASSUME CallersInv, NEW r \in Routes, LaneFrame(r), UNCHANGED <<storeVars, posted, wire>>,
           lane'[r].pc # "call", Owns(r)'
    PROVE  CallersInv'
<1>1. LaneInv' /\ DOMAIN deliveries \subseteq RowKeys
  BY NextLane DEF CallersInv, LaneInv, OrderInv, Inv, TypeOK, RowsOK
<1>2. \A j \in RowKeys : Same(j)
  BY SameAll
<1>3. ASSUME NEW j \in RowKeys PROVE Known(j)'
  <2>1. Calling(j)' => Calling(j)
    BY DEF Calling, LaneFrame
  <2>2. Known(j)
    BY DEF CallersInv
  <2> QED BY <1>2, <2>1, <2>2, KnownKept DEF LaneFrame, storeVars
<1>4. ASSUME NEW s \in Routes, s # r PROVE Owns(s)'
  <2>1. RouteKept(s)
    BY <1>1, <1>2 DEF RouteKept, storeVars
  <2>2. \A j \in DOMAIN deliveries : RowKnown(j)
    BY <1>1 DEF CallersInv, Known
  <2> QED BY <1>4, <2>1, <2>2, OwnsKept DEF CallersInv, LaneFrame, storeVars
<1>5. LaneTyped' /\ PlatformOK' /\ InOrder(posted)'
  BY DEF CallersInv, LaneTyped, LaneFrame, PlatformOK, FreeId, MessagesOf, InOrder, Before, storeVars
<1> QED BY <1>1, <1>3, <1>4, <1>5 DEF CallersInv

LEMMA Goes ==
    ASSUME lane \in [Routes -> Owner], NEW r \in Routes, NEW pc \in Pcs, Goto(r, pc)
    PROVE  /\ lane' \in [Routes -> Owner]
           /\ \A s \in Routes : s # r => lane'[s] = lane[s]
           /\ lane'[r].pc = pc /\ lane'[r].work = lane[r].work
           /\ lane'[r].key = lane[r].key /\ lane'[r].id = lane[r].id
BY DEF Goto, Owner

(* After a row the owner relies on its work at most.                        *)
LEMMA OwnsResting ==
    ASSUME NEW r \in Routes, Owns(r), serving, UNCHANGED <<inbox, serving>>,
           lane'[r].pc \in {"idle", "turn", "drain"},
           lane'[r].work \in {lane[r].work, NoMsg},
           lane'[r].pc = "turn" => lane'[r].work # NoMsg
    PROVE  Owns(r)'
BY DEF Owns, HoldsWork, HoldsRow

(* What a route's owner is at a row for.                                    *)
LEMMA AtRow ==
    ASSUME CallersInv, NEW r \in Routes,
           lane[r].pc \in {"next", "live", "create", "call", "landed", "reconcile", "edit", "edited"}
    PROVE  /\ Key(r) \in DOMAIN deliveries /\ RowOf(r).route = r /\ RowOf(r) \in Row
           /\ Key(r) \in RowKeys /\ RowKnown(Key(r)) /\ SentOnce(Key(r))
           /\ lane[r].pc \notin {"next", "live", "reconcile"} => AtHead(Key(r))
<1>1. Owns(r)
  BY DEF CallersInv
<1>2. Key(r) \in DOMAIN deliveries /\ RowOf(r).route = r
      /\ (lane[r].pc \notin {"next", "live", "reconcile"} => AtHead(Key(r)))
  BY <1>1 DEF Owns, HoldsRow, Key, RowOf
<1>3. Key(r) \in RowKeys /\ RowOf(r) \in Row
  BY <1>2 DEF CallersInv, LaneInv, OrderInv, Inv, TypeOK, RowsOK, RowOf
<1>4. Known(Key(r))
  BY <1>3 DEF CallersInv
<1> QED BY <1>2, <1>3, <1>4 DEF Known

LEMMA DoneRests ==
    ASSUME CallersInv, NEW r \in Routes, serving, Done(r) \/ Parks(r), UNCHANGED <<epoch, serving, inbox>>
    PROVE  LaneFrame(r) /\ lane'[r].pc \in {"idle", "turn", "drain"} /\ Owns(r)'
<1>1. PICK pc \in {"idle", "turn", "drain"} : Goto(r, pc) /\ (pc = "turn" => lane[r].work # NoMsg)
  BY DEF Done, Parks
<1>2. lane \in [Routes -> Owner] /\ pc \in Pcs /\ Owns(r)
  BY DEF CallersInv, LaneTyped, Pcs
<1> QED BY <1>1, <1>2, Goes, OwnsResting DEF LaneFrame

-----------------------------------------------------------------------------
(* Steps that change neither the database nor the platform.                 *)
LocalStep(r) ==
    \/ \E m \in Msgs : BeginTurn(r, m)
    \/ SkipPreview(r) \/ CheckNext(r) \/ PersistFails(r) \/ PersistEditFails(r)
    \/ BeginDrain(r) \/ EndDrain(r)
    \/ \E k \in DOMAIN deliveries : TakeRow(r, k)

(* A row that is next and not blocked is pending.                           *)
LEMMA NextPending ==
    ASSUME CallersInv, NEW k \in DOMAIN deliveries, IsNext(k), ~Blocked(deliveries[k])
    PROVE  AtHead(k)
<1>1. deliveries[k] \in Row /\ k \in RowKeys
  BY DEF CallersInv, LaneInv, OrderInv, Inv, TypeOK, RowsOK
<1>2. RowKnown(k)
  BY <1>1 DEF CallersInv, Known
<1>3. ~Resolved(deliveries[k])
  BY DEF IsNext, Unresolved
<1> QED BY <1>1, <1>2, <1>3 DEF AtHead, Blocked, Resolved, RowKnown, Row, Statuses

LEMMA LocalSteps ==
    ASSUME CallersInv, NEW r \in Routes, LocalStep(r)
    PROVE  CallersInv' /\ UNCHANGED storeVars
<1>1. /\ UNCHANGED <<storeVars, posted, wire, epoch, serving>>
      /\ serving
  BY DEF LocalStep, BeginTurn, SkipPreview, CheckNext, PersistFails, PersistEditFails, BeginDrain,
         EndDrain, TakeRow, Quiet, Stays, storeVars, At
<1>2. lane \in [Routes -> Owner] /\ Owns(r)
  BY DEF CallersInv, LaneTyped
<1>3. ASSUME LaneFrame(r), lane'[r].pc # "call", Owns(r)' PROVE CallersInv' /\ UNCHANGED storeVars
  BY <1>1, <1>3, LocalMoves
<1>4. \A k \in DOMAIN deliveries : AtHead(k) => AtHead(k)'
  BY <1>1 DEF AtHead, IsNext, Unresolved, Before, storeVars
<1>5. ASSUME NEW m \in Msgs, BeginTurn(r, m) PROVE CallersInv' /\ UNCHANGED storeVars
  <2>1. PICK o : o = [Idle EXCEPT !.pc = "plan", !.work = m]
    OBVIOUS
  <2>2. Idle \in Owner /\ o \in Owner /\ o.pc = "plan" /\ o.work = m
    BY <2>1 DEF Idle, Owner, Pcs
  <2>3. lane' = [lane EXCEPT ![r] = o] /\ lane'[r] = o /\ LaneFrame(r)
    BY <1>1, <1>2, <1>5, <2>1, <2>2 DEF BeginTurn, LaneFrame
  <2>4. m \in DOMAIN inbox /\ inbox[m].route = r /\ inbox[m].state = "admitted"
    BY <1>5 DEF BeginTurn, ItemsIn
  <2>5. Owns(r)' /\ lane'[r].pc # "call"
    BY <1>1, <2>2, <2>3, <2>4, NoneAssumption DEF Owns, HoldsWork, HoldsRow, storeVars
  <2> QED BY <1>3, <2>3, <2>5
<1>6. CASE SkipPreview(r)
  <2>1. Goto(r, "turn") /\ "turn" \in Pcs /\ lane[r].pc \in {"plan", "next"}
    BY <1>6 DEF SkipPreview, Pcs
  <2>2. /\ LaneFrame(r) /\ lane'[r].pc = "turn" /\ lane'[r].work = lane[r].work
    BY <1>1, <1>2, <2>1, Goes DEF LaneFrame
  <2>3. Owns(r)'
    BY <1>1, <1>2, <2>1, <2>2, OwnsResting DEF Owns, HoldsWork, storeVars
  <2> QED BY <1>3, <2>2, <2>3
<1>7. CASE CheckNext(r)
  <2>1. lane[r].pc = "next"
    BY <1>7 DEF CheckNext, At
  <2>2. PICK k \in DOMAIN deliveries : k = Key(r) /\ deliveries[k].route = r
    BY <2>1, AtRow DEF RowOf
  <2>3. PICK pc \in {"turn", "create", "live"} :
           /\ Goto(r, pc)
           /\ pc = "turn" \/ (IsNext(k) /\ ~Blocked(deliveries[k]))
           /\ pc = "create" => deliveries[k].remote = NoRemote
           /\ pc = "live" => deliveries[k].remote # NoRemote
    BY <1>7, <2>2 DEF CheckNext, RowOf
  <2>4. /\ LaneFrame(r) /\ lane'[r].pc = pc /\ lane'[r].work = lane[r].work /\ lane'[r].key = k
    BY <1>1, <1>2, <2>2, <2>3, Goes DEF LaneFrame, Pcs, Key
  <2>5. pc = "create" => AtHead(k)'
    BY <1>4, <2>3, NextPending
  <2>6. Owns(r)'
    BY <1>1, <1>2, <2>1, <2>2, <2>3, <2>4, <2>5 DEF Owns, HoldsWork, HoldsRow, storeVars
  <2> QED BY <1>3, <2>3, <2>4, <2>6
<1>8. CASE PersistFails(r)
  <2>1. PICK pc \in {"turn", "idle"} :
           /\ lane' = [lane EXCEPT ![r].id = NoRemote, ![r].pc = pc]
           /\ pc = "turn" => lane[r].work # NoMsg
    BY <1>8 DEF PersistFails
  <2>2. /\ LaneFrame(r) /\ lane'[r].pc = pc /\ lane'[r].work = lane[r].work
    BY <1>1, <1>2, <2>1, ZenonT(30) DEF LaneFrame, Owner, Pcs
  <2>3. Owns(r)'
    BY <1>1, <1>2, <2>1, <2>2, OwnsResting DEF storeVars
  <2> QED BY <1>3, <2>2, <2>3
<1>9. CASE PersistEditFails(r)
  <2>1. LaneFrame(r) /\ lane'[r].pc # "call" /\ Owns(r)'
    BY <1>1, <1>9, DoneRests DEF PersistEditFails, storeVars
  <2> QED BY <1>3, <2>1
<1>10. CASE BeginDrain(r)
  <2>1. Goto(r, "drain") /\ "drain" \in Pcs
    BY <1>10 DEF BeginDrain, Pcs
  <2>2. /\ LaneFrame(r) /\ lane'[r].pc = "drain" /\ lane'[r].work = lane[r].work
    BY <1>1, <1>2, <2>1, Goes DEF LaneFrame
  <2>3. Owns(r)'
    BY <1>1, <1>2, <2>2, OwnsResting DEF storeVars
  <2> QED BY <1>3, <2>2, <2>3
<1>11. CASE EndDrain(r)
  <2>1. lane' = [lane EXCEPT ![r] = Idle] /\ Idle \in Owner /\ Idle.pc = "idle" /\ Idle.work = NoMsg
    BY <1>11 DEF EndDrain, Idle, Owner, Pcs
  <2>2. LaneFrame(r) /\ lane'[r] = Idle
    BY <1>1, <1>2, <2>1 DEF LaneFrame
  <2>3. Owns(r)'
    BY <1>1, <1>2, <2>1, <2>2, OwnsResting DEF storeVars
  <2> QED BY <1>3, <2>1, <2>2, <2>3
<1>12. ASSUME NEW k \in DOMAIN deliveries, TakeRow(r, k) PROVE CallersInv' /\ UNCHANGED storeVars
  <2>1. PICK pc \in {"create", "edit"} :
           /\ lane' = [lane EXCEPT ![r].key = k, ![r].pc = pc]
           /\ pc = "create" <=> deliveries[k].remote = NoRemote
    BY <1>12 DEF TakeRow
  <2>2. k \in RowKeys
    BY DEF CallersInv, LaneInv, OrderInv, Inv, TypeOK, RowsOK
  <2>3. /\ LaneFrame(r) /\ lane'[r].pc = pc /\ lane'[r].work = lane[r].work /\ lane'[r].key = k
    BY <1>1, <1>2, <2>1, <2>2 DEF LaneFrame, Owner, Pcs
  <2>4. AtHead(k)' /\ deliveries[k].route = r
    BY <1>4, <1>12 DEF TakeRow
  <2>5. Owns(r)'
    BY <1>1, <1>2, <2>1, <2>3, <2>4 DEF Owns, HoldsWork, HoldsRow, storeVars
  <2> QED BY <1>3, <2>3, <2>5
<1> QED BY <1>5, <1>6, <1>7, <1>8, <1>9, <1>10, <1>11, <1>12 DEF LocalStep

-----------------------------------------------------------------------------
(* Transactions on the row the owner is at.                                 *)

LEMMA NotCalling ==
    ASSUME CallersInv, NEW r \in Routes, NEW k \in DOMAIN deliveries, deliveries[k].route = r,
           LaneFrame(r), lane'[r].pc # "call"
    PROVE  ~Calling(k)'
<1> SUFFICES ASSUME NEW s \in Routes, lane'[s].pc = "call", lane'[s].key = k PROVE FALSE
  BY DEF Calling
<1>1. s # r /\ lane[s].pc = "call" /\ lane[s].key = k
  BY DEF LaneFrame
<1> QED BY <1>1, OneCaller

(* What a new row may be while the platform is left alone.                  *)
RowFits(k, row) ==
    /\ row.status = "acked" => row.acked = row.desired /\ row.remote # NoRemote
    /\ row.nonce \in {NoNonce, epoch[k] + 1}
    /\ row.op = "create_intent" => row.remote = NoRemote /\ row.nonce = epoch[k] + 1
    /\ row.remote # NoRemote => row.remote \in MessagesOf(k)
    /\ Sent(k) => row.remote # NoRemote \/ row.op = "create_intent"
    /\ Resolved(row) => posted[row.remote].late \/ posted[row.remote].rev = row.desired

LEMMA RowTakes ==
    ASSUME CallersInv, NEW r \in Routes, NEW k \in DOMAIN deliveries, deliveries[k].route = r,
           LaneFrame(r), UNCHANGED <<posted, wire>>,
           LaneStep(k) \/ ResolveStep(k),
           NEW new, SetRow(k, new), RowFits(k, new),
           lane'[r].pc = "call" => lane'[r].key = k /\ ~Sent(k),
           Owns(r)'
    PROVE  CallersInv' /\ [Next]_storeVars
<1>1. Inv /\ LaneInv /\ PlatformOK /\ InOrder(posted)
  BY DEF CallersInv, LaneInv, OrderInv
<1>2. [Next]_storeVars /\ LaneInv'
  BY <1>1, NextLane DEF Next
<1>3. /\ k \in RowKeys /\ deliveries'[k] = new /\ DOMAIN deliveries' = DOMAIN deliveries
      /\ \A j \in DOMAIN deliveries : j # k => deliveries'[j] = deliveries[j]
  BY <1>1, OneRow
<1>4. RowFrame(k)
  BY <1>1, <1>3, RowStepFrame DEF RowFrame, RowStep
<1>5. \A j \in RowKeys : Same(j)
  BY SameAll
<1>6. SentOnce(k)' /\ (Sent(k)' <=> Sent(k)) /\ MessagesOf(k)' = MessagesOf(k)
  <2>1. Known(k) /\ Same(k) /\ epoch'[k] = epoch[k]
    BY <1>3, <1>5 DEF CallersInv, LaneFrame
  <2> QED BY <1>3, <2>1, SentKept DEF Known, Same
<1>7. RowKnown(k)'
  <2>1. Sent(k) => ~Calling(k)'
    BY NotCalling
  <2>2. Resolved(new) => Shows(k, new.remote)'
    BY <1>3 DEF RowFits, Shows
  <2> QED BY <1>3, <1>6, <2>1, <2>2 DEF RowFits, RowKnown, LaneFrame
<1>8. PlatformOK'
  BY <1>1 DEF PlatformOK, FreeId, MessagesOf
<1> QED BY <1>1, <1>2, <1>4, <1>5, <1>6, <1>7, <1>8, OwnerMoves

(* A row keeps its place in the lane while it waits.                        *)
LEMMA HeadAgain ==
    ASSUME NEW k \in DOMAIN deliveries, AtHead(k), RowFrame(k),
           deliveries'[k].status = "pending"
    PROVE  AtHead(k)'
<1>1. PICK r : r = deliveries[k].route
  OBVIOUS
<1>2. k \in Unresolved(r)' /\ deliveries'[k].route = r
  BY <1>1 DEF RowFrame, Unresolved, Resolved
<1>3. ASSUME NEW j \in Unresolved(r)' PROVE ~Before(j, k)'
  <2>1. j \in DOMAIN deliveries
    BY DEF RowFrame, Unresolved
  <2>2. CASE j = k
    <3>1. ~Before(k, k)
      BY DEF AtHead, IsNext
    <3> QED BY <2>2, <3>1 DEF Before, RowFrame
  <2>3. CASE j # k
    <3>1. j \in Unresolved(r)
      BY <2>1, <2>3 DEF RowFrame, Unresolved
    <3>2. ~Before(j, k)
      BY <1>1, <3>1 DEF AtHead, IsNext
    <3> QED BY <2>1, <2>3, <3>2 DEF Before, RowFrame
  <2> QED BY <2>2, <2>3
<1> QED BY <1>2, <1>3 DEF AtHead, IsNext

LEMMA FailedFits ==
    ASSUME NEW k \in DOMAIN deliveries, RowKnown(k), deliveries[k] \in Row,
           NEW status \in {"failed", "ambiguous_create"}
    PROVE  RowFits(k, [deliveries[k] EXCEPT !.status = status])
<1>1. PICK row : row = deliveries[k]
  OBVIOUS
<1>2. PICK new : new = [row EXCEPT !.status = status]
  OBVIOUS
<1>3. /\ new.status = status /\ new.nonce = row.nonce /\ new.op = row.op
      /\ new.remote = row.remote
  BY <1>1, <1>2 DEF Row
<1>4. ~Resolved(new)
  BY <1>3 DEF Resolved
<1>5. RowFits(k, new)
  BY <1>1, <1>3, <1>4 DEF RowFits, RowKnown
<1> QED BY <1>1, <1>2, <1>5

(* The owner gives up on a row, or leaves it to the operator.               *)
LEMMA GivesUp ==
    ASSUME CallersInv, NEW r \in Routes,
           (\E k \in DOMAIN deliveries : RefuseRow(r, k)) \/ GiveUpRow(r) \/ LeftoverIntent(r)
    PROVE  CallersInv' /\ [Next]_storeVars
<1>1. lane \in [Routes -> Owner] /\ Owns(r)
  BY DEF CallersInv, LaneTyped
<1>2. ASSUME NEW k \in DOMAIN deliveries, deliveries[k].route = r, LaneFrame(r),
             UNCHANGED <<conv, inbox, posted, wire>>, AtHead(k), MarkFailed(k),
             lane'[r].pc # "call", Owns(r)'
      PROVE  CallersInv' /\ [Next]_storeVars
  <2>1. PICK new : new = [deliveries[k] EXCEPT !.status = "failed"]
    OBVIOUS
  <2>2. k \in RowKeys /\ deliveries[k] \in Row
    BY DEF CallersInv, LaneInv, OrderInv, Inv, TypeOK, RowsOK
  <2>3. RowKnown(k)
    BY <2>2 DEF CallersInv, Known
  <2>4. SetRow(k, new) /\ RowFits(k, new)
    BY <1>2, <2>1, <2>2, <2>3, FailedFits DEF MarkFailed
  <2>5. LaneStep(k)
    BY <1>2 DEF LaneStep, GiveUp
  <2> QED BY <1>2, <2>4, <2>5, RowTakes
<1>3. ASSUME NEW k \in DOMAIN deliveries, RefuseRow(r, k) PROVE CallersInv' /\ [Next]_storeVars
  <2>1. /\ lane' = [lane EXCEPT ![r] = Idle] /\ AtHead(k) /\ deliveries[k].route = r
        /\ MarkFailed(k) /\ UNCHANGED <<conv, inbox, posted, wire, epoch, serving>> /\ serving
    BY <1>3 DEF RefuseRow, Quiet, Stays, At
  <2>2. Idle \in Owner /\ Idle.pc = "idle" /\ Idle.work = NoMsg
    BY DEF Idle, Owner, Pcs
  <2>3. LaneFrame(r) /\ lane'[r] = Idle
    BY <1>1, <2>1, <2>2 DEF LaneFrame
  <2>4. Owns(r)'
    BY <1>1, <2>1, <2>2, <2>3, OwnsResting
  <2> QED BY <1>2, <2>1, <2>2, <2>3, <2>4
<1>4. CASE GiveUpRow(r)
  <2>1. PICK k : k = Key(r)
    OBVIOUS
  <2>2. /\ k \in DOMAIN deliveries /\ deliveries[k].route = r /\ AtHead(k)
    BY <1>4, <2>1, AtRow DEF GiveUpRow, RowOf
  <2>3. /\ MarkFailed(k) /\ Done(r) /\ serving
        /\ UNCHANGED <<conv, inbox, posted, wire, epoch, serving>>
    BY <1>4, <2>1 DEF GiveUpRow, Quiet, Stays
  <2>4. LaneFrame(r) /\ lane'[r].pc # "call" /\ Owns(r)'
    BY <2>3, DoneRests
  <2> QED BY <1>2, <2>2, <2>3, <2>4
<1>5. CASE LeftoverIntent(r)
  <2>1. PICK k : k = Key(r)
    OBVIOUS
  <2>2. /\ k \in DOMAIN deliveries /\ deliveries[k].route = r /\ AtHead(k)
        /\ k \in RowKeys /\ deliveries[k] \in Row /\ RowKnown(k)
    BY <1>5, <2>1, AtRow DEF LeftoverIntent, RowOf, At
  <2>3. /\ MarkAmbiguous(k) /\ Goto(r, "reconcile") /\ serving /\ lane[r].pc = "create"
        /\ deliveries[k].op = "create_intent"
        /\ UNCHANGED <<conv, inbox, posted, wire, epoch, serving>>
    BY <1>5, <2>1 DEF LeftoverIntent, Quiet, Stays, At, RowOf
  <2>4. PICK new : new = [deliveries[k] EXCEPT !.status = "ambiguous_create"]
    OBVIOUS
  <2>5. SetRow(k, new) /\ RowFits(k, new)
    BY <2>2, <2>3, <2>4, FailedFits DEF MarkAmbiguous
  <2>6. LaneStep(k)
    BY <2>2, <2>3 DEF LaneStep, CreateUnknown, InFlight
  <2>7. /\ LaneFrame(r) /\ lane'[r].pc = "reconcile" /\ lane'[r].work = lane[r].work
        /\ lane'[r].key = k
    BY <1>1, <2>1, <2>3, Goes DEF LaneFrame, Pcs, Key
  <2>8. /\ DOMAIN deliveries' = DOMAIN deliveries /\ deliveries'[k] = new /\ new.route = r
    BY <2>2, <2>4, <2>5 DEF SetRow, CallersInv, LaneInv, OrderInv, Inv, TypeOK, RowsOK, Row
  <2>9. Owns(r)'
    BY <1>1, <2>2, <2>3, <2>7, <2>8 DEF Owns, HoldsWork, HoldsRow
  <2> QED BY <2>2, <2>3, <2>5, <2>6, <2>7, <2>9, RowTakes
<1> QED BY <1>3, <1>4, <1>5

(* The intent is written before the create is called: nothing was sent      *)
(* under its nonce.                                                         *)
LEMMA Intends ==
    ASSUME CallersInv, NEW r \in Routes, RecordIntent(r)
    PROVE  CallersInv' /\ [Next]_storeVars
<1>1. lane \in [Routes -> Owner] /\ Owns(r) /\ Inv
  BY DEF CallersInv, LaneTyped, LaneInv, OrderInv
<1>2. PICK k : k = Key(r)
  OBVIOUS
<1>3. /\ k \in DOMAIN deliveries /\ deliveries[k].route = r /\ AtHead(k)
      /\ k \in RowKeys /\ deliveries[k] \in Row /\ RowKnown(k)
  BY <1>2, AtRow DEF RecordIntent, RowOf, At
<1>4. /\ MarkCreateIntent(k, epoch[k] + 1) /\ Goto(r, "call") /\ serving /\ lane[r].pc = "create"
      /\ ~Exhausted(deliveries[k], FALSE) /\ deliveries[k].op # "create_intent"
      /\ epoch[k] + 1 \in Nonces
      /\ UNCHANGED <<conv, inbox, posted, wire, epoch, serving>>
  BY <1>2 DEF RecordIntent, Quiet, Stays, At, RowOf
<1>5. PICK row : row = deliveries[k]
  OBVIOUS
<1>6. PICK nonce : nonce = IF row.nonce = NoNonce THEN epoch[k] + 1 ELSE row.nonce
  OBVIOUS
<1>7. PICK new : new = [row EXCEPT !.op = "create_intent", !.nonce = nonce,
                                   !.attempts = row.attempts + 1]
  OBVIOUS
<1>8. SetRow(k, new) /\ row.remote = NoRemote
  BY <1>4, <1>5, <1>6, <1>7 DEF MarkCreateIntent
<1>9. nonce = epoch[k] + 1
  BY <1>3, <1>5, <1>6 DEF RowKnown
<1>10. /\ new.op = "create_intent" /\ new.nonce = nonce /\ new.remote = row.remote
       /\ new.status = row.status /\ new.acked = row.acked /\ new.desired = row.desired
       /\ new.route = r /\ new.seq = row.seq /\ row.status = "pending"
  BY <1>3, <1>5, <1>7 DEF Row, AtHead
<1>11. ~Sent(k)
  BY <1>3, <1>4, <1>5, <1>8 DEF RowKnown
<1>12. RowFits(k, new)
  BY <1>8, <1>9, <1>10 DEF RowFits, Resolved
<1>13. LaneStep(k)
  <2>1. CanAttempt(k) /\ ~InFlight(k)
    <3>1. deliveries[k].attempts \in Nat
      BY <1>3 DEF Row
    <3> QED BY <1>3, <1>4, <3>1, LimitsAssumption DEF CanAttempt, InFlight, Exhausted
  <2> QED BY <1>4, <2>1 DEF LaneStep, IntendCreate
<1>14. /\ LaneFrame(r) /\ lane'[r].pc = "call" /\ lane'[r].work = lane[r].work /\ lane'[r].key = k
  BY <1>1, <1>2, <1>4, Goes DEF LaneFrame, Pcs, Key
<1>15. /\ RowFrame(k) /\ deliveries'[k] = new
  BY <1>1, <1>3, <1>4, <1>5, <1>8, <1>10, OneRow DEF RowFrame
<1>16. AtHead(k)'
  BY <1>3, <1>10, <1>15, HeadAgain
<1>17. Owns(r)'
  BY <1>1, <1>3, <1>4, <1>10, <1>14, <1>15, <1>16 DEF Owns, HoldsWork, HoldsRow, RowFrame
<1> QED BY <1>3, <1>4, <1>8, <1>11, <1>12, <1>13, <1>14, <1>17, RowTakes

(* A definite answer is recorded.                                           *)
LEMMA AgainFits ==
    ASSUME NEW k \in DOMAIN deliveries, RowKnown(k), deliveries[k] \in Row, AtHead(k),
           deliveries[k].remote = NoRemote => ~Sent(k),
           NEW new, new = PlannedAgain(deliveries[k])
                    \/ new = [PlannedAgain(deliveries[k]) EXCEPT !.attempts = @ + 1]
    PROVE  RowFits(k, new)
<1>1. PICK row : row = deliveries[k]
  OBVIOUS
<1>2. PICK op : op = IF row.remote = NoRemote THEN "planned" ELSE row.op
  OBVIOUS
<1>3. PICK again : again = [row EXCEPT !.op = op]
  OBVIOUS
<1>4. /\ again.op = op /\ again.nonce = row.nonce /\ again.status = row.status
      /\ again.remote = row.remote /\ again.acked = row.acked /\ again.desired = row.desired
      /\ again \in Row
  BY <1>1, <1>2, <1>3 DEF Row, Ops
<1>5. new = again \/ new = [again EXCEPT !.attempts = again.attempts + 1]
  BY <1>1, <1>2, <1>3 DEF PlannedAgain
<1>6. /\ new.op = op /\ new.nonce = row.nonce /\ new.status = row.status
      /\ new.remote = row.remote /\ new.acked = row.acked /\ new.desired = row.desired
  BY <1>4, <1>5 DEF Row
<1>7. row.status = "pending"
  BY <1>1 DEF AtHead
<1> QED BY <1>1, <1>2, <1>6, <1>7 DEF RowFits, RowKnown, Resolved

(* A refused create was not sent: CreateFails.                              *)
LEMMA CreateRefuses ==
    ASSUME CallersInv, NEW r \in Routes, CreateFails(r)
    PROVE  CallersInv' /\ [Next]_storeVars
<1>1. lane \in [Routes -> Owner] /\ Owns(r)
  BY DEF CallersInv, LaneTyped
<1>2. PICK k : k = Key(r)
  OBVIOUS
<1>3. /\ k \in DOMAIN deliveries /\ deliveries[k].route = r /\ AtHead(k)
      /\ k \in RowKeys /\ deliveries[k] \in Row /\ RowKnown(k)
      /\ lane[r].pc = "call" /\ lane[r].key = k /\ serving
  BY <1>2, AtRow DEF CreateFails, RowOf, At, Key
<1>4. /\ MarkRetryAt(k) \/ MarkFailed(k)
      /\ Done(r)
      /\ UNCHANGED <<conv, inbox, posted, wire, epoch, serving>>
  BY <1>2 DEF CreateFails, Quiet, Stays
<1>5. LaneFrame(r) /\ lane'[r].pc # "call" /\ Owns(r)'
  BY <1>3, <1>4, DoneRests
<1>6. deliveries[k].op = "create_intent" /\ deliveries[k].remote = NoRemote /\ ~Sent(k)
  BY <1>1, <1>3 DEF Owns, HoldsRow, RowKnown, Calling
<1>7. CASE MarkRetryAt(k)
  <2>1. PICK new : new = PlannedAgain(deliveries[k])
    OBVIOUS
  <2>2. SetRow(k, new) /\ RowFits(k, new)
    BY <1>3, <1>6, <1>7, <2>1, AgainFits DEF MarkRetryAt
  <2>3. LaneStep(k)
    BY <1>3, <1>4, <1>6, <1>7 DEF LaneStep, CreateRefused, InFlight
  <2> QED BY <1>3, <1>4, <1>5, <2>2, <2>3, RowTakes
<1>8. CASE MarkFailed(k)
  <2>1. PICK new : new = [deliveries[k] EXCEPT !.status = "failed"]
    OBVIOUS
  <2>2. SetRow(k, new) /\ RowFits(k, new)
    BY <1>3, <1>8, <2>1, FailedFits DEF MarkFailed
  <2>3. LaneStep(k)
    BY <1>3, <1>4, <1>8 DEF LaneStep, GiveUp
  <2> QED BY <1>3, <1>4, <1>5, <2>2, <2>3, RowTakes
<1> QED BY <1>4, <1>7, <1>8

(* A refused edit: the row keeps its message.                               *)
LEMMA EditRefuses ==
    ASSUME CallersInv, NEW r \in Routes, EditFails(r)
    PROVE  CallersInv' /\ [Next]_storeVars
<1>1. lane \in [Routes -> Owner] /\ Owns(r)
  BY DEF CallersInv, LaneTyped
<1>2. PICK k : k = Key(r)
  OBVIOUS
<1>3. /\ k \in DOMAIN deliveries /\ deliveries[k].route = r /\ AtHead(k)
      /\ k \in RowKeys /\ deliveries[k] \in Row /\ RowKnown(k)
      /\ lane[r].pc = "edit" /\ lane[r].key = k /\ serving
  BY <1>2, AtRow DEF EditFails, RowOf, At, Key
<1>4. /\ MarkAttempt(k) \/ MarkFailed(k)
      /\ ~Exhausted(deliveries[k], FALSE)
      /\ Done(r)
      /\ UNCHANGED <<conv, inbox, posted, wire, epoch, serving>>
  BY <1>2 DEF EditFails, Quiet, Stays, RowOf
<1>5. LaneFrame(r) /\ lane'[r].pc # "call" /\ Owns(r)'
  BY <1>3, <1>4, DoneRests
<1>6. deliveries[k].remote # NoRemote
  BY <1>1, <1>3 DEF Owns, HoldsRow
<1>7. CASE MarkAttempt(k)
  <2>1. PICK new : new = [PlannedAgain(deliveries[k]) EXCEPT !.attempts = @ + 1]
    OBVIOUS
  <2>2. SetRow(k, new) /\ RowFits(k, new)
    BY <1>3, <1>6, <1>7, <2>1, AgainFits DEF MarkAttempt
  <2>3. CanAttempt(k)
    BY <1>3, <1>4, LimitsAssumption DEF CanAttempt, Exhausted, Row
  <2>4. LaneStep(k)
    BY <1>4, <1>6, <1>7, <2>3 DEF LaneStep, EditRefused
  <2> QED BY <1>3, <1>4, <1>5, <2>2, <2>4, RowTakes
<1>8. CASE MarkFailed(k)
  <2>1. PICK new : new = [deliveries[k] EXCEPT !.status = "failed"]
    OBVIOUS
  <2>2. SetRow(k, new) /\ RowFits(k, new)
    BY <1>3, <1>8, <2>1, FailedFits DEF MarkFailed
  <2>3. LaneStep(k)
    BY <1>3, <1>4, <1>8 DEF LaneStep, GiveUp
  <2> QED BY <1>3, <1>4, <1>5, <2>2, <2>3, RowTakes
<1> QED BY <1>4, <1>7, <1>8

(* An acknowledgement of the message the row has, which shows what the row  *)
(* wants.                                                                   *)
LEMMA AckFits ==
    ASSUME NEW k \in DOMAIN deliveries, RowKnown(k), deliveries[k] \in Row,
           NEW id \in MessagesOf(k), id # NoRemote, Shows(k, id),
           NEW new, new = AckedRow(deliveries[k], id, deliveries[k].desired)
    PROVE  RowFits(k, new) /\ new.route = deliveries[k].route /\ new.remote = id
<1>1. PICK row : row = deliveries[k]
  OBVIOUS
<1>2. PICK text : text = (row.text /\ row.desired # row.desired)
  OBVIOUS
<1>3. /\ new.acked = row.desired /\ new.desired = row.desired /\ new.remote = id
      /\ new.status = "acked" /\ new.op = "acked" /\ new.nonce = row.nonce
      /\ new.route = row.route
  BY <1>1 DEF AckedRow, Row
<1> QED BY <1>1, <1>3 DEF RowFits, RowKnown, Shows

LEMMA Acknowledges ==
    ASSUME CallersInv, NEW r \in Routes, PersistCreated(r) \/ PersistEdited(r)
    PROVE  CallersInv' /\ [Next]_storeVars
<1>1. lane \in [Routes -> Owner] /\ Owns(r) /\ Inv
  BY DEF CallersInv, LaneTyped, LaneInv, OrderInv
<1>2. PICK k : k = Key(r)
  OBVIOUS
<1>3. /\ k \in DOMAIN deliveries /\ deliveries[k].route = r /\ AtHead(k)
      /\ k \in RowKeys /\ deliveries[k] \in Row /\ RowKnown(k)
      /\ lane[r].pc \in {"landed", "edited"} /\ lane[r].key = k /\ serving
  BY <1>2, AtRow DEF PersistCreated, PersistEdited, RowOf, At, Key
<1>4. UNCHANGED <<conv, inbox, posted, wire, epoch, serving>>
  BY DEF PersistCreated, PersistEdited, Quiet, Stays
<1>5. deliveries[k].desired \in Acknowledgeable(k)
  BY DEF Acknowledgeable
<1>6. CASE PersistCreated(r)
  <2>1. PICK id : id = lane[r].id
    OBVIOUS
  <2>2. PICK pc \in {"live", "drain"} :
           /\ lane' = [lane EXCEPT ![r].id = NoRemote, ![r].pc = pc]
           /\ pc = "live" => lane[r].work # NoMsg
    BY <1>6 DEF PersistCreated
  <2>3. /\ LaneFrame(r) /\ lane'[r].pc = pc /\ lane'[r].work = lane[r].work /\ lane'[r].key = k
    BY <1>1, <1>3, <1>4, <2>2 DEF LaneFrame, Owner, Pcs
  <2>4. /\ MarkCreated(k, id, deliveries[k].desired) /\ lane[r].pc = "landed"
    BY <1>2, <1>6, <2>1 DEF PersistCreated, At, RowOf
  <2>5. id \in MessagesOf(k) /\ Shows(k, id) /\ deliveries[k].op = "create_intent"
    BY <1>1, <1>3, <2>1, <2>4 DEF Owns, HoldsRow
  <2>6. id \in RemoteIds /\ id # NoRemote
    BY <2>5, IdsAssumption DEF CallersInv, PlatformOK, MessagesOf
  <2>7. LaneStep(k)
    BY <1>3, <1>4, <1>5, <2>4, <2>5, <2>6 DEF LaneStep, CreateLanded, InFlight
  <2>8. PICK new : new = AckedRow(deliveries[k], id, deliveries[k].desired)
    OBVIOUS
  <2>9. SetRow(k, new) /\ RowFits(k, new) /\ new.route = r /\ new.remote = id
    BY <1>3, <2>4, <2>5, <2>6, <2>8, AckFits DEF MarkCreated
  <2>10. k \in DOMAIN deliveries' /\ deliveries'[k] = new
    BY <1>1, <1>3, <2>9, OneRow
  <2>11. Owns(r)'
    BY <1>1, <1>3, <1>4, <2>2, <2>3, <2>6, <2>9, <2>10 DEF Owns, HoldsWork, HoldsRow
  <2> QED BY <1>3, <1>4, <2>3, <2>7, <2>9, <2>11, RowTakes
<1>7. CASE PersistEdited(r)
  <2>1. PICK id : id = deliveries[k].remote
    OBVIOUS
  <2>2. /\ MarkEdited(k, deliveries[k].desired) /\ lane[r].pc = "edited" /\ Done(r)
    BY <1>2, <1>7 DEF PersistEdited, At, RowOf
  <2>3. LaneFrame(r) /\ lane'[r].pc # "call" /\ Owns(r)'
    BY <1>3, <1>4, <2>2, DoneRests
  <2>4. id # NoRemote /\ id \in MessagesOf(k) /\ Shows(k, id)
    BY <1>1, <1>3, <2>1, <2>2 DEF Owns, HoldsRow, RowKnown
  <2>5. LaneStep(k)
    BY <1>3, <1>4, <1>5, <2>1, <2>2, <2>4 DEF LaneStep, EditLanded
  <2>6. PICK new : new = AckedRow(deliveries[k], id, deliveries[k].desired)
    OBVIOUS
  <2>7. SetRow(k, new) /\ RowFits(k, new)
    BY <1>3, <2>1, <2>2, <2>4, <2>6, AckFits DEF MarkEdited
  <2> QED BY <1>3, <1>4, <2>3, <2>5, <2>7, RowTakes
<1> QED BY <1>6, <1>7

(* A message that was found for the row is taken for the row's.             *)
LEMMA FoundFits ==
    ASSUME NEW k \in DOMAIN deliveries, RowKnown(k), deliveries[k] \in Row,
           NEW id \in MessagesOf(k), id # NoRemote, AssociateMessage(k, id)
    PROVE  \E new : SetRow(k, new) /\ RowFits(k, new)
<1>1. PICK new : new = [deliveries[k] EXCEPT !.remote = id, !.status = "pending",
                                             !.op = "edit_pending", !.attempts = 0]
  OBVIOUS
<1>2. /\ new.remote = id /\ new.status = "pending" /\ new.op = "edit_pending"
      /\ new.nonce = deliveries[k].nonce
  BY <1>1 DEF Row
<1>3. SetRow(k, new)
  BY <1>1 DEF AssociateMessage
<1>4. RowFits(k, new)
  BY <1>2 DEF RowFits, RowKnown, Resolved
<1> QED BY <1>3, <1>4

LEMMA Reconciles ==
    ASSUME CallersInv, NEW r \in Routes, Reconcile(r)
    PROVE  CallersInv' /\ [Next]_storeVars
<1>1. PICK k : k = Key(r)
  OBVIOUS
<1>2. /\ k \in DOMAIN deliveries /\ deliveries[k].route = r
      /\ k \in RowKeys /\ deliveries[k] \in Row /\ RowKnown(k)
      /\ lane[r].pc = "reconcile" /\ lane[r].key = k /\ serving
  BY <1>1, AtRow DEF Reconcile, RowOf, At, Key
<1>3. Done(r) /\ UNCHANGED <<conv, inbox, posted, wire, epoch, serving>>
  BY DEF Reconcile, Quiet, Stays
<1>4. LaneFrame(r) /\ lane'[r].pc # "call" /\ Owns(r)'
  BY <1>2, <1>3, DoneRests
<1>5. ASSUME NEW id \in DOMAIN posted, posted[id].key = k, AssociateMessage(k, id)
      PROVE  CallersInv' /\ [Next]_storeVars
  <2>1. id \in MessagesOf(k) /\ id \in RemoteIds /\ id # NoRemote
    BY <1>5, IdsAssumption DEF MessagesOf, CallersInv, PlatformOK
  <2>2. PICK new : SetRow(k, new) /\ RowFits(k, new)
    BY <1>2, <1>5, <2>1, FoundFits
  <2>3. ResolveStep(k)
    BY <1>3, <1>5, <2>1 DEF ResolveStep
  <2> QED BY <1>2, <1>3, <1>4, <2>2, <2>3, RowTakes
<1>6. CASE UNCHANGED deliveries
  BY <1>3, <1>4, <1>6, LocalMoves DEF storeVars
<1> QED BY <1>1, <1>5, <1>6 DEF Reconcile

-----------------------------------------------------------------------------
(* Calls of the platform.                                                   *)

(* A new message is the last one; no later row of the lane has one while    *)
(* its row is unresolved.                                                   *)
LEMMA NewestInOrder ==
    ASSUME CallersInv, NEW k \in DOMAIN deliveries,
           epoch[k] = 0 => ~Resolved(deliveries[k]),
           NEW free, DOMAIN posted' = DOMAIN posted \cup {free}, free \notin DOMAIN posted,
           \A id \in DOMAIN posted : posted'[id] = posted[id] /\ id < free,
           posted'[free].key = k
    PROVE  InOrder(posted')
<1>1. LaneReached /\ InOrder(posted) /\ k \in RowKeys /\ deliveries[k] \in Row
  BY DEF CallersInv, LaneInv, OrderInv, Inv, TypeOK, RowsOK
<1>2. ~Before(k, k)
  <2>1. deliveries[k].seq \in Nat /\ k[2] \in Int
    BY <1>1, MaxChunksAssumption DEF Row, RowKeys, Chunks
  <2> QED BY <2>1 DEF Before
<1>3. ASSUME NEW j \in DOMAIN posted, NEW b, b = posted[j].key, Before(k, b),
             deliveries[k].route = deliveries[b].route, epoch[k] = 0, epoch[b] = 0
      PROVE  FALSE
  <2>1. b \in RowKeys /\ b \in DOMAIN deliveries /\ j \in MessagesOf(b)
    BY <1>3, KeysKnown DEF MessagesOf
  <2>2. SentOnce(b) /\ RowKnown(b)
    BY <2>1 DEF CallersInv, Known
  <2>3. posted[j].nonce = epoch[b] + 1
    BY <1>3, <2>1, <2>2 DEF SentOnce
  <2>4. Sent(b)
    BY <2>1, <2>3 DEF Sent
  <2>5. Reached(deliveries[b])
    BY <2>2, <2>4 DEF RowKnown, Reached
  <2> QED BY <1>1, <1>3, <2>1, <2>5 DEF LaneReached
<1> SUFFICES ASSUME NEW i \in DOMAIN posted', NEW j \in DOMAIN posted',
                    NEW a, NEW b, a = posted'[i].key, b = posted'[j].key,
                    deliveries[a].route = deliveries[b].route, Before(a, b),
                    epoch[a] = 0, epoch[b] = 0
             PROVE  i < j
  BY DEF InOrder
<1>4. CASE i \in DOMAIN posted /\ j \in DOMAIN posted
  BY <1>1, <1>4 DEF InOrder
<1>5. CASE i \in DOMAIN posted /\ j = free
  BY <1>5
<1>6. CASE i = free /\ j = free
  BY <1>2, <1>6
<1>7. CASE i = free /\ j \in DOMAIN posted
  BY <1>3, <1>7
<1> QED BY <1>4, <1>5, <1>6, <1>7

(* What a create asks for: nothing was sent under its nonce.                *)
LEMMA CreateAsks ==
    ASSUME CallersInv, NEW r \in Routes, lane[r].pc = "call", NEW k, k = Key(r),
           NEW c, c = CreateCall(k)
    PROVE  /\ k \in DOMAIN deliveries /\ deliveries[k].route = r /\ deliveries[k] \in Row
           /\ k \in RowKeys /\ RowKnown(k) /\ SentOnce(k) /\ AtHead(k)
           /\ deliveries[k].op = "create_intent" /\ deliveries[k].remote = NoRemote /\ ~Sent(k)
           /\ c \in [key: RowKeys, id: Nat, nonce: Nat, rev: Nat] /\ epoch[k] \in Nat
           /\ c.key = k /\ c.id = NoRemote /\ c.nonce = epoch[k] + 1 /\ c.rev = deliveries[k].desired
<1>1. /\ k \in DOMAIN deliveries /\ deliveries[k].route = r /\ deliveries[k] \in Row
      /\ k \in RowKeys /\ RowKnown(k) /\ SentOnce(k) /\ AtHead(k)
  BY AtRow DEF RowOf
<1>2. deliveries[k].op = "create_intent"
  BY DEF CallersInv, Owns, HoldsRow, Key
<1>3. Calling(k)
  BY DEF Calling, Key
<1>4. deliveries[k].remote = NoRemote /\ ~Sent(k) /\ deliveries[k].nonce = epoch[k] + 1
  BY <1>1, <1>2, <1>3 DEF RowKnown
<1>5. deliveries[k].nonce \in Nat /\ deliveries[k].desired \in Nat /\ NoRemote \in Nat
      /\ epoch[k] \in Nat
  BY <1>1 DEF Row, NoRemote, CallersInv, LaneTyped
<1> QED BY <1>1, <1>2, <1>4, <1>5 DEF CreateCall

(* Whatever comes of a create, it was sent once, and messages stay in order.*)
LEMMA CreateAnswered ==
    ASSUME CallersInv, NEW r \in Routes, lane[r].pc = "call", NEW k, k = Key(r),
           Unanswered(CreateCall(k)), UNCHANGED epoch
    PROVE  /\ PlatformOK' /\ SentOnce(k)' /\ InOrder(posted')
           /\ \A j \in RowKeys : j # k => Same(j)
<1>1. PICK c : c = CreateCall(k)
  OBVIOUS
<1>2. /\ k \in DOMAIN deliveries /\ k \in RowKeys /\ SentOnce(k) /\ AtHead(k) /\ ~Sent(k)
      /\ c \in [key: RowKeys, id: Nat, nonce: Nat, rev: Nat] /\ epoch[k] \in Nat
      /\ c.key = k /\ c.id = NoRemote /\ c.nonce = epoch[k] + 1
  BY <1>1, CreateAsks
<1>3. PlatformOK /\ InOrder(posted)
  BY DEF CallersInv
<1>4. CASE Lands(c)
  <2>1. PICK free : free = FreeId
    OBVIOUS
  <2>2. HasRoom(c) /\ posted' = Landed(c, FALSE) /\ wire' = wire
    BY <1>4 DEF Lands
  <2>3. /\ PlatformOK'
        /\ \A j \in RowKeys : j # k => Same(j)
        /\ MessagesOf(k)' = MessagesOf(k) \cup {free}
        /\ free \notin DOMAIN posted
        /\ DOMAIN posted' = DOMAIN posted \cup {free}
        /\ \A id \in DOMAIN posted : posted'[id] = posted[id] /\ id < free
        /\ posted'[free] = [key |-> c.key, nonce |-> c.nonce, rev |-> c.rev, late |-> FALSE]
    BY <1>2, <1>3, <2>1, <2>2, CreateLands
  <2>4. CreatesOf(k)' = CreatesOf(k) /\ posted'[free].key = k /\ posted'[free].nonce = epoch[k] + 1
    <3>1. CreatesOf(k)' = CreatesOf(k)
      BY <2>2 DEF CreatesOf
    <3>2. posted'[free].key = c.key /\ posted'[free].nonce = c.nonce
      BY <2>3
    <3> QED BY <1>2, <3>1, <3>2
  <2>5. /\ \A id \in MessagesOf(k) : posted'[id] = posted[id] /\ posted[id].nonce # epoch[k] + 1
        /\ \A d \in CreatesOf(k) : d.nonce # epoch[k] + 1
    BY <1>2, <2>3 DEF Sent, MessagesOf
  <2>6. SentOnce(k)'
    BY <1>2, <2>3, <2>4, <2>5 DEF SentOnce
  <2>7. ~Resolved(deliveries[k])
    BY <1>2 DEF AtHead, IsNext, Unresolved
  <2>8. InOrder(posted')
    BY <1>2, <2>3, <2>4, <2>7, NewestInOrder
  <2> QED BY <2>3, <2>6, <2>8
<1>5. CASE wire' = wire \cup {c} /\ UNCHANGED posted
  <2>1. /\ PlatformOK'
        /\ \A j \in RowKeys : j # k => Same(j)
        /\ MessagesOf(k)' = MessagesOf(k) /\ CreatesOf(k)' = CreatesOf(k) \cup {c}
    BY <1>2, <1>3, <1>5, CallWaits
  <2>2. /\ \A id \in MessagesOf(k) : posted[id].nonce # epoch[k] + 1
        /\ \A d \in CreatesOf(k) : d.nonce # epoch[k] + 1
    BY <1>2 DEF Sent
  <2>3. SentOnce(k)'
    BY <1>2, <1>5, <2>1, <2>2 DEF SentOnce
  <2> QED BY <1>3, <1>5, <2>1, <2>3 DEF InOrder
<1>6. CASE UNCHANGED <<posted, wire>>
  <2>1. \A j \in RowKeys : Same(j)
    BY <1>6, SameAll
  <2>2. SentOnce(k)'
    BY <1>2, <2>1, SentKept
  <2>3. PlatformOK'
    BY <1>3, <1>6 DEF PlatformOK, FreeId, MessagesOf
  <2> QED BY <1>3, <1>6, <2>1, <2>2, <2>3 DEF InOrder
<1> QED BY <1>1, <1>4, <1>5, <1>6 DEF Unanswered

(* The owner is at a create: its row is pending, with an intent.            *)
LEMMA CreateKnown ==
    ASSUME CallersInv, NEW r \in Routes, lane[r].pc = "call", NEW k, k = Key(r),
           LaneFrame(r), lane'[r].pc # "call",
           \/ deliveries'[k] = deliveries[k]
           \/ deliveries'[k] = [deliveries[k] EXCEPT !.status = "ambiguous_create"]
    PROVE  RowKnown(k)'
<1>1. /\ k \in DOMAIN deliveries /\ deliveries[k].route = r /\ deliveries[k] \in Row
      /\ RowKnown(k) /\ AtHead(k)
      /\ deliveries[k].op = "create_intent" /\ deliveries[k].remote = NoRemote
  BY CreateAsks
<1>2. PICK row : row = deliveries[k]
  OBVIOUS
<1>3. PICK new : new = deliveries'[k]
  OBVIOUS
<1>4. /\ new.op = "create_intent" /\ new.remote = NoRemote /\ new.nonce = row.nonce
      /\ new.status \in {"pending", "ambiguous_create"}
  BY <1>1, <1>2, <1>3 DEF Row, AtHead
<1>5. ~Calling(k)'
  BY <1>1, NotCalling
<1>6. row.nonce = epoch[k] + 1 /\ epoch'[k] = epoch[k]
  BY <1>1, <1>2 DEF RowKnown, LaneFrame
<1> QED BY <1>3, <1>4, <1>5, <1>6 DEF RowKnown, Resolved

LEMMA CreateAnswers ==
    ASSUME CallersInv, NEW r \in Routes,
           CreateReturns(r) \/ CreateTimesOut(r) \/ (lane[r].pc = "call" /\ OutcomeUnrecorded(r))
    PROVE  CallersInv' /\ [Next]_storeVars
<1>1. lane \in [Routes -> Owner] /\ Owns(r) /\ LaneInv /\ Inv
  BY DEF CallersInv, LaneTyped, LaneInv, OrderInv
<1>2. PICK k : k = Key(r)
  OBVIOUS
<1>3. lane[r].pc = "call" /\ lane[r].key = k /\ serving /\ UNCHANGED <<conv, inbox, epoch, serving>>
  BY <1>2 DEF CreateReturns, CreateTimesOut, OutcomeUnrecorded, At, Stays, Key
<1>4. PICK c : c = CreateCall(k)
  OBVIOUS
<1>5. /\ k \in DOMAIN deliveries /\ deliveries[k].route = r /\ deliveries[k] \in Row
      /\ k \in RowKeys /\ AtHead(k)
      /\ deliveries[k].op = "create_intent" /\ deliveries[k].remote = NoRemote
      /\ c \in [key: RowKeys, id: Nat, nonce: Nat, rev: Nat]
      /\ c.key = k /\ c.id = NoRemote /\ c.rev = deliveries[k].desired
  BY <1>2, <1>3, <1>4, CreateAsks
<1>6. Unanswered(c)
  BY <1>2, <1>3, <1>4 DEF CreateReturns, CreateTimesOut, OutcomeUnrecorded, Unanswered
<1>7. /\ PlatformOK' /\ SentOnce(k)' /\ InOrder(posted')
      /\ \A j \in RowKeys : j # k => Same(j)
  BY <1>2, <1>3, <1>4, <1>6, CreateAnswered
<1>8. ASSUME LaneFrame(r), lane'[r].pc # "call", UNCHANGED deliveries, Owns(r)'
      PROVE  CallersInv' /\ [Next]_storeVars
  <2>1. UNCHANGED storeVars
    BY <1>3, <1>8 DEF storeVars
  <2>2. LaneInv' /\ RowFrame(k)
    BY <1>1, <1>3, <1>8, <2>1, NextLane DEF RowFrame
  <2>3. RowKnown(k)'
    BY <1>2, <1>3, <1>8, CreateKnown
  <2> QED BY <1>5, <1>7, <1>8, <2>1, <2>2, <2>3, OwnerMoves
<1>9. CASE CreateReturns(r)
  <2>1. PICK free : free = FreeId
    OBVIOUS
  <2>2. /\ UNCHANGED deliveries /\ HasRoom(c) /\ posted' = Landed(c, FALSE) /\ wire' = wire
        /\ lane' = [lane EXCEPT ![r].pc = "landed", ![r].id = free]
    BY <1>2, <1>4, <1>9, <2>1 DEF CreateReturns, Lands
  <2>3. /\ MessagesOf(k)' = MessagesOf(k) \cup {free} /\ free \in RemoteIds
        /\ posted'[free] = [key |-> c.key, nonce |-> c.nonce, rev |-> c.rev, late |-> FALSE]
    BY <1>1, <1>5, <2>1, <2>2, CreateLands DEF CallersInv
  <2>4. /\ LaneFrame(r) /\ lane'[r].pc = "landed" /\ lane'[r].id = free
        /\ lane'[r].work = lane[r].work /\ lane'[r].key = k
    BY <1>1, <1>3, <2>2, <2>3 DEF LaneFrame, Owner, Pcs
  <2>5. AtHead(k)'
    BY <1>5, <2>2 DEF AtHead, IsNext, Unresolved, Before
  <2>6. Shows(k, free)'
    <3>1. posted'[free].rev = c.rev
      BY <2>3
    <3> QED BY <1>5, <2>2, <3>1 DEF Shows
  <2>7. Owns(r)'
    BY <1>1, <1>3, <1>5, <2>2, <2>3, <2>4, <2>5, <2>6 DEF Owns, HoldsWork, HoldsRow
  <2> QED BY <1>8, <2>2, <2>4, <2>7
<1>10. CASE lane[r].pc = "call" /\ OutcomeUnrecorded(r)
  <2>1. UNCHANGED deliveries /\ Done(r)
    BY <1>10 DEF OutcomeUnrecorded
  <2>2. LaneFrame(r) /\ lane'[r].pc # "call" /\ Owns(r)'
    BY <1>3, <2>1, DoneRests
  <2> QED BY <1>8, <2>1, <2>2
<1>11. CASE CreateTimesOut(r)
  <2>1. MarkAmbiguous(k) /\ Goto(r, "reconcile")
    BY <1>2, <1>11 DEF CreateTimesOut
  <2>2. PICK new : new = [deliveries[k] EXCEPT !.status = "ambiguous_create"]
    OBVIOUS
  <2>3. SetRow(k, new) /\ new.route = r /\ new.seq = deliveries[k].seq
    BY <1>5, <2>1, <2>2 DEF MarkAmbiguous, Row
  <2>4. LaneStep(k)
    BY <1>3, <1>5, <2>1 DEF LaneStep, CreateUnknown, InFlight
  <2>5. [Next]_storeVars /\ LaneInv'
    BY <1>1, <1>5, <2>4, NextLane DEF Next
  <2>6. /\ LaneFrame(r) /\ lane'[r].pc = "reconcile" /\ lane'[r].work = lane[r].work
        /\ lane'[r].key = k
    BY <1>1, <1>3, <2>1, Goes DEF LaneFrame, Pcs
  <2>7. RowFrame(k) /\ deliveries'[k] = new
    BY <1>1, <1>3, <1>5, <2>3, OneRow DEF RowFrame
  <2>8. RowKnown(k)'
    BY <1>2, <1>3, <2>2, <2>6, <2>7, CreateKnown
  <2>9. Owns(r)'
    BY <1>1, <1>3, <1>5, <2>3, <2>6, <2>7 DEF Owns, HoldsWork, HoldsRow, RowFrame
  <2> QED BY <1>5, <1>7, <2>5, <2>6, <2>7, <2>8, <2>9, OwnerMoves
<1> QED BY <1>9, <1>10, <1>11

(* Whatever comes of an edit, only the text of the row's message changes,   *)
(* and only to what was asked for.                                          *)
LEMMA EditAnswered ==
    ASSUME CallersInv, NEW k \in DOMAIN deliveries, NEW id, id = deliveries[k].remote,
           id # NoRemote, NEW rev \in Nat, NEW c, c = EditCall(k, rev),
           Unanswered(c), UNCHANGED epoch
    PROVE  /\ PlatformOK' /\ SentOnce(k)' /\ InOrder(posted') /\ (Sent(k)' <=> Sent(k))
           /\ MessagesOf(k)' = MessagesOf(k) /\ id \in MessagesOf(k)
           /\ \A j \in RowKeys : j # k => Same(j)
           /\ posted'[id] = posted[id] \/ (posted'[id].rev = rev /\ ~posted'[id].late)
           /\ Lands(c) => posted'[id].rev = rev
<1>1. /\ k \in RowKeys /\ deliveries[k] \in Row /\ PlatformOK /\ InOrder(posted)
  BY DEF CallersInv, LaneInv, OrderInv, Inv, TypeOK, RowsOK
<1>2. RowKnown(k) /\ SentOnce(k)
  BY <1>1 DEF CallersInv, Known
<1>3. id \in MessagesOf(k) /\ id \in Nat
  BY <1>1, <1>2 DEF RowKnown, Row
<1>4. /\ c \in [key: RowKeys, id: Nat, nonce: Nat, rev: Nat]
      /\ c.key = k /\ c.id = id /\ c.rev = rev
  BY <1>1, <1>3 DEF EditCall, NoNonce
<1>5. ASSUME posted' = Landed(c, FALSE), wire' = wire
      PROVE  /\ PlatformOK' /\ SentOnce(k)' /\ InOrder(posted') /\ (Sent(k)' <=> Sent(k))
             /\ MessagesOf(k)' = MessagesOf(k)
             /\ \A j \in RowKeys : j # k => Same(j)
             /\ posted'[id].rev = rev /\ ~posted'[id].late
  <2>1. /\ PlatformOK'
        /\ \A j \in RowKeys : j # k => Same(j)
        /\ DOMAIN posted' = DOMAIN posted
        /\ \A n \in DOMAIN posted :
              posted'[n].key = posted[n].key /\ posted'[n].nonce = posted[n].nonce
        /\ MessagesOf(k)' = MessagesOf(k) /\ CreatesOf(k)' = CreatesOf(k)
        /\ posted'[id].rev = rev /\ posted'[id].late = FALSE
    BY <1>1, <1>3, <1>4, <1>5, EditLands
  <2>2. \A n \in MessagesOf(k) : posted'[n].nonce = posted[n].nonce
    BY <2>1 DEF MessagesOf
  <2>3. SentOnce(k)' /\ (Sent(k)' <=> Sent(k))
    BY <1>2, <2>1, <2>2 DEF SentOnce, Sent
  <2>4. InOrder(posted')
    BY <1>1, <2>1 DEF InOrder
  <2> QED BY <2>1, <2>3, <2>4
<1>6. CASE Lands(c)
  BY <1>3, <1>5, <1>6 DEF Lands
<1>7. ASSUME UNCHANGED posted, PlatformOK', Same(k), \A j \in RowKeys : j # k => Same(j)
      PROVE  /\ SentOnce(k)' /\ InOrder(posted') /\ (Sent(k)' <=> Sent(k))
             /\ MessagesOf(k)' = MessagesOf(k) /\ posted'[id] = posted[id]
  BY <1>1, <1>2, <1>7, SentKept DEF InOrder, Same
<1>8. CASE wire' = wire \cup {c} /\ UNCHANGED posted
  <2>1. PlatformOK' /\ Same(k) /\ \A j \in RowKeys : j # k => Same(j)
    BY <1>1, <1>3, <1>4, <1>8, CallWaits
  <2>2. Lands(c) => posted'[id].rev = rev
    BY <1>5 DEF Lands
  <2> QED BY <1>3, <1>7, <1>8, <2>1, <2>2
<1>9. CASE UNCHANGED <<posted, wire>>
  <2>1. PlatformOK' /\ Same(k) /\ \A j \in RowKeys : j # k => Same(j)
    BY <1>1, <1>9, SameAll DEF PlatformOK, FreeId, MessagesOf
  <2>2. Lands(c) => posted'[id].rev = rev
    BY <1>5 DEF Lands
  <2> QED BY <1>3, <1>7, <1>9, <2>1, <2>2
<1> QED BY <1>6, <1>8, <1>9 DEF Unanswered

(* The row of an edit stays as it was, or counts the attempt.               *)
LEMMA EditKnown ==
    ASSUME CallersInv, NEW k \in DOMAIN deliveries, NEW id, id = deliveries[k].remote,
           id # NoRemote, ~Resolved(deliveries[k]), UNCHANGED epoch,
           MessagesOf(k)' = MessagesOf(k), Sent(k)' <=> Sent(k),
           NEW new, new = deliveries'[k],
           \/ new = deliveries[k]
           \/ new = [PlannedAgain(deliveries[k]) EXCEPT !.attempts = @ + 1]
    PROVE  RowKnown(k)' /\ new.route = deliveries[k].route /\ new.seq = deliveries[k].seq
<1>1. k \in RowKeys /\ deliveries[k] \in Row
  BY DEF CallersInv, LaneInv, OrderInv, Inv, TypeOK, RowsOK
<1>2. RowKnown(k)
  BY <1>1 DEF CallersInv, Known
<1>3. PICK row : row = deliveries[k]
  OBVIOUS
<1>4. /\ new.op = row.op /\ new.nonce = row.nonce /\ new.status = row.status
      /\ new.remote = row.remote /\ new.acked = row.acked /\ new.desired = row.desired
      /\ new.route = row.route /\ new.seq = row.seq
  BY <1>1, <1>3 DEF Row, PlannedAgain
<1>5. ~Resolved(new)
  BY <1>3, <1>4 DEF Resolved
<1> QED BY <1>2, <1>3, <1>4, <1>5 DEF RowKnown

LEMMA EditAnswers ==
    ASSUME CallersInv, NEW r \in Routes,
           EditReturns(r) \/ EditTimesOut(r) \/ (lane[r].pc = "edit" /\ OutcomeUnrecorded(r))
    PROVE  CallersInv' /\ [Next]_storeVars
<1>1. lane \in [Routes -> Owner] /\ Owns(r) /\ LaneInv /\ Inv
  BY DEF CallersInv, LaneTyped, LaneInv, OrderInv
<1>2. PICK k : k = Key(r)
  OBVIOUS
<1>3. lane[r].pc = "edit" /\ lane[r].key = k /\ serving /\ UNCHANGED <<conv, inbox, epoch, serving>>
  BY <1>2 DEF EditReturns, EditTimesOut, OutcomeUnrecorded, At, Stays, Key
<1>4. /\ k \in DOMAIN deliveries /\ deliveries[k].route = r /\ deliveries[k] \in Row
      /\ k \in RowKeys /\ AtHead(k)
  BY <1>2, <1>3, AtRow DEF RowOf
<1>5. PICK id : id = deliveries[k].remote
  OBVIOUS
<1>6. PICK rev : rev = deliveries[k].desired
  OBVIOUS
<1>7. PICK c : c = EditCall(k, rev)
  OBVIOUS
<1>8. id # NoRemote /\ rev \in Nat /\ ~Resolved(deliveries[k])
  BY <1>1, <1>3, <1>4, <1>5, <1>6 DEF Owns, HoldsRow, Row, AtHead, IsNext, Unresolved
<1>9. Unanswered(c) /\ (EditReturns(r) => Lands(c))
  BY <1>2, <1>3, <1>6, <1>7 DEF EditReturns, EditTimesOut, OutcomeUnrecorded, Unanswered, RowOf
<1>10. /\ PlatformOK' /\ SentOnce(k)' /\ InOrder(posted') /\ (Sent(k)' <=> Sent(k))
       /\ MessagesOf(k)' = MessagesOf(k) /\ id \in MessagesOf(k)
       /\ \A j \in RowKeys : j # k => Same(j)
       /\ Lands(c) => posted'[id].rev = rev
  <2>1. k \in DOMAIN deliveries /\ rev \in Nat /\ Unanswered(c) /\ UNCHANGED epoch
    BY <1>3, <1>4, <1>8, <1>9
  <2>2. id # NoRemote
    BY <1>8
  <2> QED BY <1>5, <1>7, <2>1, <2>2, EditAnswered
<1>11. ASSUME LaneFrame(r), lane'[r].pc # "call", UNCHANGED deliveries, Owns(r)'
       PROVE  CallersInv' /\ [Next]_storeVars
  <2>1. UNCHANGED storeVars
    BY <1>3, <1>11 DEF storeVars
  <2>2. LaneInv' /\ RowFrame(k)
    BY <1>1, <1>3, <1>11, <2>1, NextLane DEF RowFrame
  <2>3. RowKnown(k)'
    BY <1>3, <1>4, <1>5, <1>8, <1>10, <1>11, EditKnown
  <2> QED BY <1>4, <1>10, <1>11, <2>1, <2>2, <2>3, OwnerMoves
<1>12. CASE EditReturns(r)
  <2>1. UNCHANGED deliveries /\ Goto(r, "edited")
    BY <1>12 DEF EditReturns
  <2>2. /\ LaneFrame(r) /\ lane'[r].pc = "edited" /\ lane'[r].work = lane[r].work
        /\ lane'[r].key = k
    BY <1>1, <1>3, <2>1, Goes DEF LaneFrame, Pcs
  <2>3. AtHead(k)'
    BY <1>4, <2>1 DEF AtHead, IsNext, Unresolved, Before
  <2>4. Shows(k, id)'
    BY <1>6, <1>9, <1>10, <1>12, <2>1 DEF Shows
  <2>5. Owns(r)'
    BY <1>1, <1>3, <1>4, <1>5, <1>8, <2>1, <2>2, <2>3, <2>4 DEF Owns, HoldsWork, HoldsRow
  <2> QED BY <1>11, <2>1, <2>2, <2>5
<1>13. CASE lane[r].pc = "edit" /\ OutcomeUnrecorded(r)
  <2>1. UNCHANGED deliveries /\ Done(r)
    BY <1>13 DEF OutcomeUnrecorded
  <2>2. LaneFrame(r) /\ lane'[r].pc # "call" /\ Owns(r)'
    BY <1>3, <2>1, DoneRests
  <2> QED BY <1>11, <2>1, <2>2
<1>14. CASE EditTimesOut(r)
  <2>1. MarkAttempt(k) /\ Done(r) /\ ~Exhausted(deliveries[k], FALSE)
    BY <1>2, <1>14 DEF EditTimesOut, RowOf
  <2>2. LaneFrame(r) /\ lane'[r].pc # "call" /\ Owns(r)'
    BY <1>3, <2>1, DoneRests
  <2>3. PICK new : new = [PlannedAgain(deliveries[k]) EXCEPT !.attempts = @ + 1]
    OBVIOUS
  <2>4. SetRow(k, new)
    BY <2>1, <2>3 DEF MarkAttempt
  <2>5. CanAttempt(k)
    BY <1>4, <2>1, LimitsAssumption DEF CanAttempt, Exhausted, Row
  <2>6. LaneStep(k)
    BY <1>3, <1>5, <1>8, <2>1, <2>5 DEF LaneStep, EditRefused
  <2>7. [Next]_storeVars /\ LaneInv'
    BY <1>1, <1>4, <2>6, NextLane DEF Next
  <2>8. deliveries'[k] = new
    BY <1>1, <1>4, <2>4, OneRow
  <2>9. RowKnown(k)' /\ new.route = deliveries[k].route /\ new.seq = deliveries[k].seq
    BY <1>3, <1>4, <1>5, <1>8, <1>10, <2>3, <2>8, EditKnown
  <2>10. RowFrame(k)
    BY <1>1, <1>3, <1>4, <2>4, <2>8, <2>9, OneRow DEF RowFrame
  <2> QED BY <1>4, <1>10, <2>2, <2>7, <2>9, <2>10, OwnerMoves
<1> QED BY <1>12, <1>13, <1>14

(* The preview loop stops while an edit may be on its way.                  *)
LEMMA PreviewsStop ==
    ASSUME CallersInv, NEW r \in Routes, StopPreviews(r)
    PROVE  CallersInv' /\ [Next]_storeVars
<1>1. lane \in [Routes -> Owner] /\ Owns(r) /\ LaneInv /\ PlatformOK /\ InOrder(posted)
  BY DEF CallersInv, LaneTyped
<1>2. PICK k : k = Key(r)
  OBVIOUS
<1>3. lane[r].pc = "live" /\ lane[r].key = k /\ serving
      /\ UNCHANGED <<storeVars, posted, epoch, serving>>
  BY <1>2 DEF StopPreviews, At, Stays, Key, storeVars
<1>4. /\ k \in DOMAIN deliveries /\ deliveries[k].route = r /\ deliveries[k] \in Row
      /\ k \in RowKeys /\ RowKnown(k) /\ SentOnce(k)
  BY <1>2, <1>3, AtRow DEF RowOf
<1>5. /\ LaneFrame(r) /\ lane'[r].pc = "turn" /\ lane'[r].work = lane[r].work
  BY <1>1, <1>3, Goes DEF StopPreviews, LaneFrame, Pcs
<1>6. Owns(r)'
  BY <1>1, <1>3, <1>5, OwnsResting DEF Owns, HoldsWork, storeVars
<1>7. CASE UNCHANGED wire
  BY <1>3, <1>5, <1>6, <1>7, LocalMoves
<1>8. CASE wire' = wire \cup {EditCall(k, PlaceholderRev)}
  <2>1. PICK c : c = EditCall(k, PlaceholderRev)
    OBVIOUS
  <2>2. deliveries[k].remote # NoRemote
    BY <1>1, <1>3 DEF Owns, HoldsRow
  <2>3. /\ c \in [key: RowKeys, id: Nat, nonce: Nat, rev: Nat]
        /\ c.key = k /\ c.id # NoRemote /\ c.id \in MessagesOf(k)
    BY <1>4, <2>1, <2>2 DEF EditCall, Row, RowKnown, NoNonce, PlaceholderRev
  <2>4. PlatformOK' /\ \A j \in RowKeys : Same(j)
    BY <1>1, <1>3, <1>8, <2>1, <2>3, CallWaits
  <2>5. Known(k)'
    <3>1. Calling(k)' => Calling(k)
      BY <1>5 DEF Calling, LaneFrame
    <3> QED BY <1>3, <1>4, <2>4, <3>1, KnownKept DEF Known, storeVars
  <2>6. LaneInv' /\ RowFrame(k)
    BY <1>1, <1>3, NextLane DEF RowFrame, storeVars
  <2>7. k \in DOMAIN deliveries' /\ InOrder(posted')
    BY <1>1, <1>3, <1>4 DEF storeVars, InOrder
  <2>8. SentOnce(k)' /\ RowKnown(k)'
    BY <2>5, <2>7 DEF Known
  <2> QED BY <1>3, <1>4, <1>5, <1>6, <2>4, <2>6, <2>7, <2>8, OwnerMoves
<1> QED BY <1>2, <1>7, <1>8 DEF StopPreviews

(* A call that nobody waits for any more takes effect: a create shows its   *)
(* row's message for the first time, an edit marks the message as late.     *)
LEMMA LandsLate ==
    ASSUME CallersInv, NEW c \in wire, LateLanding(c)
    PROVE  /\ PlatformOK' /\ InOrder(posted')
           /\ \A id \in DOMAIN posted :
                 /\ id \in DOMAIN posted' /\ posted'[id].key = posted[id].key
                 /\ posted'[id] = posted[id] \/ posted'[id].late
           /\ \A k \in RowKeys : SentOnce(k)' /\ (Sent(k)' <=> Sent(k))
           /\ \A k \in RowKeys : k \notin DOMAIN deliveries =>
                 MessagesOf(k)' = {} /\ CreatesOf(k)' = {}
<1>1. /\ PlatformOK /\ InOrder(posted) /\ epoch' = epoch /\ wire' = wire \ {c}
      /\ HasRoom(c) /\ posted' = Landed(c, TRUE)
      /\ \A k \in RowKeys : Known(k) /\ SentOnce(k)
  BY DEF CallersInv, LateLanding, Known
<1>2. /\ c \in [key: RowKeys, id: Nat, nonce: Nat, rev: Nat]
      /\ c.id # NoRemote => c.id \in MessagesOf(c.key)
  BY <1>1 DEF PlatformOK
<1>3. PICK k : k = c.key
  OBVIOUS
<1>4. k \in RowKeys
  BY <1>2, <1>3
<1>5. ASSUME NEW j \in RowKeys, Same(j)
      PROVE  /\ SentOnce(j)' /\ (Sent(j)' <=> Sent(j))
             /\ j \notin DOMAIN deliveries => MessagesOf(j)' = {} /\ CreatesOf(j)' = {}
  BY <1>1, <1>5, SentKept DEF Known, Same
<1>6. CASE c.id = NoRemote
  <2>1. c \in CreatesOf(k)
    BY <1>3, <1>6 DEF CreatesOf
  <2>2. k \in DOMAIN deliveries /\ RowKnown(k) /\ SentOnce(k)
    BY <1>1, <1>4, <2>1 DEF Known
  <2>3. PICK free : free = FreeId
    OBVIOUS
  <2>4. PICK msg : msg = [key |-> c.key, nonce |-> c.nonce, rev |-> c.rev, late |-> FALSE]
    OBVIOUS
  <2>5. /\ PlatformOK'
        /\ \A j \in RowKeys : j # k => Same(j)
        /\ MessagesOf(k)' = MessagesOf(k) \cup {free}
        /\ free \notin DOMAIN posted
        /\ DOMAIN posted' = DOMAIN posted \cup {free}
        /\ \A id \in DOMAIN posted : posted'[id] = posted[id] /\ id < free
        /\ posted'[free] = msg
    BY <1>1, <1>2, <1>3, <1>6, <2>3, <2>4, CreateLands
  <2>6. msg.key = k /\ msg.nonce = c.nonce
    BY <1>3, <2>4
  <2>7. CreatesOf(k)' = CreatesOf(k) \ {c}
    BY <1>1 DEF CreatesOf
  <2>8. \A id \in MessagesOf(k) : posted'[id] = posted[id]
    BY <2>5 DEF MessagesOf
  <2>9. SentOnce(k)'
    <3>1. PICK n : n = epoch[k] + 1
      OBVIOUS
    <3>2. \A id \in MessagesOf(k)' : posted'[id].nonce \in 1 .. n
      BY <2>1, <2>2, <2>5, <2>6, <2>8, <3>1 DEF SentOnce
    <3>3. \A d \in CreatesOf(k)' : d.nonce \in 1 .. n
      BY <2>2, <2>7, <3>1 DEF SentOnce
    <3>4. \A i, j \in MessagesOf(k)' : posted'[i].nonce = posted'[j].nonce => i = j
      BY <2>1, <2>2, <2>5, <2>6, <2>8 DEF SentOnce
    <3>5. \A d, e \in CreatesOf(k)' : d.nonce = e.nonce => d = e
      BY <2>2, <2>7 DEF SentOnce
    <3>6. \A id \in MessagesOf(k)', d \in CreatesOf(k)' : posted'[id].nonce # d.nonce
      BY <2>1, <2>2, <2>5, <2>6, <2>7, <2>8 DEF SentOnce
    <3> QED BY <1>1, <3>1, <3>2, <3>3, <3>4, <3>5, <3>6 DEF SentOnce
  <2>10. Sent(k)' <=> Sent(k)
    <3>1. PICK n : n = epoch[k] + 1 /\ n = epoch'[k] + 1
      BY <1>1
    <3>2. ASSUME Sent(k) PROVE Sent(k)'
      <4>1. CASE \E id \in MessagesOf(k) : posted[id].nonce = n
        BY <2>5, <2>8, <3>1, <4>1 DEF Sent
      <4>2. CASE \E d \in CreatesOf(k) : d.nonce = n
        BY <2>1, <2>5, <2>6, <2>7, <3>1, <4>2 DEF Sent
      <4> QED BY <3>1, <3>2, <4>1, <4>2 DEF Sent
    <3>3. ASSUME Sent(k)' PROVE Sent(k)
      <4>1. CASE \E id \in MessagesOf(k)' : posted'[id].nonce = n
        BY <2>1, <2>5, <2>6, <2>8, <3>1, <4>1 DEF Sent
      <4>2. CASE \E d \in CreatesOf(k)' : d.nonce = n
        BY <2>7, <3>1, <4>2 DEF Sent
      <4> QED BY <3>1, <3>3, <4>1, <4>2 DEF Sent
    <3> QED BY <3>2, <3>3
  <2>11. epoch[k] = 0 => ~Resolved(deliveries[k])
    <3> SUFFICES ASSUME epoch[k] = 0, Resolved(deliveries[k]) PROVE FALSE
      OBVIOUS
    <3>1. PICK id : id = deliveries[k].remote
      OBVIOUS
    <3>2. id \in MessagesOf(k)
      BY <2>2, <3>1 DEF RowKnown, Resolved
    <3>3. posted[id].nonce \in 1 .. 1 /\ c.nonce \in 1 .. 1 /\ posted[id].nonce # c.nonce
      BY <2>1, <2>2, <3>2 DEF SentOnce
    <3> QED BY <3>3
  <2>12. InOrder(posted')
    BY <2>2, <2>5, <2>6, <2>11, NewestInOrder
  <2>13. ASSUME NEW j \in RowKeys
         PROVE  /\ SentOnce(j)' /\ (Sent(j)' <=> Sent(j))
                /\ j \notin DOMAIN deliveries => MessagesOf(j)' = {} /\ CreatesOf(j)' = {}
    BY <1>5, <2>2, <2>5, <2>9, <2>10
  <2>14. \A id \in DOMAIN posted : id \in DOMAIN posted' /\ posted'[id] = posted[id]
    BY <2>5
  <2> QED BY <2>5, <2>12, <2>13, <2>14
<1>7. CASE c.id # NoRemote
  <2>1. PICK late : late = TRUE
    OBVIOUS
  <2>2. late \in BOOLEAN /\ posted' = Landed(c, late)
    BY <1>1, <2>1
  <2>3. /\ PlatformOK'
        /\ DOMAIN posted' = DOMAIN posted
        /\ \A id \in DOMAIN posted :
              /\ posted'[id].key = posted[id].key /\ posted'[id].nonce = posted[id].nonce
              /\ id # c.id => posted'[id] = posted[id]
        /\ \A j \in RowKeys : MessagesOf(j)' = MessagesOf(j) /\ CreatesOf(j)' = CreatesOf(j)
        /\ posted'[c.id].late
    BY <1>1, <1>2, <1>7, <2>1, <2>2, EditLands
  <2>4. ASSUME NEW j \in RowKeys
        PROVE  /\ SentOnce(j)' /\ (Sent(j)' <=> Sent(j))
               /\ j \notin DOMAIN deliveries => MessagesOf(j)' = {} /\ CreatesOf(j)' = {}
    <3>1. \A id \in MessagesOf(j) : posted'[id].nonce = posted[id].nonce
      BY <2>3 DEF MessagesOf
    <3>2. /\ MessagesOf(j)' = MessagesOf(j) /\ CreatesOf(j)' = CreatesOf(j) /\ epoch' = epoch
          /\ SentOnce(j)
      BY <1>1, <2>3
    <3>3. SentOnce(j)'
      BY <3>1, <3>2 DEF SentOnce
    <3>4. Sent(j)' <=> Sent(j)
      BY <3>1, <3>2 DEF Sent
    <3> QED BY <1>1, <3>2, <3>3, <3>4 DEF Known
  <2>5. InOrder(posted')
    <3>1. /\ DOMAIN posted' = DOMAIN posted /\ InOrder(posted)
          /\ \A id \in DOMAIN posted : posted'[id].key = posted[id].key
      BY <1>1, <2>3
    <3> QED BY <3>1 DEF InOrder
  <2>6. \A id \in DOMAIN posted : posted'[id] = posted[id] \/ posted'[id].late
    BY <2>3
  <2> QED BY <2>3, <2>4, <2>5, <2>6
<1> QED BY <1>6, <1>7

LEMMA LateCalls ==
    ASSUME CallersInv, NEW c \in wire, LateLanding(c)
    PROVE  CallersInv' /\ UNCHANGED storeVars
<1>1. UNCHANGED <<storeVars, lane, epoch, serving>> /\ LaneInv
  BY DEF LateLanding, CallersInv
<1>2. LaneInv' /\ LaneTyped' /\ DOMAIN deliveries \subseteq RowKeys
  BY <1>1, NextLane DEF CallersInv, LaneTyped, LaneInv, OrderInv, Inv, TypeOK, RowsOK
<1>3. /\ PlatformOK' /\ InOrder(posted')
      /\ \A id \in DOMAIN posted :
            /\ id \in DOMAIN posted' /\ posted'[id].key = posted[id].key
            /\ posted'[id] = posted[id] \/ posted'[id].late
      /\ \A k \in RowKeys : SentOnce(k)' /\ (Sent(k)' <=> Sent(k))
      /\ \A k \in RowKeys : k \notin DOMAIN deliveries =>
            MessagesOf(k)' = {} /\ CreatesOf(k)' = {}
  BY LandsLate
<1>4. ASSUME NEW k, NEW id \in MessagesOf(k)
      PROVE  id \in MessagesOf(k)' /\ (Shows(k, id) => Shows(k, id)')
  BY <1>1, <1>3 DEF MessagesOf, Shows, storeVars
<1>5. ASSUME NEW k \in DOMAIN deliveries
      PROVE  RowKnown(k) /\ RowKnown(k)'
  <2>1. k \in RowKeys /\ RowKnown(k)
    BY <1>2 DEF CallersInv, Known
  <2>2. (Sent(k)' <=> Sent(k)) /\ Calling(k)' = Calling(k) /\ deliveries' = deliveries /\ epoch' = epoch
    BY <1>1, <1>3, <2>1 DEF Calling, storeVars
  <2>3. Resolved(deliveries[k]) => deliveries[k].remote \in MessagesOf(k)
    BY <2>1 DEF RowKnown, Resolved
  <2> QED BY <1>4, <2>1, <2>2, <2>3 DEF RowKnown
<1>6. \A k \in RowKeys : Known(k)'
  BY <1>1, <1>3, <1>5 DEF Known, storeVars
<1>7. ASSUME NEW s \in Routes PROVE Owns(s)'
  <2>1. Owns(s) /\ HoldsWork(s)'
    BY <1>1 DEF CallersInv, Owns, HoldsWork, storeVars
  <2>2. PICK k : k = lane[s].key
    OBVIOUS
  <2>3. AtHead(k)' <=> AtHead(k)
    BY <1>1 DEF AtHead, IsNext, Unresolved, Before, storeVars
  <2>4. lane[s].pc = "landed" => lane[s].id \in MessagesOf(k)' /\ Shows(k, lane[s].id)'
    <3>1. lane[s].pc = "landed" => lane[s].id \in MessagesOf(k) /\ Shows(k, lane[s].id)
      BY <2>1, <2>2 DEF Owns, HoldsRow
    <3>2. PICK id : id = lane[s].id
      OBVIOUS
    <3> QED BY <1>1, <1>4, <3>1, <3>2
  <2>5. lane[s].pc = "edited" => Shows(k, deliveries[k].remote)'
    <3> SUFFICES ASSUME lane[s].pc = "edited" PROVE Shows(k, deliveries[k].remote)'
      OBVIOUS
    <3>1. PICK id : id = deliveries[k].remote
      OBVIOUS
    <3>2. Shows(k, id) /\ id # NoRemote /\ k \in DOMAIN deliveries
      BY <2>1, <2>2, <3>1 DEF Owns, HoldsRow
    <3>3. id \in MessagesOf(k)
      BY <1>5, <3>1, <3>2 DEF RowKnown
    <3>4. deliveries' = deliveries
      BY <1>1 DEF storeVars
    <3> QED BY <1>4, <3>1, <3>2, <3>3, <3>4
  <2>6. HoldsRow(s)'
    BY <1>1, <2>1, <2>2, <2>3, <2>4, <2>5 DEF Owns, HoldsRow, storeVars
  <2> QED BY <1>1, <2>1, <2>6 DEF Owns
<1>8. InOrder(posted)'
  BY <1>1, <1>3 DEF InOrder, Before, storeVars
<1> QED BY <1>1, <1>2, <1>3, <1>6, <1>7, <1>8 DEF CallersInv

-----------------------------------------------------------------------------
(* Planning.                                                                *)

(* A row that is planned again keeps what the platform knows of it.         *)
LEMMA ReplanKnown ==
    ASSUME NEW k \in DOMAIN deliveries, RowKnown(k), deliveries[k] \in Row,
           NEW rev \in {PlaceholderRev, FinalRev}, UNCHANGED <<posted, wire, epoch>>,
           Calling(k)' => Calling(k),
           deliveries'[k] = Replan(deliveries[k], rev)
    PROVE  RowKnown(k)'
<1>1. PICK row : row = deliveries[k]
  OBVIOUS
<1>2. PICK new : new = deliveries'[k]
  OBVIOUS
<1>3. MessagesOf(k)' = MessagesOf(k) /\ (Sent(k)' <=> Sent(k))
  BY DEF MessagesOf, CreatesOf, Sent
<1>4. CASE row.desired > rev
  <2>1. new = row
    BY <1>1, <1>2, <1>4 DEF Replan
  <2> QED BY <1>1, <1>2, <1>3, <2>1 DEF RowKnown, Shows
<1>5. CASE ~(row.desired > rev)
  <2>1. PICK op : op = IF row.remote = NoRemote THEN row.op ELSE "edit_pending"
    OBVIOUS
  <2>2. PICK status : status = IF row.status = "acked" /\ row.acked # rev THEN "pending" ELSE row.status
    OBVIOUS
  <2>3. new = [row EXCEPT !.desired = rev, !.text = TRUE, !.op = op, !.status = status]
    BY <1>1, <1>2, <1>5, <2>1, <2>2 DEF Replan
  <2>4. /\ new.desired = rev /\ new.op = op /\ new.status = status /\ new.acked = row.acked
        /\ new.remote = row.remote /\ new.nonce = row.nonce
    BY <1>1, <2>3 DEF Row
  <2>5. new.status = "acked" =>
           new.acked = new.desired /\ new.desired = row.desired /\ row.status = "acked"
    BY <1>1, <2>2, <2>4 DEF RowKnown
  <2>6. Resolved(new) => Shows(k, new.remote)'
    BY <1>1, <1>2, <2>4, <2>5 DEF Resolved, RowKnown, Shows
  <2>7. new.op = "create_intent" <=> row.op = "create_intent"
    BY <1>1, <2>1, <2>4 DEF RowKnown
  <2> QED BY <1>1, <1>2, <1>3, <2>4, <2>5, <2>6, <2>7 DEF RowKnown
<1> QED BY <1>4, <1>5

(* The rows of a run are those of its event, in the event's route.          *)
LEMMA Plans ==
    ASSUME CallersInv, NEW r \in Routes, NEW m \in DOMAIN inbox, inbox[m].route = r,
           inbox[m].run # NoRun, InboxStep(m),
           NEW n \in 1 .. MaxChunks, NEW rev \in {PlaceholderRev, FinalRev},
           deliveries' = PlanDeliveries(inbox[m], m, n, rev),
           \A o \in DOMAIN inbox : o # m => o \in DOMAIN inbox' /\ inbox'[o] = inbox[o],
           LaneFrame(r), lane'[r].pc # "call", UNCHANGED <<posted, wire>>, Owns(r)'
    PROVE  CallersInv' /\ [Next]_storeVars
<1>1. LaneInv /\ Inv /\ DOMAIN deliveries \subseteq RowKeys /\ PlatformOK /\ InOrder(posted)
  BY DEF CallersInv, LaneInv, OrderInv, Inv, TypeOK, RowsOK
<1>2. [Next]_storeVars /\ LaneInv'
  BY <1>1, NextLane DEF Next
<1> DEFINE planned == {inbox[m].run} \X (0 .. n - 1)
<1>3. /\ DOMAIN deliveries' = DOMAIN deliveries \cup planned
      /\ \A k \in DOMAIN deliveries' :
            deliveries'[k] = IF k \notin planned THEN deliveries[k]
                             ELSE IF k \in DOMAIN deliveries THEN Replan(deliveries[k], rev)
                             ELSE NewRow(inbox[m], m, rev)
  BY DEF PlanDeliveries
<1>4. \A k \in planned : k[1] = inbox[m].run
  OBVIOUS
<1> HIDE DEF planned
<1>5. PlanStep(m)
  BY <1>1, PlanFrame
<1>6. ASSUME NEW k \in DOMAIN deliveries, deliveries[k].route # r PROVE deliveries'[k] = deliveries[k]
  <2>1. inbox[deliveries[k].inbox].run = k[1] /\ inbox[deliveries[k].inbox].route = deliveries[k].route
    BY <1>1 DEF Inv, RowsBelong
  <2>2. deliveries[k].inbox \in DOMAIN inbox
    BY <1>1 DEF Inv, RowsBelong
  <2>3. k \notin planned
    <3> SUFFICES ASSUME k \in planned PROVE FALSE
      OBVIOUS
    <3>1. inbox[deliveries[k].inbox].run = inbox[m].run
      BY <1>4, <2>1
    <3>2. deliveries[k].inbox = m
      BY <1>1, <2>2, <3>1 DEF Inv, RowsBelong
    <3> QED BY <1>6, <2>1, <3>2
  <2> QED BY <1>3, <2>3
<1>7. /\ \A k \in DOMAIN deliveries :
            deliveries'[k].route = deliveries[k].route /\ deliveries'[k].seq = deliveries[k].seq
      /\ \A k \in DOMAIN deliveries' \ DOMAIN deliveries : deliveries'[k].route = r
      /\ DOMAIN deliveries \subseteq DOMAIN deliveries'
  BY <1>5 DEF PlanStep, RowStep
<1>8. \A k \in RowKeys : Same(k)
  BY SameAll
<1>9. ASSUME NEW k \in RowKeys PROVE Known(k)'
  <2>1. Known(k) /\ SentOnce(k) /\ epoch' = epoch
    BY DEF CallersInv, Known, LaneFrame
  <2>2. SentOnce(k)' /\ (Sent(k)' <=> Sent(k))
    BY <1>8, <2>1, SentKept
  <2>3. Calling(k)' => Calling(k)
    BY DEF Calling, LaneFrame
  <2>4. CASE k \in DOMAIN deliveries
    <3>1. deliveries[k] \in Row /\ RowKnown(k) /\ k \in DOMAIN deliveries'
      BY <1>1, <1>7, <2>1, <2>4 DEF Known, Inv, TypeOK, RowsOK
    <3>2. CASE k \in planned
      <4>1. deliveries'[k] = Replan(deliveries[k], rev)
        BY <1>3, <2>4, <3>1, <3>2
      <4>2. RowKnown(k)'
        BY <2>1, <2>3, <2>4, <3>1, <4>1, ReplanKnown
      <4> QED BY <2>2, <3>1, <4>2 DEF Known
    <3>3. CASE k \notin planned
      <4>1. deliveries'[k] = deliveries[k]
        BY <1>3, <3>1, <3>3
      <4> QED BY <1>8, <2>1, <2>3, <2>4, <3>1, <4>1, KnownKept
    <3> QED BY <3>2, <3>3
  <2>5. CASE k \in DOMAIN deliveries' \ DOMAIN deliveries
    <3>1. deliveries'[k] = NewRow(inbox[m], m, rev)
      BY <1>3, <2>5
    <3>2. PICK new : new = deliveries'[k]
      OBVIOUS
    <3>3. /\ new.status = "pending" /\ new.nonce = NoNonce /\ new.op = "planned"
          /\ new.remote = NoRemote
      BY <3>1, <3>2 DEF NewRow
    <3>4. ~Sent(k)
      BY <2>1, <2>5 DEF Known, Sent
    <3>5. RowKnown(k)'
      BY <2>2, <3>2, <3>3, <3>4 DEF RowKnown, Resolved
    <3> QED BY <2>2, <2>5, <3>5 DEF Known
  <2>6. CASE k \notin DOMAIN deliveries'
    <3>1. MessagesOf(k)' = {} /\ CreatesOf(k)' = {}
      BY <1>3, <1>8, <2>1, <2>6 DEF Known, Same
    <3> QED BY <2>2, <2>6, <3>1 DEF Known
  <2> QED BY <2>4, <2>5, <2>6
<1>10. ASSUME NEW s \in Routes, s # r PROVE Owns(s)'
  <2>1. RouteKept(s)
    BY <1>1, <1>6, <1>7, <1>8, <1>10 DEF RouteKept
  <2>2. \A k \in DOMAIN deliveries : RowKnown(k)
    BY <1>1 DEF CallersInv, Known
  <2>3. \A o \in DOMAIN inbox :
           inbox[o].route = s /\ inbox[o].state = "admitted" =>
              o \in DOMAIN inbox' /\ inbox'[o].route = s /\ inbox'[o].state = "admitted"
    BY <1>10
  <2> QED BY <1>10, <2>1, <2>2, <2>3, OwnsKept DEF CallersInv, LaneFrame
<1>11. InOrder(posted)'
  <2>1. \A id \in DOMAIN posted' : posted'[id].key \in DOMAIN deliveries /\ posted'[id].key \in RowKeys
    BY KeysKnown
  <2>2. /\ epoch \in [RowKeys -> Nat] /\ epoch' = epoch /\ \A k \in RowKeys : epoch[k] <= epoch'[k]
        /\ InOrder(posted')
    BY <1>1 DEF CallersInv, LaneTyped, LaneFrame, InOrder
  <2> QED BY <1>7, <2>1, <2>2, OrderKept
<1>12. LaneTyped' /\ PlatformOK'
  BY <1>1 DEF CallersInv, LaneTyped, LaneFrame, PlatformOK, FreeId, MessagesOf
<1> QED BY <1>2, <1>9, <1>10, <1>11, <1>12 DEF CallersInv

LEMMA TurnPlans ==
    ASSUME CallersInv, NEW r \in Routes, PlanStatus(r) \/ PlanAnswer(r)
    PROVE  CallersInv' /\ [Next]_storeVars
<1>1. lane \in [Routes -> Owner] /\ Owns(r) /\ Inv
  BY DEF CallersInv, LaneTyped, LaneInv, OrderInv
<1>2. PICK m : m = lane[r].work
  OBVIOUS
<1>3. /\ m \in DOMAIN inbox /\ inbox[m].route = r /\ inbox[m].state = "admitted"
      /\ lane[r].pc \in {"plan", "turn"} /\ serving /\ m # NoMsg
  BY <1>1, <1>2 DEF PlanStatus, PlanAnswer, At, Owns, HoldsWork
<1>4. CASE PlanStatus(r)
  <2>1. PICK k : k = <<inbox[m].run, 0>>
    OBVIOUS
  <2>2. /\ PlanPreview(inbox[m], m) /\ UNCHANGED <<conv, inbox, posted, wire, epoch, serving>>
        /\ lane' = [lane EXCEPT ![r].pc = "next", ![r].key = k]
    BY <1>2, <1>4, <2>1 DEF PlanStatus, Quiet, Stays
  <2>3. /\ inbox[m].run # NoRun /\ deliveries' = PlanDeliveries(inbox[m], m, 1, PlaceholderRev)
        /\ inbox[m].run \in RunIds \cup {NoRun}
    BY <1>1, <1>3, <2>2 DEF PlanPreview, Inv, TypeOK, Item
  <2>4. k \in RowKeys /\ 1 \in 1 .. MaxChunks
    BY <2>1, <2>3, MaxChunksAssumption DEF RowKeys, Chunks
  <2>5. InboxStep(m)
    BY <1>3, <2>2 DEF InboxStep, PreviewRun
  <2>6. /\ LaneFrame(r) /\ lane'[r].pc = "next" /\ lane'[r].work = m /\ lane'[r].key = k
    BY <1>1, <1>2, <2>2, <2>4 DEF LaneFrame, Owner, Pcs
  <2>7. k \in DOMAIN deliveries' /\ deliveries'[k].route = r
    <3>1. k \in DOMAIN deliveries'
      BY <2>1, <2>3 DEF PlanDeliveries
    <3>2. PlanStep(m)
      BY <1>1, <1>3, <2>3, PlanFrame
    <3>3. CASE k \notin DOMAIN deliveries
      BY <1>3, <3>1, <3>2, <3>3 DEF PlanStep
    <3>4. CASE k \in DOMAIN deliveries
      <4>1. /\ deliveries[k].inbox \in DOMAIN inbox
            /\ inbox[deliveries[k].inbox].run = k[1]
            /\ inbox[deliveries[k].inbox].route = deliveries[k].route
        BY <1>1, <3>4 DEF Inv, RowsBelong
      <4>2. k[1] = inbox[m].run
        BY <2>1
      <4>3. deliveries[k].inbox = m
        BY <1>1, <1>3, <2>3, <4>1, <4>2 DEF Inv, RowsBelong
      <4> QED BY <1>3, <3>1, <3>2, <3>4, <4>1, <4>3 DEF PlanStep, RowStep
    <3> QED BY <3>1, <3>3, <3>4
  <2>8. Owns(r)'
    <3>1. HoldsWork(r)'
      BY <1>3, <2>2, <2>6 DEF HoldsWork
    <3>2. HoldsRow(r)'
      BY <2>6, <2>7 DEF HoldsRow
    <3> QED BY <1>3, <2>2, <3>1, <3>2 DEF Owns
  <2> QED BY <1>3, <2>2, <2>3, <2>4, <2>5, <2>6, <2>8, Plans
<1>5. CASE PlanAnswer(r)
  <2>1. /\ FinishRun(m) /\ lane' = [lane EXCEPT ![r] = Idle]
        /\ UNCHANGED <<posted, wire, epoch, serving>>
    BY <1>2, <1>5 DEF PlanAnswer
  <2>2. PICK n \in 1 .. MaxChunks : MarkTerminal(m, n)
    BY <2>1 DEF FinishRun
  <2>3. /\ inbox[m].run # NoRun
        /\ deliveries' = PlanDeliveries(inbox[m], m, n, FinalRev)
        /\ \E item : inbox' = [inbox EXCEPT ![m] = item]
    BY <2>2 DEF MarkTerminal, SetItem
  <2>4. InboxStep(m)
    BY <2>1 DEF InboxStep
  <2>5. Idle \in Owner /\ Idle.pc = "idle" /\ Idle.work = NoMsg
    BY DEF Idle, Owner, Pcs
  <2>6. /\ LaneFrame(r) /\ lane'[r] = Idle
    BY <1>1, <2>1, <2>5 DEF LaneFrame
  <2>7. Owns(r)'
    BY <2>5, <2>6 DEF Owns, HoldsWork, HoldsRow
  <2>8. \A o \in DOMAIN inbox : o # m => o \in DOMAIN inbox' /\ inbox'[o] = inbox[o]
    BY <1>1, <2>3 DEF Inv, TypeOK
  <2> QED BY <1>3, <2>1, <2>3, <2>4, <2>5, <2>6, <2>7, <2>8, Plans
<1> QED BY <1>4, <1>5

-----------------------------------------------------------------------------
(* Events arrive and are admitted: no admitted prompt is touched.           *)
LEMMA EventsMove ==
    ASSUME CallersInv, [Next]_storeVars,
           UNCHANGED <<deliveries, lane, posted, wire, epoch, serving>>,
           \A m \in DOMAIN inbox :
              inbox[m].state = "admitted" =>
                 /\ m \in DOMAIN inbox' /\ inbox'[m].route = inbox[m].route
                 /\ inbox'[m].state = "admitted"
    PROVE  CallersInv'
<1>1. LaneInv' /\ DOMAIN deliveries \subseteq RowKeys
  BY NextLane DEF CallersInv, LaneInv, OrderInv, Inv, TypeOK, RowsOK
<1>2. \A k \in RowKeys : Same(k)
  BY SameAll
<1>3. ASSUME NEW k \in RowKeys PROVE Known(k)'
  <2>1. Known(k) /\ (Calling(k)' => Calling(k))
    BY DEF CallersInv, Calling
  <2> QED BY <1>2, <2>1, KnownKept
<1>4. ASSUME NEW s \in Routes PROVE Owns(s)'
  <2>1. RouteKept(s)
    BY <1>1, <1>2 DEF RouteKept
  <2>2. \A k \in DOMAIN deliveries : RowKnown(k)
    BY <1>1 DEF CallersInv, Known
  <2> QED BY <2>1, <2>2, OwnsKept DEF CallersInv
<1>5. LaneTyped' /\ PlatformOK' /\ InOrder(posted)'
  BY DEF CallersInv, LaneTyped, PlatformOK, FreeId, MessagesOf, InOrder, Before
<1> QED BY <1>1, <1>3, <1>4, <1>5 DEF CallersInv

LEMMA Events ==
    ASSUME CallersInv,
           (\E m \in Msgs, r \in Routes : Arrive(m, r)) \/ (\E m \in Msgs : Admit(m))
    PROVE  CallersInv' /\ [Next]_storeVars
<1>1. Inv /\ inbox \in [DOMAIN inbox -> Item]
  BY DEF CallersInv, LaneInv, OrderInv, Inv, TypeOK
<1>2. ASSUME NEW m \in Msgs, NEW r \in Routes, Arrive(m, r) PROVE CallersInv' /\ [Next]_storeVars
  <2>1. Ingest(m, r) /\ UNCHANGED <<lane, posted, wire, epoch, serving>>
    BY <1>2 DEF Arrive, Ingest
  <2>2. [Next]_storeVars
    BY <2>1 DEF Next
  <2>3. UNCHANGED deliveries /\ \E item : inbox' = WithRow(inbox, m, item)
    BY <1>2 DEF Arrive, IngestPrompt, Insert
  <2>4. \A n \in DOMAIN inbox : n \in DOMAIN inbox' /\ inbox'[n] = inbox[n]
    BY <1>2, <2>3 DEF WithRow, Arrive
  <2> QED BY <2>1, <2>2, <2>3, <2>4, EventsMove
<1>3. ASSUME NEW m \in Msgs, Admit(m) PROVE CallersInv' /\ [Next]_storeVars
  <2>1. /\ m \in DOMAIN inbox /\ InboxStep(m) /\ UNCHANGED <<lane, posted, wire, epoch, serving>>
        /\ StartAdmitting(m) \/ \E run \in RunIds : MarkAdmitted(m, run)
    BY <1>3 DEF Admit, InboxStep, RecordReceipt
  <2>2. [Next]_storeVars
    BY <2>1 DEF Next
  <2>3. InboxFrame
    BY <1>1, <2>1, InboxStepFrame
  <2>4. UNCHANGED deliveries
    BY <2>1 DEF StartAdmitting, Transition, MarkAdmitted
  <2>5. ASSUME NEW n \in DOMAIN inbox, inbox[n].state = "admitted"
        PROVE  inbox'[n].state = "admitted"
    <3>1. CASE StartAdmitting(m)
      <4>1. /\ inbox[m].state = "queued"
            /\ \E item : inbox' = [inbox EXCEPT ![m] = item]
        BY <3>1 DEF StartAdmitting, Transition, SetItem
      <4> QED BY <1>1, <2>5, <4>1
    <3>2. ASSUME NEW run \in RunIds, MarkAdmitted(m, run) PROVE inbox'[n].state = "admitted"
      <4>1. PICK item : item = [inbox[m] EXCEPT !.state = "admitted", !.run = run]
        OBVIOUS
      <4>2. item.state = "admitted" /\ inbox' = [inbox EXCEPT ![m] = item]
        BY <1>1, <2>1, <3>2, <4>1 DEF MarkAdmitted, SetItem, Item
      <4> QED BY <1>1, <2>1, <2>5, <4>2
    <3> QED BY <2>1, <3>1, <3>2
  <2>6. \A n \in DOMAIN inbox : n \in DOMAIN inbox' /\ inbox'[n].route = inbox[n].route
    BY <2>3 DEF InboxFrame, ItemStep
  <2> QED BY <2>1, <2>2, <2>4, <2>5, <2>6, EventsMove
<1> QED BY <1>2, <1>3

-----------------------------------------------------------------------------
(* The process dies and is started again.                                   *)

(* A call of a goroutine that dies.                                         *)
CallOf(r) == IF lane[r].pc = "call" THEN CreateCall(Key(r)) ELSE EditCall(Key(r), RowOf(r).desired)

LEMMA CallTyped ==
    ASSUME CallersInv, NEW r \in Routes, lane[r].pc \in {"call", "edit"}, NEW c, c = CallOf(r)
    PROVE  /\ c \in [key: RowKeys, id: Nat, nonce: Nat, rev: Nat]
           /\ c.id # NoRemote => c.id \in MessagesOf(c.key)
           /\ c.id = NoRemote =>
                 /\ lane[r].pc = "call" /\ c = CreateCall(c.key) /\ c.key = Key(r)
                 /\ c.key \in DOMAIN deliveries /\ deliveries[c.key].route = r
                 /\ c.nonce = epoch[c.key] + 1 /\ ~Sent(c.key)
                 /\ deliveries[c.key].op = "create_intent"
<1>1. PICK k : k = Key(r)
  OBVIOUS
<1>2. CASE lane[r].pc = "call"
  <2>1. c = CreateCall(k)
    BY <1>1, <1>2 DEF CallOf
  <2> QED BY <1>1, <1>2, <2>1, CreateAsks
<1>3. CASE lane[r].pc = "edit"
  <2>1. c = EditCall(k, deliveries[k].desired)
    BY <1>1, <1>3 DEF CallOf, RowOf
  <2>2. k \in RowKeys /\ deliveries[k] \in Row /\ RowKnown(k)
    BY <1>1, <1>3, AtRow DEF RowOf
  <2>3. deliveries[k].remote # NoRemote
    BY <1>1, <1>3 DEF CallersInv, Owns, HoldsRow, Key
  <2>4. c.key = k /\ c.id = deliveries[k].remote
    BY <2>1 DEF EditCall
  <2>5. c \in [key: RowKeys, id: Nat, nonce: Nat, rev: Nat]
    BY <2>1, <2>2 DEF EditCall, Row, NoNonce
  <2> QED BY <2>2, <2>3, <2>4, <2>5 DEF RowKnown
<1> QED BY <1>2, <1>3

(* Each row's lane has one owner, so that a crash leaves at most one create *)
(* of a row behind.                                                         *)
LEMMA Crashes ==
    ASSUME CallersInv, Crash
    PROVE  CallersInv' /\ UNCHANGED storeVars
<1>1. /\ lane' = [s \in Routes |-> Idle] /\ UNCHANGED <<storeVars, posted, epoch>>
      /\ PlatformOK /\ InOrder(posted) /\ LaneTyped /\ LaneInv
  BY DEF Crash, CallersInv
<1>2. PICK given \in SUBSET {r \in Routes : lane[r].pc \in {"call", "edit"}} :
         wire' = wire \cup {CallOf(r) : r \in given}
  BY DEF Crash, CallOf
<1>3. ASSUME NEW c \in wire', c \notin wire
      PROVE  \E r \in Routes : lane[r].pc \in {"call", "edit"} /\ c = CallOf(r)
  BY <1>2, <1>3
<1>4. \A k : MessagesOf(k)' = MessagesOf(k)
  BY <1>1 DEF MessagesOf
<1>5. PlatformOK'
  <2>1. FreeId' = FreeId
    BY <1>1 DEF FreeId
  <2>2. ASSUME NEW c \in wire'
        PROVE  /\ c \in [key: RowKeys, id: Nat, nonce: Nat, rev: Nat]
               /\ c.id # NoRemote => c.id \in MessagesOf(c.key)
    BY <1>1, <1>3, CallTyped DEF PlatformOK
  <2>3. \A c \in wire' : c.id # NoRemote => c.id \in MessagesOf(c.key)'
    BY <1>4, <2>2
  <2>4. wire' \subseteq [key: RowKeys, id: Nat, nonce: Nat, rev: Nat]
    BY <2>2
  <2> QED BY <1>1, <2>1, <2>3, <2>4 DEF PlatformOK
<1>6. LaneInv' /\ DOMAIN deliveries \subseteq RowKeys
  BY <1>1, NextLane DEF LaneInv, OrderInv, Inv, TypeOK, RowsOK
<1>7. Idle \in Owner /\ Idle.pc = "idle" /\ Idle.work = NoMsg
  BY DEF Idle, Owner, Pcs
<1>8. ASSUME NEW s \in Routes PROVE Owns(s)'
  <2>1. lane'[s] = Idle
    BY <1>1
  <2> QED BY <1>7, <2>1 DEF Owns, HoldsWork, HoldsRow
<1>9. \A k : ~Calling(k)'
  <2>1. \A s \in Routes : lane'[s].pc = "idle"
    BY <1>1, <1>7
  <2> QED BY <2>1 DEF Calling
<1>10. ASSUME NEW k \in RowKeys PROVE Known(k)'
  <2>1. Known(k) /\ SentOnce(k)
    BY DEF CallersInv, Known
  <2>2. ASSUME NEW c \in CreatesOf(k)', c \notin CreatesOf(k)
        PROVE  /\ c = CreateCall(k) /\ k \in DOMAIN deliveries
               /\ c.nonce = epoch[k] + 1 /\ ~Sent(k)
               /\ deliveries[k].op = "create_intent"
    <3>1. c \in wire' /\ c \notin wire /\ c.id = NoRemote /\ c.key = k
      BY <2>2 DEF CreatesOf
    <3>2. PICK r \in Routes : lane[r].pc \in {"call", "edit"} /\ c = CallOf(r)
      BY <1>3, <3>1
    <3> QED BY <3>1, <3>2, CallTyped
  <2>3. CreatesOf(k) \subseteq CreatesOf(k)'
    BY <1>2 DEF CreatesOf
  <2>4. CASE CreatesOf(k)' = CreatesOf(k)
    <3>1. Same(k)
      BY <1>1, <1>4, <2>4 DEF Same
    <3> QED BY <1>1, <1>9, <2>1, <3>1, KnownKept DEF storeVars
  <2>5. CASE CreatesOf(k)' # CreatesOf(k)
    <3>1. PICK c \in CreatesOf(k)' : c \notin CreatesOf(k)
      BY <2>3, <2>5
    <3>2. /\ CreatesOf(k)' = CreatesOf(k) \cup {c} /\ c.nonce = epoch[k] + 1
          /\ ~Sent(k) /\ k \in DOMAIN deliveries /\ deliveries[k].op = "create_intent"
      BY <2>2, <2>3, <3>1
    <3>3. /\ \A id \in MessagesOf(k) : posted[id].nonce # epoch[k] + 1
          /\ \A d \in CreatesOf(k) : d.nonce # epoch[k] + 1
      BY <3>2 DEF Sent
    <3>4. SentOnce(k)'
      <4>1. MessagesOf(k)' = MessagesOf(k) /\ posted' = posted /\ epoch' = epoch
            /\ epoch[k] \in Nat
        BY <1>1, <1>4 DEF LaneTyped
      <4> QED BY <2>1, <3>2, <3>3, <4>1 DEF SentOnce
    <3>5. RowKnown(k)'
      <4>1. RowKnown(k) /\ deliveries' = deliveries /\ posted' = posted /\ epoch' = epoch
        BY <1>1, <2>1, <3>2 DEF Known, storeVars
      <4>2. Resolved(deliveries[k]) => Shows(k, deliveries[k].remote)'
        BY <4>1 DEF RowKnown, Shows
      <4> QED BY <1>4, <1>9, <3>2, <4>1, <4>2 DEF RowKnown
    <3> QED BY <1>1, <3>2, <3>4, <3>5 DEF Known, storeVars
  <2> QED BY <2>4, <2>5
<1>11. LaneTyped'
  BY <1>1, <1>7 DEF LaneTyped
<1>12. InOrder(posted)'
  BY <1>1 DEF InOrder, Before, storeVars
<1> QED BY <1>1, <1>5, <1>6, <1>8, <1>10, <1>11, <1>12 DEF CallersInv

LEMMA Restarts ==
    ASSUME CallersInv, Restart
    PROVE  CallersInv' /\ UNCHANGED storeVars
<1>1. UNCHANGED <<storeVars, lane, posted, wire, epoch>> /\ serving'
  BY DEF Restart
<1>2. LaneInv' /\ DOMAIN deliveries \subseteq RowKeys
  BY <1>1, NextLane DEF CallersInv, LaneInv, OrderInv, Inv, TypeOK, RowsOK
<1>3. ASSUME NEW k \in RowKeys PROVE Known(k)'
  <2>1. Known(k) /\ Same(k) /\ (Calling(k)' => Calling(k))
    BY <1>1, SameAll DEF CallersInv, Calling
  <2> QED BY <1>1, <2>1, KnownKept DEF storeVars
<1>4. ASSUME NEW s \in Routes PROVE Owns(s)'
  <2>1. Owns(s)
    BY DEF CallersInv
  <2>2. \A k, id : Shows(k, id)' = Shows(k, id) /\ MessagesOf(k)' = MessagesOf(k)
    BY <1>1 DEF Shows, MessagesOf, storeVars
  <2>3. \A k : AtHead(k)' = AtHead(k)
    BY <1>1 DEF AtHead, IsNext, Unresolved, Before, storeVars
  <2>4. HoldsWork(s)'
    BY <1>1, <2>1 DEF Owns, HoldsWork, storeVars
  <2>5. HoldsRow(s)'
    BY <1>1, <2>1, <2>2, <2>3 DEF Owns, HoldsRow, storeVars
  <2> QED BY <1>1, <2>4, <2>5 DEF Owns
<1>5. LaneTyped' /\ PlatformOK' /\ InOrder(posted)'
  BY <1>1 DEF CallersInv, LaneTyped, PlatformOK, FreeId, MessagesOf, InOrder, Before, storeVars
<1> QED BY <1>1, <1>2, <1>3, <1>4, <1>5 DEF CallersInv

-----------------------------------------------------------------------------
(* The operator, while the process is down and no lane has an owner.        *)
LEMMA DownRests ==
    ASSUME CallersInv, ~serving, NEW s \in Routes,
           UNCHANGED <<lane, serving, inbox>>
    PROVE  lane[s].pc = "idle" /\ Owns(s)'
<1>1. Owns(s)
  BY DEF CallersInv
<1>2. lane[s].pc = "idle"
  BY <1>1 DEF Owns
<1> QED BY <1>1, <1>2 DEF Owns, HoldsWork, HoldsRow

LEMMA Associates ==
    ASSUME CallersInv, NEW k \in DOMAIN deliveries, ResolveAssociate(k)
    PROVE  CallersInv' /\ [Next]_storeVars
<1>1. PICK id \in DOMAIN posted : posted[id].key = k /\ AssociateMessage(k, id)
  BY DEF ResolveAssociate
<1>2. ~serving /\ UNCHANGED <<conv, inbox, lane, posted, wire, epoch, serving>>
  BY DEF ResolveAssociate
<1>3. k \in RowKeys /\ deliveries[k] \in Row
  BY DEF CallersInv, LaneInv, OrderInv, Inv, TypeOK, RowsOK
<1>4. RowKnown(k)
  BY <1>3 DEF CallersInv, Known
<1>5. PICK r \in Routes : r = deliveries[k].route
  BY <1>3 DEF Row
<1>6. lane[r].pc = "idle" /\ Owns(r)'
  BY <1>2, DownRests
<1>7. LaneFrame(r)
  BY <1>2 DEF LaneFrame, CallersInv, LaneTyped
<1>8. id \in MessagesOf(k) /\ id \in RemoteIds /\ id # NoRemote
  BY <1>1, IdsAssumption DEF MessagesOf, CallersInv, PlatformOK
<1>9. PICK new : SetRow(k, new) /\ RowFits(k, new)
  BY <1>1, <1>3, <1>4, <1>8, FoundFits
<1>10. ResolveStep(k)
  BY <1>1, <1>2, <1>8 DEF ResolveStep
<1> QED BY <1>2, <1>5, <1>6, <1>7, <1>9, <1>10, RowTakes

(* A resend starts with a nonce of its own.                                 *)
LEMMA Resends ==
    ASSUME CallersInv, NEW k \in DOMAIN deliveries, ResolveResend(k)
    PROVE  CallersInv' /\ [Next]_storeVars
<1>1. /\ ~serving /\ Resend(k) /\ epoch' = [epoch EXCEPT ![k] = epoch[k] + 1]
      /\ UNCHANGED <<conv, inbox, lane, posted, wire, serving>>
      /\ LaneInv /\ Inv /\ PlatformOK /\ InOrder(posted) /\ LaneTyped
  BY DEF ResolveResend, CallersInv, LaneInv, OrderInv
<1>2. k \in RowKeys /\ deliveries[k] \in Row /\ DOMAIN deliveries \subseteq RowKeys
  BY <1>1 DEF Inv, TypeOK, RowsOK
<1>3. RowKnown(k) /\ SentOnce(k)
  BY <1>2 DEF CallersInv, Known
<1>4. ResolveStep(k)
  BY <1>1 DEF ResolveStep
<1>5. [Next]_storeVars /\ LaneInv'
  BY <1>1, <1>4, NextLane DEF Next
<1>6. PICK row : row = deliveries[k]
  OBVIOUS
<1>7. PICK op : op = IF row.remote = NoRemote THEN "planned" ELSE "edit_pending"
  OBVIOUS
<1>8. PICK new : new = [row EXCEPT !.status = "pending", !.op = op, !.nonce = NoNonce, !.attempts = 0]
  OBVIOUS
<1>9. SetRow(k, new)
  BY <1>1, <1>6, <1>7, <1>8 DEF Resend
<1>10. /\ new.status = "pending" /\ new.op = op /\ new.nonce = NoNonce /\ new.remote = row.remote
       /\ new.route = row.route /\ new.seq = row.seq
  BY <1>2, <1>6, <1>8 DEF Row
<1>11. /\ DOMAIN deliveries' = DOMAIN deliveries /\ deliveries'[k] = new
       /\ \A j \in DOMAIN deliveries : j # k => deliveries'[j] = deliveries[j]
  BY <1>1, <1>9, OneRow
<1>12. /\ epoch' \in [RowKeys -> Nat] /\ epoch'[k] = epoch[k] + 1 /\ epoch[k] \in Nat
       /\ \A j \in RowKeys : j # k => epoch'[j] = epoch[j]
  BY <1>1, <1>2 DEF LaneTyped
<1>13. \A j \in RowKeys : Same(j)
  BY <1>1, SameAll
<1>14. \A j : Calling(j)' => Calling(j)
  BY <1>1 DEF Calling
<1>15. Known(k)'
  <2>1. PICK n : n = epoch[k]
    OBVIOUS
  <2>2. MessagesOf(k)' = MessagesOf(k) /\ CreatesOf(k)' = CreatesOf(k) /\ posted' = posted
    BY <1>1, <1>2, <1>13 DEF Same
  <2>3. n \in Nat /\ epoch'[k] = n + 1
    BY <1>12, <2>1
  <2>4. /\ \A id \in MessagesOf(k) : posted[id].nonce \in 1 .. n + 1
        /\ \A c \in CreatesOf(k) : c.nonce \in 1 .. n + 1
    BY <1>3, <2>1 DEF SentOnce
  <2>5. /\ \A id \in MessagesOf(k) : posted[id].nonce \in 1 .. (n + 1) + 1 /\ posted[id].nonce # (n + 1) + 1
        /\ \A c \in CreatesOf(k) : c.nonce \in 1 .. (n + 1) + 1 /\ c.nonce # (n + 1) + 1
    BY <2>3, <2>4
  <2>6. SentOnce(k)'
    BY <1>3, <2>2, <2>3, <2>5 DEF SentOnce
  <2>7. ~Sent(k)'
    BY <2>2, <2>3, <2>5 DEF Sent
  <2>8. RowKnown(k)'
    BY <1>3, <1>6, <1>7, <1>10, <1>11, <2>2, <2>7 DEF RowKnown, Resolved
  <2> QED BY <1>11, <2>6, <2>8 DEF Known
<1>16. ASSUME NEW j \in RowKeys PROVE Known(j)'
  <2>1. CASE j # k
    <3>1. Known(j)
      BY DEF CallersInv
    <3> QED BY <1>11, <1>12, <1>13, <1>14, <2>1, <3>1, KnownKept
  <2> QED BY <1>15, <2>1
<1>17. \A s \in Routes : Owns(s)'
  BY <1>1, DownRests
<1>18. InOrder(posted)'
  <2>1. \A id \in DOMAIN posted' : posted'[id].key \in DOMAIN deliveries /\ posted'[id].key \in RowKeys
    BY <1>1, KeysKnown
  <2>2. /\ \A j \in RowKeys : epoch[j] <= epoch'[j]
        /\ epoch \in [RowKeys -> Nat]
    BY <1>12, <1>1 DEF LaneTyped
  <2>3. \A j \in DOMAIN deliveries :
           deliveries'[j].route = deliveries[j].route /\ deliveries'[j].seq = deliveries[j].seq
    BY <1>6, <1>10, <1>11
  <2>4. InOrder(posted')
    BY <1>1 DEF InOrder
  <2> QED BY <1>12, <2>1, <2>2, <2>3, <2>4, OrderKept
<1>19. LaneTyped' /\ PlatformOK'
  BY <1>1, <1>12 DEF LaneTyped, PlatformOK, FreeId, MessagesOf
<1> QED BY <1>5, <1>16, <1>17, <1>18, <1>19 DEF CallersInv

-----------------------------------------------------------------------------
(* The invariant, and what the callers promise.                             *)

LEMMA LaneInitInv == LaneInit => CallersInv
<1> SUFFICES ASSUME LaneInit PROVE CallersInv
  OBVIOUS
<1>1. /\ Init /\ lane = [r \in Routes |-> Idle] /\ DOMAIN posted = {} /\ wire = {}
      /\ epoch = [k \in RowKeys |-> 0]
  BY DEF LaneInit
<1>2. LaneInv
  BY <1>1, InitInv DEF Init, LaneInv, OrderInv, KindsFit, WorkInOrder, StopsReach, LaneReached,
                       PreviewOnly, DesiredKnown, AnswerPlanned
<1>3. Idle \in Owner /\ Idle.pc = "idle" /\ Idle.work = NoMsg
  BY DEF Idle, Owner, Pcs
<1>4. LaneTyped
  BY <1>1, <1>3 DEF LaneTyped
<1>5. PlatformOK
  <2>1. IsFiniteSet(DOMAIN posted)
    BY <1>1, FS_EmptySet
  <2>2. posted \in [DOMAIN posted -> [key: RowKeys, nonce: Nat, rev: Nat, late: BOOLEAN]]
    BY DEF LaneInit
  <2> QED BY <1>1, <2>1, <2>2 DEF PlatformOK
<1>6. \A k \in RowKeys : Known(k)
  BY <1>1 DEF Known, SentOnce, MessagesOf, CreatesOf, Init
<1>7. ASSUME NEW r \in Routes PROVE Owns(r)
  <2>1. lane[r] = Idle
    BY <1>1
  <2> QED BY <1>3, <2>1 DEF Owns, HoldsWork, HoldsRow
<1>8. InOrder(posted)
  BY <1>1 DEF InOrder
<1> QED BY <1>2, <1>4, <1>5, <1>6, <1>7, <1>8 DEF CallersInv

(* Every step keeps it, and is a step of the contract or none.              *)
LEMMA LaneNextInv == CallersInv /\ [LaneNext]_laneVars => CallersInv' /\ [Next]_storeVars
<1> SUFFICES ASSUME CallersInv, [LaneNext]_laneVars PROVE CallersInv' /\ [Next]_storeVars
  OBVIOUS
<1>1. CASE \/ \E m \in Msgs, r \in Routes : Arrive(m, r)
           \/ \E m \in Msgs : Admit(m)
  BY <1>1, Events
<1>2. ASSUME NEW r \in Routes, OwnerStep(r) PROVE CallersInv' /\ [Next]_storeVars
  <2>1. CASE LocalStep(r)
    BY <2>1, LocalSteps
  <2>2. CASE PlanStatus(r) \/ PlanAnswer(r)
    BY <2>2, TurnPlans
  <2>3. CASE StopPreviews(r)
    BY <2>3, PreviewsStop
  <2>4. CASE GiveUpRow(r) \/ LeftoverIntent(r) \/ \E k \in DOMAIN deliveries : RefuseRow(r, k)
    BY <2>4, GivesUp
  <2>5. CASE RecordIntent(r)
    BY <2>5, Intends
  <2>6. CASE CreateReturns(r) \/ CreateTimesOut(r)
    BY <2>6, CreateAnswers
  <2>7. CASE CreateFails(r)
    BY <2>7, CreateRefuses
  <2>8. CASE PersistCreated(r) \/ PersistEdited(r)
    BY <2>8, Acknowledges
  <2>9. CASE Reconcile(r)
    BY <2>9, Reconciles
  <2>10. CASE EditReturns(r) \/ EditTimesOut(r)
    BY <2>10, EditAnswers
  <2>11. CASE EditFails(r)
    BY <2>11, EditRefuses
  <2>12. CASE OutcomeUnrecorded(r)
    <3>1. lane[r].pc \in {"call", "edit"}
      BY <2>12 DEF OutcomeUnrecorded
    <3> QED BY <2>12, <3>1, CreateAnswers, EditAnswers
  <2> QED BY <1>2, <2>1, <2>2, <2>3, <2>4, <2>5, <2>6, <2>7, <2>8, <2>9, <2>10, <2>11, <2>12
          DEF OwnerStep, TurnStep, CreateStep, EditStep, DrainStep, LocalStep
<1>3. ASSUME NEW c \in wire, LateLanding(c) PROVE CallersInv' /\ [Next]_storeVars
  BY <1>3, LateCalls
<1>4. CASE Crash \/ Restart
  BY <1>4, Crashes, Restarts
<1>5. ASSUME NEW k \in DOMAIN deliveries, ResolveResend(k) \/ ResolveAssociate(k)
      PROVE  CallersInv' /\ [Next]_storeVars
  BY <1>5, Associates, Resends
<1>6. CASE UNCHANGED laneVars
  <2>1. UNCHANGED <<storeVars, deliveries, lane, posted, wire, epoch, serving>>
        /\ inbox' = inbox /\ [Next]_storeVars
    BY <1>6 DEF laneVars, storeVars
  <2> QED BY <2>1, EventsMove
<1> QED BY <1>1, <1>2, <1>3, <1>4, <1>5, <1>6 DEF LaneNext

LEMMA LaneHolds == LaneSpec => []CallersInv
BY LaneInitInv, LaneNextInv, PTL DEF LaneSpec

(* The callers keep the contract of the database: every step of theirs is   *)
(* one that HostStore allows, or changes no table.                          *)
THEOREM CallersImplement == LaneSpec => ImplementsHostStore
<1>1. LaneInit => Init
  BY DEF LaneInit
<1> QED BY <1>1, LaneNextInv, LaneHolds, PTL DEF LaneSpec, ImplementsHostStore, Spec

LEMMA AtMostOne ==
    ASSUME NEW S, \A x, y \in S : x = y
    PROVE  Cardinality(S) \in {0, 1} /\ (S = {} => Cardinality(S) = 0)
<1>1. CASE S = {}
  BY <1>1, FS_EmptySet
<1>2. CASE S # {}
  <2>1. PICK x \in S : TRUE
    BY <1>2
  <2>2. S = {x}
    BY <2>1
  <2> QED BY <1>2, <2>2, FS_Singleton
<1> QED BY <1>1, <1>2

(* No create is repeated blindly: whatever fails, times out, lands late or  *)
(* crashes, a nonce of a row brings up one message at most.                 *)
THEOREM NoBlindCreateHolds == LaneSpec => []NoBlindCreate
<1>1. CallersInv => NoBlindCreate
  <2> SUFFICES ASSUME CallersInv, NEW k \in RowKeys, NEW n \in Nonces
               PROVE  Cardinality({id \in DOMAIN posted : posted[id].key = k /\ posted[id].nonce = n})
                      + Cardinality({c \in wire : c.id = NoRemote /\ c.key = k /\ c.nonce = n}) <= 1
    BY DEF NoBlindCreate
  <2>1. PICK A : A = {id \in DOMAIN posted : posted[id].key = k /\ posted[id].nonce = n}
    OBVIOUS
  <2>2. PICK B : B = {c \in wire : c.id = NoRemote /\ c.key = k /\ c.nonce = n}
    OBVIOUS
  <2>3. SentOnce(k)
    BY DEF CallersInv, Known
  <2>4. /\ \A x, y \in A : x = y
        /\ \A x, y \in B : x = y
        /\ A = {} \/ B = {}
    BY <2>1, <2>2, <2>3 DEF SentOnce, MessagesOf, CreatesOf
  <2>5. /\ Cardinality(A) \in {0, 1} /\ (A = {} => Cardinality(A) = 0)
        /\ Cardinality(B) \in {0, 1} /\ (B = {} => Cardinality(B) = 0)
    BY <2>4, AtMostOne
  <2>6. Cardinality(A) + Cardinality(B) <= 1
    BY <2>4, <2>5
  <2> QED BY <2>1, <2>2, <2>6
<1> QED BY <1>1, LaneHolds, PTL

(* What is acknowledged is what the platform shows, unless a call given up  *)
(* on landed late.                                                          *)
THEOREM AckedIsShownHolds == LaneSpec => []AckedIsShown
<1>1. CallersInv => AckedIsShown
  <2> SUFFICES ASSUME CallersInv, NEW k \in DOMAIN deliveries, Resolved(deliveries[k]),
                      NEW id, id = deliveries[k].remote
               PROVE  posted[id].key = k /\ (posted[id].late \/ posted[id].rev = deliveries[k].desired)
    BY DEF AckedIsShown
  <2>1. k \in RowKeys
    BY DEF CallersInv, LaneInv, OrderInv, Inv, TypeOK, RowsOK
  <2>2. RowKnown(k)
    BY <2>1 DEF CallersInv, Known
  <2>3. id \in MessagesOf(k) /\ Shows(k, id)
    BY <2>2 DEF RowKnown, Resolved
  <2> QED BY <2>3 DEF MessagesOf, Shows
<1> QED BY <1>1, LaneHolds, PTL

(* On the platform the chunks of a route appear in lane order, unless the   *)
(* operator resent one of them.                                             *)
THEOREM PostedInOrderHolds == LaneSpec => []PostedInOrder
<1>1. CallersInv => PostedInOrder
  BY DEF CallersInv, InOrder, PostedInOrder
<1> QED BY <1>1, LaneHolds, PTL

=============================================================================
