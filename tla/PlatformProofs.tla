--------------------------- MODULE PlatformProofs ---------------------------
(***************************************************************************)
(* The service's edges to the platforms: how close together calls come      *)
(* (Throttle), what a message is split into (Chunker), and that an event    *)
(* becomes one inbox item (SlackIngress and DiscordIngress as Intake).      *)
(***************************************************************************)
EXTENDS Throttle, Chunker, SlackIngress, DiscordIngress, FiniteSetTheorems, TLAPS

-----------------------------------------------------------------------------
(***************************************************************************)
(* The spacing of platform calls for any number of callers, any spacing and *)
(* any schedule, with any number of waits cut short.  A call or a slot      *)
(* belongs to the epoch, the number of waits cut short, in which it was     *)
(* taken.  Within an epoch the last reservation only moves on, so what is   *)
(* taken in it is a spacing apart; giving a slot back begins a new epoch,   *)
(* whose slots may lie among those of the earlier ones.                     *)
(***************************************************************************)

Apart(s, t) == s - t >= Spacing \/ t - s >= Spacing

Calls == 1 .. Len(sent)

(* e is the epoch of every call, f the one of every slot waited for: what   *)
(* shares an epoch is apart, and nothing of the current one is behind the   *)
(* last reservation.                                                        *)
Epochs(e, f) ==
    /\ e \in [Calls -> 0 .. gaveUps] /\ f \in [Callers -> 0 .. gaveUps]
    /\ \A i, j \in Calls : i # j /\ e[i] = e[j] => Apart(sent[i], sent[j])
    /\ \A i \in Calls, c \in Callers :
          wait[c].on /\ e[i] = f[c] => Apart(sent[i], wait[c].slot)
    /\ \A c, d \in Callers :
          c # d /\ wait[c].on /\ wait[d].on /\ f[c] = f[d] => Apart(wait[c].slot, wait[d].slot)
    /\ \A i \in Calls : e[i] = gaveUps => sent[i] <= last
    /\ \A c \in Callers : wait[c].on /\ f[c] = gaveUps => wait[c].slot <= last

(* The calls are in the order of their times.                               *)
InTime ==
    /\ \A i \in Calls : sent[i] <= now
    /\ \A i, j \in Calls : i <= j => sent[i] <= sent[j]

SlotInv ==
    /\ ThrottleTypeOK
    /\ InTime
    /\ \E e \in [Calls -> 0 .. gaveUps], f \in [Callers -> 0 .. gaveUps] : Epochs(e, f)

LEMMA InitSlotInv == ThrottleInit => SlotInv
<1> SUFFICES ASSUME ThrottleInit PROVE SlotInv
  OBVIOUS
<1>1. ThrottleTypeOK /\ Calls = {} /\ gaveUps = 0
  BY ThrottleAssumption DEF ThrottleInit, ThrottleTypeOK, NotWaiting, Calls
<1> DEFINE e == [i \in Calls |-> 0]
           f == [c \in Callers |-> 0]
<1>2. \A c \in Callers : ~wait[c].on
  BY DEF ThrottleInit, NotWaiting
<1>3. Epochs(e, f)
  BY <1>1, <1>2 DEF Epochs
<1> QED BY <1>1, <1>3 DEF SlotInv, InTime, Epochs

(* Another call is made now: the earlier ones stay where they are.          *)
LEMMA CallMade ==
    ASSUME ThrottleTypeOK, InTime, sent' = Append(sent, now), now' = now
    PROVE  /\ Calls' = 1 .. Len(sent) + 1
           /\ \A i \in Calls : i \in Calls' /\ sent'[i] = sent[i] /\ sent[i] \in Int
           /\ sent'[Len(sent) + 1] = now
           /\ \A i \in Calls' : i \in Calls \/ i = Len(sent) + 1
           /\ InTime'
<1>1. now \in Int /\ sent \in Seq(Int) /\ Len(sent) \in Nat
  BY DEF ThrottleTypeOK
<1>2. Calls' = 1 .. Len(sent) + 1
  BY <1>1 DEF Calls
<1>3. \A i \in Calls : i \in Calls' /\ sent'[i] = sent[i] /\ sent[i] \in Int
  BY <1>1, <1>2 DEF Calls
<1>4. sent'[Len(sent) + 1] = now
  BY <1>1
<1>5. \A i \in Calls' : i \in Calls \/ i = Len(sent) + 1
  BY <1>1, <1>2 DEF Calls
<1>6. ASSUME NEW i \in Calls' PROVE sent'[i] <= now'
  <2>1. CASE i \in Calls
    BY <1>3, <2>1 DEF InTime
  <2>2. CASE i = Len(sent) + 1
    BY <1>1, <1>4, <2>2
  <2> QED BY <1>5, <2>1, <2>2
<1>7. ASSUME NEW i \in Calls', NEW j \in Calls', i <= j PROVE sent'[i] <= sent'[j]
  <2>1. CASE j \in Calls
    BY <1>1, <1>2, <1>3, <1>7, <2>1 DEF InTime, Calls
  <2>2. CASE j = Len(sent) + 1
    BY <1>4, <1>6, <2>2
  <2> QED BY <1>5, <2>1, <2>2
<1> QED BY <1>2, <1>3, <1>4, <1>5, <1>6, <1>7 DEF InTime

(* A reservation moves the last slot on and takes it, in the current epoch. *)
LEMMA CallKeepsSlotInv ==
    ASSUME SlotInv, NEW c \in Callers, Call(c)
    PROVE  SlotInv'
<1> USE ThrottleAssumption
<1>1. ThrottleTypeOK /\ InTime /\ now \in Nat /\ last \in Int /\ sent \in Seq(Int) /\ gaveUps \in Nat
  BY DEF SlotInv, ThrottleTypeOK
<1>2. PICK e \in [Calls -> 0 .. gaveUps], f \in [Callers -> 0 .. gaveUps] : Epochs(e, f)
  BY DEF SlotInv
<1>3. ~wait[c].on /\ now' = now /\ gaveUps' = gaveUps
  BY DEF Call
<1>4. \A i \in Calls : sent[i] \in Int
  BY <1>1 DEF Calls
<1>5. \A d \in Callers : wait[d] \in [on : BOOLEAN, slot : Int, mine : Int]
  BY <1>1 DEF ThrottleTypeOK
<1>6. CASE last + Spacing > now /\ Reserve(c)
  <2>1. /\ wait' = [wait EXCEPT ![c] = [on |-> TRUE, slot |-> last + Spacing, mine |-> last]]
        /\ last' = last + Spacing /\ sent' = sent /\ Calls' = Calls
    BY <1>6 DEF Reserve, Calls
  <2>2. ThrottleTypeOK' /\ InTime'
    BY <1>1, <1>3, <1>6, <2>1 DEF ThrottleTypeOK, InTime
  <2>3. PICK g \in [Callers -> 0 .. gaveUps] : g[c] = gaveUps /\ \A d \in Callers \ {c} : g[d] = f[d]
    <3>1. [f EXCEPT ![c] = gaveUps] \in [Callers -> 0 .. gaveUps]
      BY <1>1, <1>2
    <3> QED BY <3>1
  <2>4. /\ wait'[c].on /\ wait'[c].slot = last + Spacing
        /\ \A d \in Callers \ {c} : wait'[d] = wait[d]
    BY <1>1, <2>1 DEF ThrottleTypeOK
  <2>5. \A i \in Calls : e[i] = gaveUps => Apart(sent[i], last + Spacing) /\ sent[i] <= last + Spacing
    BY <1>1, <1>2, <1>4 DEF Epochs, Apart
  <2>6. \A d \in Callers \ {c} : wait[d].on /\ f[d] = gaveUps =>
            /\ Apart(wait[d].slot, last + Spacing) /\ Apart(last + Spacing, wait[d].slot)
            /\ wait[d].slot <= last + Spacing
    BY <1>1, <1>2, <1>5 DEF Epochs, Apart
  <2>7. \A i \in Calls, d \in Callers :
            wait'[d].on /\ e[i] = g[d] => Apart(sent[i], wait'[d].slot)
    BY <1>2, <2>3, <2>4, <2>5 DEF Epochs
  <2>8. \A d, h \in Callers : d # h /\ wait'[d].on /\ wait'[h].on /\ g[d] = g[h]
            => Apart(wait'[d].slot, wait'[h].slot)
    BY <1>2, <2>3, <2>4, <2>6 DEF Epochs
  <2>9. \A d \in Callers : wait'[d].on /\ g[d] = gaveUps => wait'[d].slot <= last + Spacing
    BY <1>1, <2>3, <2>4, <2>6, SMTT(30)
  <2>10. Epochs(e, g)'
    BY <1>2, <1>3, <2>1, <2>3, <2>5, <2>7, <2>8, <2>9 DEF Epochs
  <2> QED BY <1>2, <1>3, <2>1, <2>2, <2>3, <2>10 DEF SlotInv
<1>7. CASE ~(last + Spacing > now) /\ PassNow
  <2> DEFINE n == Len(sent) + 1
  <2>1. last' = now /\ sent' = Append(sent, now) /\ wait' = wait
    BY <1>7 DEF PassNow
  <2>2. /\ Calls' = 1 .. n
        /\ \A i \in Calls : i \in Calls' /\ sent'[i] = sent[i]
        /\ sent'[n] = now
        /\ \A i \in Calls' : i \in Calls \/ i = n
        /\ InTime'
    BY <1>1, <1>3, <2>1, CallMade
  <2>3. ThrottleTypeOK'
    BY <1>1, <1>3, <2>1 DEF ThrottleTypeOK
  <2>4. n \in Calls' /\ n \notin Calls
    BY <1>1, <2>2 DEF Calls
  <2> HIDE DEF n
  <2>5. PICK k \in [Calls' -> 0 .. gaveUps] : k[n] = gaveUps /\ \A i \in Calls : k[i] = e[i]
    <3>1. [i \in Calls' |-> IF i = n THEN gaveUps ELSE e[i]] \in [Calls' -> 0 .. gaveUps]
      BY <1>1, <1>2, <2>2, <2>4
    <3> QED BY <3>1, <2>2, <2>4
  <2>6. \A i \in Calls : e[i] = gaveUps => Apart(sent[i], now) /\ Apart(now, sent[i]) /\ sent[i] <= now
    BY <1>1, <1>2, <1>4, <1>7 DEF Epochs, Apart
  <2>7. \A d \in Callers : wait[d].on => now <= wait[d].slot
    BY <1>1 DEF ThrottleTypeOK
  <2>8. \A d \in Callers : ~(wait[d].on /\ f[d] = gaveUps)
    BY <1>1, <1>2, <1>5, <1>7, <2>7 DEF Epochs
  <2>9. \A i, j \in Calls' : i # j /\ k[i] = k[j] => Apart(sent'[i], sent'[j])
    BY <1>2, <2>2, <2>5, <2>6 DEF Epochs
  <2>10. \A i \in Calls', d \in Callers : wait[d].on /\ k[i] = f[d] => Apart(sent'[i], wait[d].slot)
    BY <1>2, <2>2, <2>5, <2>8 DEF Epochs
  <2>11. ASSUME NEW i \in Calls', k[i] = gaveUps PROVE sent'[i] <= now
    <3>1. CASE i \in Calls
      BY <2>2, <2>5, <2>6, <2>11, <3>1
    <3>2. CASE i = n
      BY <1>1, <2>2, <3>2
    <3> QED BY <2>2, <3>1, <3>2
  <2>12. Epochs(k, f)'
    BY <1>2, <1>3, <2>1, <2>5, <2>8, <2>9, <2>10, <2>11 DEF Epochs
  <2> QED BY <1>2, <1>3, <2>2, <2>3, <2>5, <2>12 DEF SlotInv
<1> QED BY <1>6, <1>7 DEF Call

(* A call that waited keeps the epoch of its slot.                          *)
LEMMA DispatchKeepsSlotInv ==
    ASSUME SlotInv, NEW c \in Callers, Dispatch(c)
    PROVE  SlotInv'
<1> DEFINE n == Len(sent) + 1
<1>1. ThrottleTypeOK /\ InTime /\ now \in Nat /\ last \in Int /\ sent \in Seq(Int) /\ gaveUps \in Nat
  BY DEF SlotInv, ThrottleTypeOK
<1>2. PICK e \in [Calls -> 0 .. gaveUps], f \in [Callers -> 0 .. gaveUps] : Epochs(e, f)
  BY DEF SlotInv
<1>3. /\ wait[c].on /\ now = wait[c].slot
      /\ sent' = Append(sent, now) /\ wait' = [wait EXCEPT ![c] = NotWaiting]
      /\ now' = now /\ last' = last /\ gaveUps' = gaveUps
  BY DEF Dispatch
<1>4. /\ Calls' = 1 .. n
      /\ \A i \in Calls : i \in Calls' /\ sent'[i] = sent[i] /\ sent[i] \in Int
      /\ sent'[n] = now
      /\ \A i \in Calls' : i \in Calls \/ i = n
      /\ InTime'
  BY <1>1, <1>3, CallMade
<1>5. n \in Calls' /\ n \notin Calls
  BY <1>1, <1>4 DEF Calls
<1> HIDE DEF n
<1>6. PICK k \in [Calls' -> 0 .. gaveUps] : k[n] = f[c] /\ \A i \in Calls : k[i] = e[i]
  <2>1. [i \in Calls' |-> IF i = n THEN f[c] ELSE e[i]] \in [Calls' -> 0 .. gaveUps]
    BY <1>1, <1>2, <1>4, <1>5
  <2> QED BY <2>1, <1>4, <1>5
<1>7. ThrottleTypeOK'
  BY <1>1, <1>3 DEF ThrottleTypeOK, NotWaiting
<1>8. \A d \in Callers : wait'[d].on => d # c /\ wait'[d] = wait[d] /\ wait[d].on /\ wait[d].slot \in Int
  BY <1>1, <1>3 DEF ThrottleTypeOK, NotWaiting
<1>9. \A i \in Calls : e[i] = f[c] => Apart(sent[i], now) /\ Apart(now, sent[i])
  BY <1>2, <1>3 DEF Epochs, Apart
<1>10. \A i, j \in Calls' : i # j /\ k[i] = k[j] => Apart(sent'[i], sent'[j])
  BY <1>2, <1>4, <1>6, <1>9 DEF Epochs
<1>11. ASSUME NEW i \in Calls', NEW d \in Callers, wait'[d].on, k[i] = f[d]
      PROVE  Apart(sent'[i], wait'[d].slot)
  <2>1. d # c /\ wait'[d] = wait[d] /\ wait[d].on
    BY <1>8, <1>11
  <2>2. CASE i \in Calls
    BY <1>2, <1>4, <1>6, <1>11, <2>1, <2>2 DEF Epochs
  <2>3. CASE i = n
    <3>1. f[d] = f[c] /\ c # d
      BY <1>6, <1>11, <2>1, <2>3
    <3> QED BY <1>2, <1>3, <1>4, <2>1, <2>3, <3>1 DEF Epochs
  <2> QED BY <1>4, <2>2, <2>3
<1>12. \A i \in Calls' : k[i] = gaveUps => sent'[i] <= last
  BY <1>2, <1>3, <1>4, <1>6, ZenonT(30) DEF Epochs
<1>13. Epochs(k, f)'
  BY <1>2, <1>3, <1>6, <1>8, <1>10, <1>11, <1>12 DEF Epochs
<1> QED BY <1>2, <1>3, <1>4, <1>6, <1>7, <1>13 DEF SlotInv

(* A slot given back begins an epoch that nothing belongs to yet.           *)
LEMMA GiveUpKeepsSlotInv ==
    ASSUME SlotInv, NEW c \in Callers, GiveUp(c)
    PROVE  SlotInv'
<1>1. ThrottleTypeOK /\ InTime /\ gaveUps \in Nat
  BY DEF SlotInv, ThrottleTypeOK
<1>2. PICK e \in [Calls -> 0 .. gaveUps], f \in [Callers -> 0 .. gaveUps] : Epochs(e, f)
  BY DEF SlotInv
<1>3. /\ last' = wait[c].mine /\ wait' = [wait EXCEPT ![c] = NotWaiting]
      /\ gaveUps' = gaveUps + 1 /\ now' = now /\ sent' = sent /\ Calls' = Calls
  BY DEF GiveUp, Calls
<1>4. ThrottleTypeOK' /\ InTime'
  BY <1>1, <1>3 DEF ThrottleTypeOK, InTime, NotWaiting
<1>5. e \in [Calls -> 0 .. gaveUps + 1] /\ f \in [Callers -> 0 .. gaveUps + 1]
  BY <1>1, <1>2
<1>6. \A i \in Calls : e[i] # gaveUps + 1
  BY <1>1, <1>2
<1>7. \A d \in Callers : f[d] # gaveUps + 1
  BY <1>1, <1>2
<1>8. \A d \in Callers : wait'[d].on => wait'[d] = wait[d] /\ wait[d].on
  BY <1>1, <1>3 DEF ThrottleTypeOK, NotWaiting
<1>9. Epochs(e, f)'
  BY <1>2, <1>3, <1>5, <1>6, <1>7, <1>8 DEF Epochs
<1> QED BY <1>3, <1>4, <1>5, <1>9 DEF SlotInv

LEMMA NextSlotInv == SlotInv /\ [ThrottleNext]_throttleVars => SlotInv'
<1> SUFFICES ASSUME SlotInv, [ThrottleNext]_throttleVars PROVE SlotInv'
  OBVIOUS
<1>1. CASE UNCHANGED throttleVars
  BY <1>1 DEF throttleVars, SlotInv, ThrottleTypeOK, InTime, Epochs, Calls
<1>2. CASE Tick
  <2>1. now' = now + 1 /\ UNCHANGED <<last, wait, sent, gaveUps>>
    BY <1>2 DEF Tick
  <2>2. ThrottleTypeOK'
    BY <1>2 DEF Tick, SlotInv, ThrottleTypeOK
  <2>3. InTime'
    BY <2>1 DEF SlotInv, ThrottleTypeOK, InTime, Calls
  <2> QED BY <2>1, <2>2, <2>3 DEF SlotInv, Epochs, Calls
<1> QED
  BY <1>1, <1>2, CallKeepsSlotInv, DispatchKeepsSlotInv, GiveUpKeepsSlotInv DEF ThrottleNext

-----------------------------------------------------------------------------
(* Of more calls than there were epochs two share one, and those are apart: *)
(* so are the first and the last of them.                                   *)
LEMMA EpochsBoundCrowding == SlotInv => CrowdingBounded
<1> SUFFICES ASSUME SlotInv, NEW i \in 1 .. Len(sent) - 1 - gaveUps
             PROVE  sent[i + 1 + gaveUps] - sent[i] >= Spacing
  BY DEF CrowdingBounded
<1> DEFINE last_i == i + 1 + gaveUps
           S == i .. last_i
           T == 0 .. gaveUps
<1>1. InTime /\ sent \in Seq(Int) /\ gaveUps \in Nat /\ Len(sent) \in Nat /\ i \in Nat
  BY DEF SlotInv, ThrottleTypeOK
<1>2. PICK e \in [Calls -> T], f \in [Callers -> T] : Epochs(e, f)
  BY DEF SlotInv
<1>3. S \subseteq Calls
  BY <1>1 DEF Calls
<1>4. [j \in S |-> e[j]] \in [S -> T]
  BY <1>2, <1>3
<1>5. IsFiniteSet(S) /\ Cardinality(S) = gaveUps + 2
  <2>1. i \in Int /\ last_i \in Int /\ ~(i > last_i) /\ last_i - i + 1 = gaveUps + 2
    BY <1>1
  <2>2. IsFiniteSet(S) /\ Cardinality(S) = IF i > last_i THEN 0 ELSE last_i - i + 1
    <3> HIDE DEF last_i
    <3> QED BY <2>1, FS_Interval, Zenon
  <2> HIDE DEF S
  <2> QED BY <2>1, <2>2
<1>6. IsFiniteSet(T) /\ Cardinality(T) = gaveUps + 1
  <2>1. 0 \in Int /\ gaveUps \in Int /\ ~(0 > gaveUps) /\ gaveUps - 0 + 1 = gaveUps + 1
    BY <1>1
  <2>2. IsFiniteSet(T) /\ Cardinality(T) = IF 0 > gaveUps THEN 0 ELSE gaveUps - 0 + 1
    BY <2>1, FS_Interval, Zenon
  <2> HIDE DEF T
  <2> QED BY <2>1, <2>2
<1>8. PICK a, b \in S : a < b /\ e[a] = e[b]
  <2> DEFINE h == [j \in S |-> e[j]]
  <2>1. Cardinality(T) < Cardinality(S)
    <3> HIDE DEF S, T
    <3> QED BY <1>1, <1>5, <1>6
  <2>2. \E a, b \in S : a # b /\ h[a] = h[b]
    <3>1. h \in [S -> T]
      BY <1>4
    <3> HIDE DEF S, T, h
    <3> QED BY <2>1, <3>1, <1>5, <1>6, FS_PigeonHole
  <2>3. PICK a, b \in S : a # b /\ e[a] = e[b]
    BY <2>2
  <2>4. a < b \/ b < a
    BY <1>1, <2>3
  <2> QED BY <2>3, <2>4
<1>9. Apart(sent[a], sent[b])
  <2>1. a \in Calls /\ b \in Calls /\ a # b
    BY <1>1, <1>3, <1>8
  <2> QED BY <1>2, <1>8, <2>1 DEF Epochs
<1>10. sent[i] <= sent[a] /\ sent[a] <= sent[b] /\ sent[b] <= sent[last_i]
  <2>1. i \in Calls /\ a \in Calls /\ b \in Calls /\ last_i \in Calls
    BY <1>1, <1>3
  <2>2. i <= a /\ a <= b /\ b <= last_i
    BY <1>1, <1>8
  <2> QED BY <1>1, <2>1, <2>2 DEF InTime
<1>11. sent[i] \in Int /\ sent[a] \in Int /\ sent[b] \in Int /\ sent[last_i] \in Int
  BY <1>1, <1>3 DEF Calls
<1> QED BY <1>9, <1>10, <1>11, ThrottleAssumption DEF Apart

(* However the callers interleave and whatever they give back, each wait    *)
(* cut short lets at most one more call into a window of the spacing.       *)
THEOREM CrowdingHolds == ThrottleSpec => []CrowdingBounded
BY InitSlotInv, NextSlotInv, EpochsBoundCrowding, PTL DEF ThrottleSpec

(* Without waits cut short, consecutive platform calls of a destination are *)
(* a spacing apart, whatever the callers do.                                *)
THEOREM SpacingHolds == ThrottleSpec => []SpacedUntilGiveUp
<1>1. CrowdingBounded => SpacedUntilGiveUp
  BY DEF CrowdingBounded, SpacedUntilGiveUp
<1> QED BY <1>1, CrowdingHolds, PTL

-----------------------------------------------------------------------------
(* Theorems about Chunker, for every budget and every set of lines.         *)

(* The parts of the budget that limit and trackFence are made of.           *)
LEMMA Parts ==
  /\ Budget \in Nat /\ Budget >= 24
  /\ Budget \div 2 \in Nat /\ 12 <= Budget \div 2 /\ 2 * (Budget \div 2) <= Budget
  /\ maxFence \in Nat /\ 6 <= maxFence /\ 4 * maxFence <= Budget
  BY BudgetAssumption DEF maxFence

FenceOK == openFence \in 0 .. maxFence

(* The limit of a line leaves room for the fence to be closed after it, and *)
(* to be opened before it and closed after it.                              *)
LEMMA Limits ==
  ASSUME FenceOK, NEW line
  PROVE  /\ Limit(line) \in 12 .. Budget
         /\ line.fences > 0 \/ openFence # 0 => Limit(line) + 12 <= Budget
         /\ openFence # 0 => openFence + 1 + Limit(line) + 5 <= Budget
  BY Parts DEF Limit, fenceReserve, FenceOK

-----------------------------------------------------------------------------
(* What a chunk holds always leaves room to close the fence that is open,   *)
(* and a window is never wider than the limit of its line.                  *)
ChunksOK == out \in Chunk /\ cur \in Chunk

Roomy ==
    /\ out.len <= Budget
    /\ cur.len + (IF openFence = 0 THEN 0 ELSE 5) <= Budget

SplitOK ==
    split # NoSplit =>
        /\ split.line \in Lines
        /\ split.rest \in Nat /\ split.solid \in Nat
        /\ split.window \in 1 .. Limit(split.line)

ChunkInv == FenceOK /\ ChunksOK /\ Roomy /\ SplitOK

LEMMA InitChunkInv == ChunkInit => ChunkInv
  BY Parts DEF ChunkInit, ChunkInv, FenceOK, ChunksOK, Roomy, SplitOK, Chunk, Empty

(* A chunk with room for the closing fence fits when it is closed.          *)
LEMMA ClosedFits ==
  ASSUME NEW c \in Chunk, NEW m \in 0 .. 4,
         c.len + (IF openFence = 0 THEN 0 ELSE 5) <= Budget
  PROVE  Closed(c, m) \in Chunk /\ Closed(c, m).len <= Budget
<1>1. CASE openFence = 0
      BY <1>1 DEF Closed, Chunk
<1>2. CASE openFence # 0
  <2> DEFINE units == c.len + m + (IF c.nl THEN 0 ELSE 1)
             flipped == ~c.odd
  <2>1. units \in Nat /\ units <= Budget
        BY <1>2, Parts DEF Chunk
  <2>2. flipped \in BOOLEAN /\ c.text \in Nat /\ c.nl \in BOOLEAN
        BY Zenon DEF Chunk
  <2>3. Closed(c, m) = [len |-> units, text |-> c.text, odd |-> flipped, nl |-> c.nl]
        BY <1>2, Zenon DEF Closed
  <2> HIDE DEF units, flipped
  <2> QED  BY <2>1, <2>2, <2>3 DEF Chunk
<1> QED  BY <1>1, <1>2

(* A piece within the limit of its line: the chunk that is flushed fits     *)
(* with its closing fence, and the one that gets the piece stays within the *)
(* limit, or, after the fence was opened again, leaves room to close it.    *)
LEMMA WriteFits ==
  ASSUME FenceOK, ChunksOK, Roomy, NEW line,
         NEW n \in Nat, NEW fences \in Nat, NEW nl \in BOOLEAN,
         n <= Limit(line), Write(Piece(n, fences, nl), Limit(line))
  PROVE  /\ out' \in Chunk /\ cur' \in Chunk
         /\ out'.len <= Budget
         /\ openFence = 0 => cur'.len <= Limit(line)
         /\ openFence # 0 => cur'.len + 5 <= Budget
<1> DEFINE p == Piece(n, fences, nl)
<1>1. p \in Chunk /\ p.len = n
      BY DEF Piece, Chunk
<1>2. /\ Reopened \in Chunk
      /\ Reopened.len = IF openFence = 0 THEN 0 ELSE openFence + 1
      BY DEF Reopened, Empty, Chunk, FenceOK
<1>3. \A c \in Chunk : Appended(c, p) \in Chunk /\ Appended(c, p).len = c.len + n
      BY <1>1 DEF Appended, Chunk
<1>4. Limit(line) \in Nat
      BY Limits
<1>5. CASE cur.len + p.len > Limit(line) /\ cur.len > 0
  <2>1. out' = Closed(cur, 4) /\ cur' = Appended(Reopened, p)
        BY <1>5 DEF Write
  <2>2. out' \in Chunk /\ out'.len <= Budget
        BY <2>1, ClosedFits, Parts DEF ChunksOK, Roomy
  <2>3. cur' \in Chunk /\ cur'.len = Reopened.len + n
        BY <2>1, <1>2, <1>3
  <2> QED  BY <2>2, <2>3, <1>2, <1>4, Limits, Parts DEF FenceOK
<1>6. CASE ~(cur.len + p.len > Limit(line) /\ cur.len > 0)
  <2>1. out' = out /\ cur' = Appended(cur, p)
        BY <1>6 DEF Write
  <2>2. cur' \in Chunk /\ cur'.len = cur.len + n
        BY <2>1, <1>3 DEF ChunksOK
  <2>3. cur'.len <= Limit(line)
        BY <2>2, <1>1, <1>4, <1>6 DEF ChunksOK, Chunk
  <2> QED  BY <2>1, <2>2, <2>3, <1>4, Limits, Parts DEF ChunksOK, Chunk, Roomy
<1> QED  BY <1>5, <1>6

(* The fence that a line leaves open can be opened again in every chunk.    *)
LEMMA FenceFits ==
  ASSUME FenceOK, NEW line \in Lines, TrackFence(line)
  PROVE  /\ FenceOK'
         /\ line.fences = 0 => openFence' = openFence
<1>1. /\ line.len \in Nat \ {0} /\ line.fences \in Nat /\ line.nl \in BOOLEAN
      /\ line.fences > 0 => line.len >= 3 + (IF line.nl THEN 1 ELSE 0)
      BY LinesAssumption
<1> QED  BY <1>1, Parts DEF TrackFence, FenceOK, maxFence

(* Between a write within the limit and the fence tracked after it, there   *)
(* is room for whatever that fence needs.                                   *)
LEMMA TrackedRoom ==
  ASSUME FenceOK, NEW line \in Lines, TrackFence(line), cur' \in Chunk,
         openFence = 0 => cur'.len <= Limit(line),
         openFence # 0 => cur'.len + 5 <= Budget
  PROVE  cur'.len + (IF openFence' = 0 THEN 0 ELSE 5) <= Budget
<1>1. line.fences \in Nat
      BY LinesAssumption
<1>2. cur'.len \in Nat /\ Limit(line) \in Nat /\ Limit(line) <= Budget
      BY Limits DEF Chunk
<1> QED  BY <1>1, <1>2, Limits, FenceFits, Parts DEF FenceOK

-----------------------------------------------------------------------------
LEMMA AddLineStep ==
  ASSUME ChunkInv, NEW line \in Lines, AddLine(line) PROVE ChunkInv'
<1>1. line.len \in Nat /\ line.fences \in Nat /\ line.nl \in BOOLEAN
      BY LinesAssumption
<1>2. /\ line.len <= Limit(line)
      /\ Write(Piece(line.len, line.fences, line.nl), Limit(line))
      /\ TrackFence(line) /\ split' = NoSplit
      BY DEF AddLine
<1>3. /\ out' \in Chunk /\ cur' \in Chunk /\ out'.len <= Budget
      /\ openFence = 0 => cur'.len <= Limit(line)
      /\ openFence # 0 => cur'.len + 5 <= Budget
      BY <1>1, <1>2, WriteFits DEF ChunkInv
<1>4. FenceOK'
      BY <1>2, FenceFits DEF ChunkInv
<1>5. cur'.len + (IF openFence' = 0 THEN 0 ELSE 5) <= Budget
      BY <1>2, <1>3, TrackedRoom DEF ChunkInv
<1> QED  BY <1>2, <1>3, <1>4, <1>5 DEF ChunkInv, ChunksOK, Roomy, SplitOK

LEMMA SplitLineStep ==
  ASSUME ChunkInv, NEW line \in Lines, SplitLine(line) PROVE ChunkInv'
<1>1. line.len \in Nat
      BY LinesAssumption
<1>2. Limit(line) \in 12 .. Budget
      BY Limits DEF ChunkInv
<1>3. UNCHANGED <<out, cur, openFence>> /\ Limit(line)' = Limit(line)
      BY DEF SplitLine, Limit
<1>4. /\ split'.line = line /\ split'.rest = line.len /\ split'.solid = 0
      /\ split'.window = IF Limit(line) - cur.len <= 0 THEN Limit(line) ELSE Limit(line) - cur.len
      BY DEF SplitLine
<1>5. cur.len \in Nat
      BY DEF ChunkInv, ChunksOK, Chunk
<1>6. split'.window \in 1 .. Limit(line)
      BY <1>2, <1>4, <1>5
<1>7. SplitOK'
      BY <1>1, <1>3, <1>4, <1>6, Parts DEF SplitOK, Limit
<1> QED  BY <1>3, <1>7 DEF ChunkInv, FenceOK, ChunksOK, Roomy, maxFence

LEMMA SplitPieceStep ==
  ASSUME ChunkInv, NEW k \in 1 .. Budget, SplitPiece(k) PROVE ChunkInv'
<1> DEFINE line == split.line
<1>1. /\ split # NoSplit /\ line \in Lines /\ split.rest \in Nat /\ split.solid \in Nat
      /\ split.window \in 1 .. Limit(line)
      BY DEF SplitPiece, ChunkInv, SplitOK
<1>2. line.fences \in Nat /\ HeadFences \in Nat
      BY <1>1, LinesAssumption DEF HeadFences
<1>3. Limit(line) \in 12 .. Budget
      BY Limits DEF ChunkInv
<1>4. k \in Cuts /\ k < split.rest
      BY DEF SplitPiece
<1>5. k <= Limit(line)
      BY <1>1, <1>3, <1>4 DEF Cuts
<1>6. Write(Piece(k, HeadFences, FALSE), Limit(line)) /\ openFence' = openFence
      BY DEF SplitPiece
<1>7. /\ out' \in Chunk /\ cur' \in Chunk /\ out'.len <= Budget
      /\ openFence = 0 => cur'.len <= Limit(line)
      /\ openFence # 0 => cur'.len + 5 <= Budget
  <2>1. FALSE \in BOOLEAN /\ k \in Nat
        OBVIOUS
  <2> HIDE DEF line
  <2> QED  BY <2>1, <1>2, <1>5, <1>6, WriteFits DEF ChunkInv
<1>8. split' = [split EXCEPT !.rest = @ - k, !.window = Limit(line),
                           !.solid = IF k < split.window - 1 THEN split.window - k ELSE 0]
      BY DEF SplitPiece
<1>9. Roomy'
      BY <1>3, <1>6, <1>7, Parts DEF Roomy, Chunk
<1> QED  BY <1>1, <1>3, <1>4, <1>6, <1>7, <1>8, <1>9 DEF ChunkInv, FenceOK, ChunksOK, SplitOK, Limit, maxFence

LEMMA LastPieceStep ==
  ASSUME ChunkInv, LastPiece PROVE ChunkInv'
<1> DEFINE line == split.line
<1>1. /\ split # NoSplit /\ line \in Lines /\ split.rest \in Nat
      /\ split.window \in 1 .. Limit(line)
      BY DEF LastPiece, ChunkInv, SplitOK
<1>2. line.fences \in Nat /\ line.nl \in BOOLEAN /\ HeadFences \in Nat
      BY <1>1, LinesAssumption DEF HeadFences
<1>3. Limit(line) \in 12 .. Budget
      BY Limits DEF ChunkInv
<1>4. /\ split.rest <= split.window \/ (split.window = 1 /\ split.rest = 2)
      /\ Write(Piece(split.rest, HeadFences, line.nl), Limit(line))
      /\ TrackFence(line) /\ split' = NoSplit
      BY DEF LastPiece
<1>5. split.rest <= Limit(line)
      BY <1>1, <1>3, <1>4
<1> HIDE DEF line
<1>6. /\ out' \in Chunk /\ cur' \in Chunk /\ out'.len <= Budget
      /\ openFence = 0 => cur'.len <= Limit(line)
      /\ openFence # 0 => cur'.len + 5 <= Budget
      BY <1>1, <1>2, <1>4, <1>5, WriteFits DEF ChunkInv
<1>7. FenceOK'
      BY <1>1, <1>4, FenceFits DEF ChunkInv
<1>8. cur'.len + (IF openFence' = 0 THEN 0 ELSE 5) <= Budget
      BY <1>1, <1>4, <1>6, TrackedRoom DEF ChunkInv
<1> QED  BY <1>4, <1>6, <1>7, <1>8 DEF ChunkInv, ChunksOK, Roomy, SplitOK

LEMMA DoneStep ==
  ASSUME ChunkInv, Done PROVE ChunkInv'
<1>1. /\ out' = Closed(cur, 3) /\ cur' = Empty
      /\ openFence' = openFence /\ split' = split /\ split = NoSplit
      BY DEF Done
<1>2. cur \in Chunk /\ cur.len + (IF openFence = 0 THEN 0 ELSE 5) <= Budget
      BY DEF ChunkInv, ChunksOK, Roomy
<1>3. out' \in Chunk /\ out'.len <= Budget
      BY <1>1, <1>2, ClosedFits
<1>4. cur' \in Chunk /\ cur'.len = 0
      BY <1>1 DEF Empty, Chunk
<1> QED  BY <1>1, <1>3, <1>4, Parts DEF ChunkInv, FenceOK, maxFence, ChunksOK, Roomy, SplitOK

LEMMA NextChunkInv ==
  ASSUME ChunkInv, [ChunkNext]_chunkVars PROVE ChunkInv'
<1>1. CASE UNCHANGED chunkVars
      BY <1>1 DEF chunkVars, ChunkInv, FenceOK, maxFence, ChunksOK, Roomy, SplitOK, Limit
<1>2. ASSUME NEW line \in Lines, AddLine(line) PROVE ChunkInv'
      BY <1>2, AddLineStep
<1>3. ASSUME NEW line \in Lines, SplitLine(line) PROVE ChunkInv'
      BY <1>3, SplitLineStep
<1>4. ASSUME NEW k \in 1 .. Budget, SplitPiece(k) PROVE ChunkInv'
      BY <1>4, SplitPieceStep
<1>5. CASE LastPiece
      BY <1>5, LastPieceStep
<1>6. CASE Done
      BY <1>6, DoneStep
<1> QED  BY <1>1, <1>2, <1>3, <1>4, <1>5, <1>6 DEF ChunkNext

(* No chunk exceeds the budget, whatever it is, however long the lines and  *)
(* the fences, and wherever a piece is cut: the markers added by flush and  *)
(* done always fit in what limit and trackFence hold back.                  *)
THEOREM WithinBudgetHolds == ChunkSpec => []WithinBudget
<1>1. ChunkInv => WithinBudget
      BY DEF ChunkInv, Roomy, WithinBudget
<1> QED  BY InitChunkInv, NextChunkInv, <1>1, PTL DEF ChunkSpec

-----------------------------------------------------------------------------
(* While every fence is tracked, a chunk is within a fence exactly when one *)
(* is open, until the text is done, and the line that is being split has    *)
(* none.                                                                    *)
Tracked ==
    ~untracked =>
        /\ ~out.odd
        /\ ~done => (cur.odd <=> openFence # 0)
        /\ split # NoSplit => ~done /\ split.line.fences = 0

BInv == ChunkInv /\ Tracked

(* A write closes the chunk it flushes, and the fences of its piece turn    *)
(* the chunk that gets it, whether that one was opened again or not.        *)
LEMMA WriteBalances ==
  ASSUME ChunksOK, FenceOK, ~out.odd, cur.odd <=> openFence # 0,
         NEW n, NEW fences \in Nat, NEW nl, NEW limit,
         Write(Piece(n, fences, nl), limit)
  PROVE  /\ ~out'.odd
         /\ cur'.odd <=> ((openFence # 0) # (fences % 2 = 1))
<1> DEFINE p == Piece(n, fences, nl)
           turn == fences % 2 = 1
           inside == openFence # 0
<1>1. p.odd = turn /\ turn \in BOOLEAN /\ inside \in BOOLEAN /\ cur.odd \in BOOLEAN
      BY DEF Piece, ChunksOK, Chunk
<1>2. Reopened.odd = inside
      BY DEF Reopened, Empty
<1>3. ~Closed(cur, 4).odd
      BY DEF Closed
<1>4. \A c : Appended(c, p).odd = (c.odd # p.odd)
      BY DEF Appended
<1>5. cur.odd = inside
      BY <1>1
<1>6. Appended(cur, p).odd = (inside # turn) /\ Appended(Reopened, p).odd = (inside # turn)
      BY <1>1, <1>2, <1>4, <1>5
<1>7. \/ out' = Closed(cur, 4) /\ cur' = Appended(Reopened, p)
      \/ out' = out /\ cur' = Appended(cur, p)
      BY DEF Write
<1>8. ~out'.odd /\ cur'.odd = (inside # turn)
      BY <1>3, <1>6, <1>7
<1> QED  BY <1>8

(* The fence of a line that begins with one opens or closes, and no other   *)
(* line does either.                                                        *)
LEMMA FenceTurns ==
  ASSUME FenceOK, NEW line \in Lines, line.fences <= 1, TrackFence(line)
  PROVE  (openFence' # 0) <=> ((openFence # 0) # (line.fences % 2 = 1))
<1>1. /\ line.len \in Nat \ {0} /\ line.fences \in Nat /\ line.nl \in BOOLEAN
      /\ line.fences > 0 => line.len >= 3 + (IF line.nl THEN 1 ELSE 0)
      BY LinesAssumption
<1>2. CASE line.fences = 0
      BY <1>2 DEF TrackFence
<1>3. CASE line.fences = 1
  <2>1. line.fences % 2 = 1
        BY <1>3
  <2>2. openFence' # 0 <=> openFence = 0
        BY <1>1, <1>3 DEF TrackFence
  <2> QED  BY <2>1, <2>2
<1> QED  BY <1>1, <1>2, <1>3

(* No step of the chunker loses track of a fence without saying so.         *)
LEMMA NextTracked ==
  ASSUME BInv, [ChunkNext]_chunkVars, ChunkInv' PROVE Tracked'
<1> SUFFICES ASSUME ~untracked' PROVE Tracked'
    BY DEF Tracked
<1> USE DEF BInv
<1>1. CASE UNCHANGED chunkVars
      BY <1>1 DEF chunkVars, Tracked
<1>2. ASSUME NEW line \in Lines, AddLine(line) PROVE Tracked'
  <2>1. /\ ~untracked /\ ~done /\ ~(line.fences > 1) /\ split' = NoSplit /\ TrackFence(line)
        /\ Write(Piece(line.len, line.fences, line.nl), Limit(line))
        BY <1>2 DEF AddLine
  <2>2. line.fences \in Nat /\ line.fences <= 1
        BY <2>1, LinesAssumption
  <2>3. ~out'.odd /\ (cur'.odd <=> ((openFence # 0) # (line.fences % 2 = 1)))
        BY <2>1, <2>2, WriteBalances DEF Tracked, ChunkInv
  <2>4. (openFence' # 0) <=> ((openFence # 0) # (line.fences % 2 = 1))
        BY <2>1, <2>2, FenceTurns DEF ChunkInv
  <2> QED  BY <2>1, <2>3, <2>4 DEF Tracked
<1>3. ASSUME NEW line \in Lines, SplitLine(line) PROVE Tracked'
  <2>1. /\ ~untracked /\ ~done /\ ~(line.fences > 0) /\ split'.line = line
        /\ UNCHANGED <<out, cur, openFence, done>>
        BY <1>3 DEF SplitLine
  <2>2. line.fences = 0
        BY <2>1, LinesAssumption
  <2> QED  BY <2>1, <2>2 DEF Tracked
<1>4. ASSUME NEW k \in 1 .. Budget, SplitPiece(k) PROVE Tracked'
  <2>1. /\ ~untracked /\ split # NoSplit /\ UNCHANGED <<openFence, done>>
        /\ Write(Piece(k, HeadFences, FALSE), Limit(split.line))
        BY <1>4 DEF SplitPiece
  <2>2. split'.line = split.line
        BY <1>4, <2>1 DEF SplitPiece
  <2>3. HeadFences = 0 /\ HeadFences \in Nat /\ ~(HeadFences % 2 = 1)
        BY <2>1 DEF Tracked, HeadFences
  <2>4. ~out'.odd /\ (cur'.odd <=> ((openFence # 0) # (HeadFences % 2 = 1)))
        BY <2>1, <2>3, WriteBalances DEF Tracked, ChunkInv
  <2> QED  BY <2>1, <2>2, <2>3, <2>4 DEF Tracked
<1>5. CASE LastPiece
  <2>1. /\ ~untracked /\ split # NoSplit /\ split' = NoSplit /\ TrackFence(split.line)
        /\ Write(Piece(split.rest, HeadFences, split.line.nl), Limit(split.line))
        BY <1>5 DEF LastPiece
  <2>2. split.line.fences = 0 /\ HeadFences = 0 /\ HeadFences \in Nat /\ ~(HeadFences % 2 = 1)
        BY <2>1 DEF Tracked, HeadFences
  <2>3. ~out'.odd /\ (cur'.odd <=> ((openFence # 0) # (HeadFences % 2 = 1)))
        BY <2>1, <2>2, WriteBalances DEF Tracked, ChunkInv
  <2>4. openFence' = openFence
        BY <2>1, <2>2 DEF TrackFence
  <2> QED  BY <2>1, <2>2, <2>3, <2>4 DEF Tracked
<1>6. CASE Done
  <2>1. /\ ~untracked /\ ~done /\ done' /\ out' = Closed(cur, 3) /\ split' = NoSplit
        BY <1>6 DEF Done
  <2>2. ~out'.odd
        BY <2>1 DEF Closed, Tracked
  <2> QED  BY <2>1, <2>2 DEF Tracked
<1> QED  BY <1>1, <1>2, <1>3, <1>4, <1>5, <1>6 DEF ChunkNext

(* As long as every fence is a line of its own that fits a chunk, no chunk  *)
(* ends within one, whatever the budget and wherever the text is cut.       *)
THEOREM BalancedHolds == ChunkSpec => []BalancedWhenTracked
<1>1. ChunkInit => BInv
      BY InitChunkInv DEF ChunkInit, BInv, Tracked, Empty
<1>2. BInv /\ [ChunkNext]_chunkVars => BInv'
      BY NextChunkInv, NextTracked DEF BInv
<1>3. BInv => BalancedWhenTracked
      BY DEF BInv, Tracked, BalancedWhenTracked
<1> QED  BY <1>1, <1>2, <1>3, PTL DEF ChunkSpec

-----------------------------------------------------------------------------
(***************************************************************************)
(* From a platform's event to an inbox row, for any messages, copies of     *)
(* their envelopes and faults.  Slack: the envelope in hand is acknowledged *)
(* only after its message was found or put in the inbox, and the notice is  *)
(* asked for only by the envelope that put it there.                        *)
(***************************************************************************)

SlackInv ==
    /\ events \in Seq(SlackMsgs)
    /\ eventLoop \in [pc : {"idle", "check", "commit", "notify", "ack"},
                      msg : SlackMsgs \cup {NoSlackMsg}]
    /\ slackItems \subseteq SlackRunnable
    /\ slackNotices \in [SlackMsgs -> Nat]
    /\ \A m \in SlackMsgs : slackNotices[m] # 0 => m \in slackItems
    /\ eventLoop.pc \in {"check", "commit", "notify"} => eventLoop.msg \in SlackRunnable
    /\ eventLoop.pc = "notify" =>
          eventLoop.msg \in slackItems /\ slackNotices[eventLoop.msg] = 0
    /\ eventLoop.pc = "ack" =>
          /\ eventLoop.msg \in SlackMsgs
          /\ eventLoop.msg \in SlackRunnable => eventLoop.msg \in slackItems

SlackStep == SlackPromise!Next \/ UNCHANGED SlackPromise!vars

LEMMA SlackDurable ==
    ASSUME SlackInv, NEW m \in SlackMsgs
    PROVE  SlackPromise!Durable(m) <=> m \in slackItems
<1>1. ASSUME m \in slackItems PROVE SlackPromise!Durable(m)
  <2>1. m \in SlackRunnable
    BY <1>1 DEF SlackInv
  <2>2. RouteOf(m) \in {RouteOf(n) : n \in SlackRunnable}
    BY <2>1
  <2>3. <<m, RouteOf(m)>> \in {<<n, RouteOf(n)>> : n \in slackItems}
    BY <1>1
  <2> QED BY <2>2, <2>3 DEF SlackPromise!Durable
<1>2. ASSUME SlackPromise!Durable(m) PROVE m \in slackItems
  <2>1. PICK r : <<m, r>> \in {<<n, RouteOf(n)>> : n \in slackItems}
    BY <1>2 DEF SlackPromise!Durable
  <2> QED BY <2>1
<1> QED BY <1>1, <1>2

(* Taking, dropping and losing an envelope is not seen by the service.      *)
LEMMA SlackUnseen ==
    ASSUME SlackInv,
           \/ HandleEvent \/ CheckServing \/ CommitFails \/ AckLost
           \/ BeginShutdown \/ Restart \/ SlackCrash
           \/ \E m \in SlackMsgs : Post(m) \/ Offer(m)
    PROVE  SlackInv' /\ UNCHANGED SlackPromise!vars
<1>1. UNCHANGED <<slackItems, acked, slackNotices>>
  <2>1. (HandleEvent \/ CheckServing) => UNCHANGED <<slackItems, acked, slackNotices>>
    BY DEF HandleEvent, CheckServing, durable
  <2>2. (CommitFails \/ AckLost \/ BeginShutdown) => UNCHANGED <<slackItems, acked, slackNotices>>
    BY DEF CommitFails, AckLost, BeginShutdown, durable
  <2>3. (Restart \/ SlackCrash) => UNCHANGED <<slackItems, acked, slackNotices>>
    BY DEF Restart, SlackCrash, NewProcess, durable
  <2>4. ASSUME NEW m \in SlackMsgs, Post(m) \/ Offer(m) PROVE UNCHANGED <<slackItems, acked, slackNotices>>
    BY <2>4 DEF Post, Offer, durable
  <2> QED BY <2>1, <2>2, <2>3, <2>4
<1>2. UNCHANGED SlackPromise!vars
  BY <1>1 DEF SlackPromise!vars
<1>3. eventLoop \in [pc : {"idle", "check", "commit", "notify", "ack"},
                      msg : SlackMsgs \cup {NoSlackMsg}]
  BY DEF SlackInv
<1>4. LoopIdle \in [pc : {"idle"}, msg : SlackMsgs \cup {NoSlackMsg}]
  BY DEF LoopIdle
<1>5. CASE HandleEvent
  <2>1. /\ events \in Seq(SlackMsgs) /\ events # <<>>
        /\ events' = Tail(events)
    BY <1>5 DEF HandleEvent, SlackInv
  <2>2. Head(events) \in SlackMsgs /\ events' \in Seq(SlackMsgs)
    BY <2>1
  <2> DEFINE e == Head(events)
  <2>3. eventLoop' = [pc |-> IF e \in SlackRunnable THEN "check" ELSE "ack", msg |-> e]
    BY <1>5 DEF HandleEvent
  <2> HIDE DEF e
  <2>4. /\ eventLoop'.msg = e
        /\ e \in SlackRunnable => eventLoop'.pc = "check"
        /\ e \notin SlackRunnable => eventLoop'.pc = "ack"
        /\ eventLoop' \in [pc : {"check", "ack"}, msg : SlackMsgs]
    BY <2>2, <2>3 DEF e
  <2>5. e \in SlackMsgs
    BY <2>2 DEF e
  <2> QED BY <1>1, <1>2, <2>2, <2>4, <2>5 DEF SlackInv
<1>6. CASE CheckServing
  <2>1. /\ eventLoop.pc = "check" /\ events' = events
        /\ \/ eventLoop' = LoopIdle
           \/ eventLoop' = [eventLoop EXCEPT !.pc = "commit"]
    BY <1>6 DEF CheckServing, LoopAt
  <2>2. \/ eventLoop'.pc = "idle"
        \/ eventLoop'.pc = "commit" /\ eventLoop'.msg = eventLoop.msg
    BY <1>3, <1>4, <2>1 DEF LoopIdle
  <2>3. eventLoop' \in [pc : {"idle", "commit"}, msg : SlackMsgs \cup {NoSlackMsg}]
    BY <1>3, <1>4, <2>1 DEF LoopIdle
  <2> QED BY <1>1, <1>2, <2>1, <2>2, <2>3 DEF SlackInv
<1>7. CASE CommitFails \/ AckLost
  <2>1. eventLoop' = LoopIdle /\ events' = events
    BY <1>7 DEF CommitFails, AckLost
  <2>2. eventLoop'.pc = "idle"
    BY <2>1 DEF LoopIdle
  <2> QED BY <1>1, <1>2, <1>4, <2>1, <2>2 DEF SlackInv
<1>8. CASE Restart \/ SlackCrash
  <2>1. eventLoop' = LoopIdle /\ events' = <<>>
    BY <1>8 DEF Restart, SlackCrash, NewProcess
  <2>2. eventLoop'.pc = "idle"
    BY <2>1 DEF LoopIdle
  <2> QED BY <1>1, <1>2, <1>4, <2>1, <2>2 DEF SlackInv
<1>9. CASE BeginShutdown \/ \E m \in SlackMsgs : Post(m) \/ Offer(m)
  <2>1. BeginShutdown => eventLoop' = eventLoop /\ events' = events
    BY DEF BeginShutdown
  <2>2. ASSUME NEW m \in SlackMsgs, Post(m) \/ Offer(m)
        PROVE  eventLoop' = eventLoop /\ events' \in Seq(SlackMsgs)
    <3>1. events \in Seq(SlackMsgs) /\ Append(events, m) \in Seq(SlackMsgs)
      BY DEF SlackInv
    <3> QED BY <2>2, <3>1 DEF Post, Offer, durable
  <2>3. eventLoop' = eventLoop /\ events' \in Seq(SlackMsgs)
    BY <1>9, <2>1, <2>2 DEF SlackInv
  <2> QED BY <1>1, <1>2, <2>3 DEF SlackInv
<1> QED BY <1>5, <1>6, <1>7, <1>8, <1>9

(* The transaction records the message under its route, or finds it there.  *)
LEMMA CommitRecords ==
    ASSUME SlackInv, Commit
    PROVE  SlackInv' /\ SlackStep
<1> DEFINE m == eventLoop.msg
<1>1. /\ m \in SlackRunnable /\ m \in SlackMsgs
      /\ eventLoop.pc = "commit"
      /\ eventLoop \in [pc : {"commit"}, msg : SlackMsgs]
  BY DEF Commit, SlackInv, SlackRunnable
<1>2. /\ slackItems' = slackItems \cup {m}
      /\ eventLoop' = [eventLoop EXCEPT !.pc = IF m \in slackItems THEN "ack" ELSE "notify"]
      /\ UNCHANGED <<acked, events, slackNotices>>
  BY DEF Commit, LoopAt
<1> HIDE DEF m
<1>3. /\ eventLoop'.msg = m
      /\ m \in slackItems => eventLoop'.pc = "ack"
      /\ m \notin slackItems => eventLoop'.pc = "notify"
      /\ eventLoop' \in [pc : {"ack", "notify"}, msg : SlackMsgs]
  BY <1>1, <1>2 DEF m
<1>4. SlackInv'
  BY <1>1, <1>2, <1>3 DEF SlackInv
<1>5. CASE m \in slackItems
  <2>1. slackItems' = slackItems
    BY <1>2, <1>5
  <2> QED BY <1>2, <1>4, <2>1 DEF SlackStep, SlackPromise!vars
<1>6. CASE m \notin slackItems
  <2>1. {<<n, RouteOf(n)>> : n \in slackItems'} =
           {<<n, RouteOf(n)>> : n \in slackItems} \cup {<<m, RouteOf(m)>>}
    BY <1>2
  <2>2. ~SlackPromise!Durable(m)
    BY <1>1, <1>6, SlackDurable
  <2>3. PICK r \in {RouteOf(n) : n \in SlackRunnable} : r = RouteOf(m)
    BY <1>1
  <2>4. SlackPromise!Record(m, r)
    BY <1>1, <1>2, <2>1, <2>2, <2>3 DEF SlackPromise!Record
  <2>5. SlackPromise!Next
    BY <1>1, <2>4 DEF SlackPromise!Next
  <2> QED BY <1>4, <2>5 DEF SlackStep
<1> QED BY <1>5, <1>6

(* Only the envelope that recorded the message comes to tell of it.         *)
LEMMA NotifyTells ==
    ASSUME SlackInv, SlackNotify
    PROVE  SlackInv' /\ SlackStep
<1> DEFINE m == eventLoop.msg
<1>1. /\ m \in SlackRunnable /\ m \in SlackMsgs /\ m \in slackItems
      /\ slackNotices[m] = 0
      /\ eventLoop \in [pc : {"notify"}, msg : SlackMsgs]
      /\ slackNotices \in [SlackMsgs -> Nat]
  BY DEF SlackNotify, SlackInv, SlackRunnable
<1>2. /\ slackNotices' = [slackNotices EXCEPT ![m] = @ + 1] \/ UNCHANGED slackNotices
      /\ eventLoop' = [eventLoop EXCEPT !.pc = "ack"]
      /\ UNCHANGED <<slackItems, acked, events>>
  BY DEF SlackNotify, LoopAt, durable
<1> HIDE DEF m
<1>3. /\ eventLoop'.msg = m /\ eventLoop'.pc = "ack"
      /\ eventLoop' \in [pc : {"ack"}, msg : SlackMsgs]
  BY <1>1, <1>2 DEF m
<1>4. \/ slackNotices' = [slackNotices EXCEPT ![m] = 1]
      \/ slackNotices' = slackNotices
  BY <1>1, <1>2
<1>5. /\ slackNotices' \in [SlackMsgs -> Nat]
      /\ \A n \in SlackMsgs : n # m => slackNotices'[n] = slackNotices[n]
  BY <1>1, <1>4
<1>6. SlackInv'
  BY <1>1, <1>2, <1>3, <1>5 DEF SlackInv
<1>7. CASE slackNotices' = slackNotices
  BY <1>2, <1>6, <1>7 DEF SlackStep, SlackPromise!vars
<1>8. CASE slackNotices' = [slackNotices EXCEPT ![m] = 1]
  <2>1. SlackPromise!Durable(m)
    BY <1>1, SlackDurable
  <2>2. SlackPromise!Tell(m)
    BY <1>1, <1>2, <1>8, <2>1 DEF SlackPromise!Tell
  <2> QED BY <1>1, <1>6, <2>2 DEF SlackStep, SlackPromise!Next
<1> QED BY <1>4, <1>7, <1>8

(* What is acknowledged is durable, or was not to be run.                   *)
LEMMA AckSettles ==
    ASSUME SlackInv, Ack
    PROVE  SlackInv' /\ SlackStep
<1> DEFINE m == eventLoop.msg
<1>1. m \in SlackMsgs /\ (m \in SlackRunnable => m \in slackItems)
  BY DEF Ack, SlackInv
<1>2. /\ acked' = acked \cup {m} /\ eventLoop' = LoopIdle
      /\ UNCHANGED <<slackItems, events, slackNotices>>
  BY DEF Ack
<1> HIDE DEF m
<1>3. eventLoop'.pc = "idle" /\ eventLoop' \in [pc : {"idle"}, msg : SlackMsgs \cup {NoSlackMsg}]
  BY <1>2 DEF LoopIdle
<1>4. SlackInv'
  BY <1>2, <1>3 DEF SlackInv
<1>5. m \in SlackRunnable => SlackPromise!Durable(m)
  BY <1>1, SlackDurable
<1>6. SlackPromise!Settle(m)
  BY <1>2, <1>5 DEF SlackPromise!Settle
<1> QED BY <1>1, <1>4, <1>6 DEF SlackStep, SlackPromise!Next

LEMMA SlackNextInv == SlackInv /\ [SlackNext]_slackVars => SlackInv' /\ SlackStep
<1> SUFFICES ASSUME SlackInv, [SlackNext]_slackVars PROVE SlackInv' /\ SlackStep
  OBVIOUS
<1>1. CASE UNCHANGED slackVars
  BY <1>1 DEF slackVars, SlackInv, SlackStep, SlackPromise!vars
<1>2. CASE Commit
  BY <1>2, CommitRecords
<1>3. CASE SlackNotify
  BY <1>3, NotifyTells
<1>4. CASE Ack
  BY <1>4, AckSettles
<1>5. CASE \/ HandleEvent \/ CheckServing \/ CommitFails \/ AckLost
           \/ BeginShutdown \/ Restart \/ SlackCrash
           \/ \E m \in SlackMsgs : Post(m) \/ Offer(m)
  BY <1>5, SlackUnseen DEF SlackStep
<1> QED BY <1>1, <1>2, <1>3, <1>4, <1>5 DEF SlackNext, Handle

LEMMA SlackInitInv == SlackInit => SlackInv /\ SlackPromise!Init
<1> SUFFICES ASSUME SlackInit PROVE SlackInv /\ SlackPromise!Init
  OBVIOUS
<1>1. LoopIdle.pc = "idle" /\ LoopIdle \in [pc : {"idle"}, msg : SlackMsgs \cup {NoSlackMsg}]
  BY DEF LoopIdle
<1> QED BY <1>1 DEF SlackInit, SlackInv, SlackPromise!Init

(* Slack's adapter implements Intake for any messages, copies and faults: a *)
(* message becomes one item, is told about once at most, and its event is   *)
(* acknowledged only when the item is durable or there is nothing to run.   *)
THEOREM SlackPromiseKept == SlackSpec => SlackKeepsPromise
<1>1. SlackInv /\ [SlackNext]_slackVars => [SlackPromise!Next]_(SlackPromise!vars)
  BY SlackNextInv DEF SlackStep
<1> QED BY <1>1, SlackInitInv, SlackNextInv, PTL DEF SlackSpec, SlackKeepsPromise, SlackPromise!Spec

-----------------------------------------------------------------------------
(***************************************************************************)
(* Discord: copies of a message are handled side by side, but the thread it *)
(* is filed under is the one it was bound to first, and the one copy that   *)
(* puts it in the inbox is the one that tells of it.                        *)
(***************************************************************************)

(* Where a message is filed, once it has a place.                           *)
PlaceOf(m) == IF m \in Roots THEN bindings[m] ELSE HomeOf[m]

Filed(m) == <<PlaceOf(m), m>> \in discordItems

AtRoot == {"lookup", "fetch", "recheck", "start", "bind"}

HandlerSet ==
    [pc : {"idle", "resolve", "ingest", "answer", "notify"} \cup AtRoot,
     msg : DiscordMsgs \cup {NoDiscordMsg},
     seen : Threads \cup {NoThread}, thread : Threads \cup {NoThread}]

HandlersTyped == handler \in [Handlers -> HandlerSet]

TablesTyped ==
    /\ threadOf \in [Roots -> Threads \cup {NoThread}]
    /\ bindings \in [Roots -> Threads \cup {NoThread}]
    /\ discordNotices \in [DiscordMsgs -> Nat]

(* What a handler relies on: x is what it holds.                            *)
HandlerOK(x) ==
    /\ x.pc \notin {"idle", "notify"} => x.msg \in DiscordRunnable
    /\ x.pc \in AtRoot => x.msg \in Roots
    /\ x.pc = "bind" => x.thread \in Threads
    /\ x.pc \in {"ingest", "answer"} => x.thread \in Threads /\ x.thread = PlaceOf(x.msg)
    /\ x.pc = "answer" => Filed(x.msg) /\ discordNotices[x.msg] = 0

OneAnswers ==
    \A g, h \in Handlers : g # h /\ handler[g].pc = "answer" /\ handler[h].pc = "answer" =>
        handler[g].msg # handler[h].msg

(* An item is where its message was bound or sent; a message that was told  *)
(* about is an item.                                                        *)
ItemsOK ==
    /\ \A key \in discordItems :
          \E m \in DiscordRunnable : key = <<PlaceOf(m), m>> /\ PlaceOf(m) \in Threads
    /\ \A m \in DiscordMsgs : discordNotices[m] # 0 => m \in DiscordRunnable /\ Filed(m)

DiscordInv ==
    /\ HandlersTyped /\ TablesTyped
    /\ \A h \in Handlers : HandlerOK(handler[h])
    /\ OneAnswers
    /\ ItemsOK

DiscordStep == DiscordPromise!Next \/ UNCHANGED DiscordPromise!vars

LEMMA HomesAreThreads ==
    /\ Roots \subseteq DiscordRunnable /\ DiscordRunnable \subseteq DiscordMsgs
    /\ \A m \in DiscordRunnable \ Roots : HomeOf[m] \in Threads
<1>1. Roots \subseteq DiscordRunnable /\ DiscordRunnable \subseteq DiscordMsgs
  BY DEF Roots, DiscordRunnable
<1>2. ASSUME NEW m \in DiscordRunnable \ Roots PROVE HomeOf[m] \in Threads
  <2>1. m \in DiscordMsgs /\ DiscordAbout[m].place \in {"dm", "thread"}
    BY DEF Roots, DiscordRunnable
  <2> QED BY <2>1, DiscordAssumption
<1> QED BY <1>1, <1>2

LEMMA DiscordDurable ==
    ASSUME DiscordInv, NEW m \in DiscordRunnable
    PROVE  DiscordPromise!Durable(m) <=> Filed(m)
<1>1. ASSUME Filed(m) PROVE DiscordPromise!Durable(m)
  <2>1. PICK n \in DiscordRunnable : <<PlaceOf(m), m>> = <<PlaceOf(n), n>> /\ PlaceOf(n) \in Threads
    BY <1>1 DEF DiscordInv, ItemsOK, Filed
  <2>2. PlaceOf(m) \in Threads
    BY <2>1
  <2> DEFINE key == <<PlaceOf(m), m>>
  <2>3. key \in discordItems /\ key[1] = PlaceOf(m) /\ key[2] = m
    BY <1>1 DEF Filed
  <2> HIDE DEF key
  <2>4. <<m, PlaceOf(m)>> \in {<<k[2], k[1]>> : k \in discordItems}
    BY <2>3
  <2> QED BY <2>2, <2>4 DEF DiscordPromise!Durable
<1>2. ASSUME DiscordPromise!Durable(m) PROVE Filed(m)
  <2>1. PICK t \in Threads : <<m, t>> \in {<<key[2], key[1]>> : key \in discordItems}
    BY <1>2 DEF DiscordPromise!Durable
  <2>2. PICK key \in discordItems : <<m, t>> = <<key[2], key[1]>>
    BY <2>1
  <2>3. PICK n \in DiscordRunnable : key = <<PlaceOf(n), n>>
    BY DEF DiscordInv, ItemsOK
  <2>4. n = m
    BY <2>2, <2>3
  <2> QED BY <2>3, <2>4 DEF Filed
<1> QED BY <1>1, <1>2

(* What a step of one handler leaves behind, when the items and notices     *)
(* stay and no binding is replaced.                                         *)
LEMMA HandlerMoves ==
    ASSUME DiscordInv, NEW h \in Handlers, NEW x,
           handler' = [handler EXCEPT ![h] = x],
           x \in HandlerSet,
           x.pc # "answer",
           HandlerOK(x)',
           TablesTyped',
           UNCHANGED <<discordItems, discordNotices>>,
           \A m \in Roots : bindings[m] # NoThread => bindings'[m] = bindings[m]
    PROVE  DiscordInv' /\ DiscordStep
<1>1. HandlersTyped'
  BY DEF DiscordInv, HandlersTyped
<1>2. handler'[h] = x /\ \A g \in Handlers : g # h => handler'[g] = handler[g]
  BY DEF DiscordInv, HandlersTyped
<1>3. \A m : PlaceOf(m) \in Threads => PlaceOf(m)' = PlaceOf(m)
  BY DiscordAssumption DEF PlaceOf
<1>4. \A m \in DiscordRunnable : Filed(m) => PlaceOf(m) \in Threads /\ Filed(m)'
  <2> SUFFICES ASSUME NEW m \in DiscordRunnable, Filed(m) PROVE PlaceOf(m) \in Threads /\ Filed(m)'
    OBVIOUS
  <2>1. PICK n \in DiscordRunnable : <<PlaceOf(m), m>> = <<PlaceOf(n), n>> /\ PlaceOf(n) \in Threads
    BY DEF DiscordInv, ItemsOK, Filed
  <2>2. PlaceOf(m) \in Threads
    BY <2>1
  <2> QED BY <1>3, <2>2 DEF Filed
<1>5. ASSUME NEW g \in Handlers PROVE HandlerOK(handler[g])'
  <2>1. CASE g = h
    BY <1>2, <2>1 DEF HandlerOK
  <2>2. CASE g # h
    <3>1. HandlerOK(handler[g]) /\ handler'[g] = handler[g]
      BY <1>2, <2>2 DEF DiscordInv
    <3> QED BY <1>3, <1>4, <3>1 DEF HandlerOK
  <2> QED BY <2>1, <2>2
<1>6. OneAnswers'
  BY <1>2 DEF DiscordInv, OneAnswers
<1>7. ItemsOK'
  <2>1. ASSUME NEW key \in discordItems'
        PROVE  \E m \in DiscordRunnable : key = <<PlaceOf(m)', m>> /\ PlaceOf(m)' \in Threads
    <3>1. PICK m \in DiscordRunnable : key = <<PlaceOf(m), m>> /\ PlaceOf(m) \in Threads
      BY DEF DiscordInv, ItemsOK
    <3> QED BY <1>3, <3>1
  <2>2. ASSUME NEW m \in DiscordMsgs, discordNotices'[m] # 0
        PROVE  m \in DiscordRunnable /\ Filed(m)'
    BY <1>4, <2>2 DEF DiscordInv, ItemsOK
  <2> QED BY <2>1, <2>2 DEF ItemsOK
<1>8. UNCHANGED DiscordPromise!vars
  BY DEF DiscordPromise!vars
<1> QED BY <1>1, <1>5, <1>6, <1>7, <1>8 DEF DiscordInv, DiscordStep

(* What To makes of a handler.                                              *)
Moved(x, pc, t) == [pc |-> pc, msg |-> x.msg, seen |-> x.seen, thread |-> t]

LEMMA ToMoves ==
    ASSUME HandlersTyped, NEW h \in Handlers, NEW pc, NEW t, To(h, pc, t)
    PROVE  handler' = [handler EXCEPT ![h] = Moved(handler[h], pc, t)]
<1>1. PICK x \in HandlerSet : handler[h] = x
  BY DEF HandlersTyped
<1>2. [[x EXCEPT !.pc = pc] EXCEPT !.thread = t] = Moved(x, pc, t)
  <2>1. PICK p, m, s, u : x = [pc |-> p, msg |-> m, seen |-> s, thread |-> u]
    BY <1>1 DEF HandlerSet
  <2>2. [x EXCEPT !.pc = pc] = [pc |-> pc, msg |-> m, seen |-> s, thread |-> u]
    BY <2>1
  <2>3. Moved(x, pc, t) = [pc |-> pc, msg |-> m, seen |-> s, thread |-> t]
    BY <2>1 DEF Moved
  <2>4. [[pc |-> pc, msg |-> m, seen |-> s, thread |-> u] EXCEPT !.thread = t] =
            [pc |-> pc, msg |-> m, seen |-> s, thread |-> t]
    OBVIOUS
  <2> QED BY <2>2, <2>3, <2>4, Zenon
<1>3. handler' = [handler EXCEPT ![h] = [[x EXCEPT !.pc = pc] EXCEPT !.thread = t]]
  BY <1>1 DEF To, HandlersTyped
<1> QED BY <1>1, <1>2, <1>3

(* The steps before a message is filed, and the ones that give it up.       *)
LEMMA TakesUp ==
    ASSUME DiscordInv, NEW h \in Handlers, NEW m \in DiscordMsgs, HandleMessage(h, m)
    PROVE  DiscordInv' /\ DiscordStep
<1>1. PICK seen \in {NoThread} \cup (IF m \in Roots THEN {threadOf[m]} ELSE {}) :
         handler' = [handler EXCEPT ![h] =
             [pc |-> "resolve", msg |-> m, seen |-> seen, thread |-> NoThread]]
  BY DEF HandleMessage
<1> DEFINE x == [pc |-> "resolve", msg |-> m, seen |-> seen, thread |-> NoThread]
<1>2. m \in DiscordRunnable /\ UNCHANGED <<threadOf, made, bindings, discordItems, discordNotices>>
  BY DEF HandleMessage, discord
<1>3. seen \in Threads \cup {NoThread}
  BY DEF DiscordInv, TablesTyped
<1>4. /\ x \in [pc : {"resolve"}, msg : DiscordMsgs, seen : Threads \cup {NoThread},
                thread : {NoThread}]
      /\ x.pc = "resolve" /\ x.msg = m /\ handler' = [handler EXCEPT ![h] = x]
  BY <1>1, <1>3
<1> HIDE DEF x
<1>5. PICK y : y = x
  OBVIOUS
<1>6. HandlerOK(y)'
  BY <1>2, <1>4, <1>5 DEF HandlerOK, AtRoot
<1>7. TablesTyped'
  BY <1>2 DEF DiscordInv, TablesTyped
<1>8. y \in HandlerSet
  BY <1>4, <1>5 DEF HandlerSet
<1> QED BY <1>2, <1>4, <1>5, <1>6, <1>7, <1>8, HandlerMoves

LEMMA Leaves ==
    ASSUME DiscordInv, NEW h \in Handlers, HandlerLeaves(h),
           UNCHANGED <<threadOf, made, bindings, discordItems, discordNotices>>
    PROVE  DiscordInv' /\ DiscordStep
<1>1. /\ HandlerIdle \in [pc : {"idle"}, msg : {NoDiscordMsg}, seen : {NoThread},
                          thread : {NoThread}]
      /\ HandlerIdle.pc = "idle" /\ handler' = [handler EXCEPT ![h] = HandlerIdle]
  BY DEF HandlerIdle, HandlerLeaves
<1>2. PICK y : y = HandlerIdle
  OBVIOUS
<1>3. HandlerOK(y)'
  BY <1>1, <1>2 DEF HandlerOK, AtRoot
<1>4. TablesTyped'
  BY DEF DiscordInv, TablesTyped
<1>5. y \in HandlerSet
  BY <1>1, <1>2 DEF HandlerSet
<1> QED BY <1>1, <1>2, <1>3, <1>4, <1>5, HandlerMoves

(* A handler goes on: what it must know when it arrives at the next place.  *)
LEMMA GoesOn ==
    ASSUME DiscordInv, NEW h \in Handlers,
           NEW pc \in {"ingest", "notify"} \cup AtRoot, NEW t \in Threads \cup {NoThread},
           To(h, pc, t), handler[h].pc \in {"resolve"} \cup AtRoot,
           NEW m, handler[h].msg = m,
           pc \in AtRoot => m \in Roots,
           pc = "bind" => t \in Threads,
           pc = "ingest" => t \in Threads /\ t = PlaceOf(m)',
           TablesTyped',
           UNCHANGED <<discordItems, discordNotices>>,
           \A n \in Roots : bindings[n] # NoThread => bindings'[n] = bindings[n]
    PROVE  DiscordInv' /\ DiscordStep
<1>1. PICK x \in HandlerSet : handler[h] = x
  BY DEF DiscordInv, HandlersTyped
<1>2. handler' = [handler EXCEPT ![h] = Moved(x, pc, t)]
  BY <1>1, ToMoves DEF DiscordInv
<1> DEFINE y == Moved(x, pc, t)
<1>3. /\ y.pc = pc /\ y.msg = x.msg /\ y.thread = t
      /\ y \in [pc : {pc}, msg : DiscordMsgs \cup {NoDiscordMsg},
                seen : Threads \cup {NoThread}, thread : Threads \cup {NoThread}]
  BY <1>1 DEF Moved, HandlerSet
<1>4. x.msg \in DiscordRunnable
  BY <1>1 DEF DiscordInv, HandlerOK, AtRoot
<1>5. handler' = [handler EXCEPT ![h] = y]
  BY <1>2
<1> HIDE DEF y
<1>6. /\ pc \in AtRoot => x.msg \in Roots
      /\ pc = "ingest" => t \in Threads /\ t = PlaceOf(x.msg)'
  BY <1>1
<1>7. HandlerOK(y)'
  BY <1>3, <1>4, <1>6 DEF HandlerOK, AtRoot
<1>8. y.pc # "answer" /\ y \in HandlerSet
  BY <1>3 DEF AtRoot, HandlerSet
<1> QED BY <1>5, <1>7, <1>8, HandlerMoves DEF HandlerSet

LEMMA Resolves ==
    ASSUME DiscordInv, NEW h \in Handlers, ResolveRoute(h)
    PROVE  DiscordInv' /\ DiscordStep
<1>1. UNCHANGED <<threadOf, made, bindings, discordItems, discordNotices>>
  BY DEF ResolveRoute, discord
<1>2. TablesTyped'
  BY <1>1 DEF DiscordInv, TablesTyped
<1>3. PICK m : handler[h].msg = m
  OBVIOUS
<1>4. m \in DiscordRunnable /\ handler[h].pc = "resolve"
  BY <1>3 DEF DiscordInv, HandlerOK, ResolveRoute
<1>5. CASE HandlerLeaves(h)
  BY <1>1, <1>5, Leaves
<1>6. CASE m \in Roots /\ To(h, "lookup", NoThread)
  BY <1>1, <1>2, <1>3, <1>4, <1>6, GoesOn DEF AtRoot
<1>7. CASE m \notin Roots /\ To(h, "ingest", HomeOf[m])
  <2>1. HomeOf[m] \in Threads /\ HomeOf[m] = PlaceOf(m)'
    BY <1>4, <1>7, HomesAreThreads DEF PlaceOf
  <2> QED BY <1>1, <1>2, <1>3, <1>4, <1>7, <2>1, GoesOn DEF AtRoot
<1> QED BY <1>3, <1>5, <1>6, <1>7 DEF ResolveRoute

LEMMA Looks ==
    ASSUME DiscordInv, NEW h \in Handlers, LookupThread(h) \/ FetchMessage(h)
    PROVE  DiscordInv' /\ DiscordStep
<1>1. UNCHANGED <<threadOf, made, bindings, discordItems, discordNotices>>
  BY DEF LookupThread, FetchMessage, discord
<1>2. TablesTyped'
  BY <1>1 DEF DiscordInv, TablesTyped
<1>3. PICK m : handler[h].msg = m
  OBVIOUS
<1>4. m \in Roots /\ handler[h].pc \in {"lookup", "fetch", "recheck"}
  BY <1>3 DEF DiscordInv, HandlerOK, LookupThread, FetchMessage, AtRoot
<1>5. PICK bound \in Threads \cup {NoThread}, seen \in Threads \cup {NoThread},
           found \in Threads \cup {NoThread} :
         bound = bindings[m] /\ seen = handler[h].seen /\ found = threadOf[m]
  BY <1>4 DEF DiscordInv, TablesTyped, HandlersTyped, HandlerSet
<1>6. \/ bound # NoThread /\ To(h, "ingest", bound)
      \/ seen # NoThread /\ To(h, "bind", seen)
      \/ found # NoThread /\ To(h, "bind", found)
      \/ \E pc \in {"fetch", "start", "notify"} : To(h, pc, NoThread)
  BY <1>3, <1>5 DEF LookupThread, FetchMessage
<1>7. CASE bound # NoThread /\ To(h, "ingest", bound)
  <2>1. bound \in Threads /\ bound = PlaceOf(m)'
    BY <1>1, <1>3, <1>4, <1>5, <1>7 DEF PlaceOf
  <2> QED BY <1>1, <1>2, <1>3, <1>4, <1>7, <2>1, GoesOn DEF AtRoot
<1>8. CASE seen # NoThread /\ To(h, "bind", seen)
  BY <1>1, <1>2, <1>3, <1>4, <1>8, GoesOn DEF AtRoot
<1>9. CASE found # NoThread /\ To(h, "bind", found)
  BY <1>1, <1>2, <1>3, <1>4, <1>9, GoesOn DEF AtRoot
<1>10. ASSUME NEW pc \in {"fetch", "start", "notify"}, To(h, pc, NoThread)
       PROVE  DiscordInv' /\ DiscordStep
  BY <1>1, <1>2, <1>3, <1>4, <1>10, GoesOn DEF AtRoot
<1> QED BY <1>6, <1>7, <1>8, <1>9, <1>10

LEMMA Starts ==
    ASSUME DiscordInv, NEW h \in Handlers, StartThread(h)
    PROVE  DiscordInv' /\ DiscordStep
<1>1. UNCHANGED <<bindings, discordItems, discordNotices>>
  BY DEF StartThread
<1>2. PICK m : handler[h].msg = m
  OBVIOUS
<1>3. m \in Roots /\ handler[h].pc = "start"
  BY <1>2 DEF DiscordInv, HandlerOK, StartThread, AtRoot
<1>4. \/ \E t \in Threads : /\ threadOf' = [threadOf EXCEPT ![m] = t]
                            /\ To(h, "bind", t) \/ To(h, "recheck", NoThread)
      \/ threadOf' = threadOf /\ To(h, "recheck", NoThread)
  <2>1. threadOf[m] # NoThread => threadOf[m] \in Threads
    BY <1>3 DEF DiscordInv, TablesTyped
  <2> QED BY <1>2, <2>1 DEF StartThread, discord
<1>5. ASSUME NEW t \in Threads, threadOf' = [threadOf EXCEPT ![m] = t],
             To(h, "bind", t) \/ To(h, "recheck", NoThread)
      PROVE  DiscordInv' /\ DiscordStep
  <2>1. TablesTyped'
    BY <1>1, <1>5 DEF DiscordInv, TablesTyped
  <2>2. CASE To(h, "bind", t)
    BY <1>1, <1>2, <1>3, <2>1, <2>2, GoesOn DEF AtRoot
  <2>3. CASE To(h, "recheck", NoThread)
    BY <1>1, <1>2, <1>3, <2>1, <2>3, GoesOn DEF AtRoot
  <2> QED BY <1>5, <2>2, <2>3
<1>6. CASE threadOf' = threadOf /\ To(h, "recheck", NoThread)
  <2>1. TablesTyped'
    BY <1>1, <1>6 DEF DiscordInv, TablesTyped
  <2> QED BY <1>1, <1>2, <1>3, <1>6, <2>1, GoesOn DEF AtRoot
<1> QED BY <1>4, <1>5, <1>6

(* The first binding of a message stays, whoever comes second.              *)
LEMMA Binds ==
    ASSUME DiscordInv, NEW h \in Handlers, BindThread(h)
    PROVE  DiscordInv' /\ DiscordStep
<1>1. UNCHANGED <<threadOf, made, discordItems, discordNotices>>
  BY DEF BindThread, discord
<1>2. PICK m : handler[h].msg = m
  OBVIOUS
<1>3. m \in Roots /\ handler[h].pc = "bind" /\ handler[h].thread \in Threads
  BY <1>2 DEF DiscordInv, HandlerOK, BindThread, AtRoot
<1>4. PICK bound \in Threads :
         /\ bound = IF bindings[m] = NoThread THEN handler[h].thread ELSE bindings[m]
         /\ bindings' = [bindings EXCEPT ![m] = bound]
         /\ To(h, "ingest", bound)
  <2>1. bindings[m] # NoThread => bindings[m] \in Threads
    BY <1>3 DEF DiscordInv, TablesTyped
  <2> QED BY <1>2, <1>3, <2>1 DEF BindThread
<1>5. bindings \in [Roots -> Threads \cup {NoThread}]
  BY DEF DiscordInv, TablesTyped
<1>6. /\ bindings'[m] = bound
      /\ \A n \in Roots : bindings[n] # NoThread => bindings'[n] = bindings[n]
  BY <1>3, <1>4, <1>5
<1>7. TablesTyped'
  BY <1>1, <1>4, <1>5 DEF DiscordInv, TablesTyped
<1>8. bound = PlaceOf(m)'
  BY <1>2, <1>3, <1>6 DEF PlaceOf
<1> QED BY <1>1, <1>2, <1>3, <1>4, <1>6, <1>7, <1>8, GoesOn DEF AtRoot

LEMMA GivesUp ==
    ASSUME DiscordInv, NEW h \in Handlers, BindFails(h) \/ IngestFails(h) \/ NotifyFailure(h)
    PROVE  DiscordInv' /\ DiscordStep
<1>1. UNCHANGED <<threadOf, made, bindings, discordItems, discordNotices>>
  BY DEF BindFails, IngestFails, NotifyFailure, discord
<1>2. TablesTyped'
  BY <1>1 DEF DiscordInv, TablesTyped
<1>3. CASE BindFails(h)
  <2>1. handler[h].pc = "bind" /\ To(h, "notify", NoThread)
    BY <1>3 DEF BindFails
  <2>2. PICK m : handler[h].msg = m
    OBVIOUS
  <2> QED BY <2>2, <1>1, <1>2, <2>1, GoesOn DEF AtRoot
<1>4. CASE IngestFails(h) \/ NotifyFailure(h)
  BY <1>1, <1>4, Leaves DEF IngestFails, NotifyFailure
<1> QED BY <1>3, <1>4

(* The copy that finds its message filed leaves; the one that files it goes *)
(* on to tell of it, alone.                                                 *)
LEMMA Files ==
    ASSUME DiscordInv, NEW h \in Handlers, Ingest(h)
    PROVE  DiscordInv' /\ DiscordStep
<1>1. PICK m, t : handler[h].msg = m /\ handler[h].thread = t
  OBVIOUS
<1>2. /\ handler[h].pc = "ingest" /\ m \in DiscordRunnable /\ m \in DiscordMsgs
      /\ t \in Threads /\ t = PlaceOf(m)
  BY <1>1, HomesAreThreads DEF DiscordInv, HandlerOK, Ingest
<1>3. /\ discordItems' = discordItems \cup {<<t, m>>}
      /\ UNCHANGED <<threadOf, made, bindings, discordNotices>>
      /\ Filed(m) => HandlerLeaves(h)
      /\ ~Filed(m) => To(h, "answer", t)
  BY <1>1, <1>2 DEF Ingest, Filed, discord
<1>4. CASE Filed(m)
  <2>1. discordItems' = discordItems
    BY <1>2, <1>3, <1>4 DEF Filed
  <2> QED BY <1>3, <1>4, <2>1, Leaves
<1>5. CASE ~Filed(m)
  <2>1. PICK x \in HandlerSet : handler[h] = x
    BY DEF DiscordInv, HandlersTyped
  <2> DEFINE y == Moved(x, "answer", t)
  <2>2. handler' = [handler EXCEPT ![h] = y]
    BY <1>3, <1>5, <2>1, ToMoves DEF DiscordInv
  <2>3. y.pc = "answer" /\ y.msg = m /\ y.thread = t /\ y \in HandlerSet
    BY <1>1, <1>2, <2>1 DEF Moved, HandlerSet
  <2> HIDE DEF y
  <2>4. /\ HandlersTyped'
        /\ handler'[h] = y
        /\ \A g \in Handlers : g # h => handler'[g] = handler[g]
    BY <2>2, <2>3 DEF DiscordInv, HandlersTyped
  <2>5. TablesTyped' /\ \A n : PlaceOf(n)' = PlaceOf(n)
    BY <1>3 DEF DiscordInv, TablesTyped, PlaceOf
  <2>6. Filed(m)' /\ \A n : Filed(n) => Filed(n)'
    BY <1>2, <1>3, <2>5 DEF Filed
  <2>7. discordNotices'[m] = 0
    BY <1>2, <1>3, <1>5 DEF DiscordInv, ItemsOK
  <2>8. ASSUME NEW g \in Handlers PROVE HandlerOK(handler[g])'
    <3>1. CASE g = h
      BY <1>2, <2>3, <2>4, <2>5, <2>6, <2>7, <3>1 DEF HandlerOK, AtRoot
    <3>2. CASE g # h
      <4>1. HandlerOK(handler[g]) /\ handler'[g] = handler[g]
        BY <2>4, <3>2 DEF DiscordInv
      <4> QED BY <1>3, <2>5, <2>6, <4>1 DEF HandlerOK
    <3> QED BY <3>1, <3>2
  <2>9. OneAnswers'
    <3>1. \A g \in Handlers : handler[g].pc = "answer" => handler[g].msg # m
      BY <1>5 DEF DiscordInv, HandlerOK
    <3> QED BY <2>3, <2>4, <3>1 DEF DiscordInv, OneAnswers
  <2>10. ItemsOK'
    <3>1. ASSUME NEW key \in discordItems'
          PROVE  \E n \in DiscordRunnable : key = <<PlaceOf(n)', n>> /\ PlaceOf(n)' \in Threads
      <4>1. CASE key = <<t, m>>
        BY <1>2, <2>5, <4>1
      <4>2. CASE key \in discordItems
        BY <2>5, <4>2 DEF DiscordInv, ItemsOK
      <4> QED BY <1>3, <4>1, <4>2
    <3>2. \A n \in DiscordMsgs : discordNotices'[n] # 0 => n \in DiscordRunnable /\ Filed(n)'
      BY <1>3, <2>6 DEF DiscordInv, ItemsOK
    <3> QED BY <3>1, <3>2 DEF ItemsOK
  <2>11. {<<key[2], key[1]>> : key \in discordItems'} =
            {<<key[2], key[1]>> : key \in discordItems} \cup {<<m, t>>}
    <3>1. PICK k : k = <<t, m>>
      OBVIOUS
    <3>2. k[2] = m /\ k[1] = t /\ discordItems' = discordItems \cup {k}
      BY <1>3, <3>1
    <3> QED BY <3>2
  <2>12. ~DiscordPromise!Durable(m)
    BY <1>2, <1>5, DiscordDurable
  <2>13. DiscordPromise!Record(m, t)
    BY <1>2, <1>3, <2>11, <2>12 DEF DiscordPromise!Record
  <2>14. DiscordPromise!Next
    BY <1>2, <2>13 DEF DiscordPromise!Next
  <2> QED BY <2>4, <2>5, <2>8, <2>9, <2>10, <2>14 DEF DiscordInv, DiscordStep
<1> QED BY <1>4, <1>5

(* The one that filed the message tells of it and leaves.                   *)
LEMMA Tells ==
    ASSUME DiscordInv, NEW h \in Handlers, DiscordNotify(h)
    PROVE  DiscordInv' /\ DiscordStep
<1>1. PICK m : handler[h].msg = m
  OBVIOUS
<1>2. /\ handler[h].pc = "answer" /\ m \in DiscordRunnable /\ m \in DiscordMsgs
      /\ Filed(m) /\ discordNotices[m] = 0
  BY <1>1, HomesAreThreads DEF DiscordInv, HandlerOK, DiscordNotify
<1>3. /\ HandlerLeaves(h)
      /\ UNCHANGED <<threadOf, made, bindings, discordItems>>
      /\ \/ discordNotices' = discordNotices
         \/ discordNotices' = [discordNotices EXCEPT ![m] = 1]
  BY <1>1, <1>2 DEF DiscordNotify, discord, DiscordInv, TablesTyped
<1>4. CASE discordNotices' = discordNotices
  BY <1>3, <1>4, Leaves
<1>5. CASE discordNotices' = [discordNotices EXCEPT ![m] = 1]
  <2>1. HandlerIdle \in HandlerSet /\ HandlerIdle.pc = "idle"
    BY DEF HandlerIdle, HandlerSet
  <2>2. /\ HandlersTyped'
        /\ handler'[h] = HandlerIdle
        /\ \A g \in Handlers : g # h => handler'[g] = handler[g]
    BY <1>3, <2>1 DEF DiscordInv, HandlersTyped, HandlerLeaves
  <2>3. TablesTyped' /\ \A n : PlaceOf(n)' = PlaceOf(n)
    BY <1>3, <1>5 DEF DiscordInv, TablesTyped, PlaceOf
  <2>4. \A n : Filed(n)' = Filed(n)
    BY <1>3, <2>3 DEF Filed
  <2>5. \A n \in DiscordMsgs : n # m => discordNotices'[n] = discordNotices[n]
    BY <1>5 DEF DiscordInv, TablesTyped
  <2>6. ASSUME NEW g \in Handlers PROVE HandlerOK(handler[g])'
    <3>1. CASE g = h
      BY <2>1, <2>2, <3>1 DEF HandlerOK, AtRoot
    <3>2. CASE g # h
      <4>1. HandlerOK(handler[g]) /\ handler'[g] = handler[g]
        BY <2>2, <3>2 DEF DiscordInv
      <4>2. handler[g].pc = "answer" => handler[g].msg # m /\ handler[g].msg \in DiscordMsgs
        BY <1>1, <1>2, <3>2, <4>1, HomesAreThreads DEF DiscordInv, OneAnswers, HandlerOK
      <4> QED BY <2>3, <2>4, <2>5, <4>1, <4>2 DEF HandlerOK
    <3> QED BY <3>1, <3>2
  <2>7. OneAnswers'
    BY <2>1, <2>2 DEF DiscordInv, OneAnswers
  <2>8. ItemsOK'
    BY <1>2, <1>3, <2>3, <2>4, <2>5 DEF DiscordInv, ItemsOK
  <2>9. DiscordPromise!Durable(m)
    BY <1>2, DiscordDurable
  <2>10. DiscordPromise!Tell(m)
    BY <1>2, <1>3, <1>5, <2>9 DEF DiscordPromise!Tell
  <2>11. DiscordPromise!Next
    BY <1>2, <2>10 DEF DiscordPromise!Next
  <2> QED BY <2>2, <2>3, <2>6, <2>7, <2>8, <2>11 DEF DiscordInv, DiscordStep
<1> QED BY <1>3, <1>4, <1>5

(* A crash takes the handlers and leaves the tables; a moderator takes a    *)
(* thread and leaves its binding.                                           *)
LEMMA Losses ==
    ASSUME DiscordInv, DiscordCrash \/ \E m \in Roots : DeleteThread(m)
    PROVE  DiscordInv' /\ DiscordStep
<1>1. UNCHANGED <<bindings, discordItems, discordNotices>>
  BY DEF DiscordCrash, DeleteThread
<1>2. (\A n : PlaceOf(n)' = PlaceOf(n)) /\ \A n : Filed(n)' = Filed(n)
  BY <1>1 DEF PlaceOf, Filed
<1>3. ItemsOK' /\ DiscordStep
  BY <1>1, <1>2 DEF DiscordInv, ItemsOK, DiscordStep, DiscordPromise!vars
<1>4. CASE DiscordCrash
  <2>1. HandlerIdle \in HandlerSet /\ HandlerIdle.pc = "idle"
    BY DEF HandlerIdle, HandlerSet
  <2>2. HandlersTyped' /\ \A h \in Handlers : handler'[h] = HandlerIdle
    BY <1>4, <2>1 DEF DiscordCrash, HandlersTyped
  <2>3. TablesTyped'
    BY <1>1, <1>4 DEF DiscordCrash, DiscordInv, TablesTyped, discord
  <2>4. \A h \in Handlers : HandlerOK(handler[h])'
    BY <2>1, <2>2 DEF HandlerOK, AtRoot
  <2>5. OneAnswers'
    BY <2>1, <2>2 DEF OneAnswers
  <2> QED BY <1>3, <2>2, <2>3, <2>4, <2>5 DEF DiscordInv
<1>5. CASE \E m \in Roots : DeleteThread(m)
  <2>1. handler' = handler /\ HandlersTyped' /\ OneAnswers'
    BY <1>5 DEF DeleteThread, DiscordInv, HandlersTyped, OneAnswers
  <2>2. TablesTyped'
    BY <1>1, <1>5 DEF DeleteThread, DiscordInv, TablesTyped
  <2>3. ASSUME NEW h \in Handlers PROVE HandlerOK(handler[h])'
    <3>1. HandlerOK(handler[h])
      BY DEF DiscordInv
    <3> QED BY <1>1, <1>2, <2>1, <3>1 DEF HandlerOK
  <2> QED BY <1>3, <2>1, <2>2, <2>3 DEF DiscordInv
<1> QED BY <1>4, <1>5

LEMMA DiscordNextInv == DiscordInv /\ [DiscordNext]_discordVars => DiscordInv' /\ DiscordStep
<1> SUFFICES ASSUME DiscordInv, [DiscordNext]_discordVars PROVE DiscordInv' /\ DiscordStep
  OBVIOUS
<1>1. CASE UNCHANGED discordVars
  <2>1. UNCHANGED <<threadOf, bindings, handler, discordItems, discordNotices>>
    BY <1>1 DEF discordVars, discord
  <2>2. (\A n : PlaceOf(n)' = PlaceOf(n)) /\ \A n : Filed(n)' = Filed(n)
    BY <2>1 DEF PlaceOf, Filed
  <2>3. HandlersTyped' /\ TablesTyped' /\ OneAnswers' /\ ItemsOK'
    BY <2>1, <2>2 DEF DiscordInv, HandlersTyped, TablesTyped, OneAnswers, ItemsOK
  <2>4. ASSUME NEW h \in Handlers PROVE HandlerOK(handler[h])'
    <3>1. HandlerOK(handler[h])
      BY DEF DiscordInv
    <3> QED BY <2>1, <2>2, <3>1 DEF HandlerOK
  <2> QED BY <2>1, <2>3, <2>4 DEF DiscordInv, DiscordStep, DiscordPromise!vars
<1>2. ASSUME NEW h \in Handlers, NEW m \in DiscordMsgs, HandleMessage(h, m)
      PROVE  DiscordInv' /\ DiscordStep
  BY <1>2, TakesUp
<1>3. ASSUME NEW h \in Handlers,
             \/ ResolveRoute(h) \/ LookupThread(h) \/ FetchMessage(h) \/ StartThread(h)
             \/ BindThread(h) \/ BindFails(h)
             \/ Ingest(h) \/ DiscordNotify(h) \/ IngestFails(h) \/ NotifyFailure(h)
      PROVE  DiscordInv' /\ DiscordStep
  BY <1>3, Resolves, Looks, Starts, Binds, GivesUp, Files, Tells
<1>4. CASE DiscordCrash \/ \E m \in Roots : DeleteThread(m)
  BY <1>4, Losses
<1> QED BY <1>1, <1>2, <1>3, <1>4 DEF DiscordNext

LEMMA DiscordInitInv == DiscordInit => DiscordInv /\ DiscordPromise!Init
<1> SUFFICES ASSUME DiscordInit PROVE DiscordInv /\ DiscordPromise!Init
  OBVIOUS
<1>1. HandlerIdle \in HandlerSet /\ HandlerIdle.pc = "idle"
  BY DEF HandlerIdle, HandlerSet
<1>2. HandlersTyped /\ \A h \in Handlers : handler[h] = HandlerIdle
  BY <1>1 DEF DiscordInit, HandlersTyped
<1>3. TablesTyped /\ ItemsOK
  BY DEF DiscordInit, TablesTyped, ItemsOK
<1>4. \A h \in Handlers : HandlerOK(handler[h])
  BY <1>1, <1>2 DEF HandlerOK, AtRoot
<1>5. OneAnswers
  BY <1>1, <1>2 DEF OneAnswers
<1>6. DiscordPromise!Init
  BY DEF DiscordInit, DiscordPromise!Init
<1> QED BY <1>2, <1>3, <1>4, <1>5, <1>6 DEF DiscordInv

(* Discord's adapter implements Intake for any messages, threads, handlers, *)
(* copies and faults: copies that are handled side by side, unknown         *)
(* outcomes and deleted threads never file a message twice.                 *)
THEOREM DiscordPromiseKept == DiscordSpec => DiscordKeepsPromise
<1>1. DiscordInv /\ [DiscordNext]_discordVars => [DiscordPromise!Next]_(DiscordPromise!vars)
  BY DiscordNextInv DEF DiscordStep
<1> QED BY <1>1, DiscordInitInv, DiscordNextInv, PTL DEF DiscordSpec, DiscordKeepsPromise, DiscordPromise!Spec
=============================================================================
