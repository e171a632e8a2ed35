-------------------------- MODULE PoolManagerProofs --------------------------
(***************************************************************************)
(* Proofs about PoolManager, for every set of conversations, callers and   *)
(* processes and every maxChildren.                                        *)
(*   - Whatever fails, with and without the Supervisor's discipline: type  *)
(*     correctness, exact slot counters, the cap on slots.                 *)
(*   - For disciplined callers: leases are exclusive, pooled children own  *)
(*     their rows, processes are bounded, close() leaves nothing behind,   *)
(*     and no waiter is forgotten; each under the failures it survives.    *)
(*   - For every caller: a row is released only once its child has closed. *)
(***************************************************************************)
EXTENDS PoolManager, TLAPS, FiniteSetTheorems, SequenceTheorems

-----------------------------------------------------------------------------
(***************************************************************************)
(* The helpers on the Map of entries.                                      *)
(***************************************************************************)

\* What Append does, for every index.
LEMMA AppendFacts ==
    ASSUME NEW S, NEW s \in Seq(S), NEW e \in S
    PROVE  /\ Append(s, e) \in Seq(S)
           /\ Len(Append(s, e)) = Len(s) + 1
           /\ DOMAIN Append(s, e) = 1 .. (Len(s) + 1)
           /\ \A j \in 1 .. (Len(s) + 1) :
                Append(s, e)[j] = IF j <= Len(s) THEN s[j] ELSE e
  BY SMT

\* Without deletes exactly the i-th element.
LEMMA WithoutProperties ==
    ASSUME NEW S, NEW s \in Seq(S), NEW i \in 1 .. Len(s)
    PROVE  /\ Without(s, i) \in Seq(S)
           /\ Len(Without(s, i)) = Len(s) - 1
           /\ DOMAIN Without(s, i) = 1 .. (Len(s) - 1)
           /\ \A j \in 1 .. (Len(s) - 1) :
                Without(s, i)[j] = IF j < i THEN s[j] ELSE s[j + 1]
  BY LenProperties, SMT DEF Without

\* entries.set adds at most one entry, and the Map then holds x and nothing
\* else that it did not hold before.
LEMMA MapSetProperties ==
    ASSUME entries \in Seq(Child), NEW x \in Child
    PROVE  /\ MapSet(x) \in Seq(Child)
           /\ Len(MapSet(x)) \in Len(entries) .. (Len(entries) + 1)
           /\ DOMAIN MapSet(x) = 1 .. Len(MapSet(x))
           /\ \A i \in DOMAIN MapSet(x) :
                \/ MapSet(x)[i] = x /\ (i \in At(conv[x]) \/ (At(conv[x]) = {} /\ i = Len(entries) + 1))
                \/ i \in DOMAIN entries /\ i \notin At(conv[x]) /\ MapSet(x)[i] = entries[i]
  <1>1. CASE At(conv[x]) = {}
    <2>1. MapSet(x) = Append(entries, x)
      BY <1>1 DEF MapSet
    <2> QED BY <1>1, <2>1, AppendProperties, LenProperties, SMT DEF At
  <1>2. CASE At(conv[x]) # {}
    <2>1. MapSet(x) = [i \in DOMAIN entries |-> IF i \in At(conv[x]) THEN x ELSE entries[i]]
      BY <1>2 DEF MapSet
    <2>2. Len(entries) \in Nat /\ DOMAIN entries = 1 .. Len(entries)
          /\ \A i \in DOMAIN entries : entries[i] \in Child
      BY LenProperties, ElementOfSeq
    <2>3. MapSet(x) \in Seq(Child) /\ Len(MapSet(x)) = Len(entries)
      BY <2>1, <2>2, SMT
    <2> QED BY <1>2, <2>1, <2>2, <2>3, SMT
  <1> QED BY <1>1, <1>2

\* touchLru permutes the Map.
LEMMA TouchProperties ==
    ASSUME entries \in Seq(Child), NEW i \in DOMAIN entries
    PROVE  /\ touchLru(i) \in Seq(Child)
           /\ Len(touchLru(i)) = Len(entries)
           /\ DOMAIN touchLru(i) = DOMAIN entries
           /\ \A j \in DOMAIN entries :
                touchLru(i)[j] = IF j = Len(entries) THEN entries[i]
                                 ELSE IF j < i THEN entries[j] ELSE entries[j + 1]
  <1> DEFINE w == Without(entries, i)
  <1>1. /\ Len(entries) \in Nat /\ DOMAIN entries = 1 .. Len(entries)
        /\ i \in 1 .. Len(entries) /\ entries[i] \in Child
    BY LenProperties, ElementOfSeq
  <1>2. /\ w \in Seq(Child) /\ Len(w) = Len(entries) - 1
        /\ \A j \in 1 .. (Len(entries) - 1) :
             w[j] = IF j < i THEN entries[j] ELSE entries[j + 1]
    BY <1>1, WithoutProperties
  <1>3. touchLru(i) = Append(w, entries[i])
    BY DEF touchLru
  <1> HIDE DEF w
  <1>4. /\ Append(w, entries[i]) \in Seq(Child)
        /\ Len(Append(w, entries[i])) = Len(w) + 1
        /\ DOMAIN Append(w, entries[i]) = 1 .. (Len(w) + 1)
        /\ \A j \in 1 .. (Len(w) + 1) : Append(w, entries[i])[j] =
             IF j <= Len(w) THEN w[j] ELSE entries[i]
    <2>1. w \in Seq(Child)
      BY <1>2
    <2>2. entries[i] \in Child
      BY <1>1
    <2> QED BY <2>1, <2>2, AppendFacts
  <1>5. /\ touchLru(i) \in Seq(Child)
        /\ Len(touchLru(i)) = Len(entries)
        /\ DOMAIN touchLru(i) = DOMAIN entries
    <2>1. Len(w) + 1 = Len(entries)
      BY <1>1, <1>2
    <2>2. Len(touchLru(i)) = Len(w) + 1 /\ DOMAIN touchLru(i) = 1 .. (Len(w) + 1)
      BY <1>3, <1>4, Zenon
    <2>3. touchLru(i) \in Seq(Child)
      BY <1>3, <1>4, Zenon
    <2> QED BY <1>1, <2>1, <2>2, <2>3, Zenon
  <1>6. ASSUME NEW j \in DOMAIN entries
        PROVE  touchLru(i)[j] = IF j = Len(entries) THEN entries[i]
                                ELSE IF j < i THEN entries[j] ELSE entries[j + 1]
    <2>1. j \in 1 .. (Len(w) + 1) /\ (j <= Len(w) <=> j # Len(entries))
      BY <1>1, <1>2
    <2>2. touchLru(i)[j] = IF j <= Len(w) THEN w[j] ELSE entries[i]
      BY <1>3, <1>4, <2>1, Zenon
    <2> QED BY <1>1, <1>2, <2>1, <2>2
  <1> QED BY <1>5, <1>6

-----------------------------------------------------------------------------
(***************************************************************************)
(* The inductive invariant.  A child is in one place at a time: in the Map,*)
(* being created, or being torn down; that makes each step move exactly    *)
(* one unit between Len(entries), pendingCreations and closing.            *)
(***************************************************************************)

\* The Map has one entry per conversation.
KeysDistinct ==
    \A i, j \in DOMAIN entries : conv[entries[i]] = conv[entries[j]] => i = j

\* A pooled child is neither being created nor being torn down.
PooledSettled ==
    \A i \in DOMAIN entries : /\ conv[entries[i]] \in Conv
                              /\ teardown[entries[i]] = "none"
                              /\ stage[entries[i]] = "none"

\* A child being torn down belongs to a conversation and is not being created.
TornSettled ==
    \A x \in Child : teardown[x] # "none" => conv[x] \in Conv /\ stage[x] = "none"

\* A child being created is the one its conversation's promise stands for.
CreatingReserved ==
    \A x \in Child : stage[x] # "none" => conv[x] \in Conv /\ inflight[conv[x]] = x

Creating == {k \in Conv : inflight[k] # None}
Closing == {x \in Child : teardown[x] \in Counted}

CountersExact ==
    /\ pendingCreations = Cardinality(Creating)
    /\ closing = Cardinality(Closing)

SlotInv ==
    /\ KeysDistinct /\ PooledSettled /\ TornSettled /\ CreatingReserved
    /\ CountersExact /\ CapacityBound

\* A caller that is doing something does it for a conversation.
CallsNamed == \A c \in Caller : call[c].pc # "idle" => call[c].conv \in Conv

Inv == TypeOK /\ SlotInv /\ CallsNamed /\ SlotKept

\* The variables SlotInv speaks about, but the Map.
slotVars == <<conv, inflight, stage, pendingCreations, closing, teardown>>

-----------------------------------------------------------------------------
(***************************************************************************)
(* What each kind of step does to SlotInv.                                 *)
(***************************************************************************)

\* Basic facts about the Map, used everywhere.
LEMMA EntriesFacts ==
    ASSUME TypeOK
    PROVE  /\ entries \in Seq(Child) /\ Len(entries) \in Nat
           /\ DOMAIN entries = 1 .. Len(entries)
           /\ \A i \in DOMAIN entries : entries[i] \in Child
  BY LenProperties, ElementOfSeq DEF TypeOK

\* Steps that leave the slots alone.
LEMMA SlotsSame ==
    ASSUME SlotInv, UNCHANGED entries, UNCHANGED slotVars
    PROVE  SlotInv'
  BY DEF SlotInv, slotVars, KeysDistinct, PooledSettled, TornSettled,
         CreatingReserved, CountersExact, CapacityBound, occupiedSlots,
         Creating, Closing

\* Steps that only move an entry to the most-recently-used end.
LEMMA SlotsTouch ==
    ASSUME TypeOK, SlotInv, NEW i \in DOMAIN entries, entries' = touchLru(i),
           UNCHANGED slotVars
    PROVE  SlotInv'
  <1> DEFINE src(j) == IF j = Len(entries) THEN i ELSE IF j < i THEN j ELSE j + 1
  <1>1. /\ entries \in Seq(Child) /\ Len(entries) \in Nat
        /\ DOMAIN entries = 1 .. Len(entries)
    BY EntriesFacts
  <1>2. /\ Len(entries') = Len(entries)
        /\ DOMAIN entries' = DOMAIN entries
        /\ \A j \in DOMAIN entries : entries'[j] = entries[src(j)]
    <2>1. \A j \in DOMAIN entries : entries'[j] =
            IF j = Len(entries) THEN entries[i]
            ELSE IF j < i THEN entries[j] ELSE entries[j + 1]
      BY <1>1, TouchProperties
    <2> QED BY <1>1, <2>1, TouchProperties
  <1>3. /\ \A j \in DOMAIN entries : src(j) \in DOMAIN entries
        /\ \A j, m \in DOMAIN entries : src(j) = src(m) => j = m
    BY <1>1, SMT
  <1> HIDE DEF src
  <1>4. KeysDistinct'
    BY <1>2, <1>3 DEF KeysDistinct, slotVars, SlotInv
  <1>5. PooledSettled'
    BY <1>2, <1>3 DEF PooledSettled, slotVars, SlotInv
  <1>6. TornSettled' /\ CreatingReserved' /\ CountersExact'
    BY DEF SlotInv, slotVars, TornSettled, CreatingReserved, CountersExact,
           Creating, Closing
  <1>7. CapacityBound'
    BY <1>2 DEF SlotInv, slotVars, CapacityBound, occupiedSlots
  <1> QED BY <1>4, <1>5, <1>6, <1>7 DEF SlotInv

\* Finite sets stay finite; adding and removing one member moves the count.
LEMMA OneMore ==
    ASSUME NEW U, IsFiniteSet(U), NEW S \in SUBSET U, NEW x \in U, x \notin S
    PROVE  Cardinality(S \cup {x}) = Cardinality(S) + 1
  BY FS_Subset, FS_AddElement

LEMMA OneLess ==
    ASSUME NEW U, IsFiniteSet(U), NEW S \in SUBSET U, NEW x \in S
    PROVE  Cardinality(S \ {x}) = Cardinality(S) - 1
  BY FS_Subset, FS_RemoveElement

\* The start of an eviction moves one unit from the Map to `closing'.
LEMMA SlotsBeginTeardown ==
    ASSUME TypeOK, SlotInv, NEW i \in DOMAIN entries, NEW by \in Counted,
           entries' = Without(entries, i), closing' = closing + 1,
           teardown' = [teardown EXCEPT ![entries[i]] = by],
           UNCHANGED <<conv, inflight, stage, pendingCreations>>
    PROVE  SlotInv'
  <1> DEFINE src(j) == IF j < i THEN j ELSE j + 1
  <1> DEFINE x == entries[i]
  <1>1. /\ entries \in Seq(Child) /\ Len(entries) \in Nat
        /\ DOMAIN entries = 1 .. Len(entries) /\ x \in Child
        /\ \A j \in DOMAIN entries : entries[j] \in Child
    BY EntriesFacts
  <1>2. /\ Len(entries') = Len(entries) - 1
        /\ DOMAIN entries' = 1 .. (Len(entries) - 1)
        /\ \A j \in DOMAIN entries' : entries'[j] = entries[src(j)]
    <2>1. /\ DOMAIN entries' = 1 .. (Len(entries) - 1)
          /\ \A j \in 1 .. (Len(entries) - 1) : entries'[j] =
               IF j < i THEN entries[j] ELSE entries[j + 1]
      BY <1>1, WithoutProperties
    <2> QED BY <1>1, <2>1, WithoutProperties
  <1>3. /\ \A j \in DOMAIN entries' : src(j) \in DOMAIN entries /\ src(j) # i
        /\ \A j, m \in DOMAIN entries' : src(j) = src(m) => j = m
    BY <1>1, <1>2, SMT
  <1> HIDE DEF src
  <1>4. KeysDistinct'
    BY <1>2, <1>3 DEF KeysDistinct, SlotInv
  <1>5. PooledSettled'
    <2>1. \A j \in DOMAIN entries : j # i => entries[j] # x
      BY DEF SlotInv, KeysDistinct
    <2> QED BY <1>1, <1>2, <1>3, <2>1 DEF PooledSettled, SlotInv, TypeOK
  <1>6. conv[x] \in Conv /\ stage[x] = "none" /\ teardown[x] = "none"
    BY DEF SlotInv, PooledSettled
  <1>7. TornSettled' /\ CreatingReserved'
    BY <1>1, <1>6 DEF SlotInv, TornSettled, CreatingReserved, TypeOK
  <1>8. CountersExact'
    <2>1. Closing' = Closing \cup {x} /\ x \notin Closing
      BY <1>1, <1>6, PoolAssumption DEF Closing, TypeOK, Counted, Evictor
    <2>2. Cardinality(Closing') = Cardinality(Closing) + 1
      <3>1. Closing \in SUBSET Child
        BY DEF Closing
      <3>2. IsFiniteSet(Child)
        BY PoolAssumption
      <3> HIDE DEF x
      <3> QED BY <1>1, <2>1, <3>1, <3>2, OneMore
    <2> QED BY <2>2 DEF CountersExact, SlotInv, Creating
  <1>9. CapacityBound'
    BY <1>1, <1>2, SMT DEF SlotInv, CapacityBound, occupiedSlots, TypeOK
  <1> QED BY <1>4, <1>5, <1>7, <1>8, <1>9 DEF SlotInv

\* One child of the Map is replaced or added: the keys stay distinct.
LEMMA MapSetKeys ==
    ASSUME TypeOK, KeysDistinct, NEW x \in Child,
           entries' = MapSet(x), UNCHANGED conv
    PROVE  /\ KeysDistinct'
           /\ Len(entries') \in Len(entries) .. (Len(entries) + 1)
           /\ \A i \in DOMAIN entries' :
                entries'[i] = x \/ \E j \in DOMAIN entries : entries'[i] = entries[j]
  <1>1. /\ entries \in Seq(Child) /\ Len(entries) \in Nat
        /\ DOMAIN entries = 1 .. Len(entries)
    BY EntriesFacts
  <1>2. /\ Len(entries') \in Len(entries) .. (Len(entries) + 1)
        /\ \A i \in DOMAIN entries' :
             \/ entries'[i] = x /\ (i \in At(conv[x]) \/ (At(conv[x]) = {} /\ i = Len(entries) + 1))
             \/ i \in DOMAIN entries /\ i \notin At(conv[x]) /\ entries'[i] = entries[i]
    BY <1>1, MapSetProperties
  <1>3. ASSUME NEW i \in DOMAIN entries', NEW j \in DOMAIN entries',
               conv[entries'[i]] = conv[entries'[j]]
        PROVE  i = j
    <2>1. \A m, n \in At(conv[x]) : m = n
      BY DEF At, KeysDistinct
    <2>2. \A m \in DOMAIN entries : m \notin At(conv[x]) => conv[entries[m]] # conv[x]
      BY DEF At
    <2>3. CASE entries'[i] = x /\ entries'[j] = x
      BY <1>2, <2>1, <2>2, <2>3
    <2>4. CASE entries'[i] # x /\ entries'[j] # x
      BY <1>2, <1>3, <2>4 DEF KeysDistinct
    <2>5. CASE (entries'[i] = x) # (entries'[j] = x)
      BY <1>2, <1>3, <2>2, <2>5
    <2> QED BY <2>3, <2>4, <2>5
  <1>4. KeysDistinct'
    BY <1>3 DEF KeysDistinct
  <1> QED BY <1>2, <1>4

\* A failed close moves one unit from `closing' back to the Map.
LEMMA SlotsRestore ==
    ASSUME TypeOK, SlotInv, NEW x \in Child, teardown[x] \in Counted,
           entries' = MapSet(x), closing' = closing - 1,
           teardown' = [teardown EXCEPT ![x] = "none"],
           UNCHANGED <<conv, inflight, stage, pendingCreations>>
    PROVE  SlotInv'
  <1>1. /\ KeysDistinct'
        /\ Len(entries') \in Len(entries) .. (Len(entries) + 1)
        /\ \A i \in DOMAIN entries' :
             entries'[i] = x \/ \E j \in DOMAIN entries : entries'[i] = entries[j]
    BY MapSetKeys DEF SlotInv
  <1>2. "none" \notin Counted
    BY PoolAssumption DEF Counted, Evictor
  <1>3. conv[x] \in Conv /\ stage[x] = "none"
    BY <1>2 DEF SlotInv, TornSettled
  <1>4. \A y \in Child : teardown'[y] = IF y = x THEN "none" ELSE teardown[y]
    BY DEF TypeOK
  <1>5. \A j \in DOMAIN entries : entries[j] \in Child
    BY EntriesFacts
  <1>6. PooledSettled'
    BY <1>1, <1>3, <1>4, <1>5 DEF SlotInv, PooledSettled
  <1>7. TornSettled' /\ CreatingReserved'
    BY <1>4 DEF SlotInv, TornSettled, CreatingReserved
  <1>8. Closing' = Closing \ {x} /\ x \in Closing
    BY <1>2, <1>4 DEF Closing
  <1>9. Cardinality(Closing') = Cardinality(Closing) - 1
    <2>1. Closing \in SUBSET Child /\ IsFiniteSet(Child)
      BY PoolAssumption DEF Closing
    <2> QED BY <1>8, <2>1, OneLess
  <1>10. CountersExact'
    BY <1>9 DEF SlotInv, CountersExact, Creating
  <1>11. CapacityBound'
    <2>1. Len(entries) \in Nat
      BY EntriesFacts
    <2> QED BY <1>1, <2>1, PoolAssumption
            DEF SlotInv, CapacityBound, occupiedSlots, TypeOK
  <1> QED BY <1>1, <1>6, <1>7, <1>10, <1>11 DEF SlotInv

\* A settled close gives one unit of `closing' back.
LEMMA SlotsClosed ==
    ASSUME TypeOK, SlotInv, NEW x \in Child, teardown[x] \in Counted,
           closing' = closing - 1,
           teardown' = [teardown EXCEPT ![x] = "none"],
           conv' = conv \/ conv' = [conv EXCEPT ![x] = None],
           UNCHANGED <<entries, inflight, stage, pendingCreations>>
    PROVE  SlotInv' /\ occupiedSlots' < MaxChildren
  <1>1. "none" \notin Counted
    BY PoolAssumption DEF Counted, Evictor
  <1>2. /\ \A y \in Child : teardown'[y] = IF y = x THEN "none" ELSE teardown[y]
        /\ \A y \in Child : y # x => conv'[y] = conv[y]
    BY DEF TypeOK
  <1>3. \A j \in DOMAIN entries : entries[j] \in Child /\ entries[j] # x
    BY <1>1, EntriesFacts DEF SlotInv, PooledSettled
  <1>4. KeysDistinct' /\ PooledSettled'
    BY <1>2, <1>3 DEF SlotInv, KeysDistinct, PooledSettled
  <1>5. stage[x] = "none"
    BY <1>1 DEF SlotInv, TornSettled
  <1>6. TornSettled' /\ CreatingReserved'
    BY <1>2, <1>5 DEF SlotInv, TornSettled, CreatingReserved
  <1>7. Closing' = Closing \ {x} /\ x \in Closing
    BY <1>1, <1>2 DEF Closing
  <1>8. Cardinality(Closing') = Cardinality(Closing) - 1
    <2>1. Closing \in SUBSET Child /\ IsFiniteSet(Child)
      BY PoolAssumption DEF Closing
    <2> QED BY <1>7, <2>1, OneLess
  <1>9. CountersExact'
    BY <1>8 DEF SlotInv, CountersExact, Creating
  <1>10. CapacityBound' /\ occupiedSlots' < MaxChildren
    <2>1. Len(entries) \in Nat
      BY EntriesFacts
    <2> QED BY <2>1, PoolAssumption DEF SlotInv, CapacityBound, occupiedSlots, TypeOK
  <1> QED BY <1>4, <1>6, <1>9, <1>10 DEF SlotInv

\* A creation reserves a free slot.
LEMMA SlotsCreate ==
    ASSUME TypeOK, SlotInv, occupiedSlots < MaxChildren,
           NEW k \in Conv, inflight[k] = None, NEW x \in Fresh,
           inflight' = [inflight EXCEPT ![k] = x],
           stage' = [stage EXCEPT ![x] = "factory"],
           conv' = [conv EXCEPT ![x] = k],
           pendingCreations' = pendingCreations + 1,
           UNCHANGED <<entries, closing, teardown>>
    PROVE  SlotInv'
  <1>1. /\ x \in Child /\ x \notin Pooled
        /\ stage[x] = "none" /\ teardown[x] = "none" /\ x # None
    BY PoolAssumption DEF Fresh
  <1>2. /\ \A y \in Child : stage'[y] = IF y = x THEN "factory" ELSE stage[y]
        /\ \A y \in Child : conv'[y] = IF y = x THEN k ELSE conv[y]
        /\ \A m \in Conv : inflight'[m] = IF m = k THEN x ELSE inflight[m]
    BY <1>1 DEF TypeOK
  <1>3. \A j \in DOMAIN entries : entries[j] \in Child /\ entries[j] # x
    BY <1>1, EntriesFacts DEF Pooled
  <1>4. KeysDistinct' /\ PooledSettled'
    BY <1>2, <1>3 DEF SlotInv, KeysDistinct, PooledSettled
  <1>5. TornSettled'
    BY <1>1, <1>2 DEF SlotInv, TornSettled
  <1>6. CreatingReserved'
    <2>1. \A y \in Child : y # x /\ stage[y] # "none" => conv[y] # k
      BY <1>1, PoolAssumption DEF SlotInv, CreatingReserved
    <2> QED BY <1>1, <1>2, <2>1 DEF SlotInv, CreatingReserved
  <1>7. Creating' = Creating \cup {k} /\ k \notin Creating
    BY <1>1, <1>2 DEF Creating
  <1>8. Cardinality(Creating') = Cardinality(Creating) + 1
    <2>1. Creating \in SUBSET Conv /\ IsFiniteSet(Conv)
      BY PoolAssumption DEF Creating
    <2> QED BY <1>7, <2>1, OneMore
  <1>9. CountersExact'
    BY <1>8 DEF SlotInv, CountersExact, Closing
  <1>10. CapacityBound'
    <2>1. Len(entries) \in Nat
      BY EntriesFacts
    <2> QED BY <2>1, PoolAssumption DEF SlotInv, CapacityBound, occupiedSlots, TypeOK
  <1> QED BY <1>4, <1>5, <1>6, <1>9, <1>10 DEF SlotInv

\* The reservation of a creation ends; shared by success and failure.
LEMMA ReservationEnds ==
    ASSUME TypeOK, SlotInv, NEW x \in Child, stage[x] # "none",
           inflight' = [inflight EXCEPT ![conv[x]] = None],
           stage' = [stage EXCEPT ![x] = "none"],
           pendingCreations' = pendingCreations - 1,
           conv' = conv \/ conv' = [conv EXCEPT ![x] = None],
           UNCHANGED <<closing, teardown>>
    PROVE  /\ TornSettled' /\ CreatingReserved' /\ CountersExact'
           /\ conv[x] \in Conv /\ teardown[x] = "none"
           /\ \A y \in Child : y # x => conv'[y] = conv[y] /\ stage'[y] = stage[y]
           /\ \A j \in DOMAIN entries : entries[j] \in Child /\ entries[j] # x
  <1>1. /\ conv[x] \in Conv /\ inflight[conv[x]] = x /\ teardown[x] = "none"
        /\ x # None
    BY PoolAssumption DEF SlotInv, CreatingReserved, TornSettled
  <1>2. /\ \A y \in Child : stage'[y] = IF y = x THEN "none" ELSE stage[y]
        /\ \A y \in Child : y # x => conv'[y] = conv[y]
        /\ \A m \in Conv : inflight'[m] = IF m = conv[x] THEN None ELSE inflight[m]
    BY <1>1 DEF TypeOK
  <1>3. TornSettled'
    BY <1>1, <1>2 DEF SlotInv, TornSettled
  <1>4. CreatingReserved'
    <2>1. \A y \in Child : y # x /\ stage[y] # "none" => conv[y] # conv[x]
      BY <1>1 DEF SlotInv, CreatingReserved
    <2> QED BY <1>1, <1>2, <2>1 DEF SlotInv, CreatingReserved
  <1>5. Creating' = Creating \ {conv[x]} /\ conv[x] \in Creating
    BY <1>1, <1>2 DEF Creating
  <1>6. Cardinality(Creating') = Cardinality(Creating) - 1
    <2>1. Creating \in SUBSET Conv /\ IsFiniteSet(Conv)
      BY PoolAssumption DEF Creating
    <2> QED BY <1>5, <2>1, OneLess
  <1>7. CountersExact'
    BY <1>6 DEF SlotInv, CountersExact, Closing
  <1>8. \A j \in DOMAIN entries : entries[j] \in Child /\ entries[j] # x
    BY EntriesFacts DEF SlotInv, PooledSettled
  <1> QED BY <1>1, <1>2, <1>3, <1>4, <1>7, <1>8

\* A failed creation gives its reservation back.
LEMMA SlotsCreateFail ==
    ASSUME TypeOK, SlotInv, NEW x \in Child, stage[x] # "none",
           inflight' = [inflight EXCEPT ![conv[x]] = None],
           stage' = [stage EXCEPT ![x] = "none"],
           pendingCreations' = pendingCreations - 1,
           conv' = conv \/ conv' = [conv EXCEPT ![x] = None],
           UNCHANGED <<entries, closing, teardown>>
    PROVE  SlotInv'
  <1>1. /\ TornSettled' /\ CreatingReserved' /\ CountersExact'
        /\ \A y \in Child : y # x => conv'[y] = conv[y] /\ stage'[y] = stage[y]
        /\ \A j \in DOMAIN entries : entries[j] \in Child /\ entries[j] # x
    BY ReservationEnds
  <1>2. KeysDistinct' /\ PooledSettled'
    BY <1>1 DEF SlotInv, KeysDistinct, PooledSettled
  <1>3. CapacityBound'
    <2>1. Len(entries) \in Nat
      BY EntriesFacts
    <2> QED BY <2>1, PoolAssumption DEF SlotInv, CapacityBound, occupiedSlots, TypeOK
  <1> QED BY <1>1, <1>2, <1>3 DEF SlotInv

\* A finished creation turns its reservation into an entry.
LEMMA SlotsCreateDone ==
    ASSUME TypeOK, SlotInv, NEW x \in Child, stage[x] # "none",
           inflight' = [inflight EXCEPT ![conv[x]] = None],
           stage' = [stage EXCEPT ![x] = "none"],
           pendingCreations' = pendingCreations - 1,
           entries' = MapSet(x),
           UNCHANGED <<conv, closing, teardown>>
    PROVE  SlotInv'
  <1>1. /\ TornSettled' /\ CreatingReserved' /\ CountersExact'
        /\ conv[x] \in Conv /\ teardown[x] = "none"
        /\ \A y \in Child : y # x => stage'[y] = stage[y]
        /\ \A j \in DOMAIN entries : entries[j] \in Child /\ entries[j] # x
    BY ReservationEnds
  <1>2. /\ KeysDistinct'
        /\ Len(entries') \in Len(entries) .. (Len(entries) + 1)
        /\ \A i \in DOMAIN entries' :
             entries'[i] = x \/ \E j \in DOMAIN entries : entries'[i] = entries[j]
    BY MapSetKeys DEF SlotInv
  <1>3. stage'[x] = "none"
    BY DEF TypeOK
  <1>4. PooledSettled'
    BY <1>1, <1>2, <1>3 DEF SlotInv, PooledSettled
  <1>5. CapacityBound'
    <2>1. Len(entries) \in Nat
      BY EntriesFacts
    <2> QED BY <1>2, <2>1, PoolAssumption
            DEF SlotInv, CapacityBound, occupiedSlots, TypeOK
  <1> QED BY <1>1, <1>2, <1>4, <1>5 DEF SlotInv

\* doCreate goes on with its child.
LEMMA SlotsStage ==
    ASSUME TypeOK, SlotInv, NEW x \in Child, stage[x] # "none",
           NEW s \in {"attach", "attachNew", "cleanup"},
           stage' = [stage EXCEPT ![x] = s],
           UNCHANGED <<entries, conv, inflight, pendingCreations, closing, teardown>>
    PROVE  SlotInv'
  <1>1. \A y \in Child : stage'[y] = IF y = x THEN s ELSE stage[y]
    BY DEF TypeOK
  <1>2. \A j \in DOMAIN entries : entries[j] \in Child
    BY EntriesFacts
  <1>3. KeysDistinct' /\ PooledSettled' /\ TornSettled' /\ CreatingReserved'
    BY <1>1, <1>2 DEF SlotInv, KeysDistinct, PooledSettled, TornSettled, CreatingReserved
  <1>4. CountersExact' /\ CapacityBound'
    BY DEF SlotInv, CountersExact, Creating, Closing, CapacityBound, occupiedSlots
  <1> QED BY <1>3, <1>4 DEF SlotInv

\* An exited child leaves the Map.
LEMMA SlotsForget ==
    ASSUME TypeOK, SlotInv, NEW i \in DOMAIN entries,
           entries' = Without(entries, i),
           conv' = [conv EXCEPT ![entries[i]] = None],
           UNCHANGED <<inflight, stage, pendingCreations, closing, teardown>>
    PROVE  SlotInv'
  <1> DEFINE src(j) == IF j < i THEN j ELSE j + 1
  <1> DEFINE x == entries[i]
  <1>1. /\ entries \in Seq(Child) /\ Len(entries) \in Nat
        /\ DOMAIN entries = 1 .. Len(entries) /\ x \in Child
        /\ \A j \in DOMAIN entries : entries[j] \in Child
    BY EntriesFacts
  <1>2. /\ Len(entries') = Len(entries) - 1
        /\ DOMAIN entries' = 1 .. (Len(entries) - 1)
        /\ \A j \in DOMAIN entries' : entries'[j] = entries[src(j)]
    <2>1. /\ DOMAIN entries' = 1 .. (Len(entries) - 1)
          /\ \A j \in 1 .. (Len(entries) - 1) : entries'[j] =
               IF j < i THEN entries[j] ELSE entries[j + 1]
      BY <1>1, WithoutProperties
    <2> QED BY <1>1, <2>1, WithoutProperties
  <1>3. /\ \A j \in DOMAIN entries' : src(j) \in DOMAIN entries /\ src(j) # i
        /\ \A j, m \in DOMAIN entries' : src(j) = src(m) => j = m
    BY <1>1, <1>2, SMT
  <1>4. \A j \in DOMAIN entries : j # i => entries[j] # x
    BY DEF SlotInv, KeysDistinct
  <1>5. \A y \in Child : y # x => conv'[y] = conv[y]
    BY DEF TypeOK
  <1>6. teardown[x] = "none" /\ stage[x] = "none"
    BY DEF SlotInv, PooledSettled
  <1> HIDE DEF src, x
  <1>7. KeysDistinct'
    <2>1. \A j \in DOMAIN entries' : conv'[entries'[j]] = conv[entries[src(j)]]
      BY <1>1, <1>2, <1>3, <1>4, <1>5
    <2> QED BY <1>3, <2>1 DEF SlotInv, KeysDistinct
  <1>8. PooledSettled'
    BY <1>1, <1>2, <1>3, <1>4, <1>5 DEF SlotInv, PooledSettled
  <1>9. TornSettled' /\ CreatingReserved'
    BY <1>5, <1>6 DEF SlotInv, TornSettled, CreatingReserved
  <1>10. CountersExact'
    BY DEF SlotInv, CountersExact, Creating, Closing
  <1>11. CapacityBound'
    BY <1>1, <1>2, PoolAssumption DEF SlotInv, CapacityBound, occupiedSlots, TypeOK
  <1> QED BY <1>7, <1>8, <1>9, <1>10, <1>11 DEF SlotInv

\* close() moves every entry out of the books at once.
LEMMA SlotsCloseEntries ==
    ASSUME TypeOK, SlotInv, CloseEntries
    PROVE  SlotInv'
  <1> USE DEF CloseEntries
  <1>1. /\ \A y \in Child : teardown'[y] = IF y \in Pooled THEN "final" ELSE "none"
        /\ "final" \notin Counted /\ "none" \notin Counted
    BY PoolAssumption DEF Counted, Evictor
  <1>2. KeysDistinct' /\ PooledSettled'
    BY DEF KeysDistinct, PooledSettled
  <1>3. \A y \in Pooled : conv[y] \in Conv /\ stage[y] = "none"
    BY DEF SlotInv, PooledSettled, Pooled
  <1>4. TornSettled' /\ CreatingReserved'
    BY <1>1, <1>3 DEF SlotInv, TornSettled, CreatingReserved
  <1>5. Closing' = {} /\ Closing = {} /\ Creating' = {}
    BY <1>1 DEF Closing, Creating
  <1>6. CountersExact'
    BY <1>5, FS_EmptySet DEF SlotInv, CountersExact
  <1>7. CapacityBound'
    <2>1. closing' = 0 /\ pendingCreations' = 0 /\ Len(entries') = 0
      BY <1>5, <1>6, FS_EmptySet DEF CountersExact
    <2> QED BY <2>1, PoolAssumption DEF CapacityBound, occupiedSlots
  <1> QED BY <1>2, <1>4, <1>6, <1>7 DEF SlotInv

\* The last teardowns of close() are not counted.
LEMMA SlotsFinal ==
    ASSUME TypeOK, SlotInv, NEW x \in Child, teardown[x] = "final",
           teardown' = [teardown EXCEPT ![x] = "none"],
           conv' = conv \/ conv' = [conv EXCEPT ![x] = None],
           UNCHANGED <<entries, inflight, stage, pendingCreations, closing>>
    PROVE  SlotInv'
  <1>1. "none" \notin Counted /\ "final" \notin Counted
    BY PoolAssumption DEF Counted, Evictor
  <1>2. /\ \A y \in Child : teardown'[y] = IF y = x THEN "none" ELSE teardown[y]
        /\ \A y \in Child : y # x => conv'[y] = conv[y]
    BY DEF TypeOK
  <1>3. \A j \in DOMAIN entries : entries[j] \in Child /\ entries[j] # x
    BY EntriesFacts DEF SlotInv, PooledSettled
  <1>4. KeysDistinct' /\ PooledSettled'
    BY <1>2, <1>3 DEF SlotInv, KeysDistinct, PooledSettled
  <1>5. stage[x] = "none"
    BY DEF SlotInv, TornSettled
  <1>6. TornSettled' /\ CreatingReserved'
    BY <1>2, <1>5 DEF SlotInv, TornSettled, CreatingReserved
  <1>7. Closing' = Closing
    BY <1>1, <1>2 DEF Closing
  <1>8. CountersExact' /\ CapacityBound'
    BY <1>7 DEF SlotInv, CountersExact, Creating, CapacityBound, occupiedSlots
  <1> QED BY <1>4, <1>6, <1>8 DEF SlotInv

-----------------------------------------------------------------------------
(***************************************************************************)
(* The bookkeeping of calls and of the microtask queue.                    *)
(***************************************************************************)

Calls == [Caller -> [pc : Pc, conv : Conv \cup {None}, child : Child \cup {None}]]

\* No acquire is about to create in the slot its eviction freed.
NoCreate(tasks) == \A i \in DOMAIN tasks : tasks[i].op # "create"

\* A caller turns to something else, for a conversation.
LEMMA SetCallFacts ==
    ASSUME TypeOK, CallsNamed, NEW c \in Caller, NEW pc \in Pc, NEW k \in Conv,
           NEW x \in Child \cup {None}, SetCall(c, pc, k, x)
    PROVE  call' \in Calls /\ CallsNamed'
  BY DEF TypeOK, CallsNamed, SetCall, Calls

\* A caller gets its answer.
LEMMA HangUpFacts ==
    ASSUME TypeOK, CallsNamed, NEW c \in Caller, HangUp(c)
    PROVE  call' \in Calls /\ CallsNamed'
  BY DEF TypeOK, CallsNamed, HangUp, Calls, IdleCall, Pc

\* Several callers get their answer at once.
LEMMA HangUpAllFacts ==
    ASSUME TypeOK, CallsNamed, NEW S,
           call' = [c \in Caller |-> IF c \in S THEN IdleCall ELSE call[c]]
    PROVE  call' \in Calls /\ CallsNamed'
  BY DEF TypeOK, CallsNamed, Calls, IdleCall, Pc

\* A queue without a pending create task keeps no slot.
LEMMA NoCreateKept ==
    ASSUME NoCreate(micro')
    PROVE  SlotKept'
  BY DEF NoCreate, SlotKept

\* While a task other than a create runs, no create task is queued at all.
LEMMA RunningFacts ==
    ASSUME TypeOK, SlotKept, NEW op, Running(op), op # "create"
    PROVE  /\ micro # <<>> /\ Head(micro) \in Task
           /\ Tail(micro) \in Seq(Task)
           /\ NoCreate(micro) /\ NoCreate(Tail(micro))
  <1>1. /\ micro \in Seq(Task) /\ Len(micro) \in Nat /\ Len(micro) # 0
        /\ DOMAIN micro = 1 .. Len(micro) /\ Head(micro) = micro[1]
    BY LenProperties, EmptySeq DEF TypeOK, Running
  <1>2. NoCreate(micro)
    BY <1>1 DEF NoCreate, SlotKept, Running
  <1>3. /\ Tail(micro) \in Seq(Task) /\ Len(Tail(micro)) = Len(micro) - 1
        /\ DOMAIN Tail(micro) = 1 .. (Len(micro) - 1)
        /\ \A i \in 1 .. (Len(micro) - 1) : Tail(micro)[i] = micro[i + 1]
    BY <1>1
  <1>4. NoCreate(Tail(micro))
    BY <1>1, <1>2, <1>3 DEF NoCreate
  <1> QED BY <1>1, <1>2, <1>3, <1>4 DEF Running

\* A microtask queues its continuations ahead of the rest.
LEMMA ThenFacts ==
    ASSUME TypeOK, SlotKept, NEW op, Running(op), op # "create",
           NEW tasks \in Seq(Task), NoCreate(tasks), Then(tasks)
    PROVE  micro' \in Seq(Task) /\ SlotKept'
  <1> DEFINE rest == Tail(micro)
  <1>1. rest \in Seq(Task) /\ NoCreate(rest)
    BY RunningFacts
  <1>2. micro' = tasks \o rest
    BY DEF Then
  <1> HIDE DEF rest
  <1>3. /\ micro' \in Seq(Task)
        /\ DOMAIN micro' = 1 .. (Len(tasks) + Len(rest))
        /\ DOMAIN tasks = 1 .. Len(tasks) /\ DOMAIN rest = 1 .. Len(rest)
        /\ Len(tasks) \in Nat /\ Len(rest) \in Nat
        /\ \A i \in DOMAIN micro' : micro'[i] =
             IF i <= Len(tasks) THEN tasks[i] ELSE rest[i - Len(tasks)]
    BY <1>1, <1>2, ConcatProperties, LenProperties
  <1>4. NoCreate(micro')
    BY <1>1, <1>3 DEF NoCreate
  <1> QED BY <1>3, <1>4, NoCreateKept

\* The tasks the steps queue are tasks, and only CreateTask is a create.
LEMMA TaskFacts ==
    /\ <<>> \in Seq(Task) /\ NoCreate(<<>>)
    /\ <<DrainTask>> \in Seq(Task) /\ NoCreate(<<DrainTask>>)
    /\ \A by \in Evictor : <<EvictTask(by)>> \in Seq(Task) /\ NoCreate(<<EvictTask(by)>>)
    /\ \A k \in Conv : <<RejectTask(k)>> \in Seq(Task) /\ NoCreate(<<RejectTask(k)>>)
    /\ \A c \in Caller : <<CreateTask(c)>> \in Seq(Task)
  BY DEF NoCreate, Task, DrainTask, EvictTask, RejectTask, CreateTask

-----------------------------------------------------------------------------
(***************************************************************************)
(* The building blocks of the actions.                                     *)
(***************************************************************************)

\* A lease moves its entry to the end of the Map and changes no slot.
LEMMA LeaseFacts ==
    ASSUME Inv, NEW c \in Caller, NEW k \in Conv, NEW x \in Child,
           Lease(c, k, x), UNCHANGED slotVars
    PROVE  /\ SlotInv' /\ CallsNamed'
           /\ call' \in Calls /\ inUse' \subseteq Child /\ entries' \in Seq(Child)
  <1> USE DEF Inv
  <1>1. call' \in Calls /\ CallsNamed'
    <2>1. "holding" \in Pc /\ x \in Child \cup {None}
      BY DEF Pc
    <2> QED BY <2>1, SetCallFacts DEF Lease
  <1>2. inUse' \subseteq Child
    BY DEF Lease, TypeOK
  <1>3. SlotInv' /\ entries' \in Seq(Child)
    <2>1. CASE UNCHANGED entries
      BY <2>1, SlotsSame DEF TypeOK
    <2>2. CASE \E i \in At(k) : entries' = touchLru(i)
      <3>1. PICK i \in DOMAIN entries : entries' = touchLru(i)
        BY <2>2 DEF At
      <3> QED BY <3>1, SlotsTouch, TouchProperties, EntriesFacts
    <2> QED BY <2>1, <2>2 DEF Lease, TouchConv
  <1> QED BY <1>1, <1>2, <1>3

\* createEntry keeps the books: it joins, or it reserves a free slot.
LEMMA CreateFacts ==
    ASSUME Inv, occupiedSlots < MaxChildren, NEW c \in Caller, NEW k \in Conv,
           NEW pc \in Pc, createEntry(c, k, pc), UNCHANGED <<entries, closing, teardown>>
    PROVE  /\ SlotInv' /\ CallsNamed' /\ call' \in Calls
           /\ joiners' \in [Conv -> Seq(Caller)] /\ creators' \in [Conv -> Seq(Caller)]
           /\ inflight' \in [Conv -> Child \cup {None}]
           /\ stage' \in [Child -> {"none", "factory", "attach", "attachNew", "cleanup"}]
           /\ pendingCreations' \in Int
           /\ conv' \in [Child -> Conv \cup {None}] /\ live' \subseteq Child
  <1> USE DEF Inv
  <1>1. call' \in Calls /\ CallsNamed'
    <2>1. None \in Child \cup {None}
      OBVIOUS
    <2> QED BY <2>1, SetCallFacts DEF createEntry
  <1>2. joiners' \in [Conv -> Seq(Caller)] /\ creators' \in [Conv -> Seq(Caller)]
    BY DEF createEntry, TypeOK
  <1>3. CASE inflight[k] # None
    BY <1>1, <1>2, <1>3, SlotsSame DEF createEntry, slotVars, TypeOK
  <1>4. CASE inflight[k] = None
    <2>1. PICK x \in Fresh : /\ inflight' = [inflight EXCEPT ![k] = x]
                             /\ stage' = [stage EXCEPT ![x] = "factory"]
                             /\ conv' = [conv EXCEPT ![x] = k]
                             /\ live' = live \cup {x}
                             /\ pendingCreations' = pendingCreations + 1
      BY <1>4 DEF createEntry
    <2>2. SlotInv'
      BY <1>4, <2>1, SlotsCreate
    <2>3. x \in Child
      BY DEF Fresh
    <2> QED BY <1>1, <1>2, <2>1, <2>2, <2>3 DEF TypeOK
  <1> QED BY <1>3, <1>4

\* A settled creation promise resumes callers, it queues no create task.
LEMMA SettleFacts ==
    ASSUME Inv, NEW k \in Conv, NEW x \in Child \cup {None}, Settle(k, x)
    PROVE  /\ inflight' \in [Conv -> Child \cup {None}] /\ pendingCreations' \in Int
           /\ joiners' \in [Conv -> Seq(Caller)] /\ creators' \in [Conv -> Seq(Caller)]
           /\ micro' \in Seq(Task) /\ SlotKept'
  <1> USE DEF Inv
  <1> DEFINE queue == joiners[k] \o creators[k]
  <1>1. joiners[k] \in Seq(Caller) /\ creators[k] \in Seq(Caller)
    BY DEF TypeOK
  <1>2. queue \in Seq(Caller)
    BY <1>1, ConcatProperties
  <1>3. micro' = [i \in DOMAIN queue |-> ResumeTask(queue[i], x)]
    BY DEF Settle
  <1> HIDE DEF queue
  <1>4. /\ Len(queue) \in Nat /\ DOMAIN queue = 1 .. Len(queue)
        /\ \A i \in DOMAIN queue : queue[i] \in Caller
    BY <1>2, LenProperties, ElementOfSeq
  <1>5. \A i \in DOMAIN queue : /\ ResumeTask(queue[i], x) \in Task
                                /\ ResumeTask(queue[i], x).op # "create"
    BY <1>4 DEF ResumeTask, Task
  <1>6. micro' \in Seq(Task)
    BY <1>3, <1>4, <1>5
  <1>7. NoCreate(micro')
    BY <1>3, <1>5 DEF NoCreate
  <1>8. SlotKept'
    BY <1>7, NoCreateKept
  <1>9. /\ inflight' \in [Conv -> Child \cup {None}] /\ pendingCreations' \in Int
        /\ joiners' \in [Conv -> Seq(Caller)] /\ creators' \in [Conv -> Seq(Caller)]
    BY DEF Settle, TypeOK
  <1> QED BY <1>6, <1>8, <1>9

\* An evictor takes its snapshot of the idle children.
LEMMA SnapFacts ==
    ASSUME TypeOK, NEW by \in Evictor,
           snap' = [snap EXCEPT ![by] = [order |-> entries, left |-> Idle]]
    PROVE  snap' \in [Evictor -> [order : Seq(Child), left : SUBSET Child]]
  <1> DEFINE S == [order |-> entries, left |-> Idle]
  <1>1. Idle \in SUBSET Child
    BY EntriesFacts DEF Idle, Pooled
  <1>2. S \in [order : Seq(Child), left : SUBSET Child]
    BY <1>1 DEF TypeOK
  <1> HIDE DEF S
  <1> QED BY <1>2 DEF TypeOK, S

\* An evictor drops its snapshot.
LEMMA NoSnapFacts ==
    ASSUME TypeOK, NEW by, snap' = [snap EXCEPT ![by] = NoSnap]
    PROVE  snap' \in [Evictor -> [order : Seq(Child), left : SUBSET Child]]
  <1>1. NoSnap \in [order : Seq(Child), left : SUBSET Child]
    BY DEF NoSnap
  <1> QED BY <1>1 DEF TypeOK

\* registry.release keeps the type of the registry.
LEMMA OwnerFacts ==
    ASSUME Inv, NEW x \in Child, ReleaseOwnership(x)
    PROVE  owner' \in [Conv -> Child \cup {"noRow", "free", "stale"}]
  BY DEF Inv, TypeOK, ReleaseOwnership

\* Recycling an identity at most clears its conversation and flags.
LEMMA RecycleFacts ==
    ASSUME Inv, NEW x \in Child, Recycle(x)
    PROVE  /\ conv' = conv \/ conv' = [conv EXCEPT ![x] = None]
           /\ conv' \in [Child -> Conv \cup {None}]
           /\ inUse' \subseteq Child /\ retiring' \subseteq Child
  BY DEF Inv, TypeOK, Recycle

LEMMA ProcessFacts ==
    ASSUME Inv, NEW x \in Child, NEW ok \in BOOLEAN, ProcessClosed(x, ok)
    PROVE  live' \subseteq Child /\ rpcClosed' \subseteq Child
  BY DEF Inv, TypeOK, ProcessClosed

\* A teardown that settles: one unit of `closing' is due back.
LEMMA SettledFacts ==
    ASSUME Inv, NEW x \in Child, NEW by, NEW ok \in BOOLEAN, Settled(x, by, ok)
    PROVE  /\ micro = <<>> /\ teardown[x] \in by
           /\ teardown' = [teardown EXCEPT ![x] = "none"]
           /\ teardown' \in [Child -> Counted \cup {"none", "final"}]
           /\ live' \subseteq Child /\ rpcClosed' \subseteq Child
           /\ conv' = conv \/ conv' = [conv EXCEPT ![x] = None]
           /\ ~ok => conv' = conv
           /\ conv' \in [Child -> Conv \cup {None}]
           /\ inUse' \subseteq Child /\ retiring' \subseteq Child
  <1>1. live' \subseteq Child /\ rpcClosed' \subseteq Child
    BY ProcessFacts DEF Settled
  <1>2. /\ conv' = conv \/ conv' = [conv EXCEPT ![x] = None]
        /\ ~ok => conv' = conv
        /\ conv' \in [Child -> Conv \cup {None}]
        /\ inUse' \subseteq Child /\ retiring' \subseteq Child
    BY RecycleFacts DEF Settled, Inv, TypeOK
  <1> QED BY <1>1, <1>2 DEF Settled, Quiet, Inv, TypeOK

-----------------------------------------------------------------------------
(***************************************************************************)
(* acquire keeps the invariant.                                            *)
(***************************************************************************)
LEMMA AcquireKeeps ==
    ASSUME Inv, NEW c \in Caller, NEW k \in Conv, Acquire(c, k)
    PROVE  Inv'
  <1> USE DEF Inv
  <1>0. micro = <<>>
    BY DEF Acquire, AcquireReuse, AcquireBusy, AcquireJoin, AcquireWait,
           AcquireEvict, AcquireCreate, AcquireNew, AcquireReady, Quiet
  <1>1. CASE AcquireReuse(c, k)
    <2> USE <1>1 DEF AcquireReuse
    <2>1. PICK i \in DOMAIN entries : /\ Lease(c, k, entries[i])
                                      /\ armed' = armed \ {entries[i]}
      BY DEF At
    <2>2. UNCHANGED slotVars
      BY DEF slotVars, createVars, evictVars
    <2>3. /\ SlotInv' /\ CallsNamed'
          /\ call' \in Calls /\ inUse' \subseteq Child /\ entries' \in Seq(Child)
      BY <2>1, <2>2, EntriesFacts, LeaseFacts
    <2>4. TypeOK'
      BY <2>1, <2>3 DEF TypeOK, Calls, createVars, evictVars, procVars
    <2>5. SlotKept'
      BY <1>0, NoCreateKept, TaskFacts
    <2> QED BY <2>3, <2>4, <2>5
  <1>2. CASE AcquireBusy(c, k) \/ AcquireWait(c, k)
    <2> USE DEF entryVars, createVars, evictVars, procVars
    <2>1. /\ enqueueWaiter(c, k)
          /\ UNCHANGED <<entryVars, createVars, evictVars, procVars, owner, phase, micro>>
      BY <1>2 DEF AcquireBusy, AcquireWait
    <2>2. call' \in Calls /\ CallsNamed'
      <3>1. "waiting" \in Pc /\ None \in Child \cup {None}
        BY DEF Pc
      <3> QED BY <2>1, <3>1, SetCallFacts DEF enqueueWaiter
    <2>3. SlotInv'
      BY <2>1, SlotsSame DEF slotVars
    <2>4. TypeOK'
      BY <2>1, <2>2 DEF TypeOK, Calls, enqueueWaiter
    <2>5. SlotKept'
      BY <1>0, <2>1, NoCreateKept, TaskFacts
    <2> QED BY <2>2, <2>3, <2>4, <2>5
  <1>3. CASE AcquireJoin(c, k)
    <2> USE <1>3 DEF AcquireJoin, entryVars, createVars, evictVars, procVars
    <2>1. call' \in Calls /\ CallsNamed'
      <3>1. "joining" \in Pc /\ None \in Child \cup {None}
        BY DEF Pc
      <3> QED BY <3>1, SetCallFacts
    <2>2. SlotInv'
      BY SlotsSame DEF slotVars
    <2>3. joiners' \in [Conv -> Seq(Caller)]
      BY DEF TypeOK
    <2>4. TypeOK'
      BY <2>1, <2>3 DEF TypeOK, Calls
    <2>5. SlotKept'
      BY <1>0, NoCreateKept, TaskFacts
    <2> QED BY <2>1, <2>2, <2>4, <2>5
  <1>4. CASE AcquireEvict(c, k)
    <2> USE <1>4 DEF AcquireEvict, entryVars, createVars, procVars
    <2>1. call' \in Calls /\ CallsNamed'
      <3>1. "evicting" \in Pc /\ None \in Child \cup {None}
        BY DEF Pc
      <3> QED BY <3>1, SetCallFacts
    <2>2. SlotInv'
      BY SlotsSame DEF slotVars
    <2>3. c \in Evictor
      BY DEF Evictor
    <2>4. snap' \in [Evictor -> [order : Seq(Child), left : SUBSET Child]]
      BY <2>3, SnapFacts
    <2>5. micro' \in Seq(Task) /\ SlotKept'
      BY <2>3, TaskFacts, NoCreateKept
    <2>6. TypeOK'
      BY <2>1, <2>4, <2>5 DEF TypeOK, Calls
    <2> QED BY <2>1, <2>2, <2>5, <2>6
  <1>5. CASE AcquireCreate(c, k)
    <2> USE <1>5 DEF AcquireCreate, evictVars
    <2>1. occupiedSlots < MaxChildren
      BY EntriesFacts, PoolAssumption DEF Full, occupiedSlots, TypeOK
    <2>2. "creating" \in Pc
      BY DEF Pc
    <2>3. /\ SlotInv' /\ CallsNamed' /\ call' \in Calls
          /\ joiners' \in [Conv -> Seq(Caller)] /\ creators' \in [Conv -> Seq(Caller)]
          /\ inflight' \in [Conv -> Child \cup {None}]
          /\ stage' \in [Child -> {"none", "factory", "attach", "attachNew", "cleanup"}]
          /\ pendingCreations' \in Int
          /\ conv' \in [Child -> Conv \cup {None}] /\ live' \subseteq Child
      BY <2>1, <2>2, CreateFacts
    <2>4. TypeOK'
      BY <2>3 DEF TypeOK, Calls
    <2>5. SlotKept'
      BY <1>0, NoCreateKept, TaskFacts
    <2> QED BY <2>3, <2>4, <2>5
  <1> QED BY <1>1, <1>2, <1>3, <1>4, <1>5 DEF Acquire

-----------------------------------------------------------------------------
(***************************************************************************)
(* doCreate keeps the invariant.                                           *)
(***************************************************************************)
LEMMA CreationKeeps ==
    ASSUME Inv, NEW x \in Child, FactoryEnds(x) \/ AttachEnds(x)
    PROVE  Inv'
  <1> USE DEF Inv
  <1>0. stage[x] # "none" /\ conv[x] \in Conv
    BY DEF FactoryEnds, AttachEnds, FactoryDone, FactoryFail, AttachDone, AttachFail,
           CleanupDone, SlotInv, CreatingReserved
  <1>1. CASE FactoryDone(x) \/ AttachFail(x)
    <2> USE DEF FactoryDone, AttachFail, Quiet, entryVars, createVars, evictVars, procVars
    <2>1. PICK s \in {"attach", "attachNew", "cleanup"} :
             stage' = [stage EXCEPT ![x] = s]
      BY <1>1
    <2>2. UNCHANGED <<entryVars, inflight, joiners, creators, pendingCreations,
                      evictVars, procVars, waiters, call, owner, phase, micro>>
      BY <1>1
    <2>3. micro = <<>>
      BY <1>1
    <2>4. SlotInv'
      BY <1>0, <2>1, <2>2, SlotsStage
    <2>5. TypeOK'
      BY <2>1, <2>2 DEF TypeOK
    <2>6. CallsNamed'
      BY <2>2 DEF CallsNamed
    <2>7. SlotKept'
      BY <2>2, <2>3, NoCreateKept, TaskFacts
    <2> QED BY <2>4, <2>5, <2>6, <2>7
  <1>2. CASE FactoryFail(x) \/ \E ok \in BOOLEAN : CleanupDone(x, ok)
    <2>1. /\ Recycle(x) /\ stage' = [stage EXCEPT ![x] = "none"]
          /\ Settle(conv[x], None)
          /\ UNCHANGED <<entries, armed, evictVars, waiters, call, owner, phase>>
      BY <1>2 DEF FactoryFail, CleanupDone
    <2>2. live' \subseteq Child /\ rpcClosed' \subseteq Child
      BY <1>2, ProcessFacts DEF FactoryFail, CleanupDone, TypeOK
    <2>3. /\ conv' = conv \/ conv' = [conv EXCEPT ![x] = None]
          /\ conv' \in [Child -> Conv \cup {None}]
          /\ inUse' \subseteq Child /\ retiring' \subseteq Child
      BY <2>1, RecycleFacts
    <2>4. /\ inflight' \in [Conv -> Child \cup {None}] /\ pendingCreations' \in Int
          /\ joiners' \in [Conv -> Seq(Caller)] /\ creators' \in [Conv -> Seq(Caller)]
          /\ micro' \in Seq(Task) /\ SlotKept'
      BY <1>0, <2>1, SettleFacts
    <2>5. SlotInv'
      <3>1. /\ inflight' = [inflight EXCEPT ![conv[x]] = None]
            /\ pendingCreations' = pendingCreations - 1
            /\ UNCHANGED <<entries, closing, teardown>>
        BY <2>1 DEF Settle, evictVars
      <3> QED BY <1>0, <2>1, <2>3, <3>1, SlotsCreateFail
    <2>6. TypeOK'
      BY <2>1, <2>2, <2>3, <2>4 DEF TypeOK, evictVars
    <2>7. CallsNamed'
      BY <2>1 DEF CallsNamed
    <2> QED BY <2>4, <2>5, <2>6, <2>7
  <1>3. CASE AttachDone(x)
    <2> USE <1>3 DEF AttachDone, evictVars, procVars
    <2>1. /\ inflight' \in [Conv -> Child \cup {None}] /\ pendingCreations' \in Int
          /\ joiners' \in [Conv -> Seq(Caller)] /\ creators' \in [Conv -> Seq(Caller)]
          /\ micro' \in Seq(Task) /\ SlotKept'
      BY <1>0, SettleFacts
    <2>2. SlotInv'
      <3>1. /\ inflight' = [inflight EXCEPT ![conv[x]] = None]
            /\ pendingCreations' = pendingCreations - 1
            /\ UNCHANGED <<conv, closing, teardown>>
        BY DEF Settle
      <3> QED BY <1>0, <3>1, SlotsCreateDone
    <2>3. entries' \in Seq(Child)
      BY EntriesFacts, MapSetProperties
    <2>4. owner' \in [Conv -> Child \cup {"noRow", "free", "stale"}]
      BY <1>0 DEF TypeOK
    <2>5. TypeOK'
      BY <2>1, <2>3, <2>4 DEF TypeOK
    <2>6. CallsNamed'
      BY DEF CallsNamed
    <2> QED BY <2>1, <2>2, <2>5, <2>6
  <1> QED BY <1>1, <1>2, <1>3 DEF FactoryEnds, AttachEnds

(***************************************************************************)
(* The continuations of a creation keep the invariant.                     *)
(***************************************************************************)
LEMMA ResumeKeeps ==
    ASSUME Inv, NEW c \in Caller, Resume(c)
    PROVE  Inv'
  <1> USE DEF Inv
  <1>1. /\ Running("resume") /\ AfterResume(c) /\ call[c].pc # "idle"
    BY DEF Resume, ResumeReject, ResumeLease, ResumeQueue, ResumeReady
  <1>2. call[c].conv \in Conv
    BY <1>1 DEF CallsNamed
  <1>3. micro' \in Seq(Task) /\ SlotKept'
    <2>1. CASE Then(<<>>)
      BY <1>1, <2>1, TaskFacts, ThenFacts
    <2>2. CASE Then(<<DrainTask>>)
      BY <1>1, <2>2, TaskFacts, ThenFacts
    <2> QED BY <1>1, <2>1, <2>2 DEF AfterResume
  <1>4. CASE ResumeReject(c)
    <2> USE <1>4 DEF ResumeReject, entryVars, createVars, evictVars, procVars
    <2>1. call' \in Calls /\ CallsNamed'
      BY HangUpFacts
    <2>2. SlotInv'
      BY SlotsSame DEF slotVars
    <2>3. TypeOK'
      BY <1>3, <2>1 DEF TypeOK, Calls
    <2> QED BY <1>3, <2>1, <2>2, <2>3
  <1>5. CASE ResumeLease(c)
    <2> DEFINE x == Head(micro).child
    <2>1. /\ x # None /\ Lease(c, call[c].conv, x)
          /\ UNCHANGED <<conv, retiring, armed, createVars, evictVars, procVars,
                         waiters, owner, phase>>
      BY <1>5 DEF ResumeLease
    <2>2. x \in Child
      <3>1. Head(micro) \in Task /\ Head(micro).op = "resume"
        BY <1>1, RunningFacts DEF Running
      <3> QED BY <2>1, <3>1 DEF Task
    <2> HIDE DEF x
    <2> USE DEF createVars, evictVars, procVars
    <2>3. /\ SlotInv' /\ CallsNamed'
          /\ call' \in Calls /\ inUse' \subseteq Child /\ entries' \in Seq(Child)
      BY <1>2, <2>1, <2>2, LeaseFacts DEF slotVars
    <2>4. TypeOK'
      BY <1>3, <2>1, <2>3 DEF TypeOK, Calls
    <2> QED BY <1>3, <2>3, <2>4
  <1>6. CASE ResumeQueue(c)
    <2> USE DEF entryVars, createVars, evictVars, procVars
    <2>1. /\ waiters' = Append(waiters, c) \/ waiters' = <<c>> \o waiters
          /\ SetCall(c, "waiting", call[c].conv, None)
          /\ UNCHANGED <<entryVars, createVars, evictVars, procVars, owner, phase>>
      BY <1>6 DEF ResumeQueue
    <2>2. waiters' \in Seq(Caller)
      <3>1. waiters \in Seq(Caller) /\ <<c>> \in Seq(Caller)
        BY DEF TypeOK
      <3>2. Append(waiters, c) \in Seq(Caller) /\ <<c>> \o waiters \in Seq(Caller)
        BY <3>1, AppendProperties, ConcatProperties
      <3> QED BY <2>1, <3>2
    <2>3. call' \in Calls /\ CallsNamed'
      <3>1. "waiting" \in Pc /\ None \in Child \cup {None}
        BY DEF Pc
      <3> QED BY <1>2, <2>1, <3>1, SetCallFacts
    <2>4. SlotInv'
      BY <2>1, SlotsSame DEF slotVars
    <2>5. TypeOK'
      BY <1>3, <2>1, <2>2, <2>3 DEF TypeOK, Calls
    <2> QED BY <1>3, <2>3, <2>4, <2>5
  <1> QED BY <1>4, <1>5, <1>6 DEF Resume

-----------------------------------------------------------------------------
(***************************************************************************)
(* The drain loop keeps the invariant.                                     *)
(***************************************************************************)

\* The head of the queue is a caller that waits for a conversation.
LEMMA HeadFacts ==
    ASSUME Inv, DrainReady
    PROVE  /\ Running("drain") /\ Head(waiters) \in Caller /\ HeadConv \in Conv
           /\ Tail(waiters) \in Seq(Caller)
  <1>1. waiters \in Seq(Caller) /\ waiters # <<>>
    BY DEF Inv, TypeOK, DrainReady
  <1>2. Head(waiters) \in Caller /\ Tail(waiters) \in Seq(Caller)
    BY <1>1, HeadTailProperties
  <1> QED BY <1>2 DEF Inv, CallsNamed, DrainReady, HeadConv

LEMMA DrainKeeps ==
    ASSUME Inv, drainWaiters
    PROVE  Inv'
  <1> USE DEF Inv
  <1>0. Running("drain")
    BY DEF drainWaiters, DrainReuse, DrainJoin, DrainEvict, DrainCreate, DrainStop, DrainReady
  <1>1. CASE DrainReuse
    <2> DEFINE c == Head(waiters)
    <2> USE <1>1 DEF DrainReuse, createVars, evictVars, procVars
    <2>1. c \in Caller /\ HeadConv \in Conv /\ Tail(waiters) \in Seq(Caller)
      BY HeadFacts
    <2>2. PICK i \in DOMAIN entries :
            \/ HangUp(c) /\ UNCHANGED <<entries, inUse, armed>>
            \/ Lease(c, HeadConv, entries[i]) /\ armed' = armed \ {entries[i]}
      BY DEF At
    <2>3. UNCHANGED slotVars
      BY DEF slotVars
    <2>4. armed' \subseteq Child
      BY <2>2 DEF TypeOK
    <2> HIDE DEF c
    <2>5. /\ SlotInv' /\ CallsNamed'
          /\ call' \in Calls /\ inUse' \subseteq Child /\ entries' \in Seq(Child)
      <3>1. CASE HangUp(c) /\ UNCHANGED <<entries, inUse, armed>>
        BY <2>1, <2>3, <3>1, HangUpFacts, SlotsSame DEF TypeOK
      <3>2. CASE Lease(c, HeadConv, entries[i])
        BY <2>1, <2>3, <3>2, EntriesFacts, LeaseFacts
      <3> QED BY <2>2, <3>1, <3>2
    <2>6. TypeOK'
      BY <2>1, <2>4, <2>5 DEF TypeOK, Calls
    <2>7. SlotKept'
      BY <1>0, RunningFacts, NoCreateKept
    <2> QED BY <2>5, <2>6, <2>7
  <1>2. CASE DrainJoin
    <2> DEFINE c == Head(waiters)
    <2> USE <1>2 DEF DrainJoin, entryVars, evictVars, procVars
    <2>1. c \in Caller /\ HeadConv \in Conv /\ Tail(waiters) \in Seq(Caller)
      BY HeadFacts
    <2>2. SetCall(c, "drainJoining", HeadConv, None)
      OBVIOUS
    <2>3. joiners' = [joiners EXCEPT ![HeadConv] = Append(@, c)]
      OBVIOUS
    <2> HIDE DEF c
    <2>4. call' \in Calls /\ CallsNamed'
      <3>1. "drainJoining" \in Pc /\ None \in Child \cup {None}
        BY DEF Pc
      <3> QED BY <2>1, <2>2, <3>1, SetCallFacts
    <2>5. SlotInv'
      BY SlotsSame DEF slotVars
    <2>6. joiners' \in [Conv -> Seq(Caller)]
      BY <2>1, <2>3 DEF TypeOK
    <2>7. micro' \in Seq(Task) /\ SlotKept'
      BY <1>0, TaskFacts, ThenFacts
    <2>8. TypeOK'
      BY <2>1, <2>4, <2>6, <2>7 DEF TypeOK, Calls
    <2> QED BY <2>4, <2>5, <2>7, <2>8
  <1>3. CASE DrainEvict
    <2> USE <1>3 DEF DrainEvict, entryVars, createVars, procVars
    <2>1. "drain" \in Evictor
      BY DEF Evictor
    <2>2. snap' \in [Evictor -> [order : Seq(Child), left : SUBSET Child]]
      BY <2>1, SnapFacts
    <2>3. SlotInv'
      BY SlotsSame DEF slotVars
    <2>4. micro' \in Seq(Task) /\ SlotKept'
      BY <1>0, <2>1, TaskFacts, ThenFacts
    <2>5. TypeOK'
      BY <2>2, <2>4 DEF TypeOK
    <2>6. CallsNamed'
      BY DEF CallsNamed
    <2> QED BY <2>3, <2>4, <2>5, <2>6
  <1>4. CASE DrainCreate
    <2> DEFINE c == Head(waiters)
    <2> USE <1>4 DEF DrainCreate, evictVars
    <2>1. c \in Caller /\ HeadConv \in Conv /\ Tail(waiters) \in Seq(Caller)
      BY HeadFacts
    <2>2. occupiedSlots < MaxChildren
      BY EntriesFacts, PoolAssumption DEF Full, occupiedSlots, TypeOK
    <2>3. createEntry(c, HeadConv, "drainCreating") /\ "drainCreating" \in Pc
      BY DEF Pc
    <2> HIDE DEF c
    <2>4. /\ SlotInv' /\ CallsNamed' /\ call' \in Calls
          /\ joiners' \in [Conv -> Seq(Caller)] /\ creators' \in [Conv -> Seq(Caller)]
          /\ inflight' \in [Conv -> Child \cup {None}]
          /\ stage' \in [Child -> {"none", "factory", "attach", "attachNew", "cleanup"}]
          /\ pendingCreations' \in Int
          /\ conv' \in [Child -> Conv \cup {None}] /\ live' \subseteq Child
      BY <2>1, <2>2, <2>3, CreateFacts
    <2>5. micro' \in Seq(Task) /\ SlotKept'
      BY <1>0, TaskFacts, ThenFacts
    <2>6. TypeOK'
      BY <2>1, <2>4, <2>5 DEF TypeOK, Calls
    <2> QED BY <2>4, <2>5, <2>6
  <1>5. CASE DrainStop
    <2> USE <1>5 DEF DrainStop, entryVars, createVars, evictVars, procVars
    <2>1. micro' \in Seq(Task) /\ SlotKept'
      BY <1>0, TaskFacts, ThenFacts
    <2>2. SlotInv'
      BY SlotsSame DEF slotVars
    <2>3. TypeOK' /\ CallsNamed'
      BY <2>1 DEF TypeOK, CallsNamed
    <2> QED BY <2>1, <2>2, <2>3
  <1> QED BY <1>1, <1>2, <1>3, <1>4, <1>5 DEF drainWaiters

\* lease.release() keeps the invariant.
LEMMA ReleaseKeeps ==
    ASSUME Inv, NEW c \in Caller, Release(c)
    PROVE  Inv'
  <1> USE DEF Inv, Release, createVars, evictVars, procVars
  <1>1. call' \in Calls /\ CallsNamed'
    BY HangUpFacts
  <1>2. UNCHANGED slotVars
    BY DEF slotVars
  <1>3. CASE UNCHANGED <<entries, inUse, armed, micro>>
    <2>1. SlotInv'
      BY <1>2, <1>3, SlotsSame
    <2>2. TypeOK'
      BY <1>1, <1>3 DEF TypeOK, Calls
    <2>3. SlotKept'
      BY <1>3, NoCreateKept, TaskFacts DEF Quiet
    <2> QED BY <1>1, <2>1, <2>2, <2>3
  <1>4. CASE ~UNCHANGED <<entries, inUse, armed, micro>>
    <2>1. PICK i \in DOMAIN entries : /\ inUse' = inUse \ {entries[i]}
                                      /\ armed' = armed \cup {entries[i]}
                                      /\ entries' = touchLru(i)
                                      /\ micro' = <<DrainTask>>
      BY <1>4 DEF At
    <2>2. SlotInv'
      BY <1>2, <2>1, SlotsTouch
    <2>3. /\ entries' \in Seq(Child)
          /\ inUse' \subseteq Child /\ armed' \subseteq Child
      BY <2>1, EntriesFacts, TouchProperties DEF TypeOK
    <2>4. micro' \in Seq(Task) /\ SlotKept'
      BY <2>1, TaskFacts, NoCreateKept
    <2>5. TypeOK'
      BY <1>1, <2>3, <2>4 DEF TypeOK, Calls
    <2> QED BY <1>1, <2>2, <2>4, <2>5
  <1> QED BY <1>3, <1>4

-----------------------------------------------------------------------------
(***************************************************************************)
(* Evictions keep the invariant.                                           *)
(***************************************************************************)

\* An entry leaves the Map and is torn down.
LEMMA BeginFacts ==
    ASSUME Inv, NEW i \in DOMAIN entries, NEW by \in Counted, BeginTeardown(i, by),
           UNCHANGED <<conv, inflight, stage, pendingCreations>>
    PROVE  /\ SlotInv' /\ entries' \in Seq(Child) /\ armed' \subseteq Child
           /\ closing' \in Int
           /\ teardown' \in [Child -> Counted \cup {"none", "final"}]
  <1> USE DEF Inv, BeginTeardown
  <1>1. SlotInv'
    BY SlotsBeginTeardown
  <1>2. entries' \in Seq(Child)
    BY EntriesFacts, WithoutProperties
  <1>3. entries[i] \in Child
    BY EntriesFacts
  <1> QED BY <1>1, <1>2, <1>3 DEF TypeOK

LEMMA EvictLoopKeeps ==
    ASSUME Inv, NEW by \in Evictor, EvictNext(by) \/ EvictDone(by)
    PROVE  Inv'
  <1> USE DEF Inv
  <1>0. Running("evict")
    BY DEF EvictNext, EvictDone
  <1>1. CASE EvictNext(by)
    <2> USE <1>1 DEF EvictNext, createVars, procVars
    <2>1. PICK n \in Candidates(by) :
            /\ \E i \in DOMAIN entries :
                 entries[i] = snap[by].order[n] /\ BeginTeardown(i, by)
            /\ snap' = [snap EXCEPT ![by].left =
                 {snap[by].order[m] : m \in {j \in DOMAIN snap[by].order : j > n}}
                   \cap snap[by].left]
      OBVIOUS
    <2>2. PICK i \in DOMAIN entries : BeginTeardown(i, by)
      BY <2>1
    <2>3. by \in Counted
      BY DEF Counted
    <2>4. /\ SlotInv' /\ entries' \in Seq(Child) /\ armed' \subseteq Child
          /\ closing' \in Int
          /\ teardown' \in [Child -> Counted \cup {"none", "final"}]
      BY <2>2, <2>3, BeginFacts
    <2>5. snap' \in [Evictor -> [order : Seq(Child), left : SUBSET Child]]
      <3>1. snap[by] \in [order : Seq(Child), left : SUBSET Child]
        BY DEF TypeOK
      <3> DEFINE L == {snap[by].order[m] : m \in {j \in DOMAIN snap[by].order : j > n}}
                        \cap snap[by].left
      <3>2. L \in SUBSET Child
        BY <3>1
      <3>3. snap' = [snap EXCEPT ![by].left = L]
        BY <2>1
      <3> HIDE DEF L
      <3> DEFINE R == [snap[by] EXCEPT !.left = L]
      <3>4. R \in [order : Seq(Child), left : SUBSET Child]
        BY <3>1, <3>2
      <3>5. snap' = [snap EXCEPT ![by] = R]
        BY <3>3
      <3> HIDE DEF R
      <3> QED BY <3>4, <3>5 DEF TypeOK
    <2>6. micro' \in Seq(Task) /\ SlotKept'
      BY <1>0, TaskFacts, ThenFacts
    <2>7. TypeOK'
      BY <2>4, <2>5, <2>6 DEF TypeOK
    <2>8. CallsNamed'
      BY DEF CallsNamed
    <2> QED BY <2>4, <2>6, <2>7, <2>8
  <1>2. CASE EvictDone(by)
    <2> USE <1>2 DEF EvictDone, entryVars, createVars, procVars
    <2>1. call' \in Calls /\ CallsNamed'
      <3> DEFINE S == {c \in Caller : c = by \/ (by = "drain" /\ call[c].pc = "waiting")}
      <3>1. call' = [c \in Caller |-> IF c \in S THEN IdleCall ELSE call[c]]
        OBVIOUS
      <3> HIDE DEF S
      <3> QED BY <3>1, HangUpAllFacts
    <2>2. SlotInv'
      BY SlotsSame DEF slotVars
    <2>3. snap' \in [Evictor -> [order : Seq(Child), left : SUBSET Child]]
      BY NoSnapFacts
    <2>4. micro' \in Seq(Task) /\ SlotKept'
      <3>1. Then(<<>>) \/ Then(<<DrainTask>>)
        OBVIOUS
      <3> QED BY <1>0, <3>1, TaskFacts, ThenFacts
    <2>5. waiters' \in Seq(Caller)
      BY DEF TypeOK
    <2>6. TypeOK'
      BY <2>1, <2>3, <2>4, <2>5 DEF TypeOK, Calls
    <2> QED BY <2>1, <2>2, <2>4, <2>6
  <1> QED BY <1>1, <1>2

\* The acquire that evicted creates its child in the slot that was kept.
LEMMA CreateAfterEvictKeeps ==
    ASSUME Inv, NEW c \in Caller, CreateAfterEvict(c)
    PROVE  Inv'
  <1> USE DEF Inv, CreateAfterEvict
  <1>1. /\ micro \in Seq(Task) /\ micro # <<>> /\ Head(micro).op = "create"
        /\ 1 \in DOMAIN micro /\ Head(micro) = micro[1]
    BY LenProperties, EmptySeq DEF Running, TypeOK
  <1>2. Len(micro) = 1 /\ occupiedSlots < MaxChildren
    BY <1>1 DEF SlotKept
  <1>3. micro' = <<>>
    <2>1. Tail(micro) \in Seq(Task) /\ Len(Tail(micro)) = 0
      BY <1>1, <1>2, HeadTailProperties
    <2>2. Tail(micro) = <<>>
      BY <2>1, EmptySeq
    <2> QED BY <2>2, ConcatEmptySeq DEF Then
  <1>4. micro' \in Seq(Task) /\ SlotKept'
    BY <1>3, TaskFacts, NoCreateKept
  <1>5. CASE createEntry(c, call[c].conv, "creating")
    <2>1. call[c].conv \in Conv /\ "creating" \in Pc
      BY DEF CallsNamed, Pc
    <2>2. /\ SlotInv' /\ CallsNamed' /\ call' \in Calls
          /\ joiners' \in [Conv -> Seq(Caller)] /\ creators' \in [Conv -> Seq(Caller)]
          /\ inflight' \in [Conv -> Child \cup {None}]
          /\ stage' \in [Child -> {"none", "factory", "attach", "attachNew", "cleanup"}]
          /\ pendingCreations' \in Int
          /\ conv' \in [Child -> Conv \cup {None}] /\ live' \subseteq Child
      BY <1>2, <1>5, <2>1, CreateFacts DEF evictVars
    <2>3. TypeOK'
      BY <1>4, <2>2 DEF TypeOK, Calls, evictVars
    <2> QED BY <1>4, <2>2, <2>3
  <1>6. CASE HangUp(c) /\ UNCHANGED <<createVars, conv, live>>
    <2> USE DEF createVars, evictVars
    <2>1. call' \in Calls /\ CallsNamed'
      BY <1>6, HangUpFacts
    <2>2. SlotInv'
      BY <1>6, SlotsSame DEF slotVars
    <2>3. TypeOK'
      BY <1>4, <1>6, <2>1 DEF TypeOK, Calls
    <2> QED BY <1>4, <2>1, <2>2, <2>3
  <1> QED BY <1>5, <1>6

LEMMA RejectKeeps ==
    ASSUME Inv, NEW k \in Conv, RejectWaiter(k)
    PROVE  Inv'
  <1> USE DEF Inv, RejectWaiter, entryVars, createVars, evictVars, procVars
  <1>0. Running("rejectFor")
    OBVIOUS
  <1>1. SlotInv'
    BY SlotsSame DEF slotVars
  <1>2. CASE Then(<<>>) /\ UNCHANGED <<waiters, call>>
    <2>1. micro' \in Seq(Task) /\ SlotKept'
      BY <1>0, <1>2, TaskFacts, ThenFacts
    <2>2. TypeOK' /\ CallsNamed'
      BY <1>2, <2>1 DEF TypeOK, CallsNamed
    <2> QED BY <1>1, <2>1, <2>2
  <1>3. CASE ~(Then(<<>>) /\ UNCHANGED <<waiters, call>>)
    <2>1. PICK i \in DOMAIN waiters : /\ waiters' = Without(waiters, i)
                                      /\ HangUp(waiters[i])
                                      /\ UNCHANGED micro
      BY <1>3
    <2>2. /\ waiters \in Seq(Caller) /\ i \in 1 .. Len(waiters) /\ waiters[i] \in Caller
      BY LenProperties, ElementOfSeq DEF TypeOK
    <2>3. waiters' \in Seq(Caller)
      BY <2>1, <2>2, WithoutProperties
    <2>4. call' \in Calls /\ CallsNamed'
      BY <2>1, <2>2, HangUpFacts
    <2>5. SlotKept'
      BY <1>0, <2>1, RunningFacts, NoCreateKept
    <2>6. TypeOK'
      BY <2>1, <2>3, <2>4 DEF TypeOK, Calls
    <2> QED BY <1>1, <2>4, <2>5, <2>6
  <1> QED BY <1>2, <1>3

-----------------------------------------------------------------------------
(***************************************************************************)
(* The ends of teardowns keep the invariant.                               *)
(***************************************************************************)

\* A child that closed gives its slot back.
LEMMA ClosedFacts ==
    ASSUME Inv, NEW x \in Child, NEW by \in SUBSET Counted, Settled(x, by, TRUE),
           closing' = closing - 1, UNCHANGED <<entries, createVars>>
    PROVE  SlotInv' /\ occupiedSlots' < MaxChildren
  <1>1. /\ teardown[x] \in Counted
        /\ teardown' = [teardown EXCEPT ![x] = "none"]
        /\ conv' = conv \/ conv' = [conv EXCEPT ![x] = None]
    BY SettledFacts
  <1> QED BY <1>1, SlotsClosed DEF Inv, createVars

\* A child that did not close goes back into the Map.
LEMMA RestoredFacts ==
    ASSUME Inv, NEW x \in Child, teardown[x] \in Counted,
           teardown' = [teardown EXCEPT ![x] = "none"], UNCHANGED conv,
           Restore(x), closing' = closing - 1, UNCHANGED createVars
    PROVE  SlotInv' /\ entries' \in Seq(Child) /\ armed' \subseteq Child
  <1>1. SlotInv'
    BY SlotsRestore DEF Inv, Restore, createVars
  <1>2. entries' \in Seq(Child)
    BY EntriesFacts, MapSetProperties DEF Inv, Restore
  <1> QED BY <1>1, <1>2 DEF Inv, TypeOK, Restore

LEMMA TeardownKeeps ==
    ASSUME Inv, NEW x \in Child, TeardownEnds(x)
    PROVE  Inv'
  <1> USE DEF Inv
  <1>0. Caller \subseteq Counted /\ Evictor \subseteq Counted
    BY DEF Counted, Evictor
  <1>1. CASE CapacityEvicted(x)
    <2> DEFINE c == teardown[x]
    <2>1. /\ Settled(x, Caller, TRUE) /\ ReleaseOwnership(x) /\ closing' = closing - 1
          /\ snap' = [snap EXCEPT ![c] = NoSnap] /\ micro' = <<CreateTask(c)>>
          /\ UNCHANGED <<entries, armed, createVars, waiters, call, phase>>
      BY <1>1 DEF CapacityEvicted
    <2>2. /\ c \in Caller
          /\ teardown' \in [Child -> Counted \cup {"none", "final"}]
          /\ live' \subseteq Child /\ rpcClosed' \subseteq Child
          /\ conv' \in [Child -> Conv \cup {None}]
          /\ inUse' \subseteq Child /\ retiring' \subseteq Child
      BY <2>1, SettledFacts
    <2>3. SlotInv' /\ occupiedSlots' < MaxChildren
      BY <1>0, <2>1, ClosedFacts
    <2>4. owner' \in [Conv -> Child \cup {"noRow", "free", "stale"}]
      BY <2>1, OwnerFacts
    <2> HIDE DEF c
    <2>5. micro' \in Seq(Task)
      BY <2>1, <2>2, TaskFacts
    <2>6. SlotKept'
      <3>1. Len(micro') = 1
        BY <2>1
      <3> QED BY <2>3, <3>1 DEF SlotKept
    <2>7. snap' \in [Evictor -> [order : Seq(Child), left : SUBSET Child]]
      BY <2>1, NoSnapFacts
    <2>8. TypeOK'
      BY <2>1, <2>2, <2>4, <2>5, <2>7 DEF TypeOK, createVars
    <2>9. CallsNamed'
      BY <2>1 DEF CallsNamed
    <2> QED BY <2>3, <2>6, <2>8, <2>9
  <1>2. CASE DrainEvicted(x) \/ SweepEvicted(x)
    <2>1. PICK by \in {"drain", "sweep"} : Settled(x, {by}, TRUE)
      BY <1>2 DEF DrainEvicted, SweepEvicted
    <2>2. /\ ReleaseOwnership(x) /\ closing' = closing - 1
          /\ UNCHANGED <<entries, armed, createVars, waiters, call, phase>>
      BY <1>2 DEF DrainEvicted, SweepEvicted
    <2>3. /\ teardown' \in [Child -> Counted \cup {"none", "final"}]
          /\ live' \subseteq Child /\ rpcClosed' \subseteq Child
          /\ conv' \in [Child -> Conv \cup {None}]
          /\ inUse' \subseteq Child /\ retiring' \subseteq Child
      BY <2>1, SettledFacts
    <2>4. SlotInv'
      <3>1. {by} \in SUBSET Counted
        BY DEF Counted, Evictor
      <3> QED BY <2>1, <2>2, <3>1, ClosedFacts
    <2>5. owner' \in [Conv -> Child \cup {"noRow", "free", "stale"}]
      BY <2>2, OwnerFacts
    <2>6. micro' \in Seq(Task) /\ SlotKept'
      <3>1. "sweep" \in Evictor
        BY DEF Evictor
      <3>2. micro' = <<DrainTask>> \/ micro' = <<EvictTask("sweep")>>
        BY <1>2 DEF DrainEvicted, SweepEvicted
      <3> QED BY <3>1, <3>2, TaskFacts, NoCreateKept
    <2>7. snap' \in [Evictor -> [order : Seq(Child), left : SUBSET Child]]
      BY <1>2, NoSnapFacts DEF DrainEvicted, SweepEvicted, TypeOK
    <2>8. TypeOK'
      BY <2>2, <2>3, <2>5, <2>6, <2>7 DEF TypeOK, createVars
    <2>9. CallsNamed'
      BY <2>2 DEF CallsNamed
    <2> QED BY <2>4, <2>6, <2>8, <2>9
  <1>3. CASE EvictFailed(x)
    <2>1. /\ Settled(x, Evictor, FALSE) /\ Restore(x) /\ closing' = closing - 1
          /\ micro' = <<EvictTask(teardown[x])>>
          /\ UNCHANGED <<createVars, snap, waiters, call, owner, phase>>
      BY <1>3 DEF EvictFailed
    <2>2. /\ teardown[x] \in Evictor
          /\ teardown' = [teardown EXCEPT ![x] = "none"] /\ UNCHANGED conv
          /\ teardown' \in [Child -> Counted \cup {"none", "final"}]
          /\ live' \subseteq Child /\ rpcClosed' \subseteq Child
          /\ conv' \in [Child -> Conv \cup {None}]
          /\ inUse' \subseteq Child /\ retiring' \subseteq Child
      BY <2>1, SettledFacts
    <2>3. SlotInv' /\ entries' \in Seq(Child) /\ armed' \subseteq Child
      BY <1>0, <2>1, <2>2, RestoredFacts
    <2>4. micro' \in Seq(Task) /\ SlotKept'
      BY <2>1, <2>2, TaskFacts, NoCreateKept
    <2>5. TypeOK'
      BY <2>1, <2>2, <2>3, <2>4 DEF TypeOK, createVars
    <2>6. CallsNamed'
      BY <2>1 DEF CallsNamed
    <2> QED BY <2>3, <2>4, <2>5, <2>6
  <1>4. CASE \E ok \in BOOLEAN : IdleEvicted(x, ok)
    <2>1. PICK ok \in BOOLEAN : IdleEvicted(x, ok)
      BY <1>4
    <2>2. /\ Settled(x, {"idle"}, ok) /\ closing' = closing - 1 /\ micro' = <<DrainTask>>
          /\ UNCHANGED <<createVars, snap, waiters, call, phase>>
      BY <2>1 DEF IdleEvicted
    <2>3. /\ teardown[x] \in Counted
          /\ teardown' = [teardown EXCEPT ![x] = "none"] /\ (~ok => UNCHANGED conv)
          /\ teardown' \in [Child -> Counted \cup {"none", "final"}]
          /\ live' \subseteq Child /\ rpcClosed' \subseteq Child
          /\ conv' \in [Child -> Conv \cup {None}]
          /\ inUse' \subseteq Child /\ retiring' \subseteq Child
      BY <2>2, SettledFacts DEF Counted
    <2>4. /\ SlotInv' /\ entries' \in Seq(Child) /\ armed' \subseteq Child
          /\ owner' \in [Conv -> Child \cup {"noRow", "free", "stale"}]
      <3>1. CASE ok
        <4>1. ReleaseOwnership(x) /\ UNCHANGED <<entries, armed>>
          BY <2>1, <3>1 DEF IdleEvicted
        <4>2. Settled(x, {"idle"}, TRUE) /\ {"idle"} \in SUBSET Counted
          BY <2>2, <3>1 DEF Counted
        <4>3. SlotInv'
          BY <2>2, <4>1, <4>2, ClosedFacts
        <4> QED BY <4>1, <4>3, OwnerFacts DEF TypeOK
      <3>2. CASE ~ok
        BY <2>1, <2>2, <2>3, <3>2, RestoredFacts DEF IdleEvicted, TypeOK
      <3> QED BY <3>1, <3>2
    <2>5. micro' \in Seq(Task) /\ SlotKept'
      BY <2>2, TaskFacts, NoCreateKept
    <2>6. TypeOK'
      BY <2>2, <2>3, <2>4, <2>5 DEF TypeOK, createVars
    <2>7. CallsNamed'
      BY <2>2 DEF CallsNamed
    <2> QED BY <2>4, <2>5, <2>6, <2>7
  <1>5. CASE RetireEvicted(x)
    <2> DEFINE resets == {c \in Caller : call[c].pc = "resetting" /\ call[c].child = x}
    <2>1. /\ Settled(x, {"retire"}, TRUE) /\ closing' = closing - 1
          /\ ReleaseOwnership(x) \/ owner' = [owner EXCEPT ![conv[x]] = "noRow"]
          /\ call' = [c \in Caller |-> IF c \in resets THEN IdleCall ELSE call[c]]
          /\ micro' = <<DrainTask>>
          /\ UNCHANGED <<entries, armed, createVars, snap, waiters, phase>>
      BY <1>5 DEF RetireEvicted
    <2> HIDE DEF resets
    <2>2. /\ teardown' \in [Child -> Counted \cup {"none", "final"}]
          /\ live' \subseteq Child /\ rpcClosed' \subseteq Child
          /\ conv' \in [Child -> Conv \cup {None}]
          /\ inUse' \subseteq Child /\ retiring' \subseteq Child
      BY <2>1, SettledFacts
    <2>3. SlotInv'
      <3>1. {"retire"} \in SUBSET Counted
        BY DEF Counted
      <3> QED BY <2>1, <3>1, ClosedFacts
    <2>4. owner' \in [Conv -> Child \cup {"noRow", "free", "stale"}]
      BY <2>1, OwnerFacts DEF TypeOK
    <2>5. call' \in Calls /\ CallsNamed'
      BY <2>1, HangUpAllFacts
    <2>6. micro' \in Seq(Task) /\ SlotKept'
      BY <2>1, TaskFacts, NoCreateKept
    <2>7. TypeOK'
      BY <2>1, <2>2, <2>4, <2>5, <2>6 DEF TypeOK, createVars, Calls
    <2> QED BY <2>3, <2>5, <2>6, <2>7
  <1>6. CASE RetireFailed(x)
    <2> DEFINE resets == {c \in Caller : call[c].pc = "resetting" /\ call[c].child = x}
    <2>1. /\ teardown[x] = "retire" /\ ProcessClosed(x, FALSE)
          /\ teardown' = [teardown EXCEPT ![x] = "none"]
          /\ Restore(x) /\ inUse' = inUse \cup {x} /\ closing' = closing - 1
          /\ call' = [c \in Caller |-> IF c \in resets THEN IdleCall ELSE call[c]]
          /\ micro' = <<RejectTask(conv[x])>>
          /\ UNCHANGED <<conv, retiring, createVars, snap, waiters, owner, phase>>
      BY <1>6 DEF RetireFailed
    <2> HIDE DEF resets
    <2>2. teardown[x] \in Counted
      BY <2>1 DEF Counted
    <2>3. SlotInv' /\ entries' \in Seq(Child) /\ armed' \subseteq Child
      BY <2>1, <2>2, RestoredFacts
    <2>4. live' \subseteq Child /\ rpcClosed' \subseteq Child
      BY <2>1, ProcessFacts
    <2>5. conv[x] \in Conv
      BY <2>1 DEF SlotInv, TornSettled
    <2>6. micro' \in Seq(Task) /\ SlotKept'
      BY <2>1, <2>5, TaskFacts, NoCreateKept
    <2>7. call' \in Calls /\ CallsNamed'
      BY <2>1, HangUpAllFacts
    <2>8. TypeOK'
      BY <2>1, <2>3, <2>4, <2>6, <2>7 DEF TypeOK, createVars, Calls
    <2> QED BY <2>3, <2>6, <2>7, <2>8
  <1>7. CASE \E ok \in BOOLEAN : FinalClosed(x, ok)
    <2>1. PICK ok \in BOOLEAN : FinalClosed(x, ok)
      BY <1>7
    <2>2. /\ Settled(x, {"final"}, ok)
          /\ UNCHANGED <<entries, armed, createVars, closing, snap,
                         waiters, call, phase, micro>>
      BY <2>1 DEF FinalClosed
    <2>3. /\ micro = <<>> /\ teardown[x] = "final"
          /\ teardown' = [teardown EXCEPT ![x] = "none"]
          /\ teardown' \in [Child -> Counted \cup {"none", "final"}]
          /\ live' \subseteq Child /\ rpcClosed' \subseteq Child
          /\ conv' = conv \/ conv' = [conv EXCEPT ![x] = None]
          /\ conv' \in [Child -> Conv \cup {None}]
          /\ inUse' \subseteq Child /\ retiring' \subseteq Child
      BY <2>2, SettledFacts
    <2>4. SlotInv'
      BY <2>2, <2>3, SlotsFinal DEF createVars
    <2>5. owner' \in [Conv -> Child \cup {"noRow", "free", "stale"}]
      BY <2>1, OwnerFacts DEF FinalClosed, TypeOK
    <2>6. SlotKept'
      BY <2>2, <2>3, TaskFacts, NoCreateKept
    <2>7. TypeOK' /\ CallsNamed'
      BY <2>2, <2>3, <2>5 DEF TypeOK, createVars, CallsNamed
    <2> QED BY <2>4, <2>6, <2>7
  <1> QED BY <1>1, <1>2, <1>3, <1>4, <1>5, <1>6, <1>7 DEF TeardownEnds

-----------------------------------------------------------------------------
(***************************************************************************)
(* Timers, failures and resets keep the invariant.                         *)
(***************************************************************************)
LEMMA RetireFacts ==
    ASSUME Inv, NEW i \in DOMAIN entries, retireChild(i),
           UNCHANGED <<conv, inflight, stage, pendingCreations>>
    PROVE  /\ SlotInv' /\ entries' \in Seq(Child) /\ armed' \subseteq Child
           /\ closing' \in Int
           /\ teardown' \in [Child -> Counted \cup {"none", "final"}]
           /\ inUse' \subseteq Child /\ retiring' \subseteq Child
  <1>1. "retire" \in Counted
    BY DEF Counted
  <1>2. /\ SlotInv' /\ entries' \in Seq(Child) /\ armed' \subseteq Child
        /\ closing' \in Int
        /\ teardown' \in [Child -> Counted \cup {"none", "final"}]
    BY <1>1, BeginFacts DEF retireChild
  <1>3. entries[i] \in Child
    BY EntriesFacts DEF Inv
  <1> QED BY <1>2, <1>3 DEF retireChild, Inv, TypeOK

LEMMA ChildEventKeeps ==
    ASSUME Inv, NEW x \in Child,
           IdleTimer(x) \/ ChildError(x) \/ ChildExit(x) \/ AckTimeout(x)
    PROVE  Inv'
  <1> USE DEF Inv
  <1>0. micro = <<>>
    BY DEF IdleTimer, ChildError, ChildExit, AckTimeout, Quiet
  <1>1. CASE IdleTimer(x)
    <2> USE DEF createVars, procVars
    <2>1. UNCHANGED <<conv, inUse, retiring, createVars, snap, procVars, waiters,
                      call, owner, phase, micro>>
      BY <1>1 DEF IdleTimer
    <2>2. SlotKept' /\ CallsNamed'
      BY <1>0, <2>1, TaskFacts, NoCreateKept DEF CallsNamed
    <2>3. CASE armed' = armed \ {x} /\ UNCHANGED <<entries, closing, teardown>>
      <3>1. SlotInv'
        BY <2>1, <2>3, SlotsSame DEF slotVars
      <3>2. TypeOK'
        BY <2>1, <2>3 DEF TypeOK
      <3> QED BY <2>2, <3>1, <3>2
    <2>4. CASE \E i \in At(conv[x]) :
                 /\ entries' = Without(entries, i)
                 /\ armed' = armed \ {x, entries[i]}
                 /\ closing' = closing + 1
                 /\ teardown' = [teardown EXCEPT ![entries[i]] = "idle"]
      <3>1. PICK i \in DOMAIN entries :
                 /\ entries' = Without(entries, i)
                 /\ armed' = armed \ {x, entries[i]}
                 /\ closing' = closing + 1
                 /\ teardown' = [teardown EXCEPT ![entries[i]] = "idle"]
        BY <2>4 DEF At
      <3>2. "idle" \in Counted /\ entries[i] \in Child
        BY EntriesFacts DEF Counted
      <3>3. SlotInv'
        BY <2>1, <3>1, <3>2, SlotsBeginTeardown
      <3>4. entries' \in Seq(Child)
        BY <3>1, EntriesFacts, WithoutProperties
      <3>5. TypeOK'
        BY <2>1, <3>1, <3>2, <3>4 DEF TypeOK
      <3> QED BY <2>2, <3>3, <3>5
    <2> QED BY <1>1, <2>3, <2>4 DEF IdleTimer
  <1>2. CASE ChildError(x)
    <2> USE <1>2 DEF ChildError, createVars, procVars
    <2>1. PICK i \in DOMAIN entries : retireChild(i)
      OBVIOUS
    <2>2. /\ SlotInv' /\ entries' \in Seq(Child) /\ armed' \subseteq Child
          /\ closing' \in Int
          /\ teardown' \in [Child -> Counted \cup {"none", "final"}]
          /\ inUse' \subseteq Child /\ retiring' \subseteq Child
      BY <2>1, RetireFacts
    <2>3. TypeOK'
      BY <2>2 DEF TypeOK
    <2>4. SlotKept' /\ CallsNamed'
      BY <1>0, TaskFacts, NoCreateKept DEF CallsNamed
    <2> QED BY <2>2, <2>3, <2>4
  <1>3. CASE ChildExit(x)
    <2> USE DEF entryVars, createVars, evictVars
    <2>1. /\ live' = live \ {x} /\ rpcClosed' = rpcClosed \ {x}
          /\ UNCHANGED <<createVars, evictVars, waiters, call, phase>>
      BY <1>3 DEF ChildExit
    <2>2. CallsNamed'
      BY <2>1 DEF CallsNamed
    <2>3. CASE UNCHANGED <<entryVars, owner, micro>>
      <3>1. SlotInv'
        BY <2>1, <2>3, SlotsSame DEF slotVars
      <3>2. TypeOK'
        BY <2>1, <2>3 DEF TypeOK
      <3>3. SlotKept'
        BY <1>0, <2>3, TaskFacts, NoCreateKept
      <3> QED BY <2>2, <3>1, <3>2, <3>3
    <2>4. CASE ~UNCHANGED <<entryVars, owner, micro>>
      <3>1. PICK i \in DOMAIN entries : entries[i] = x /\ entries' = Without(entries, i)
        BY <1>3, <2>4 DEF ChildExit
      <3>2. /\ armed' = armed \ {x} /\ Recycle(x) /\ ReleaseOwnership(x)
            /\ micro' = <<DrainTask>>
        BY <1>3, <2>4 DEF ChildExit
      <3>3. /\ conv' = [conv EXCEPT ![x] = None]
            /\ conv' \in [Child -> Conv \cup {None}]
            /\ inUse' \subseteq Child /\ retiring' \subseteq Child
        BY <2>1, <3>2, RecycleFacts DEF Recycle
      <3>4. SlotInv'
        BY <2>1, <3>1, <3>3, SlotsForget
      <3>5. entries' \in Seq(Child)
        BY <3>1, EntriesFacts, WithoutProperties
      <3>6. owner' \in [Conv -> Child \cup {"noRow", "free", "stale"}]
        BY <3>2, OwnerFacts
      <3>7. micro' \in Seq(Task) /\ SlotKept'
        BY <3>2, TaskFacts, NoCreateKept
      <3>8. TypeOK'
        BY <2>1, <3>2, <3>3, <3>5, <3>6, <3>7 DEF TypeOK
      <3> QED BY <2>2, <3>4, <3>7, <3>8
    <2> QED BY <2>3, <2>4
  <1>4. CASE AckTimeout(x)
    <2> USE <1>4 DEF AckTimeout, entryVars, evictVars
    <2>1. SlotInv' /\ stage' \in [Child -> {"none", "factory", "attach", "attachNew", "cleanup"}]
      <3>1. CASE UNCHANGED stage
        BY <3>1, SlotsSame DEF slotVars, TypeOK
      <3>2. CASE stage[x] # "none" /\ stage' = [stage EXCEPT ![x] = "cleanup"]
        BY <3>2, SlotsStage DEF TypeOK
      <3> QED BY <3>1, <3>2
    <2>2. TypeOK'
      BY <2>1 DEF TypeOK
    <2>3. SlotKept' /\ CallsNamed'
      BY <1>0, TaskFacts, NoCreateKept DEF CallsNamed
    <2> QED BY <2>1, <2>2, <2>3
  <1> QED BY <1>1, <1>2, <1>3, <1>4

LEMMA ResetKeeps ==
    ASSUME Inv, NEW c \in Caller, NEW k \in Conv, Reset(c, k)
    PROVE  Inv'
  <1> USE DEF Inv, createVars, procVars
  <1>1. UNCHANGED <<conv, createVars, snap, procVars, waiters, phase, micro>>
    BY DEF Reset
  <1>2. SlotKept'
    BY <1>1, TaskFacts, NoCreateKept DEF Reset, Quiet
  <1>3. CASE /\ owner' = [owner EXCEPT ![k] = "noRow"]
             /\ UNCHANGED <<entries, inUse, retiring, armed, closing, teardown, call>>
    <2>1. SlotInv'
      BY <1>1, <1>3, SlotsSame DEF slotVars
    <2>2. TypeOK' /\ CallsNamed'
      BY <1>1, <1>3 DEF TypeOK, CallsNamed
    <2> QED BY <1>2, <2>1, <2>2
  <1>4. CASE \E i \in At(k) : /\ retireChild(i)
                              /\ SetCall(c, "resetting", k, entries[i])
                              /\ UNCHANGED owner
    <2>1. PICK i \in DOMAIN entries : /\ retireChild(i)
                                      /\ SetCall(c, "resetting", k, entries[i])
                                      /\ UNCHANGED owner
      BY <1>4 DEF At
    <2>2. /\ SlotInv' /\ entries' \in Seq(Child) /\ armed' \subseteq Child
          /\ closing' \in Int
          /\ teardown' \in [Child -> Counted \cup {"none", "final"}]
          /\ inUse' \subseteq Child /\ retiring' \subseteq Child
      BY <1>1, <2>1, RetireFacts
    <2>3. call' \in Calls /\ CallsNamed'
      <3>1. "resetting" \in Pc /\ entries[i] \in Child \cup {None}
        BY EntriesFacts DEF Pc
      <3> QED BY <2>1, <3>1, SetCallFacts
    <2>4. TypeOK'
      BY <1>1, <2>1, <2>2, <2>3 DEF TypeOK, Calls
    <2> QED BY <1>2, <2>2, <2>3, <2>4
  <1> QED BY <1>3, <1>4 DEF Reset

LEMMA CloseKeeps ==
    ASSUME Inv, closeIdle \/ close \/ CloseEntries \/ CloseDone
    PROVE  Inv'
  <1> USE DEF Inv
  <1>0. micro = <<>>
    BY DEF closeIdle, close, CloseEntries, CloseDone, Quiet
  <1>1. CASE closeIdle
    <2> USE <1>1 DEF closeIdle, createVars, procVars
    <2>1. "sweep" \in Evictor
      BY DEF Evictor
    <2>2. snap' \in [Evictor -> [order : Seq(Child), left : SUBSET Child]]
      BY <2>1, SnapFacts
    <2>3. SlotInv'
      BY SlotsSame DEF slotVars
    <2>4. micro' \in Seq(Task) /\ SlotKept'
      BY <2>1, TaskFacts, NoCreateKept
    <2>5. TypeOK' /\ CallsNamed'
      BY <2>2, <2>4 DEF TypeOK, CallsNamed
    <2> QED BY <2>3, <2>4, <2>5
  <1>2. CASE close
    <2> USE <1>2 DEF close, createVars, evictVars, procVars
    <2>1. call' \in Calls /\ CallsNamed'
      <3> DEFINE S == {c \in Caller : call[c].pc = "waiting"}
      <3>1. call' = [c \in Caller |-> IF c \in S THEN IdleCall ELSE call[c]]
        OBVIOUS
      <3> HIDE DEF S
      <3> QED BY <3>1, HangUpAllFacts
    <2>2. SlotInv'
      BY SlotsSame DEF slotVars
    <2>3. TypeOK'
      BY <2>1 DEF TypeOK, Calls
    <2>4. SlotKept'
      BY <1>0, TaskFacts, NoCreateKept
    <2> QED BY <2>1, <2>2, <2>3, <2>4
  <1>3. CASE CloseEntries
    <2> USE <1>3 DEF CloseEntries, procVars
    <2>1. SlotInv'
      BY SlotsCloseEntries
    <2>2. TypeOK'
      BY DEF TypeOK
    <2>3. SlotKept' /\ CallsNamed'
      BY <1>0, TaskFacts, NoCreateKept DEF CallsNamed
    <2> QED BY <2>1, <2>2, <2>3
  <1>4. CASE CloseDone
    <2> USE <1>4 DEF CloseDone, entryVars, createVars, evictVars, procVars
    <2>1. SlotInv'
      BY SlotsSame DEF slotVars
    <2>2. TypeOK'
      BY DEF TypeOK
    <2>3. SlotKept' /\ CallsNamed'
      BY <1>0, TaskFacts, NoCreateKept DEF CallsNamed
    <2> QED BY <2>1, <2>2, <2>3
  <1> QED BY <1>1, <1>2, <1>3, <1>4

-----------------------------------------------------------------------------
(***************************************************************************)
(* The theorems.                                                           *)
(***************************************************************************)

\* Inv holds in every reachable state.
THEOREM InvariantHolds == Spec => []Inv
  <1>1. Init => Inv
    <2> SUFFICES ASSUME Init PROVE Inv
      OBVIOUS
    <2> USE DEF Init
    <2>1. TypeOK
      <3>1. \A e \in Evictor : snap[e] \in [order : Seq(Child), left : SUBSET Child]
        BY DEF NoSnap
      <3>2. snap \in [Evictor -> [order : Seq(Child), left : SUBSET Child]]
        BY <3>1
      <3>3. call \in [Caller -> [pc : Pc, conv : Conv \cup {None}, child : Child \cup {None}]]
        BY DEF IdleCall, Pc
      <3>4. owner \in [Conv -> Child \cup {"noRow", "free", "stale"}]
        BY PoolAssumption
      <3> QED BY <3>2, <3>3, <3>4 DEF TypeOK
    <2>2. KeysDistinct /\ PooledSettled /\ TornSettled /\ CreatingReserved
      BY DEF KeysDistinct, PooledSettled, TornSettled, CreatingReserved
    <2>3. CountersExact
      <3>1. Creating = {} /\ Closing = {}
        BY PoolAssumption DEF Creating, Closing, Counted, Evictor
      <3> QED BY <3>1, FS_EmptySet DEF CountersExact
    <2>4. CapacityBound
      BY PoolAssumption DEF CapacityBound, occupiedSlots
    <2>5. CallsNamed /\ SlotKept
      BY DEF CallsNamed, SlotKept, IdleCall
    <2> QED BY <2>1, <2>2, <2>3, <2>4, <2>5 DEF Inv, SlotInv
  <1>2. Inv /\ [Next]_vars => Inv'
    <2> SUFFICES ASSUME Inv, [Next]_vars PROVE Inv'
      OBVIOUS
    <2>1. CASE Microtask
      BY <2>1, DrainKeeps, ResumeKeeps, CreateAfterEvictKeeps, EvictLoopKeeps,
         RejectKeeps DEF Microtask
    <2>2. CASE \E c \in Caller, k \in Conv : Acquire(c, k) \/ Reset(c, k)
      BY <2>2, AcquireKeeps, ResetKeeps
    <2>3. CASE \E c \in Caller : Release(c)
      BY <2>3, ReleaseKeeps
    <2>4. CASE \E x \in Child :
                 \/ ChildAnswers(x)
                 \/ IdleTimer(x) \/ ChildError(x) \/ ChildExit(x) \/ AckTimeout(x)
      BY <2>4, CreationKeeps, TeardownKeeps, ChildEventKeeps DEF ChildAnswers
    <2>5. CASE closeIdle \/ close \/ CloseEntries \/ CloseDone
      BY <2>5, CloseKeeps
    <2>6. CASE UNCHANGED vars
      <3> USE <2>6 DEF vars, entryVars, createVars, evictVars, procVars
      <3>1. SlotInv'
        BY SlotsSame DEF Inv, slotVars
      <3>2. TypeOK' /\ CallsNamed'
        BY DEF Inv, TypeOK, CallsNamed
      <3>3. SlotKept'
        BY DEF Inv, SlotKept, occupiedSlots
      <3> QED BY <3>1, <3>2, <3>3 DEF Inv
    <2> QED BY <2>1, <2>2, <2>3, <2>4, <2>5, <2>6 DEF Next
  <1> QED BY <1>1, <1>2, PTL DEF Spec

\* Every variable of the pool keeps its type, for every instance.
THEOREM TypeCorrect == Spec => []TypeOK
  BY InvariantHolds, PTL DEF Inv

\* The pool never promises more than maxChildren slots: entries, reservations
\* and closing children together stay within occupiedSlots' bound.
THEOREM CapacityHolds == Spec => []CapacityBound
  BY InvariantHolds, PTL DEF Inv, SlotInv

\* pendingCreations and closing are exact and the Map has unique keys.
THEOREM LedgerExact == Spec => []SlotLedger
  <1>1. Inv => SlotLedger
    BY DEF Inv, SlotInv, SlotLedger, CountersExact, KeysDistinct, Creating, Closing
  <1> QED BY <1>1, InvariantHolds, PTL

\* An acquire that evicted finds its slot still free when it creates.
THEOREM SlotIsKept == Spec => []SlotKept
  BY InvariantHolds, PTL DEF Inv

-----------------------------------------------------------------------------
(***************************************************************************)
(* Leases.  The callers keep the Supervisor's discipline, and a child that *)
(* is told to close does close.                                            *)
(***************************************************************************)
Disciplined == Serialized /\ "close" \notin Env

\* Conversation k has no entry.
Absent(k) == \A x \in Pooled : conv[x] # k

Queued == {waiters[i] : i \in DOMAIN waiters}

Creator == {"creating", "drainCreating"}

\* One call per conversation.
OneCaller ==
    \A c, d \in Caller : call[c].conv = call[d].conv /\ call[c].conv # None => c = d

\* Caller c awaits the creation of a child for k, and nobody else does.
Awaits(c, k) ==
    creators[k] = <<c>> /\ call[c].conv = k /\ call[c].pc \in Creator

\* A creation has its one caller, and its conversation has no entry.
CreationsOwned ==
    \A k \in Conv :
        /\ joiners[k] = <<>>
        /\ inflight[k] = None => creators[k] = <<>>
        /\ inflight[k] # None =>
              /\ conv[inflight[k]] = k /\ stage[inflight[k]] # "none"
              /\ Absent(k) /\ \E c \in Caller : Awaits(c, k)

\* While an acquire evicts, or a reset waits, its conversation has no entry.
NoEntryYet ==
    \A c \in Caller : call[c].pc \in {"evicting", "resetting"} => Absent(call[c].conv)

\* A reset waits for the child of its conversation that it retired.
ResetsOwned ==
    \A c \in Caller : call[c].pc = "resetting" =>
        /\ call[c].child \in Child
        /\ teardown[call[c].child] = "retire" /\ conv[call[c].child] = call[c].conv

\* One microtask at a time; the one that resumes a caller brings its child.
MicroSound ==
    /\ micro = <<>> \/ \E t \in Task : micro = <<t>> /\ t.op # "rejectFor"
    /\ \A c \in Caller, x \in Child \cup {None} : micro = <<ResumeTask(c, x)>> =>
          /\ call[c].pc \in Creator /\ inflight[call[c].conv] = None
          /\ x # None => x \in Pooled /\ conv[x] = call[c].conv

\* An acquire that evicts has one eviction under way or is about to go on.
EvictionsOwned ==
    \A c \in Caller :
        /\ \A x \in Child : teardown[x] = c => call[c].pc = "evicting"
        /\ \A x, y \in Child : teardown[x] = c /\ teardown[y] = c => x = y
        /\ micro = <<EvictTask(c)>> \/ micro = <<CreateTask(c)>> =>
              call[c].pc = "evicting" /\ \A x \in Child : teardown[x] # c

\* The child of a lease is the holder's, alone.
LeasesSound ==
    \A c \in Caller : call[c].pc = "holding" =>
        /\ call[c].child \in Child /\ stage[call[c].child] = "none"
        /\ call[c].child \in Pooled => conv[call[c].child] = call[c].conv
        /\ \A d \in Caller : call[d].pc = "holding" /\ call[d].child = call[c].child => d = c
        /\ \/ call[c].child \in Pooled \cap inUse
           \/ call[c].child \in retiring \/ call[c].child \notin live
           \/ phase # "open"

\* A pooled child is not retiring, and in use only by a holder.
UsedHeld ==
    /\ Pooled \cap retiring = {}
    /\ phase = "open" => \A x \in Pooled \cap inUse :
          \E c \in Caller : call[c].pc = "holding" /\ call[c].child = x

\* An owner is a child of the conversation, pooled or being torn down.
OwnersSound ==
    /\ EntryOwned
    /\ \A k \in Conv : owner[k] \in Child =>
          conv[owner[k]] = k /\ (owner[k] \in Pooled \/ teardown[owner[k]] # "none")

\* A pool that closes has no waiters, and in the end no entries and no calls.
PhaseSound ==
    /\ phase # "open" => waiters = <<>>
    /\ \A x \in Child : teardown[x] = "final" => phase = "teardown"
    /\ phase \in {"teardown", "closed"} =>
          /\ Pooled = {} /\ \A x \in Child : teardown[x] \in {"none", "final"}
          /\ \A k \in Conv : inflight[k] = None
          /\ \A c \in Caller : call[c].pc \in {"idle", "holding"}

\* Every call has something that continues it.
CallsAccounted ==
    \A c \in Caller :
        /\ call[c].pc \notin {"joining", "drainJoining"}
        /\ call[c].pc = "waiting" => c \in Queued
        /\ call[c].pc \in Creator =>
              \/ inflight[call[c].conv] # None
              \/ \E x \in Child \cup {None} : micro = <<ResumeTask(c, x)>>
        /\ call[c].pc = "evicting" =>
              \/ \E x \in Child : teardown[x] = c
              \/ micro = <<EvictTask(c)>> \/ micro = <<CreateTask(c)>>

LeaseInv ==
    /\ OneCaller /\ CreationsOwned /\ NoEntryYet /\ ResetsOwned /\ MicroSound
    /\ EvictionsOwned /\ LeasesSound /\ UsedHeld /\ OwnersSound /\ PhaseSound /\ CallsAccounted

-----------------------------------------------------------------------------
(***************************************************************************)
(* The Map, the waiters and the microtasks as the invariant sees them.     *)
(***************************************************************************)
LEMMA PoolFacts ==
    ASSUME Inv
    PROVE  /\ Pooled \subseteq Child
           /\ \A x \in Pooled : conv[x] \in Conv /\ teardown[x] = "none" /\ stage[x] = "none"
           /\ \A x, y \in Pooled : conv[x] = conv[y] => x = y
           /\ \A i \in DOMAIN entries : entries[i] \in Pooled
           /\ \A k : At(k) = {} <=> Absent(k)
           /\ \A k : \A i \in At(k) : i \in DOMAIN entries /\ conv[entries[i]] = k
  BY EntriesFacts DEF Inv, SlotInv, KeysDistinct, PooledSettled, Pooled, At, Absent

LEMMA PooledTouched ==
    ASSUME Inv, NEW i \in DOMAIN entries, entries' = touchLru(i)
    PROVE  Pooled' = Pooled
  <1>1. /\ Len(entries) \in Nat /\ DOMAIN entries = 1 .. Len(entries) /\ entries \in Seq(Child)
    BY EntriesFacts DEF Inv
  <1>2. /\ DOMAIN entries' = DOMAIN entries
        /\ \A j \in DOMAIN entries : entries'[j] =
             IF j = Len(entries) THEN entries[i] ELSE IF j < i THEN entries[j] ELSE entries[j + 1]
    BY <1>1, TouchProperties
  <1>3. Pooled' \subseteq Pooled
    BY <1>1, <1>2 DEF Pooled
  <1>4. ASSUME NEW j \in DOMAIN entries PROVE entries[j] \in Pooled'
    <2> DEFINE to == IF j = i THEN Len(entries) ELSE IF j < i THEN j ELSE j - 1
    <2>1. to \in DOMAIN entries' /\ entries'[to] = entries[j]
      BY <1>1, <1>2
    <2> QED BY <2>1 DEF Pooled
  <1> QED BY <1>3, <1>4 DEF Pooled

LEMMA PooledWithout ==
    ASSUME Inv, NEW i \in DOMAIN entries, entries' = Without(entries, i)
    PROVE  Pooled' = Pooled \ {entries[i]}
  <1>1. /\ Len(entries) \in Nat /\ DOMAIN entries = 1 .. Len(entries) /\ entries \in Seq(Child)
    BY EntriesFacts DEF Inv
  <1>2. /\ DOMAIN entries' = 1 .. (Len(entries) - 1)
        /\ \A j \in 1 .. (Len(entries) - 1) : entries'[j] =
             IF j < i THEN entries[j] ELSE entries[j + 1]
    BY <1>1, WithoutProperties
  <1>3. \A j \in DOMAIN entries : j # i => entries[j] # entries[i]
    BY DEF Inv, SlotInv, KeysDistinct
  <1>4. Pooled' \subseteq Pooled \ {entries[i]}
    BY <1>1, <1>2, <1>3 DEF Pooled
  <1>5. ASSUME NEW j \in DOMAIN entries, j # i PROVE entries[j] \in Pooled'
    <2> DEFINE to == IF j < i THEN j ELSE j - 1
    <2>1. to \in DOMAIN entries' /\ entries'[to] = entries[j]
      BY <1>1, <1>2, <1>5
    <2> QED BY <2>1 DEF Pooled
  <1> QED BY <1>4, <1>5 DEF Pooled

LEMMA PooledSet ==
    ASSUME Inv, NEW x \in Child, Absent(conv[x]), entries' = MapSet(x)
    PROVE  Pooled' = Pooled \cup {x}
  <1>1. At(conv[x]) = {}
    BY PoolFacts
  <1>2. entries' = Append(entries, x)
    BY <1>1 DEF MapSet
  <1>3. /\ entries \in Seq(Child) /\ Len(entries) \in Nat /\ DOMAIN entries = 1 .. Len(entries)
    BY EntriesFacts DEF Inv
  <1>4. /\ DOMAIN entries' = 1 .. (Len(entries) + 1)
        /\ \A j \in 1 .. (Len(entries) + 1) : entries'[j] = IF j <= Len(entries) THEN entries[j] ELSE x
    BY <1>2, <1>3, AppendFacts
  <1>5. Pooled' \subseteq Pooled \cup {x}
    BY <1>3, <1>4 DEF Pooled
  <1>6. \A j \in DOMAIN entries : entries[j] \in Pooled'
    BY <1>3, <1>4 DEF Pooled
  <1>7. x \in Pooled'
    <2>1. Len(entries) + 1 \in DOMAIN entries' /\ entries'[Len(entries) + 1] = x
      BY <1>3, <1>4
    <2> QED BY <2>1 DEF Pooled
  <1> QED BY <1>5, <1>6, <1>7 DEF Pooled

LEMMA PooledSame ==
    ASSUME UNCHANGED entries
    PROVE  Pooled' = Pooled
  BY DEF Pooled

LEMMA QueuedFacts ==
    ASSUME Inv
    PROVE  /\ waiters = <<>> => Queued = {}
           /\ waiters' = waiters => Queued' = Queued
           /\ \A c \in Caller : waiters' = Append(waiters, c) => Queued \cup {c} \subseteq Queued'
           /\ waiters # <<>> /\ waiters' = Tail(waiters) => Queued \ {Head(waiters)} \subseteq Queued'
  <1>1. /\ waiters \in Seq(Caller) /\ Len(waiters) \in Nat /\ DOMAIN waiters = 1 .. Len(waiters)
    BY LenProperties DEF Inv, TypeOK
  <1>2. /\ waiters = <<>> => Queued = {}
        /\ waiters' = waiters => Queued' = Queued
    BY <1>1 DEF Queued
  <1>3. ASSUME NEW c \in Caller, waiters' = Append(waiters, c) PROVE Queued \cup {c} \subseteq Queued'
    <2>1. /\ DOMAIN waiters' = 1 .. (Len(waiters) + 1)
          /\ \A j \in 1 .. (Len(waiters) + 1) : waiters'[j] = IF j <= Len(waiters) THEN waiters[j] ELSE c
      BY <1>1, <1>3, AppendFacts
    <2>2. \A j \in DOMAIN waiters : waiters[j] \in Queued'
      BY <1>1, <2>1 DEF Queued
    <2>3. Len(waiters) + 1 \in DOMAIN waiters' /\ waiters'[Len(waiters) + 1] = c
      BY <1>1, <2>1
    <2> QED BY <2>2, <2>3 DEF Queued
  <1>4. ASSUME waiters # <<>>, waiters' = Tail(waiters) PROVE Queued \ {Head(waiters)} \subseteq Queued'
    <2>1. /\ Head(waiters) = waiters[1]
          /\ DOMAIN waiters' = 1 .. (Len(waiters) - 1)
          /\ \A j \in 1 .. (Len(waiters) - 1) : waiters'[j] = waiters[j + 1]
      BY <1>1, <1>4
    <2>2. ASSUME NEW j \in DOMAIN waiters, j # 1 PROVE waiters[j] \in Queued'
      <3>1. j - 1 \in DOMAIN waiters' /\ waiters'[j - 1] = waiters[j]
        BY <1>1, <2>1, <2>2
      <3> QED BY <3>1 DEF Queued
    <2> QED BY <2>1, <2>2 DEF Queued
  <1> QED BY <1>2, <1>3, <1>4

\* Tasks of different kinds differ.
LEMMA TasksDiffer ==
    /\ \A t : <<t>> # <<>>
    /\ \A t, u : <<t>> = <<u>> => t = u
    /\ \A c, x, d, y : ResumeTask(c, x) = ResumeTask(d, y) => c = d /\ x = y
    /\ \A c, x, d : /\ DrainTask # ResumeTask(c, x) /\ EvictTask(d) # ResumeTask(c, x)
                    /\ CreateTask(d) # ResumeTask(c, x)
    /\ \A c, d : /\ DrainTask # EvictTask(c) /\ DrainTask # CreateTask(c)
                 /\ EvictTask(c) # CreateTask(d)
    /\ \A c, d : EvictTask(c) = EvictTask(d) => c = d
    /\ \A c, d : CreateTask(c) = CreateTask(d) => c = d
  <1>1. /\ \A t : <<t>> # <<>>
        /\ \A t, u : <<t>> = <<u>> => t = u
    BY SMT
  <1>2. \A c, x, d, y : ResumeTask(c, x) = ResumeTask(d, y) => c = d /\ x = y
    BY DEF ResumeTask
  <1>3. /\ DrainTask.op = "drain" /\ \A c : EvictTask(c).op = "evict" /\ EvictTask(c).by = c
        /\ \A c : CreateTask(c).op = "create" /\ CreateTask(c).caller = c
        /\ \A c, x : ResumeTask(c, x).op = "resume"
    BY DEF DrainTask, EvictTask, CreateTask, ResumeTask
  <1>4. \A c, x, d : /\ DrainTask # ResumeTask(c, x) /\ EvictTask(d) # ResumeTask(c, x)
                      /\ CreateTask(d) # ResumeTask(c, x)
    BY <1>3
  <1>5. \A c, d : /\ DrainTask # EvictTask(c) /\ DrainTask # CreateTask(c)
                   /\ EvictTask(c) # CreateTask(d)
    BY <1>3
  <1>6. /\ \A c, d : EvictTask(c) = EvictTask(d) => c = d
        /\ \A c, d : CreateTask(c) = CreateTask(d) => c = d
    BY <1>3
  <1> QED BY <1>1, <1>2, <1>4, <1>5, <1>6

\* The task that runs is the only one.
LEMMA RunningIs ==
    ASSUME Inv, MicroSound, NEW op, Running(op)
    PROVE  /\ op # "rejectFor" /\ \E t \in Task : micro = <<t>> /\ t.op = op
           /\ Head(micro).op = op /\ micro = <<Head(micro)>> /\ Head(micro) \in Task
           /\ \A tasks : tasks \in Seq(Task) /\ Then(tasks) => micro' = tasks
  <1>1. PICK t \in Task : micro = <<t>> /\ t.op # "rejectFor"
    BY DEF MicroSound, Running
  <1>2. Head(micro) = t /\ Tail(micro) = <<>>
    BY <1>1
  <1>3. \A tasks \in Seq(Task) : tasks \o <<>> = tasks
    BY ConcatEmptySeq
  <1> QED BY <1>1, <1>2, <1>3 DEF Running, Then

LEMMA TaskShapes ==
    ASSUME NEW t \in Task
    PROVE  /\ t.op = "drain" => t = DrainTask
           /\ t.op = "resume" => t.caller \in Caller /\ t.child \in Child \cup {None}
                                 /\ t = ResumeTask(t.caller, t.child)
           /\ t.op = "create" => t.caller \in Caller /\ t = CreateTask(t.caller)
           /\ t.op = "evict" => t.by \in Evictor /\ t = EvictTask(t.by)
           /\ t.op \in {"drain", "resume", "create", "evict", "rejectFor"}
  BY DEF Task, DrainTask, ResumeTask, CreateTask, EvictTask

-----------------------------------------------------------------------------
(***************************************************************************)
(* What each kind of step does to LeaseInv.                                *)
(***************************************************************************)

\* The microtask queue m holds the continuation of caller c.
Wakes(m, c) ==
    \/ \E x \in Child \cup {None} : m = <<ResumeTask(c, x)>>
    \/ m = <<EvictTask(c)>> \/ m = <<CreateTask(c)>>

\* m continues no call.
Harmless(m) ==
    m = <<>> \/ m = <<DrainTask>> \/ \E e \in {"drain", "sweep"} : m = <<EvictTask(e)>>

LEMMA HarmlessFacts ==
    ASSUME NEW m, Harmless(m)
    PROVE  /\ \A c \in Caller : ~Wakes(m, c)
           /\ \A c, x : m # <<ResumeTask(c, x)>>
           /\ \A c \in Caller : m # <<EvictTask(c)>> /\ m # <<CreateTask(c)>>
           /\ m = <<>> \/ \E t \in Task : m = <<t>> /\ t.op # "rejectFor"
  <1>1. DrainTask \in Task /\ DrainTask.op # "rejectFor"
    BY DEF DrainTask, Task
  <1>2. \A e \in {"drain", "sweep"} :
          e \notin Caller /\ EvictTask(e) \in Task /\ EvictTask(e).op # "rejectFor"
    BY PoolAssumption DEF EvictTask, Task, Evictor
  <1>3. \A c, x : m # <<ResumeTask(c, x)>>
    BY TasksDiffer DEF Harmless
  <1>4. \A c \in Caller : m # <<EvictTask(c)>> /\ m # <<CreateTask(c)>>
    BY <1>2, TasksDiffer DEF Harmless
  <1>5. m = <<>> \/ \E t \in Task : m = <<t>> /\ t.op # "rejectFor"
    BY <1>1, <1>2 DEF Harmless
  <1> QED BY <1>3, <1>4, <1>5 DEF Wakes

\* Caller c takes the lease of the pooled child x of its conversation k.
LEMMA LeaseTaken ==
    ASSUME Inv, LeaseInv, NEW c \in Caller, NEW k \in Conv, NEW x \in Pooled,
           conv[x] = k, \A d \in Caller : d # c => call[d].conv # k,
           call[c].pc \notin {"holding", "evicting"}, call[c].pc \in Creator => call[c].conv = k, phase = "open",
           SetCall(c, "holding", k, x), inUse' = inUse \cup {x}, Pooled' = Pooled,
           Queued \ {c} \subseteq Queued', Harmless(micro'),
           \A d \in Caller : d # c => ~Wakes(micro, d),
           UNCHANGED <<conv, live, retiring, inflight, stage, joiners, creators,
                       teardown, owner, phase>>
    PROVE  LeaseInv'
  <1> USE DEF LeaseInv
  <1>1. call' = [call EXCEPT ![c] = [pc |-> "holding", conv |-> k, child |-> x]]
    BY DEF SetCall
  <1>2. /\ call'[c].pc = "holding" /\ call'[c].conv = k /\ call'[c].child = x
        /\ \A d \in Caller : d # c => call'[d] = call[d]
    BY <1>1 DEF Inv, TypeOK
  <1>3. k # None /\ x \in Child /\ stage[x] = "none"
    BY PoolFacts, PoolAssumption
  <1>4. inflight[k] = None
    BY DEF CreationsOwned, Absent
  <1>5. OneCaller'
    BY <1>2, <1>3 DEF OneCaller
  <1>6. CreationsOwned'
    <2>1. \A j \in Conv : Absent(j)' = Absent(j)
      BY DEF Absent
    <2>2. \A j \in Conv, d \in Caller : inflight[j] # None /\ Awaits(d, j) => d # c /\ Awaits(d, j)'
      BY <1>2, <1>4 DEF Awaits
    <2> QED BY <2>1, <2>2 DEF CreationsOwned
  <1>7. NoEntryYet'
    BY <1>2 DEF NoEntryYet, Absent
  <1>8. ResetsOwned'
    BY <1>2 DEF ResetsOwned
  <1>9. MicroSound'
    BY HarmlessFacts DEF MicroSound
  <1>16. EvictionsOwned'
    BY <1>2, HarmlessFacts DEF EvictionsOwned
  <1>10. \A d \in Caller : call[d].pc = "holding" => call[d].child # x
    BY <1>3 DEF LeasesSound
  <1>11. LeasesSound'
    BY <1>2, <1>3, <1>10 DEF LeasesSound
  <1>12. UsedHeld'
    BY <1>2 DEF UsedHeld
  <1>13. OwnersSound'
    BY DEF OwnersSound, EntryOwned
  <1>14. PhaseSound'
    BY <1>2 DEF PhaseSound
  <1>15. CallsAccounted'
    <2> SUFFICES ASSUME NEW d \in Caller, d # c
                 PROVE  /\ call'[d].pc \notin {"joining", "drainJoining"}
                        /\ call'[d].pc = "waiting" => d \in Queued'
                        /\ call'[d].pc \in Creator => inflight'[call'[d].conv] # None
                        /\ call'[d].pc = "evicting" => \E y \in Child : teardown'[y] = d
      BY <1>2 DEF CallsAccounted, Creator
    <2>1. call'[d] = call[d] /\ ~Wakes(micro, d)
      BY <1>2
    <2> QED BY <2>1 DEF CallsAccounted, Wakes
  <1> QED BY <1>5, <1>6, <1>7, <1>8, <1>9, <1>11, <1>12, <1>13, <1>14, <1>15, <1>16

\* A step that changes no call, no entry, no row and no creation.
LEMMA NothingMoves ==
    ASSUME Inv, LeaseInv, Pooled' = Pooled, live' \subseteq live,
           \A x \in Child : stage'[x] = "none" <=> stage[x] = "none",
           \/ phase' = phase
           \/ phase = "teardown" /\ phase' = "closed" /\ \A x \in Child : teardown[x] # "final",
           micro' = micro \/ (Harmless(micro) /\ Harmless(micro')),
           UNCHANGED <<conv, inUse, retiring, inflight, joiners, creators, teardown,
                       waiters, call, owner>>
    PROVE  LeaseInv'
  <1> USE DEF LeaseInv
  <1>1. \A j : Absent(j)' = Absent(j)
    BY DEF Absent
  <1>2. phase' = "open" <=> phase = "open"
    OBVIOUS
  <1>3. Queued' = Queued
    BY DEF Queued
  <1>4. OneCaller'
    BY DEF OneCaller
  <1>5. CreationsOwned'
    <2>1. \A k \in Conv : inflight[k] # None => inflight[k] \in Child
      BY DEF Inv, TypeOK
    <2> QED BY <1>1, <2>1 DEF CreationsOwned, Awaits
  <1>6. NoEntryYet'
    BY <1>1 DEF NoEntryYet
  <1>7. ResetsOwned'
    BY DEF ResetsOwned
  <1>8. MicroSound'
    BY HarmlessFacts DEF MicroSound
  <1>9. EvictionsOwned'
    BY HarmlessFacts DEF EvictionsOwned
  <1>10. LeasesSound'
    BY <1>2 DEF LeasesSound
  <1>11. UsedHeld'
    BY <1>2 DEF UsedHeld
  <1>12. OwnersSound'
    BY <1>2 DEF OwnersSound, EntryOwned
  <1>13. PhaseSound'
    BY <1>2 DEF PhaseSound
  <1>14. CallsAccounted'
    BY <1>3, HarmlessFacts DEF CallsAccounted
  <1> QED BY <1>4, <1>5, <1>6, <1>7, <1>8, <1>9, <1>10, <1>11, <1>12, <1>13, <1>14

\* The callers in S are told that it is over, or have given back their lease.
LEMMA CallsStop ==
    ASSUME Inv, LeaseInv, NEW S \in SUBSET Caller,
           \A c \in S : call'[c] = IdleCall,
           \A c \in Caller \ S : call'[c] = call[c] /\ ~Wakes(micro, c),
           \A c \in S : /\ call[c].pc # "resetting"
                        /\ call[c].pc \in Creator => inflight[call[c].conv] = None
                        /\ call[c].pc = "evicting" => \A x \in Child : teardown[x] # c
                        /\ call[c].pc = "holding" =>
                              call[c].child \notin Pooled \cap inUse' \/ phase # "open",
           inUse' \subseteq inUse,
           \A x \in Pooled : x \in inUse \ inUse' =>
               \E c \in S : call[c].pc = "holding" /\ call[c].child = x,
           Pooled' = Pooled, waiters' = waiters \/ waiters' = <<>>,
           \A c \in Caller \ S : call[c].pc = "waiting" /\ c \in Queued => c \in Queued',
           phase' = phase \/ (phase = "open" /\ phase' = "closing" /\ waiters' = <<>>),
           Harmless(micro'),
           UNCHANGED <<conv, live, retiring, inflight, stage, joiners, creators, teardown, owner>>
    PROVE  LeaseInv'
  <1> USE DEF LeaseInv
  <1>1. \A j : Absent(j)' = Absent(j)
    BY DEF Absent
  <1>2. \A c \in S : call'[c].pc = "idle" /\ call'[c].conv = None /\ call'[c].child = None
    BY DEF IdleCall
  <1>3. phase' = "open" => phase = "open"
    OBVIOUS
  <1>4. OneCaller'
    BY <1>2 DEF OneCaller
  <1>5. CreationsOwned'
    <2>1. ASSUME NEW k \in Conv, inflight[k] # None, NEW c \in Caller, Awaits(c, k)
          PROVE  Awaits(c, k)'
      <3>1. c \notin S
        BY <2>1 DEF Awaits
      <3> QED BY <2>1, <3>1 DEF Awaits
    <2> QED BY <1>1, <2>1 DEF CreationsOwned
  <1>6. NoEntryYet'
    BY <1>1, <1>2 DEF NoEntryYet
  <1>7. ResetsOwned'
    BY <1>2 DEF ResetsOwned
  <1>8. MicroSound'
    BY HarmlessFacts DEF MicroSound
  <1>9. EvictionsOwned'
    <2>1. \A c \in S, x \in Child : teardown[x] # c
      BY DEF EvictionsOwned
    <2> QED BY <1>2, <2>1, HarmlessFacts DEF EvictionsOwned
  <1>10. LeasesSound'
    <2> SUFFICES ASSUME NEW c \in Caller, call'[c].pc = "holding"
                 PROVE  /\ call'[c].child \in Child /\ stage[call'[c].child] = "none"
                        /\ call'[c].child \in Pooled => conv[call'[c].child] = call'[c].conv
                        /\ \A d \in Caller : call'[d].pc = "holding" /\ call'[d].child = call'[c].child => d = c
                        /\ \/ call'[c].child \in Pooled \cap inUse'
                           \/ call'[c].child \in retiring \/ call'[c].child \notin live
                           \/ phase' # "open"
      BY DEF LeasesSound
    <2>1. c \notin S /\ call'[c] = call[c] /\ call[c].pc = "holding"
      BY <1>2
    <2>2. \A d \in Caller : call'[d].pc = "holding" => call[d] = call'[d]
      BY <1>2
    <2>3. call[c].child \in Pooled \cap inUse => call[c].child \in inUse'
      BY <2>1 DEF LeasesSound
    <2> QED BY <1>3, <2>1, <2>2, <2>3 DEF LeasesSound
  <1>11. UsedHeld'
    <2>1. ASSUME phase' = "open", NEW x \in Pooled, x \in inUse'
          PROVE  \E c \in Caller : call'[c].pc = "holding" /\ call'[c].child = x
      <3>1. PICK c \in Caller : call[c].pc = "holding" /\ call[c].child = x
        BY <1>3, <2>1 DEF UsedHeld
      <3>2. c \notin S
        BY <1>3, <2>1, <3>1
      <3> QED BY <3>1, <3>2
    <2> QED BY <2>1 DEF UsedHeld
  <1>12. OwnersSound'
    BY <1>3 DEF OwnersSound, EntryOwned
  <1>13. PhaseSound'
    <2>1. phase' # "open" => waiters' = <<>>
      BY DEF PhaseSound
    <2>2. \A x \in Child : teardown[x] = "final" => phase' = "teardown"
      BY DEF PhaseSound
    <2>3. phase' \in {"teardown", "closed"} => phase' = phase
      OBVIOUS
    <2> QED BY <1>2, <2>1, <2>2, <2>3 DEF PhaseSound
  <1>14. CallsAccounted'
    <2> SUFFICES ASSUME NEW d \in Caller \ S
                 PROVE  /\ call'[d].pc \notin {"joining", "drainJoining"}
                        /\ call'[d].pc = "waiting" => d \in Queued'
                        /\ call'[d].pc \in Creator => inflight'[call'[d].conv] # None
                        /\ call'[d].pc = "evicting" => \E y \in Child : teardown'[y] = d
      BY <1>2 DEF CallsAccounted, Creator
    <2> QED BY DEF CallsAccounted, Wakes
  <1> QED BY <1>4, <1>5, <1>6, <1>7, <1>8, <1>9, <1>10, <1>11, <1>12, <1>13, <1>14

\* A call for k joins the queue, or evicts to make room.
LEMMA CallStarts ==
    ASSUME Inv, LeaseInv, NEW c \in Caller, NEW k \in Conv, NEW pc \in {"waiting", "evicting"},
           call[c].pc = "idle", \A d \in Caller : call[d].conv # k, phase = "open", micro = <<>>,
           Absent(k), SetCall(c, pc, k, None), pc = "waiting" => c \in Queued',
           Queued \subseteq Queued', micro' = IF pc = "evicting" THEN <<EvictTask(c)>> ELSE <<>>,
           Pooled' = Pooled,
           UNCHANGED <<conv, live, inUse, retiring, inflight, stage, joiners, creators, teardown,
                       owner, phase>>
    PROVE  LeaseInv'
  <1> USE DEF LeaseInv
  <1>1. call' = [call EXCEPT ![c] = [pc |-> pc, conv |-> k, child |-> None]]
    BY DEF SetCall
  <1>2. /\ call'[c].pc = pc /\ call'[c].conv = k /\ call'[c].child = None
        /\ \A d \in Caller : d # c => call'[d] = call[d]
    BY <1>1 DEF Inv, TypeOK
  <1>3. \A j : Absent(j)' = Absent(j)
    BY DEF Absent
  <1>4. OneCaller'
    BY <1>2 DEF OneCaller
  <1>5. CreationsOwned'
    <2>1. \A j \in Conv, d \in Caller : Awaits(d, j) => d # c /\ Awaits(d, j)'
      BY <1>2 DEF Awaits, Creator
    <2> QED BY <1>3, <2>1 DEF CreationsOwned
  <1>6. NoEntryYet'
    BY <1>2, <1>3 DEF NoEntryYet
  <1>7. ResetsOwned'
    BY <1>2 DEF ResetsOwned
  <1>8. EvictTask(c) \in Task /\ EvictTask(c).op # "rejectFor"
    BY DEF EvictTask, Task, Evictor
  <1>9. MicroSound'
    BY <1>8, TasksDiffer DEF MicroSound
  <1>10. EvictionsOwned'
    <2>1. \A x \in Child : teardown[x] # c
      BY DEF EvictionsOwned
    <2>2. \A d \in Caller : /\ micro' = <<EvictTask(d)>> => d = c /\ pc = "evicting"
                            /\ micro' # <<CreateTask(d)>>
      BY TasksDiffer
    <2> QED BY <1>2, <2>1, <2>2 DEF EvictionsOwned
  <1>11. LeasesSound'
    BY <1>2 DEF LeasesSound
  <1>12. UsedHeld'
    BY <1>2 DEF UsedHeld
  <1>13. OwnersSound'
    BY DEF OwnersSound, EntryOwned
  <1>14. PhaseSound'
    BY DEF PhaseSound
  <1>15. CallsAccounted'
    <2>1. \A d \in Caller : ~Wakes(micro, d)
      BY TasksDiffer DEF Wakes
    <2>2. ASSUME NEW d \in Caller, d # c
          PROVE  /\ call'[d].pc \notin {"joining", "drainJoining"}
                 /\ call'[d].pc = "waiting" => d \in Queued'
                 /\ call'[d].pc \in Creator => inflight'[call'[d].conv] # None
                 /\ call'[d].pc = "evicting" => \E y \in Child : teardown'[y] = d
      BY <1>2, <2>1, <2>2 DEF CallsAccounted, Wakes
    <2> QED BY <1>2, <2>2 DEF CallsAccounted, Creator
  <1> QED BY <1>4, <1>5, <1>6, <1>7, <1>9, <1>10, <1>11, <1>12, <1>13, <1>14, <1>15

\* Caller c starts the creation of the child x for its conversation k.
LEMMA CreationStarts ==
    ASSUME Inv, LeaseInv, NEW c \in Caller, NEW k \in Conv, NEW pc \in Creator, NEW x \in Fresh,
           call[c].pc \in {"idle", "waiting", "evicting"},
           call[c].pc = "evicting" => \A y \in Child : teardown[y] # c,
           \A d \in Caller : d # c => call[d].conv # k, Absent(k), inflight[k] = None,
           phase = "open", SetCall(c, pc, k, None),
           creators' = [creators EXCEPT ![k] = Append(@, c)],
           inflight' = [inflight EXCEPT ![k] = x], stage' = [stage EXCEPT ![x] = "factory"],
           conv' = [conv EXCEPT ![x] = k], live' = live \cup {x},
           Queued \ {c} \subseteq Queued', Harmless(micro'), Pooled' = Pooled,
           \A d \in Caller : d # c => ~Wakes(micro, d),
           UNCHANGED <<inUse, retiring, joiners, teardown, owner, phase>>
    PROVE  LeaseInv'
  <1> USE DEF LeaseInv
  <1>1. call' = [call EXCEPT ![c] = [pc |-> pc, conv |-> k, child |-> None]]
    BY DEF SetCall
  <1>2. /\ call'[c].pc = pc /\ call'[c].conv = k /\ call'[c].child = None
        /\ \A d \in Caller : d # c => call'[d] = call[d]
    BY <1>1 DEF Inv, TypeOK
  <1>3. /\ x \in Child /\ x \notin Pooled /\ x \notin live /\ teardown[x] = "none" /\ stage[x] = "none"
        /\ \A d \in Caller : call[d].child # x
        /\ \A j \in Conv : owner[j] # x
    BY DEF Fresh
  <1>4. k # None /\ x # None
    BY <1>3, PoolAssumption
  <1>5. /\ conv'[x] = k /\ \A y \in Child : y # x => conv'[y] = conv[y]
        /\ stage'[x] = "factory" /\ \A y \in Child : y # x => stage'[y] = stage[y]
        /\ inflight'[k] = x /\ \A j \in Conv : j # k => inflight'[j] = inflight[j]
        /\ \A j \in Conv : j # k => creators'[j] = creators[j]
    BY <1>3 DEF Inv, TypeOK
  <1>6. creators'[k] = <<c>>
    <2>1. creators[k] = <<>> /\ creators'[k] = Append(creators[k], c)
      BY DEF CreationsOwned, Inv, TypeOK
    <2> QED BY <2>1
  <1>7. \A j \in Conv : Absent(j)' = Absent(j)
    BY <1>3, <1>5, PoolFacts DEF Absent
  <1>8. pc \notin {"waiting", "evicting", "resetting", "holding", "idle", "joining", "drainJoining"}
    BY DEF Creator
  <1>9. OneCaller'
    BY <1>2, <1>4 DEF OneCaller
  <1>10. CreationsOwned'
    <2>1. ASSUME NEW j \in Conv, j # k, inflight[j] # None
          PROVE  /\ conv'[inflight[j]] = j /\ stage'[inflight[j]] # "none"
                 /\ \E d \in Caller : Awaits(d, j)'
      <3>1. inflight[j] \in Child /\ inflight[j] # x
        BY <1>3, <2>1 DEF CreationsOwned, Inv, TypeOK
      <3>2. PICK d \in Caller : Awaits(d, j)
        BY <2>1 DEF CreationsOwned
      <3>3. d # c
        BY <3>2 DEF Awaits, Creator
      <3>4. Awaits(d, j)'
        BY <1>2, <1>5, <2>1, <3>2, <3>3 DEF Awaits
      <3> QED BY <1>5, <2>1, <3>1, <3>4 DEF CreationsOwned
    <2>2. Awaits(c, k)'
      BY <1>2, <1>6 DEF Awaits
    <2>3. \A j \in Conv : joiners'[j] = <<>>
      BY DEF CreationsOwned
    <2>4. conv'[inflight'[k]] = k /\ stage'[inflight'[k]] # "none" /\ Absent(k)' /\ inflight'[k] # None
      BY <1>4, <1>5, <1>7
    <2>5. ASSUME NEW j \in Conv
          PROVE  /\ joiners'[j] = <<>>
                 /\ inflight'[j] = None => creators'[j] = <<>>
                 /\ inflight'[j] # None =>
                      /\ conv'[inflight'[j]] = j /\ stage'[inflight'[j]] # "none"
                      /\ Absent(j)' /\ \E d \in Caller : Awaits(d, j)'
      <3>1. CASE j = k
        BY <2>2, <2>3, <2>4, <3>1
      <3>2. CASE j # k
        BY <1>5, <1>7, <2>1, <2>3, <3>2 DEF CreationsOwned
      <3> QED BY <3>1, <3>2
    <2> QED BY <2>5 DEF CreationsOwned
  <1>11. NoEntryYet'
    <2>1. ASSUME NEW d \in Caller, call'[d].pc \in {"evicting", "resetting"}
          PROVE  \A y \in Pooled' : conv'[y] # call'[d].conv
      <3>1. d # c /\ call'[d] = call[d]
        BY <1>2, <1>8, <2>1
      <3>2. call[d].conv \in Conv
        BY <2>1, <3>1 DEF Inv, CallsNamed
      <3> QED BY <1>7, <2>1, <3>1, <3>2 DEF NoEntryYet, Absent
    <2> QED BY <2>1 DEF NoEntryYet, Absent
  <1>12. ResetsOwned'
    BY <1>2, <1>3, <1>5, <1>8 DEF ResetsOwned
  <1>13. MicroSound'
    BY HarmlessFacts DEF MicroSound
  <1>14. EvictionsOwned'
    BY <1>2, HarmlessFacts DEF EvictionsOwned
  <1>15. LeasesSound'
    BY <1>2, <1>3, <1>5, <1>8 DEF LeasesSound
  <1>16. UsedHeld'
    BY <1>2, <1>8 DEF UsedHeld
  <1>17. OwnersSound'
    BY <1>3, <1>5, PoolFacts DEF OwnersSound, EntryOwned
  <1>18. PhaseSound'
    BY DEF PhaseSound
  <1>19. CallsAccounted'
    <2>1. ASSUME NEW d \in Caller, d # c
          PROVE  /\ call'[d].pc \notin {"joining", "drainJoining"}
                 /\ call'[d].pc = "waiting" => d \in Queued'
                 /\ call'[d].pc \in Creator => inflight'[call'[d].conv] # None
                 /\ call'[d].pc = "evicting" => \E y \in Child : teardown'[y] = d
      <3>1. call'[d] = call[d] /\ ~Wakes(micro, d) /\ call[d].conv # k
        BY <1>2, <2>1
      <3>2. call[d].pc \in Creator => call[d].conv \in Conv
        BY DEF Inv, CallsNamed, Creator
      <3> QED BY <1>5, <2>1, <3>1, <3>2 DEF CallsAccounted, Wakes
    <2> QED BY <1>2, <1>4, <1>5, <1>8, <2>1 DEF CallsAccounted
  <1> QED BY <1>9, <1>10, <1>11, <1>12, <1>13, <1>14, <1>15, <1>16, <1>17, <1>18, <1>19

\* The conversation of a creation has one caller, which it wakes.
LEMMA SettleWakes ==
    ASSUME Inv, LeaseInv, NEW k \in Conv, inflight[k] # None, NEW x, Settle(k, x)
    PROVE  \E c \in Caller :
             /\ call[c].conv = k /\ call[c].pc \in Creator /\ micro' = <<ResumeTask(c, x)>>
             /\ inflight'[k] = None /\ \A j \in Conv : j # k => inflight'[j] = inflight[j]
             /\ creators'[k] = <<>> /\ \A j \in Conv : j # k => creators'[j] = creators[j]
             /\ \A j \in Conv : joiners'[j] = <<>>
  <1> DEFINE queue == joiners[k] \o creators[k]
  <1>1. PICK c \in Caller : Awaits(c, k)
    BY DEF LeaseInv, CreationsOwned
  <1>2. joiners[k] = <<>> /\ creators[k] = <<c>>
    BY <1>1 DEF Awaits, LeaseInv, CreationsOwned
  <1>3. queue = <<c>>
    BY <1>2
  <1>4. micro' = [i \in DOMAIN queue |-> ResumeTask(queue[i], x)]
    BY DEF Settle
  <1> HIDE DEF queue
  <1>5. micro' = <<ResumeTask(c, x)>>
    BY <1>3, <1>4
  <1>6. /\ inflight'[k] = None /\ \A j \in Conv : j # k => inflight'[j] = inflight[j]
        /\ creators'[k] = <<>> /\ \A j \in Conv : j # k => creators'[j] = creators[j]
        /\ \A j \in Conv : joiners'[j] = <<>>
    BY DEF Settle, Inv, TypeOK, LeaseInv, CreationsOwned
  <1> QED BY <1>1, <1>5, <1>6 DEF Awaits

\* The creation of x rejects, and its caller will be told.
LEMMA CreationFails ==
    ASSUME Inv, LeaseInv, micro = <<>>, NEW x \in Child, stage[x] # "none", live' \subseteq live,
           Recycle(x), stage' = [stage EXCEPT ![x] = "none"], Settle(conv[x], None),
           Pooled' = Pooled, UNCHANGED <<teardown, waiters, call, owner, phase>>
    PROVE  LeaseInv'
  <1> USE DEF LeaseInv
  <1> DEFINE k == conv[x]
  <1>1. k \in Conv /\ inflight[k] = x /\ inflight[k] # None
    BY PoolAssumption DEF Inv, SlotInv, CreatingReserved
  <1>2. PICK c \in Caller :
             /\ call[c].conv = k /\ call[c].pc \in Creator /\ micro' = <<ResumeTask(c, None)>>
             /\ inflight'[k] = None /\ \A j \in Conv : j # k => inflight'[j] = inflight[j]
             /\ creators'[k] = <<>> /\ \A j \in Conv : j # k => creators'[j] = creators[j]
             /\ \A j \in Conv : joiners'[j] = <<>>
    BY <1>1, SettleWakes
  <1>3. /\ \A y \in Child : y # x => conv'[y] = conv[y] /\ stage'[y] = stage[y]
        /\ \A y : y # x => (y \in inUse' <=> y \in inUse) /\ (y \in retiring' <=> y \in retiring)
        /\ stage'[x] = "none" /\ inUse' \subseteq inUse /\ retiring' \subseteq retiring
    BY DEF Recycle, Inv, TypeOK
  <1>4. /\ x \notin Pooled /\ teardown[x] = "none"
    BY PoolFacts DEF Inv, SlotInv, TornSettled
  <1>5. /\ \A d \in Caller : call[d].pc = "holding" => call[d].child # x
        /\ \A d \in Caller : call[d].pc = "resetting" => call[d].child # x
        /\ \A j \in Conv : owner[j] # x
    BY <1>4 DEF LeasesSound, ResetsOwned, OwnersSound
  <1>6. \A j : Absent(j)' = Absent(j)
    BY <1>3, <1>4, PoolFacts DEF Absent
  <1>7. OneCaller'
    BY DEF OneCaller
  <1>8. CreationsOwned'
    <2>1. ASSUME NEW j \in Conv, j # k, inflight[j] # None
          PROVE  conv'[inflight[j]] = j /\ stage'[inflight[j]] # "none"
      <3>1. inflight[j] \in Child /\ inflight[j] # x
        BY <2>1 DEF CreationsOwned, Inv, TypeOK
      <3> QED BY <1>3, <2>1, <3>1 DEF CreationsOwned
    <2>2. \A j \in Conv, d \in Caller : j # k /\ Awaits(d, j) => Awaits(d, j)'
      BY <1>2 DEF Awaits
    <2>3. ASSUME NEW j \in Conv
          PROVE  /\ joiners'[j] = <<>>
                 /\ inflight'[j] = None => creators'[j] = <<>>
                 /\ inflight'[j] # None =>
                      /\ conv'[inflight'[j]] = j /\ stage'[inflight'[j]] # "none"
                      /\ Absent(j)' /\ \E d \in Caller : Awaits(d, j)'
      <3>1. CASE j = k
        BY <1>2, <3>1
      <3>2. CASE j # k
        BY <1>2, <1>6, <2>1, <2>2, <3>2 DEF CreationsOwned
      <3> QED BY <3>1, <3>2
    <2> QED BY <2>3 DEF CreationsOwned
  <1>9. NoEntryYet'
    BY <1>6 DEF NoEntryYet
  <1>10. ResetsOwned'
    BY <1>3, <1>5 DEF ResetsOwned
  <1>11. MicroSound'
    <2>1. ResumeTask(c, None) \in Task /\ ResumeTask(c, None).op # "rejectFor"
      BY DEF ResumeTask, Task
    <2> QED BY <1>2, <2>1, TasksDiffer DEF MicroSound
  <1>12. EvictionsOwned'
    BY <1>2, TasksDiffer DEF EvictionsOwned
  <1>13. LeasesSound'
    BY <1>3, <1>5 DEF LeasesSound
  <1>14. UsedHeld'
    BY <1>3 DEF UsedHeld
  <1>15. OwnersSound'
    BY <1>3, <1>4, <1>5, PoolFacts DEF OwnersSound, EntryOwned
  <1>16. PhaseSound'
    BY <1>1 DEF PhaseSound
  <1>17. CallsAccounted'
    <2>1. Queued' = Queued /\ \A d \in Caller : ~Wakes(micro, d)
      BY TasksDiffer DEF Queued, Wakes
    <2>2. ASSUME NEW d \in Caller
          PROVE  /\ call'[d].pc \notin {"joining", "drainJoining"}
                 /\ call'[d].pc = "waiting" => d \in Queued'
                 /\ call'[d].pc \in Creator => inflight'[call'[d].conv] # None \/ d = c
                 /\ call'[d].pc = "evicting" => \E y \in Child : teardown'[y] = d
      <3>1. d # c => call[d].conv # k
        BY <1>1, <1>2, PoolAssumption DEF OneCaller
      <3>2. call[d].pc \in Creator => call[d].conv \in Conv
        BY DEF Inv, CallsNamed, Creator
      <3> QED BY <1>2, <2>1, <3>1, <3>2 DEF CallsAccounted, Wakes
    <2> QED BY <1>2, <2>2 DEF CallsAccounted
  <1> QED BY <1>7, <1>8, <1>9, <1>10, <1>11, <1>12, <1>13, <1>14, <1>15, <1>16, <1>17

\* The created child x enters the Map, and its caller will take the lease.
LEMMA CreationDone ==
    ASSUME Inv, LeaseInv, micro = <<>>, NEW x \in Child, stage[x] # "none",
           owner' = [owner EXCEPT ![conv[x]] = x], Pooled' = Pooled \cup {x},
           inUse' = inUse \ {x}, retiring' = retiring \ {x},
           stage' = [stage EXCEPT ![x] = "none"], Settle(conv[x], x),
           UNCHANGED <<conv, live, teardown, waiters, call, phase>>
    PROVE  LeaseInv'
  <1> USE DEF LeaseInv
  <1> DEFINE k == conv[x]
  <1>1. k \in Conv /\ inflight[k] = x /\ inflight[k] # None /\ x # None
    BY PoolAssumption DEF Inv, SlotInv, CreatingReserved
  <1>2. PICK c \in Caller :
             /\ call[c].conv = k /\ call[c].pc \in Creator /\ micro' = <<ResumeTask(c, x)>>
             /\ inflight'[k] = None /\ \A j \in Conv : j # k => inflight'[j] = inflight[j]
             /\ creators'[k] = <<>> /\ \A j \in Conv : j # k => creators'[j] = creators[j]
             /\ \A j \in Conv : joiners'[j] = <<>>
    BY <1>1, SettleWakes
  <1>3. /\ \A y \in Child : y # x => stage'[y] = stage[y]
        /\ stage'[x] = "none" /\ owner'[k] = x /\ \A j \in Conv : j # k => owner'[j] = owner[j]
    BY <1>1 DEF Inv, TypeOK
  <1>4. /\ x \notin Pooled /\ teardown[x] = "none" /\ Absent(k)
    BY <1>1, PoolFacts DEF Inv, SlotInv, TornSettled, CreationsOwned
  <1>5. /\ \A d \in Caller : call[d].pc = "holding" => call[d].child # x
        /\ \A j \in Conv : owner[j] # x
    BY <1>4 DEF LeasesSound, OwnersSound
  <1>6. \A j : j # k => Absent(j)' = Absent(j)
    BY DEF Absent
  <1>7. OneCaller'
    BY DEF OneCaller
  <1>18. \A d \in Caller : d # c => call[d].conv # k
    BY <1>1, <1>2, PoolAssumption DEF OneCaller
  <1>8. CreationsOwned'
    <2>1. ASSUME NEW j \in Conv, j # k, inflight[j] # None
          PROVE  conv'[inflight[j]] = j /\ stage'[inflight[j]] # "none"
      <3>1. inflight[j] \in Child /\ inflight[j] # x
        BY <2>1 DEF CreationsOwned, Inv, TypeOK
      <3> QED BY <1>3, <2>1, <3>1 DEF CreationsOwned
    <2>2. \A j \in Conv, d \in Caller : j # k /\ Awaits(d, j) => Awaits(d, j)'
      BY <1>2 DEF Awaits
    <2>3. ASSUME NEW j \in Conv
          PROVE  /\ joiners'[j] = <<>>
                 /\ inflight'[j] = None => creators'[j] = <<>>
                 /\ inflight'[j] # None =>
                      /\ conv'[inflight'[j]] = j /\ stage'[inflight'[j]] # "none"
                      /\ Absent(j)' /\ \E d \in Caller : Awaits(d, j)'
      <3>1. CASE j = k
        BY <1>2, <3>1
      <3>2. CASE j # k
        BY <1>2, <1>6, <2>1, <2>2, <3>2 DEF CreationsOwned
      <3> QED BY <3>1, <3>2
    <2> QED BY <2>3 DEF CreationsOwned
  <1>9. NoEntryYet'
    <2>1. call[c].pc \notin {"evicting", "resetting"}
      BY <1>2 DEF Creator
    <2> QED BY <1>6, <1>18, <2>1 DEF NoEntryYet
  <1>10. ResetsOwned'
    BY DEF ResetsOwned
  <1>11. MicroSound'
    <2>1. ResumeTask(c, x) \in Task /\ ResumeTask(c, x).op # "rejectFor"
      BY DEF ResumeTask, Task
    <2> QED BY <1>2, <2>1, TasksDiffer DEF MicroSound
  <1>12. EvictionsOwned'
    BY <1>2, TasksDiffer DEF EvictionsOwned
  <1>13. LeasesSound'
    BY <1>3, <1>5 DEF LeasesSound
  <1>14. UsedHeld'
    BY DEF UsedHeld
  <1>15. OwnersSound'
    BY <1>1, <1>3, <1>4, <1>5, PoolFacts DEF OwnersSound, EntryOwned, Absent
  <1>16. PhaseSound'
    BY <1>1 DEF PhaseSound
  <1>17. CallsAccounted'
    <2>1. Queued' = Queued /\ \A d \in Caller : ~Wakes(micro, d)
      BY TasksDiffer DEF Queued, Wakes
    <2>2. ASSUME NEW d \in Caller
          PROVE  /\ call'[d].pc \notin {"joining", "drainJoining"}
                 /\ call'[d].pc = "waiting" => d \in Queued'
                 /\ call'[d].pc \in Creator => inflight'[call'[d].conv] # None \/ d = c
                 /\ call'[d].pc = "evicting" => \E y \in Child : teardown'[y] = d
      <3>2. call[d].pc \in Creator => call[d].conv \in Conv
        BY DEF Inv, CallsNamed, Creator
      <3> QED BY <1>2, <1>18, <2>1, <3>2 DEF CallsAccounted, Wakes
    <2> QED BY <1>2, <2>2 DEF CallsAccounted
  <1> QED BY <1>7, <1>8, <1>9, <1>10, <1>11, <1>12, <1>13, <1>14, <1>15, <1>16, <1>17

\* The entry x leaves the Map, and `by' awaits its teardown; a reset that
\* retired it waits for it as well.
LEMMA EntryLeaves ==
    ASSUME Inv, LeaseInv, NEW x \in Pooled, NEW by \in Counted, Pooled' = Pooled \ {x},
           teardown' = [teardown EXCEPT ![x] = by],
           by \in Caller => call[by].pc = "evicting" /\ \A y \in Child : teardown[y] # by,
           \/ x \notin inUse /\ inUse' = inUse /\ retiring' = retiring
           \/ inUse' = inUse \ {x} /\ retiring' = retiring \cup {x},
           \/ call' = call
           \/ \E c \in Caller : /\ by = "retire" /\ call[c].pc = "idle"
                                /\ \A d \in Caller : call[d].conv # conv[x]
                                /\ SetCall(c, "resetting", conv[x], x),
           Harmless(micro'), \A d \in Caller : d # by => ~Wakes(micro, d),
           UNCHANGED <<conv, live, inflight, stage, joiners, creators, waiters, owner, phase>>
    PROVE  LeaseInv'
  <1> USE DEF LeaseInv
  <1> DEFINE k == conv[x]
  <1>1. x \in Child /\ k \in Conv /\ k # None /\ teardown[x] = "none" /\ stage[x] = "none"
        /\ by # "none" /\ by # "final" /\ x \notin retiring
    BY PoolFacts, PoolAssumption DEF Counted, Evictor, UsedHeld
  <1>2. teardown'[x] = by /\ \A y \in Child : y # x => teardown'[y] = teardown[y]
    BY <1>1 DEF Inv, TypeOK
  <1>3. ASSUME NEW d \in Caller
        PROVE  \/ call'[d] = call[d]
               \/ /\ by = "retire" /\ call[d].pc = "idle" /\ call'[d].pc = "resetting"
                  /\ call'[d].conv = k /\ call'[d].child = x
                  /\ \A e \in Caller : call[e].conv # k /\ (e # d => call'[e] = call[e])
    BY DEF SetCall, Inv, TypeOK
  <1>4. /\ \A j : Absent(j) => Absent(j)'
        /\ Absent(k)'
    BY PoolFacts DEF Absent
  <1>5. OneCaller'
    BY <1>1, <1>3 DEF OneCaller
  <1>6. CreationsOwned'
    <2>1. \A j \in Conv, d \in Caller : Awaits(d, j) => Awaits(d, j)'
      BY <1>3 DEF Awaits, Creator
    <2> QED BY <1>4, <2>1 DEF CreationsOwned
  <1>7. NoEntryYet'
    <2>1. ASSUME NEW d \in Caller, call'[d].pc \in {"evicting", "resetting"}
          PROVE  \A y \in Pooled' : conv'[y] # call'[d].conv
      <3>1. CASE call'[d] = call[d]
        BY <1>4, <2>1, <3>1 DEF NoEntryYet, Absent
      <3>2. CASE call'[d].conv = k
        BY <1>4, <3>2 DEF Absent
      <3> QED BY <1>3, <3>1, <3>2
    <2> QED BY <2>1 DEF NoEntryYet, Absent
  <1>8. ResetsOwned'
    <2>1. ASSUME NEW d \in Caller, call'[d].pc = "resetting"
          PROVE  /\ call'[d].child \in Child
                 /\ teardown'[call'[d].child] = "retire" /\ conv'[call'[d].child] = call'[d].conv
      <3>1. CASE call'[d] = call[d]
        BY <1>1, <1>2, <2>1, <3>1 DEF ResetsOwned
      <3>2. CASE call'[d].conv = k /\ call'[d].child = x /\ by = "retire"
        BY <1>1, <1>2, <3>2
      <3> QED BY <1>3, <3>1, <3>2
    <2> QED BY <2>1 DEF ResetsOwned
  <1>9. MicroSound'
    BY HarmlessFacts DEF MicroSound
  <1>10. EvictionsOwned'
    <2>1. ASSUME NEW d \in Caller
          PROVE  /\ \A y \in Child : teardown'[y] = d => call'[d].pc = "evicting"
                 /\ \A y, z \in Child : teardown'[y] = d /\ teardown'[z] = d => y = z
      <3>1. call[d].pc = "evicting" => call'[d] = call[d]
        BY <1>3
      <3>2. "retire" \notin Caller
        BY PoolAssumption
      <3> QED BY <1>2, <3>1, <3>2 DEF EvictionsOwned
    <2> QED BY <2>1, HarmlessFacts DEF EvictionsOwned
  <1>11. LeasesSound'
    <2>1. \A d \in Caller : call'[d].pc = "holding" => call'[d] = call[d]
      BY <1>3
    <2>2. ASSUME NEW d \in Caller, call[d].pc = "holding"
          PROVE  \/ call[d].child \in Pooled' \cap inUse'
                 \/ call[d].child \in retiring' \/ call[d].child \notin live
                 \/ phase # "open"
      BY <1>1, <2>2 DEF LeasesSound
    <2> QED BY <2>1, <2>2 DEF LeasesSound
  <1>12. UsedHeld'
    <2>1. \A d \in Caller : call[d].pc = "holding" => call'[d] = call[d]
      BY <1>3
    <2> QED BY <1>1, <2>1 DEF UsedHeld
  <1>13. OwnersSound'
    BY <1>1, <1>2 DEF OwnersSound, EntryOwned
  <1>14. PhaseSound'
    <2>1. phase \notin {"teardown", "closed"}
      BY DEF PhaseSound
    <2> QED BY <1>1, <1>2, <2>1 DEF PhaseSound
  <1>15. CallsAccounted'
    <2>1. Queued' = Queued
      BY DEF Queued
    <2>2. ASSUME NEW d \in Caller
          PROVE  /\ call'[d].pc \notin {"joining", "drainJoining"}
                 /\ call'[d].pc = "waiting" => d \in Queued'
                 /\ call'[d].pc \in Creator => inflight'[call'[d].conv] # None
                 /\ call'[d].pc = "evicting" => \E y \in Child : teardown'[y] = d
      <3>1. CASE call'[d].pc = "resetting"
        BY <3>1 DEF Creator
      <3>2. CASE call'[d].pc # "resetting"
        <4>1. call'[d] = call[d]
          BY <1>3, <3>2
        <4>2. CASE d = by
          BY <1>1, <1>2, <4>1, <4>2 DEF Creator
        <4>3. CASE d # by
          <5>1. ~Wakes(micro, d)
            BY <4>3
          <5>2. \A y \in Child : teardown[y] = d => teardown'[y] = d
            BY <1>1, <1>2, PoolAssumption
          <5> QED BY <2>1, <4>1, <5>1, <5>2 DEF CallsAccounted, Wakes
        <4> QED BY <4>2, <4>3
      <3> QED BY <3>1, <3>2
    <2> QED BY <2>2 DEF CallsAccounted
  <1> QED BY <1>5, <1>6, <1>7, <1>8, <1>9, <1>10, <1>11, <1>12, <1>13, <1>14, <1>15

\* The teardown of x succeeds: whoever evicted it goes on, and a reset that
\* waited for it has deleted the row.
LEMMA EntryGone ==
    ASSUME Inv, LeaseInv, micro = <<>>, NEW x \in Child, teardown[x] # "none", live' \subseteq live,
           teardown' = [teardown EXCEPT ![x] = "none"], Recycle(x), Pooled' = Pooled,
           \A c \in Caller : call'[c] = IF call[c].pc = "resetting" /\ call[c].child = x
                                        THEN IdleCall ELSE call[c],
           \/ ReleaseOwnership(x)
           \/ /\ owner' = [owner EXCEPT ![conv[x]] = "noRow"]
              /\ \E c \in Caller : call[c].pc = "resetting" /\ call[c].child = x,
           teardown[x] \in Caller => micro' = <<CreateTask(teardown[x])>>,
           teardown[x] \notin Caller => Harmless(micro'),
           UNCHANGED <<inflight, stage, joiners, creators, waiters, phase>>
    PROVE  LeaseInv'
  <1> USE DEF LeaseInv
  <1> DEFINE k == conv[x]
  <1> DEFINE by == teardown[x]
  <1>1. k \in Conv /\ stage[x] = "none" /\ x \notin Pooled
    BY PoolFacts DEF Inv, SlotInv, TornSettled
  <1>2. teardown'[x] = "none" /\ \A y \in Child : y # x => teardown'[y] = teardown[y]
    BY DEF Inv, TypeOK
  <1>3. /\ \A y \in Child : y # x => conv'[y] = conv[y]
        /\ \A y : y # x => (y \in inUse' <=> y \in inUse) /\ (y \in retiring' <=> y \in retiring)
        /\ inUse' \subseteq inUse /\ retiring' \subseteq retiring
        /\ x \in live' => x \in retiring' <=> x \in retiring
    BY DEF Recycle, Inv, TypeOK
  <1>4. \A j : Absent(j)' = Absent(j)
    BY <1>1, <1>3, PoolFacts DEF Absent
  <1>5. \A d \in Caller : \/ call'[d] = call[d] /\ ~(call[d].pc = "resetting" /\ call[d].child = x)
                          \/ /\ call[d].pc = "resetting" /\ call[d].child = x
                             /\ call'[d].pc = "idle" /\ call'[d].conv = None
    BY DEF IdleCall
  <1>6. \/ owner' = owner /\ owner[k] # x
        \/ /\ owner'[k] \in {"free", "noRow"} /\ \A j \in Conv : j # k => owner'[j] = owner[j]
           /\ owner[k] = x \/ Absent(k)
    <2>1. CASE ReleaseOwnership(x)
      BY <1>1, <2>1 DEF ReleaseOwnership, Inv, TypeOK
    <2>2. CASE /\ owner' = [owner EXCEPT ![conv[x]] = "noRow"]
               /\ \E c \in Caller : call[c].pc = "resetting" /\ call[c].child = x
      <3>1. Absent(k)
        BY <2>2 DEF ResetsOwned, NoEntryYet
      <3> QED BY <1>1, <2>2, <3>1 DEF Inv, TypeOK
    <2> QED BY <2>1, <2>2
  <1>7. OneCaller'
    BY <1>5 DEF OneCaller
  <1>8. CreationsOwned'
    <2>1. ASSUME NEW j \in Conv, inflight[j] # None
          PROVE  conv'[inflight[j]] = j
      <3>1. inflight[j] \in Child /\ inflight[j] # x
        BY <1>1, <2>1 DEF CreationsOwned, Inv, TypeOK
      <3> QED BY <1>3, <2>1, <3>1 DEF CreationsOwned
    <2>2. \A j \in Conv, d \in Caller : Awaits(d, j) => Awaits(d, j)'
      BY <1>5 DEF Awaits, Creator
    <2> QED BY <1>4, <2>1, <2>2 DEF CreationsOwned
  <1>9. NoEntryYet'
    BY <1>4, <1>5 DEF NoEntryYet
  <1>10. ResetsOwned'
    BY <1>2, <1>3, <1>5 DEF ResetsOwned
  <1>11. /\ micro' = <<>> \/ \E t \in Task : micro' = <<t>> /\ t.op # "rejectFor"
         /\ \A c, y : micro' # <<ResumeTask(c, y)>>
         /\ \A c \in Caller : micro' # <<EvictTask(c)>>
         /\ \A c \in Caller : micro' = <<CreateTask(c)>> => c = by
    <2>1. CASE by \in Caller
      <3>1. CreateTask(by) \in Task /\ CreateTask(by).op # "rejectFor"
        BY <2>1 DEF CreateTask, Task
      <3> QED BY <2>1, <3>1, TasksDiffer
    <2>2. CASE by \notin Caller
      BY <2>2, HarmlessFacts
    <2> QED BY <2>1, <2>2
  <1>12. MicroSound'
    BY <1>11 DEF MicroSound
  <1>13. EvictionsOwned'
    <2>1. ASSUME NEW d \in Caller
          PROVE  /\ \A y \in Child : teardown'[y] = d => call'[d].pc = "evicting"
                 /\ \A y, z \in Child : teardown'[y] = d /\ teardown'[z] = d => y = z
                 /\ micro' = <<CreateTask(d)>> =>
                      call'[d].pc = "evicting" /\ \A y \in Child : teardown'[y] # d
      <3>1. call[d].pc = "evicting" => call'[d] = call[d]
        BY <1>5
      <3>2. d # "none"
        BY PoolAssumption
      <3> QED BY <1>2, <1>11, <3>1, <3>2 DEF EvictionsOwned
    <2> QED BY <1>11, <2>1 DEF EvictionsOwned
  <1>14. LeasesSound'
    <2>1. \A d \in Caller : call'[d].pc = "holding" => call'[d] = call[d]
      BY <1>5
    <2>2. ASSUME NEW d \in Caller, call[d].pc = "holding"
          PROVE  /\ call[d].child \in Pooled => conv'[call[d].child] = call[d].conv
                 /\ \/ call[d].child \in Pooled \cap inUse'
                    \/ call[d].child \in retiring' \/ call[d].child \notin live'
                    \/ phase # "open"
      <3>1. CASE call[d].child = x
        BY <1>1, <1>3, <2>2, <3>1 DEF LeasesSound
      <3>2. CASE call[d].child # x
        BY <1>3, <2>2, <3>2 DEF LeasesSound
      <3> QED BY <3>1, <3>2
    <2> QED BY <2>1, <2>2 DEF LeasesSound
  <1>15. UsedHeld'
    <2>1. \A d \in Caller : call[d].pc = "holding" => call'[d] = call[d]
      BY <1>5
    <2> QED BY <1>3, <2>1 DEF UsedHeld
  <1>16. OwnersSound'
    <2>1. "free" \notin Child /\ "noRow" \notin Child
      BY PoolAssumption
    <2>2. \A y \in Pooled : y # x /\ conv'[y] = conv[y] /\ conv[y] \in Conv /\ y \in Child
      BY <1>1, <1>3, PoolFacts
    <2>3. EntryOwned'
      BY <1>1, <1>6, <2>2 DEF OwnersSound, EntryOwned, Absent
    <2>4. ASSUME NEW j \in Conv, owner'[j] \in Child
          PROVE  /\ conv'[owner'[j]] = j
                 /\ owner'[j] \in Pooled \/ teardown'[owner'[j]] # "none"
      <3>1. owner'[j] = owner[j] /\ owner[j] # x
        BY <1>6, <2>1, <2>4 DEF OwnersSound
      <3> QED BY <1>2, <1>3, <2>4, <3>1 DEF OwnersSound
    <2> QED BY <2>3, <2>4 DEF OwnersSound
  <1>17. PhaseSound'
    BY <1>2, <1>5 DEF PhaseSound
  <1>18. CallsAccounted'
    <2>1. Queued' = Queued /\ \A d \in Caller : ~Wakes(micro, d)
      BY TasksDiffer DEF Queued, Wakes
    <2>2. ASSUME NEW d \in Caller
          PROVE  /\ call'[d].pc \notin {"joining", "drainJoining"}
                 /\ call'[d].pc = "waiting" => d \in Queued'
                 /\ call'[d].pc \in Creator => inflight'[call'[d].conv] # None
                 /\ call'[d].pc = "evicting" =>
                      micro' = <<CreateTask(d)>> \/ \E y \in Child : teardown'[y] = d
      <3>1. CASE call'[d].pc = "idle"
        BY <3>1 DEF Creator
      <3>2. CASE call'[d].pc # "idle"
        <4>1. call'[d] = call[d]
          BY <1>5, <3>2
        <4> QED BY <1>2, <2>1, <4>1 DEF CallsAccounted, Wakes
      <3> QED BY <3>1, <3>2
    <2> QED BY <2>2 DEF CallsAccounted
  <1> QED BY <1>7, <1>8, <1>9, <1>10, <1>12, <1>13, <1>14, <1>15, <1>16, <1>17, <1>18

\* The process of the entry x dies, and the entry is forgotten.
LEMMA EntryDies ==
    ASSUME Inv, LeaseInv, micro = <<>>, NEW x \in Pooled, live' = live \ {x},
           Pooled' = Pooled \ {x}, Recycle(x), ReleaseOwnership(x), micro' = <<DrainTask>>,
           UNCHANGED <<inflight, stage, joiners, creators, teardown, waiters, call, phase>>
    PROVE  LeaseInv'
  <1> USE DEF LeaseInv
  <1> DEFINE k == conv[x]
  <1>1. x \in Child /\ k \in Conv /\ stage[x] = "none" /\ teardown[x] = "none"
    BY PoolFacts
  <1>2. /\ \A y \in Child : y # x => conv'[y] = conv[y]
        /\ \A y : y # x => (y \in inUse' <=> y \in inUse) /\ (y \in retiring' <=> y \in retiring)
    BY DEF Recycle, Inv, TypeOK
  <1>3. \A j : Absent(j) => Absent(j)'
    BY <1>2, PoolFacts DEF Absent
  <1>4. \/ owner' = owner /\ owner[k] # x
        \/ owner[k] = x /\ owner'[k] = "free" /\ \A j \in Conv : j # k => owner'[j] = owner[j]
    BY <1>1 DEF ReleaseOwnership, Inv, TypeOK
  <1>5. Harmless(micro')
    BY DEF Harmless
  <1>6. \A d \in Caller : ~Wakes(micro, d)
    BY TasksDiffer DEF Wakes
  <1>7. OneCaller'
    BY DEF OneCaller
  <1>8. CreationsOwned'
    <2>1. ASSUME NEW j \in Conv, inflight[j] # None
          PROVE  conv'[inflight[j]] = j
      <3>1. inflight[j] \in Child /\ inflight[j] # x
        BY <1>1, <2>1 DEF CreationsOwned, Inv, TypeOK
      <3> QED BY <1>2, <2>1, <3>1 DEF CreationsOwned
    <2> QED BY <1>3, <2>1 DEF CreationsOwned, Awaits
  <1>9. NoEntryYet'
    BY <1>3 DEF NoEntryYet
  <1>10. ResetsOwned'
    BY <1>1, <1>2 DEF ResetsOwned
  <1>11. MicroSound'
    BY <1>5, HarmlessFacts DEF MicroSound
  <1>12. EvictionsOwned'
    BY <1>5, HarmlessFacts DEF EvictionsOwned
  <1>13. LeasesSound'
    BY <1>2 DEF LeasesSound
  <1>14. UsedHeld'
    BY <1>2 DEF UsedHeld
  <1>15. OwnersSound'
    <2>1. "free" \notin Child
      BY PoolAssumption
    <2>2. EntryOwned'
      BY <1>2, <1>4, PoolFacts DEF OwnersSound, EntryOwned
    <2>3. ASSUME NEW j \in Conv, owner'[j] \in Child
          PROVE  /\ conv'[owner'[j]] = j
                 /\ owner'[j] \in Pooled' \/ teardown'[owner'[j]] # "none"
      <3>1. owner'[j] = owner[j] /\ owner[j] # x
        BY <1>4, <2>1, <2>3 DEF OwnersSound
      <3> QED BY <1>2, <2>3, <3>1 DEF OwnersSound
    <2> QED BY <2>2, <2>3 DEF OwnersSound
  <1>16. PhaseSound'
    BY DEF PhaseSound
  <1>17. CallsAccounted'
    <2>1. Queued' = Queued
      BY DEF Queued
    <2> QED BY <1>6, <2>1 DEF CallsAccounted, Wakes
  <1> QED BY <1>7, <1>8, <1>9, <1>10, <1>11, <1>12, <1>13, <1>14, <1>15, <1>16, <1>17

\* close() takes every entry out of the Map.
LEMMA EntriesLeave ==
    ASSUME Inv, LeaseInv, micro = <<>>, phase = "closing", phase' = "teardown", Pooled' = {},
           \A k \in Conv : inflight[k] = None, \A x \in Child : teardown[x] = "none",
           teardown' = [x \in Child |-> IF x \in Pooled THEN "final" ELSE teardown[x]],
           UNCHANGED <<conv, live, inUse, retiring, inflight, stage, joiners, creators, waiters,
                       call, owner, micro>>
    PROVE  LeaseInv'
  <1> USE DEF LeaseInv
  <1>1. \A x \in Child : /\ x \in Pooled => teardown'[x] = "final"
                         /\ x \notin Pooled => teardown'[x] = "none"
    OBVIOUS
  <1>2. \A j : Absent(j)'
    BY DEF Absent
  <1>3. \A c \in Caller : call[c].pc \in {"idle", "holding"}
    <2> TAKE c \in Caller
    <2>1. call[c].pc \in Pc /\ (call[c].pc \in Creator => call[c].conv \in Conv)
      BY DEF Inv, TypeOK, CallsNamed, Creator
    <2>2. call[c].pc # "waiting"
      BY QueuedFacts DEF CallsAccounted, PhaseSound
    <2>3. call[c].pc # "resetting"
      BY DEF ResetsOwned
    <2>4. ~Wakes(micro, c)
      BY TasksDiffer DEF Wakes
    <2>5. call[c].pc # "evicting"
      BY <2>4, PoolAssumption DEF CallsAccounted, Wakes
    <2>6. call[c].pc \notin Creator
      BY <2>1, <2>4 DEF CallsAccounted, Wakes
    <2> QED BY <2>1, <2>2, <2>3, <2>5, <2>6 DEF CallsAccounted, Pc, Creator
  <1>4. OneCaller'
    BY DEF OneCaller
  <1>5. CreationsOwned'
    BY DEF CreationsOwned
  <1>6. NoEntryYet' /\ ResetsOwned' /\ MicroSound'
    BY <1>3, TasksDiffer DEF NoEntryYet, ResetsOwned, MicroSound
  <1>7. EvictionsOwned'
    BY <1>1, TasksDiffer, PoolAssumption DEF EvictionsOwned
  <1>8. LeasesSound'
    BY DEF LeasesSound
  <1>9. UsedHeld'
    BY DEF UsedHeld
  <1>10. OwnersSound'
    BY <1>1 DEF OwnersSound, EntryOwned
  <1>11. PhaseSound'
    BY <1>1, <1>3 DEF PhaseSound
  <1>12. CallsAccounted'
    BY <1>3 DEF CallsAccounted, Creator
  <1> QED BY <1>4, <1>5, <1>6, <1>7, <1>8, <1>9, <1>10, <1>11, <1>12

\* A reset deletes the row of a conversation that has no entry.
LEMMA RowDeleted ==
    ASSUME Inv, LeaseInv, NEW k \in Conv, Absent(k), owner' = [owner EXCEPT ![k] = "noRow"],
           Pooled' = Pooled,
           UNCHANGED <<conv, live, inUse, retiring, inflight, stage, joiners, creators, teardown,
                       waiters, call, phase, micro>>
    PROVE  LeaseInv'
  <1> USE DEF LeaseInv
  <1>1. owner'[k] = "noRow" /\ \A j \in Conv : j # k => owner'[j] = owner[j]
    BY DEF Inv, TypeOK
  <1>2. \A j : Absent(j)' = Absent(j)
    BY DEF Absent
  <1>3. OwnersSound'
    BY <1>1, PoolFacts, PoolAssumption DEF OwnersSound, EntryOwned, Absent
  <1>4. Queued' = Queued
    BY DEF Queued
  <1>5. CreationsOwned' /\ NoEntryYet'
    BY <1>2 DEF CreationsOwned, NoEntryYet, Awaits
  <1>6. OneCaller' /\ ResetsOwned' /\ MicroSound'
    BY DEF OneCaller, ResetsOwned, MicroSound
  <1>7. EvictionsOwned' /\ LeasesSound'
    BY DEF EvictionsOwned, LeasesSound
  <1>8. UsedHeld' /\ PhaseSound'
    BY DEF UsedHeld, PhaseSound
  <1>9. CallsAccounted'
    BY <1>4 DEF CallsAccounted
  <1> QED BY <1>3, <1>5, <1>6, <1>7, <1>8, <1>9

-----------------------------------------------------------------------------
(***************************************************************************)
(* The microtask that runs, and whom it continues.                         *)
(***************************************************************************)
LEMMA QuietFacts ==
    ASSUME micro = <<>>
    PROVE  Harmless(micro) /\ \A d \in Caller : ~Wakes(micro, d)
  BY HarmlessFacts DEF Harmless

LEMMA DrainRuns ==
    ASSUME Inv, LeaseInv, Running("drain")
    PROVE  /\ micro = <<DrainTask>> /\ Harmless(micro) /\ \A d \in Caller : ~Wakes(micro, d)
           /\ Then(<<>>) => micro' = <<>>
           /\ Then(<<EvictTask("drain")>>) => micro' = <<EvictTask("drain")>>
  <1>1. micro = <<DrainTask>>
    BY RunningIs, TaskShapes DEF LeaseInv
  <1>2. Harmless(micro)
    BY <1>1 DEF Harmless
  <1>3. <<>> \in Seq(Task) /\ <<EvictTask("drain")>> \in Seq(Task)
    BY TaskFacts DEF Evictor
  <1> QED BY <1>1, <1>2, <1>3, HarmlessFacts, RunningIs DEF LeaseInv

LEMMA ResumeRuns ==
    ASSUME Inv, LeaseInv, NEW c \in Caller, NEW pcs, ResumeReady(c, pcs)
    PROVE  LET x == Head(micro).child IN
           /\ x \in Child \cup {None}
           /\ call[c].pc \in Creator /\ inflight[call[c].conv] = None /\ call[c].conv \in Conv
           /\ x # None => x \in Pooled /\ conv[x] = call[c].conv
           /\ \A d \in Caller : d # c => ~Wakes(micro, d)
           /\ AfterResume(c) => Harmless(micro')
  <1> DEFINE x == Head(micro).child
  <1>1. micro = <<ResumeTask(c, x)>> /\ x \in Child \cup {None}
    BY RunningIs, TaskShapes DEF LeaseInv, ResumeReady
  <1>2. /\ call[c].pc \in Creator /\ inflight[call[c].conv] = None
        /\ x # None => x \in Pooled /\ conv[x] = call[c].conv
    BY <1>1 DEF LeaseInv, MicroSound
  <1>3. \A d \in Caller : d # c => ~Wakes(micro, d)
    BY <1>1, TasksDiffer DEF Wakes
  <1>4. AfterResume(c) => Harmless(micro')
    <2>1. <<>> \in Seq(Task) /\ <<DrainTask>> \in Seq(Task)
      BY TaskFacts
    <2>2. Running("resume")
      BY DEF ResumeReady
    <2>3. AfterResume(c) => Then(<<DrainTask>>) \/ Then(<<>>)
      BY DEF AfterResume
    <2>4. AfterResume(c) => micro' = <<DrainTask>> \/ micro' = <<>>
      BY <2>1, <2>2, <2>3, RunningIs DEF LeaseInv
    <2> QED BY <2>4 DEF Harmless
  <1>5. call[c].conv \in Conv
    BY <1>2 DEF Inv, CallsNamed, Creator
  <1> QED BY <1>1, <1>2, <1>3, <1>4, <1>5

LEMMA EvictRuns ==
    ASSUME Inv, LeaseInv, NEW by \in Evictor, Running("evict"), Head(micro).by = by
    PROVE  /\ micro = <<EvictTask(by)>> /\ \A d \in Caller : d # by => ~Wakes(micro, d)
           /\ by \notin Caller => Harmless(micro)
           /\ by \in Caller => call[by].pc = "evicting" /\ \A x \in Child : teardown[x] # by
           /\ Then(<<>>) => micro' = <<>>
           /\ Then(<<DrainTask>>) => micro' = <<DrainTask>>
  <1>1. micro = <<EvictTask(by)>>
    BY RunningIs, TaskShapes DEF LeaseInv
  <1>2. \A d \in Caller : d # by => ~Wakes(micro, d)
    BY <1>1, TasksDiffer DEF Wakes
  <1>3. by \notin Caller => Harmless(micro)
    BY <1>1 DEF Harmless, Evictor
  <1>4. by \in Caller => call[by].pc = "evicting" /\ \A x \in Child : teardown[x] # by
    BY <1>1 DEF LeaseInv, EvictionsOwned
  <1>5. <<>> \in Seq(Task) /\ <<DrainTask>> \in Seq(Task)
    BY TaskFacts
  <1> QED BY <1>1, <1>2, <1>3, <1>4, <1>5, RunningIs DEF LeaseInv

LEMMA CreateRuns ==
    ASSUME Inv, LeaseInv, NEW c \in Caller, Running("create"), Head(micro).caller = c
    PROVE  /\ micro = <<CreateTask(c)>> /\ \A d \in Caller : d # c => ~Wakes(micro, d)
           /\ call[c].pc = "evicting" /\ \A x \in Child : teardown[x] # c
           /\ Then(<<>>) => micro' = <<>>
  <1>1. micro = <<CreateTask(c)>>
    BY RunningIs, TaskShapes DEF LeaseInv
  <1>2. \A d \in Caller : d # c => ~Wakes(micro, d)
    BY <1>1, TasksDiffer DEF Wakes
  <1>3. call[c].pc = "evicting" /\ \A x \in Child : teardown[x] # c
    BY <1>1 DEF LeaseInv, EvictionsOwned
  <1>4. <<>> \in Seq(Task)
    BY TaskFacts
  <1> QED BY <1>1, <1>2, <1>3, <1>4, RunningIs DEF LeaseInv

\* A lease permutes the Map.
LEMMA LeaseSteps ==
    ASSUME Inv, NEW c, NEW k, NEW x, Lease(c, k, x)
    PROVE  Pooled' = Pooled /\ inUse' = inUse \cup {x} /\ SetCall(c, "holding", k, x)
  <1>1. CASE UNCHANGED entries
    BY <1>1, PooledSame DEF Lease
  <1>2. CASE \E i \in At(k) : entries' = touchLru(i)
    <2>1. PICK i \in DOMAIN entries : entries' = touchLru(i)
      BY <1>2 DEF At
    <2> QED BY <2>1, PooledTouched DEF Lease
  <1> QED BY <1>1, <1>2 DEF Lease, TouchConv

\* createEntry where no creation is in flight.
LEMMA CreationFresh ==
    ASSUME NEW c, NEW k, NEW pc, createEntry(c, k, pc), inflight[k] = None
    PROVE  \E x \in Fresh :
             /\ inflight' = [inflight EXCEPT ![k] = x] /\ stage' = [stage EXCEPT ![x] = "factory"]
             /\ conv' = [conv EXCEPT ![x] = k] /\ live' = live \cup {x}
  BY DEF createEntry

LEMMA WakeAlone ==
    ASSUME Inv, LeaseInv, NEW c \in Caller, call[c].conv \in Conv
    PROVE  \A d \in Caller : d # c => call[d].conv # call[c].conv
  BY PoolAssumption DEF LeaseInv, OneCaller

-----------------------------------------------------------------------------
(***************************************************************************)
(* Every action keeps LeaseInv.                                            *)
(***************************************************************************)
LEMMA AcquireLeases ==
    ASSUME Inv, LeaseInv, Disciplined, NEW c \in Caller, NEW k \in Conv, Acquire(c, k)
    PROVE  LeaseInv'
  <1> USE DEF createVars, evictVars, procVars, entryVars
  <1>1. /\ micro = <<>> /\ phase = "open" /\ call[c].pc = "idle"
        /\ \A d \in Caller : call[d].conv # k
    BY DEF Acquire, AcquireReuse, AcquireBusy, AcquireJoin, AcquireWait, AcquireEvict,
           AcquireCreate, AcquireNew, AcquireReady, MayCall, Disciplined, Quiet
  <1>2. Harmless(micro) /\ \A d \in Caller : ~Wakes(micro, d)
    BY <1>1, QuietFacts
  <1>3. CASE AcquireReuse(c, k)
    <2>1. PICK i \in At(k) : entries[i] \notin inUse \cup retiring /\ Lease(c, k, entries[i])
      BY <1>3 DEF AcquireReuse
    <2>2. entries[i] \in Pooled /\ conv[entries[i]] = k
      BY PoolFacts
    <2>3. Queued' = Queued
      BY <1>3 DEF AcquireReuse, Queued
    <2> QED BY <1>1, <1>2, <1>3, <2>1, <2>2, <2>3, LeaseSteps, LeaseTaken DEF AcquireReuse, Creator
  <1>4. CASE AcquireBusy(c, k)
    <2>1. PICK x \in Pooled : conv[x] = k /\ x \in inUse
      BY <1>4, PoolFacts DEF AcquireBusy
    <2>2. PICK d \in Caller : call[d].pc = "holding" /\ call[d].child = x
      BY <1>1, <2>1 DEF LeaseInv, UsedHeld
    <2>3. call[d].conv = k
      BY <2>1, <2>2 DEF LeaseInv, LeasesSound
    <2> QED BY <1>1, <2>3
  <1>5. CASE AcquireJoin(c, k)
    <2>1. \E d \in Caller : call[d].conv = k
      BY <1>5 DEF AcquireJoin, LeaseInv, CreationsOwned, Awaits
    <2> QED BY <1>1, <2>1
  <1>6. CASE AcquireWait(c, k)
    <2>1. Absent(k) /\ waiters' = Append(waiters, c) /\ SetCall(c, "waiting", k, None)
      BY <1>6, PoolFacts DEF AcquireWait, AcquireNew, enqueueWaiter
    <2>2. Queued \cup {c} \subseteq Queued' /\ Pooled' = Pooled
      BY <1>6, <2>1, QueuedFacts, PooledSame DEF AcquireWait
    <2> QED BY <1>1, <1>6, <2>1, <2>2, CallStarts DEF AcquireWait
  <1>7. CASE AcquireEvict(c, k)
    <2>1. Absent(k) /\ SetCall(c, "evicting", k, None) /\ Queued' = Queued /\ Pooled' = Pooled
      BY <1>7, PoolFacts, PooledSame DEF AcquireEvict, AcquireNew, Queued
    <2> QED BY <1>1, <1>7, <2>1, CallStarts DEF AcquireEvict
  <1>8. CASE AcquireCreate(c, k)
    <2>1. Absent(k) /\ Queued' = Queued /\ Pooled' = Pooled /\ inflight[k] = None
      BY <1>8, PoolFacts, PooledSame DEF AcquireCreate, AcquireNew, Queued
    <2>2. createEntry(c, k, "creating")
      BY <1>8 DEF AcquireCreate
    <2>3. PICK x \in Fresh :
             /\ inflight' = [inflight EXCEPT ![k] = x] /\ stage' = [stage EXCEPT ![x] = "factory"]
             /\ conv' = [conv EXCEPT ![x] = k] /\ live' = live \cup {x}
      BY <2>1, <2>2, CreationFresh
    <2>4. /\ SetCall(c, "creating", k, None) /\ UNCHANGED joiners
          /\ creators' = [creators EXCEPT ![k] = Append(@, c)]
      BY <2>2 DEF createEntry
    <2> QED BY <1>1, <1>2, <1>8, <2>1, <2>3, <2>4, CreationStarts DEF AcquireCreate, Creator
  <1> QED BY <1>3, <1>4, <1>5, <1>6, <1>7, <1>8 DEF Acquire

LEMMA CreationLeases ==
    ASSUME Inv, LeaseInv, NEW x \in Child, FactoryEnds(x) \/ AttachEnds(x)
    PROVE  LeaseInv'
  <1> USE DEF createVars, evictVars, procVars, entryVars
  <1>1. micro = <<>>
    BY DEF FactoryEnds, AttachEnds, FactoryDone, FactoryFail, AttachDone, AttachFail, CleanupDone, Quiet
  <1>2. CASE FactoryDone(x)
    <2>1. \A y \in Child : stage'[y] = "none" <=> stage[y] = "none"
      BY <1>2 DEF FactoryDone, Inv, TypeOK
    <2> QED BY <1>2, <2>1, PooledSame, NothingMoves DEF FactoryDone
  <1>3. CASE FactoryFail(x)
    <2>1. stage[x] # "none" /\ live' \subseteq live
      BY <1>3 DEF FactoryFail
    <2> QED BY <1>1, <1>3, <2>1, PooledSame, CreationFails DEF FactoryFail
  <1>4. CASE AttachDone(x)
    <2>1. stage[x] # "none"
      BY <1>4 DEF AttachDone
    <2>2. conv[x] \in Conv /\ inflight[conv[x]] # None
      BY <2>1, PoolAssumption DEF Inv, SlotInv, CreatingReserved
    <2>3. Absent(conv[x])
      BY <2>2 DEF LeaseInv, CreationsOwned
    <2>4. Pooled' = Pooled \cup {x}
      BY <1>4, <2>3, PooledSet DEF AttachDone
    <2> QED BY <1>1, <1>4, <2>1, <2>4, CreationDone DEF AttachDone
  <1>5. CASE AttachFail(x)
    <2>1. \A y \in Child : stage'[y] = "none" <=> stage[y] = "none"
      BY <1>5 DEF AttachFail, Inv, TypeOK
    <2> QED BY <1>5, <2>1, PooledSame, NothingMoves DEF AttachFail
  <1>6. CASE \E ok \in BOOLEAN : CleanupDone(x, ok)
    <2>1. PICK ok \in BOOLEAN : CleanupDone(x, ok)
      BY <1>6
    <2>2. stage[x] # "none" /\ live' \subseteq live
      BY <2>1 DEF CleanupDone, ProcessClosed
    <2> QED BY <1>1, <2>1, <2>2, PooledSame, CreationFails DEF CleanupDone
  <1> QED BY <1>2, <1>3, <1>4, <1>5, <1>6 DEF FactoryEnds, AttachEnds

LEMMA ResumeLeases ==
    ASSUME Inv, LeaseInv, NEW c \in Caller, Resume(c)
    PROVE  LeaseInv'
  <1> USE DEF createVars, evictVars, procVars, entryVars
  <1> DEFINE x == Head(micro).child
  <1> DEFINE pcs == {"creating", "drainCreating", "joining", "drainJoining"}
  <1>0. ResumeReady(c, pcs)
    BY DEF Resume, ResumeReject, ResumeLease, ResumeQueue, ResumeReady
  <1>1. /\ call[c].pc \in Creator /\ inflight[call[c].conv] = None /\ call[c].conv \in Conv
        /\ x # None => x \in Pooled /\ conv[x] = call[c].conv
        /\ \A d \in Caller : d # c => ~Wakes(micro, d)
        /\ AfterResume(c) => Harmless(micro')
    BY <1>0, ResumeRuns
  <1>2. CASE ResumeReject(c)
    <2>1. /\ call'[c] = IdleCall /\ \A d \in Caller \ {c} : call'[d] = call[d]
      BY <1>2 DEF ResumeReject, HangUp, Inv, TypeOK
    <2>2. Queued' = Queued /\ Pooled' = Pooled /\ Harmless(micro') /\ {c} \in SUBSET Caller
      BY <1>1, <1>2, PooledSame DEF ResumeReject, Queued
    <2>3. call[c].pc \notin {"resetting", "evicting", "holding"}
      BY <1>1 DEF Creator
    <2>4. /\ inUse' = inUse /\ waiters' = waiters /\ phase' = phase
          /\ UNCHANGED <<conv, live, retiring, inflight, stage, joiners, creators, teardown, owner>>
      BY <1>2 DEF ResumeReject
    <2> QED BY <1>1, <2>1, <2>2, <2>3, <2>4, CallsStop
  <1>3. CASE ResumeLease(c)
    <2>1. x \in Pooled /\ conv[x] = call[c].conv /\ phase = "open" /\ Lease(c, call[c].conv, x)
          /\ Harmless(micro') /\ Queued' = Queued
      BY <1>1, <1>3 DEF ResumeLease, Queued
    <2>2. Pooled' = Pooled /\ inUse' = inUse \cup {x} /\ SetCall(c, "holding", call[c].conv, x)
      BY <2>1, LeaseSteps
    <2>3. call[c].pc \notin {"holding", "evicting"} /\ \A d \in Caller : d # c => call[d].conv # call[c].conv
      BY <1>1, WakeAlone DEF Creator
    <2>4. UNCHANGED <<conv, live, retiring, inflight, stage, joiners, creators, teardown, owner, phase>>
      BY <1>3 DEF ResumeLease
    <2> HIDE DEF x
    <2> QED BY <1>1, <2>1, <2>2, <2>3, <2>4, LeaseTaken
  <1>4. CASE ResumeQueue(c)
    BY <1>1, <1>4 DEF ResumeQueue, ResumeReady, Creator
  <1> QED BY <1>2, <1>3, <1>4 DEF Resume

LEMMA DrainLeases ==
    ASSUME Inv, LeaseInv, Disciplined, drainWaiters
    PROVE  LeaseInv'
  <1> USE DEF createVars, evictVars, procVars, entryVars
  <1> DEFINE c == Head(waiters)
  <1> DEFINE k == HeadConv
  <1>1. /\ micro = <<DrainTask>> /\ Harmless(micro) /\ \A d \in Caller : ~Wakes(micro, d)
        /\ Then(<<>>) => micro' = <<>>
        /\ Then(<<EvictTask("drain")>>) => micro' = <<EvictTask("drain")>>
    BY DrainRuns DEF drainWaiters, DrainReuse, DrainJoin, DrainEvict, DrainCreate, DrainStop, DrainReady
  <1>2. Harmless(<<>>) /\ Harmless(<<EvictTask("drain")>>)
    BY DEF Harmless
  <1>3. ASSUME DrainReady
        PROVE  /\ c \in Caller /\ k \in Conv /\ k = call[c].conv /\ call[c].pc = "waiting"
               /\ phase = "open" /\ \A d \in Caller : d # c => call[d].conv # k
               /\ waiters' = Tail(waiters) => Queued \ {c} \subseteq Queued'
    <2>1. c \in Caller /\ k \in Conv /\ k = call[c].conv /\ call[c].pc = "waiting" /\ waiters # <<>>
      BY <1>3, HeadFacts DEF HeadConv, DrainReady
    <2>2. phase = "open"
      BY <2>1 DEF LeaseInv, PhaseSound
    <2> QED BY <2>1, <2>2, WakeAlone, QueuedFacts
  <1>4. CASE DrainReuse
    <2>1. PICK i \in At(k) : LET x == entries[i]
             IN  /\ x \in retiring \/ x \notin inUse
                 /\ IF x \in retiring
                    THEN HangUp(Head(waiters)) /\ UNCHANGED <<entries, inUse, armed>>
                    ELSE Lease(Head(waiters), HeadConv, x) /\ armed' = armed \ {x}
      BY <1>4 DEF DrainReuse
    <2>2. entries[i] \in Pooled /\ conv[entries[i]] = k /\ entries[i] \notin retiring
      BY PoolFacts DEF LeaseInv, UsedHeld
    <2>3. Lease(c, k, entries[i])
      BY <2>1, <2>2
    <2>4. /\ c \in Caller /\ k \in Conv /\ k = call[c].conv /\ call[c].pc = "waiting"
          /\ phase = "open" /\ \A d \in Caller : d # c => call[d].conv # k
          /\ Queued \ {c} \subseteq Queued'
      BY <1>3, <1>4 DEF DrainReuse
    <2>5. call[c].pc \notin {"holding", "evicting"} /\ call[c].pc \notin Creator
      BY <2>4 DEF Creator
    <2>6. /\ micro' = micro
          /\ UNCHANGED <<conv, live, retiring, inflight, stage, joiners, creators, teardown, owner, phase>>
      BY <1>4 DEF DrainReuse
    <2>7. Pooled' = Pooled /\ inUse' = inUse \cup {entries[i]} /\ SetCall(c, "holding", k, entries[i])
      BY <2>3, LeaseSteps
    <2> HIDE DEF c, k
    <2> QED BY <1>1, <2>2, <2>4, <2>5, <2>6, <2>7, LeaseTaken
  <1>5. CASE DrainJoin
    <2>1. DrainReady /\ inflight[k] # None
      BY <1>5 DEF DrainJoin
    <2>2. PICK d \in Caller : Awaits(d, k)
      BY <1>3, <2>1 DEF LeaseInv, CreationsOwned
    <2> QED BY <1>3, <2>1, <2>2 DEF Awaits, Creator
  <1>6. CASE DrainEvict
    BY <1>1, <1>2, <1>6, PooledSame, NothingMoves DEF DrainEvict
  <1>7. CASE DrainCreate
    <2>1. Absent(k) /\ Pooled' = Pooled /\ inflight[k] = None /\ createEntry(c, k, "drainCreating")
          /\ DrainReady /\ waiters' = Tail(waiters) /\ micro' = <<>>
          /\ UNCHANGED <<inUse, retiring, teardown, owner, phase>>
      BY <1>1, <1>7, PoolFacts, PooledSame DEF DrainCreate
    <2>2. PICK x \in Fresh :
             /\ inflight' = [inflight EXCEPT ![k] = x] /\ stage' = [stage EXCEPT ![x] = "factory"]
             /\ conv' = [conv EXCEPT ![x] = k] /\ live' = live \cup {x}
      BY <2>1, CreationFresh
    <2>3. /\ SetCall(c, "drainCreating", k, None) /\ UNCHANGED joiners
          /\ creators' = [creators EXCEPT ![k] = Append(@, c)]
      BY <2>1 DEF createEntry
    <2>4. /\ c \in Caller /\ k \in Conv /\ call[c].pc = "waiting"
          /\ phase = "open" /\ \A d \in Caller : d # c => call[d].conv # k
          /\ Queued \ {c} \subseteq Queued' /\ "drainCreating" \in Creator
      BY <1>3, <2>1 DEF Creator
    <2> HIDE DEF c, k
    <2> QED BY <1>1, <1>2, <2>1, <2>2, <2>3, <2>4, CreationStarts
  <1>8. CASE DrainStop
    BY <1>1, <1>2, <1>8, PooledSame, NothingMoves DEF DrainStop
  <1> QED BY <1>4, <1>5, <1>6, <1>7, <1>8 DEF drainWaiters

LEMMA ReleaseLeases ==
    ASSUME Inv, LeaseInv, NEW c \in Caller, Release(c)
    PROVE  LeaseInv'
  <1> USE DEF createVars, evictVars, procVars, entryVars
  <1> DEFINE k == call[c].conv
  <1>1. /\ micro = <<>> /\ call[c].pc = "holding" /\ call'[c] = IdleCall
        /\ \A d \in Caller \ {c} : call'[d] = call[d]
    BY DEF Release, Quiet, HangUp, Inv, TypeOK
  <1>2. Harmless(micro) /\ \A d \in Caller : ~Wakes(micro, d)
    BY <1>1, QuietFacts
  <1>3. /\ Queued' = Queued /\ waiters' = waiters /\ phase' = phase
        /\ UNCHANGED <<conv, live, retiring, inflight, stage, joiners, creators, teardown, owner>>
    BY DEF Release, Queued
  <1>4. {c} \in SUBSET Caller /\ call[c].pc \notin {"resetting", "evicting"} /\ call[c].pc \notin Creator
    BY <1>1 DEF Creator
  <1>5. k \in Conv
    BY <1>1 DEF Inv, CallsNamed
  <1>6. CASE /\ phase = "open"
             /\ \E i \in At(k) : /\ entries[i] \notin retiring
                                 /\ inUse' = inUse \ {entries[i]}
                                 /\ entries' = touchLru(i)
             /\ micro' = <<DrainTask>>
    <2>1. PICK i \in At(k) : inUse' = inUse \ {entries[i]} /\ entries' = touchLru(i)
      BY <1>6
    <2>2. entries[i] \in Pooled /\ conv[entries[i]] = k /\ i \in DOMAIN entries
      BY PoolFacts
    <2>3. Pooled' = Pooled /\ Harmless(micro')
      BY <1>6, <2>1, <2>2, PooledTouched DEF Harmless
    <2>4. entries[i] \in inUse => call[c].child = entries[i]
      <3>1. ASSUME NEW d \in Caller, call[d].pc = "holding", call[d].child = entries[i]
            PROVE  d = c
        <4>1. call[d].conv = k
          BY <2>2, <3>1 DEF LeaseInv, LeasesSound
        <4> QED BY <1>5, <4>1, WakeAlone
      <3> QED BY <1>6, <2>2, <3>1 DEF LeaseInv, UsedHeld
    <2>5. call[c].child \notin Pooled \cap inUse'
      <3>1. call[c].child \in Pooled => call[c].child = entries[i]
        BY <1>1, <2>2, PoolFacts DEF LeaseInv, LeasesSound
      <3> QED BY <2>1, <3>1
    <2> QED BY <1>1, <1>2, <1>3, <1>4, <2>1, <2>3, <2>4, <2>5, CallsStop
  <1>7. CASE /\ \/ phase # "open"
                \/ \A i \in At(k) : entries[i] \in retiring
             /\ UNCHANGED <<entries, inUse, armed, micro>>
    <2>1. phase = "open" => Absent(k)
      BY <1>7, PoolFacts DEF LeaseInv, UsedHeld
    <2>2. phase = "open" => call[c].child \notin Pooled
      BY <1>1, <2>1 DEF LeaseInv, LeasesSound, Absent
    <2> QED BY <1>1, <1>2, <1>3, <1>4, <1>7, <2>2, PooledSame, CallsStop
  <1> QED BY <1>6, <1>7 DEF Release

LEMMA EvictLoopLeases ==
    ASSUME Inv, LeaseInv, NEW by \in Evictor, EvictNext(by) \/ EvictDone(by)
    PROVE  LeaseInv'
  <1> USE DEF createVars, evictVars, procVars, entryVars
  <1>1. /\ micro = <<EvictTask(by)>> /\ \A d \in Caller : d # by => ~Wakes(micro, d)
        /\ by \notin Caller => Harmless(micro)
        /\ by \in Caller => call[by].pc = "evicting" /\ \A x \in Child : teardown[x] # by
        /\ Then(<<>>) => micro' = <<>>
        /\ Then(<<DrainTask>>) => micro' = <<DrainTask>>
    BY EvictRuns DEF EvictNext, EvictDone
  <1>2. Harmless(<<>>) /\ Harmless(<<DrainTask>>)
    BY DEF Harmless
  <1>3. CASE EvictNext(by)
    <2>1. PICK n \in Candidates(by) : \E i \in DOMAIN entries :
              entries[i] = snap[by].order[n] /\ BeginTeardown(i, by)
      BY <1>3 DEF EvictNext
    <2>2. PICK i \in DOMAIN entries : entries[i] = snap[by].order[n] /\ BeginTeardown(i, by)
      BY <2>1
    <2>3. entries[i] \in Pooled /\ entries[i] \notin inUse
      BY <2>1, <2>2 DEF Candidates, Idle
    <2>4. Pooled' = Pooled \ {entries[i]} /\ teardown' = [teardown EXCEPT ![entries[i]] = by]
      BY <2>2, PooledWithout DEF BeginTeardown
    <2>5. by \in Counted /\ micro' = <<>>
      BY <1>1, <1>3 DEF Counted, EvictNext
    <2>6. UNCHANGED <<conv, inUse, retiring, live, inflight, stage, joiners, creators, waiters, call,
                      owner, phase>>
      BY <1>3 DEF EvictNext
    <2> QED BY <1>1, <1>2, <2>3, <2>4, <2>5, <2>6, EntryLeaves
  <1>4. CASE EvictDone(by)
    <2> DEFINE S == {c \in Caller : c = by \/ (by = "drain" /\ call[c].pc = "waiting")}
    <2>1. /\ \A c \in S : call'[c] = IdleCall
          /\ \A c \in Caller \ S : call'[c] = call[c]
      BY <1>4 DEF EvictDone
    <2>2. Harmless(micro')
      BY <1>1, <1>2, <1>4 DEF EvictDone
    <2>3. /\ inUse' = inUse /\ Pooled' = Pooled /\ phase' = phase
          /\ UNCHANGED <<conv, live, retiring, inflight, stage, joiners, creators, teardown, owner>>
      BY <1>4, PooledSame DEF EvictDone
    <2>4. waiters' = waiters \/ waiters' = <<>>
      BY <1>4 DEF EvictDone
    <2>5. \A c \in Caller \ S : call[c].pc = "waiting" /\ c \in Queued => c \in Queued'
      BY <1>4 DEF EvictDone, Queued
    <2>6. \A c \in S : /\ call[c].pc \in {"waiting", "evicting"}
                       /\ call[c].pc = "evicting" => c = by /\ \A x \in Child : teardown[x] # c
      <3>1. "drain" \notin Caller
        BY PoolAssumption
      <3> QED BY <1>1, <3>1
    <2>7. S \in SUBSET Caller
      OBVIOUS
    <2>8. \A c \in Caller \ S : ~Wakes(micro, c)
      BY <1>1
    <2>9. \A c \in S : /\ call[c].pc # "resetting" /\ call[c].pc # "holding" /\ call[c].pc \notin Creator
                       /\ call[c].pc = "evicting" => \A x \in Child : teardown[x] # c
      BY <2>6 DEF Creator
    <2> HIDE DEF S
    <2> QED BY <2>1, <2>2, <2>3, <2>4, <2>5, <2>7, <2>8, <2>9, CallsStop
  <1> QED BY <1>3, <1>4

LEMMA CreateAfterEvictLeases ==
    ASSUME Inv, LeaseInv, NEW c \in Caller, CreateAfterEvict(c)
    PROVE  LeaseInv'
  <1> USE DEF createVars, evictVars, procVars, entryVars
  <1> DEFINE k == call[c].conv
  <1>1. /\ micro = <<CreateTask(c)>> /\ \A d \in Caller : d # c => ~Wakes(micro, d)
        /\ call[c].pc = "evicting" /\ \A x \in Child : teardown[x] # c
        /\ micro' = <<>> /\ Harmless(micro')
    BY CreateRuns DEF CreateAfterEvict, Harmless
  <1>2. k \in Conv /\ \A d \in Caller : d # c => call[d].conv # k
    BY <1>1, WakeAlone DEF Inv, CallsNamed
  <1>3. Queued' = Queued /\ Pooled' = Pooled
    BY PooledSame DEF CreateAfterEvict, Queued
  <1>4. CASE phase = "open" /\ createEntry(c, k, "creating")
    <2>1. Absent(k)
      BY <1>1 DEF LeaseInv, NoEntryYet
    <2>2. inflight[k] = None
      <3>1. \A d \in Caller : ~Awaits(d, k)
        BY <1>1, <1>2 DEF Awaits, Creator
      <3> QED BY <1>2, <3>1 DEF LeaseInv, CreationsOwned
    <2>3. PICK x \in Fresh :
             /\ inflight' = [inflight EXCEPT ![k] = x] /\ stage' = [stage EXCEPT ![x] = "factory"]
             /\ conv' = [conv EXCEPT ![x] = k] /\ live' = live \cup {x}
      BY <1>4, <2>2, CreationFresh
    <2>4. /\ SetCall(c, "creating", k, None) /\ UNCHANGED joiners
          /\ creators' = [creators EXCEPT ![k] = Append(@, c)] /\ "creating" \in Creator
      BY <1>4 DEF createEntry, Creator
    <2>5. UNCHANGED <<inUse, retiring, teardown, owner, phase>>
      BY DEF CreateAfterEvict
    <2> HIDE DEF k
    <2> QED BY <1>1, <1>2, <1>3, <1>4, <2>1, <2>2, <2>3, <2>4, <2>5, CreationStarts
  <1>5. CASE HangUp(c) /\ UNCHANGED <<createVars, conv, live>>
    <2>1. call'[c] = IdleCall /\ \A d \in Caller \ {c} : call'[d] = call[d]
      BY <1>5 DEF HangUp, Inv, TypeOK
    <2>2. /\ inUse' = inUse /\ waiters' = waiters /\ phase' = phase /\ {c} \in SUBSET Caller
          /\ UNCHANGED <<conv, live, retiring, inflight, stage, joiners, creators, teardown, owner>>
      BY <1>5 DEF CreateAfterEvict
    <2>3. call[c].pc \notin Creator
      BY <1>1 DEF Creator
    <2> QED BY <1>1, <1>3, <2>1, <2>2, <2>3, CallsStop
  <1> QED BY <1>4, <1>5 DEF CreateAfterEvict

\* Nothing is rejected for a conversation: no retired child fails to close.
LEMMA RejectLeases ==
    ASSUME Inv, LeaseInv, NEW k \in Conv, RejectWaiter(k)
    PROVE  FALSE
  BY RunningIs DEF RejectWaiter, LeaseInv

\* A teardown that settles did succeed.
LEMMA SettledIs ==
    ASSUME Inv, Disciplined, NEW x \in Child, NEW by, NEW ok \in BOOLEAN, Settled(x, by, ok)
    PROVE  /\ ok = TRUE /\ micro = <<>> /\ teardown[x] \in by /\ live' \subseteq live /\ Recycle(x)
           /\ teardown' = [teardown EXCEPT ![x] = "none"]
  BY DEF Settled, ProcessClosed, Disciplined, Quiet

LEMMA TeardownLeases ==
    ASSUME Inv, LeaseInv, Disciplined, NEW x \in Child, TeardownEnds(x)
    PROVE  LeaseInv'
  <1> USE DEF createVars, evictVars, procVars, entryVars
  <1> DEFINE Gone == /\ micro = <<>> /\ teardown[x] # "none" /\ live' \subseteq live /\ Recycle(x)
                     /\ teardown' = [teardown EXCEPT ![x] = "none"] /\ Pooled' = Pooled
                     /\ UNCHANGED <<inflight, stage, joiners, creators, waiters, phase>>
  <1>0. \A c \in Caller : c \notin {"none", "drain", "sweep", "idle", "retire", "final"}
    BY PoolAssumption
  <1>1. TRUE \in BOOLEAN /\ FALSE \in BOOLEAN /\ TRUE # FALSE
    OBVIOUS
  <1>2. Harmless(<<>>) /\ Harmless(<<DrainTask>>) /\ Harmless(<<EvictTask("sweep")>>)
    BY DEF Harmless
  <1>3. ASSUME teardown[x] # "retire", UNCHANGED call
        PROVE  \A c \in Caller : call'[c] = IF call[c].pc = "resetting" /\ call[c].child = x
                                             THEN IdleCall ELSE call[c]
    BY <1>3 DEF LeaseInv, ResetsOwned
  <1>4. CASE CapacityEvicted(x)
    <2>1. Settled(x, Caller, TRUE) /\ ReleaseOwnership(x) /\ micro' = <<CreateTask(teardown[x])>>
          /\ UNCHANGED call
      BY <1>4 DEF CapacityEvicted
    <2>2. teardown[x] \in Caller /\ Gone
      BY <1>0, <1>1, <1>4, <2>1, SettledIs, PooledSame DEF CapacityEvicted
    <2> QED BY <1>0, <1>3, <2>1, <2>2, EntryGone
  <1>5. CASE DrainEvicted(x)
    <2>1. Settled(x, {"drain"}, TRUE) /\ ReleaseOwnership(x) /\ micro' = <<DrainTask>> /\ UNCHANGED call
      BY <1>5 DEF DrainEvicted
    <2>2. teardown[x] = "drain" /\ Gone
      BY <1>1, <1>5, <2>1, PooledSame DEF DrainEvicted, Settled, ProcessClosed, Disciplined, Quiet
    <2> QED BY <1>0, <1>2, <1>3, <2>1, <2>2, EntryGone
  <1>6. CASE SweepEvicted(x)
    <2>1. /\ Settled(x, {"sweep"}, TRUE) /\ ReleaseOwnership(x) /\ micro' = <<EvictTask("sweep")>>
          /\ UNCHANGED call
      BY <1>6 DEF SweepEvicted
    <2>2. teardown[x] = "sweep" /\ Gone
      BY <1>1, <1>6, <2>1, PooledSame DEF SweepEvicted, Settled, ProcessClosed, Disciplined, Quiet
    <2> QED BY <1>0, <1>2, <1>3, <2>1, <2>2, EntryGone
  <1>7. CASE EvictFailed(x)
    BY <1>1, <1>7, SettledIs DEF EvictFailed
  <1>8. CASE RetireEvicted(x)
    <2> DEFINE resets == {c \in Caller : call[c].pc = "resetting" /\ call[c].child = x}
    <2>1. /\ Settled(x, {"retire"}, TRUE) /\ micro' = <<DrainTask>>
          /\ \/ ReleaseOwnership(x)
             \/ resets # {} /\ owner' = [owner EXCEPT ![conv[x]] = "noRow"]
          /\ call' = [c \in Caller |-> IF c \in resets THEN IdleCall ELSE call[c]]
      BY <1>8 DEF RetireEvicted
    <2>2. teardown[x] = "retire" /\ Gone
      BY <1>1, <1>8, <2>1, PooledSame DEF RetireEvicted, Settled, ProcessClosed, Disciplined, Quiet
    <2>3. \A c \in Caller : call'[c] = IF call[c].pc = "resetting" /\ call[c].child = x
                                        THEN IdleCall ELSE call[c]
      BY <2>1
    <2> QED BY <1>0, <1>2, <2>1, <2>2, <2>3, EntryGone
  <1>9. CASE RetireFailed(x)
    BY <1>9 DEF RetireFailed, ProcessClosed, Disciplined
  <1>10. CASE \E ok \in BOOLEAN : IdleEvicted(x, ok)
    <2>1. PICK ok \in BOOLEAN : IdleEvicted(x, ok)
      BY <1>10
    <2>2. Settled(x, {"idle"}, ok) /\ micro' = <<DrainTask>> /\ UNCHANGED call
      BY <2>1 DEF IdleEvicted
    <2>3. ok = TRUE /\ teardown[x] = "idle" /\ micro = <<>> /\ live' \subseteq live /\ Recycle(x)
          /\ teardown' = [teardown EXCEPT ![x] = "none"]
      BY <2>2 DEF Settled, ProcessClosed, Disciplined, Quiet
    <2>4. ReleaseOwnership(x) /\ Gone
      BY <2>1, <2>3, PooledSame DEF IdleEvicted
    <2> QED BY <1>0, <1>2, <1>3, <2>2, <2>3, <2>4, EntryGone
  <1>11. CASE \E ok \in BOOLEAN : FinalClosed(x, ok)
    <2>1. PICK ok \in BOOLEAN : FinalClosed(x, ok)
      BY <1>11
    <2>2. Settled(x, {"final"}, ok) /\ micro' = micro /\ UNCHANGED call
      BY <2>1 DEF FinalClosed
    <2>3. ok = TRUE /\ teardown[x] = "final" /\ micro = <<>> /\ live' \subseteq live /\ Recycle(x)
          /\ teardown' = [teardown EXCEPT ![x] = "none"]
      BY <2>2 DEF Settled, ProcessClosed, Disciplined, Quiet
    <2>4. ReleaseOwnership(x) /\ Gone
      BY <2>1, <2>3, PooledSame DEF FinalClosed
    <2> QED BY <1>0, <1>2, <1>3, <2>2, <2>3, <2>4, EntryGone
  <1> QED BY <1>4, <1>5, <1>6, <1>7, <1>8, <1>9, <1>10, <1>11 DEF TeardownEnds

LEMMA ChildEventLeases ==
    ASSUME Inv, LeaseInv, NEW x \in Child,
           IdleTimer(x) \/ ChildError(x) \/ ChildExit(x) \/ AckTimeout(x)
    PROVE  LeaseInv'
  <1> USE DEF createVars, evictVars, procVars, entryVars
  <1>1. micro = <<>>
    BY DEF IdleTimer, ChildError, ChildExit, AckTimeout, Quiet
  <1>2. Harmless(micro) /\ \A d \in Caller : ~Wakes(micro, d)
    BY <1>1, QuietFacts
  <1>3. CASE IdleTimer(x)
    <2>1. UNCHANGED <<conv, inUse, retiring, live, inflight, stage, joiners, creators, waiters, call,
                      owner, phase, micro>>
      BY <1>3 DEF IdleTimer
    <2>2. CASE \E i \in At(conv[x]) :
                 /\ entries[i] \notin inUse /\ entries' = Without(entries, i)
                 /\ teardown' = [teardown EXCEPT ![entries[i]] = "idle"]
      <3>1. PICK i \in At(conv[x]) :
                 /\ entries[i] \notin inUse /\ entries' = Without(entries, i)
                 /\ teardown' = [teardown EXCEPT ![entries[i]] = "idle"]
        BY <2>2
      <3>2. entries[i] \in Pooled /\ Pooled' = Pooled \ {entries[i]} /\ "idle" \in Counted
            /\ "idle" \notin Caller
        BY <3>1, PoolFacts, PooledWithout, PoolAssumption DEF Counted
      <3> QED BY <1>2, <2>1, <3>1, <3>2, EntryLeaves
    <2>3. CASE UNCHANGED <<entries, closing, teardown>>
      BY <2>1, <2>3, PooledSame, NothingMoves
    <2> QED BY <1>3, <2>2, <2>3 DEF IdleTimer
  <1>4. CASE ChildError(x)
    <2>1. PICK i \in DOMAIN entries : retireChild(i)
      BY <1>4 DEF ChildError
    <2>2. /\ entries[i] \in Pooled /\ Pooled' = Pooled \ {entries[i]} /\ "retire" \in Counted
          /\ "retire" \notin Caller
      BY <2>1, PoolFacts, PooledWithout, PoolAssumption DEF Counted, retireChild, BeginTeardown
    <2>3. /\ inUse' = inUse \ {entries[i]} /\ retiring' = retiring \cup {entries[i]}
          /\ teardown' = [teardown EXCEPT ![entries[i]] = "retire"]
      BY <2>1 DEF retireChild, BeginTeardown
    <2>4. UNCHANGED <<conv, live, inflight, stage, joiners, creators, waiters, call, owner, phase, micro>>
      BY <1>4 DEF ChildError
    <2> QED BY <1>2, <2>2, <2>3, <2>4, EntryLeaves
  <1>5. CASE ChildExit(x)
    <2>1. CASE /\ \E i \in DOMAIN entries : entries[i] = x /\ entries' = Without(entries, i)
               /\ Recycle(x) /\ ReleaseOwnership(x) /\ micro' = <<DrainTask>>
      <3>1. x \in Pooled /\ Pooled' = Pooled \ {x}
        BY <2>1, PoolFacts, PooledWithout
      <3> QED BY <1>1, <1>5, <2>1, <3>1, EntryDies DEF ChildExit
    <2>2. CASE UNCHANGED <<entryVars, owner, micro>>
      BY <1>5, <2>2, PooledSame, NothingMoves DEF ChildExit
    <2> QED BY <1>5, <2>1, <2>2 DEF ChildExit
  <1>6. CASE AckTimeout(x)
    <2>1. \A y \in Child : stage'[y] = "none" <=> stage[y] = "none"
      BY <1>6 DEF AckTimeout, Inv, TypeOK
    <2> QED BY <1>6, <2>1, PooledSame, NothingMoves DEF AckTimeout
  <1> QED BY <1>3, <1>4, <1>5, <1>6

LEMMA ResetLeases ==
    ASSUME Inv, LeaseInv, NEW c \in Caller, NEW k \in Conv, Reset(c, k)
    PROVE  LeaseInv'
  <1> USE DEF createVars, evictVars, procVars, entryVars
  <1>1. /\ micro = <<>> /\ call[c].pc = "idle" /\ \A d \in Caller : call[d].conv # k
    BY DEF Reset, Quiet
  <1>2. Harmless(micro) /\ \A d \in Caller : ~Wakes(micro, d)
    BY <1>1, QuietFacts
  <1>3. UNCHANGED <<conv, live, inflight, stage, joiners, creators, waiters, phase, micro>>
    BY DEF Reset
  <1>4. CASE \E i \in At(k) : /\ retireChild(i)
                              /\ SetCall(c, "resetting", k, entries[i])
                              /\ UNCHANGED owner
    <2>1. PICK i \in At(k) : /\ retireChild(i)
                             /\ SetCall(c, "resetting", k, entries[i])
                             /\ UNCHANGED owner
      BY <1>4
    <2>2. /\ entries[i] \in Pooled /\ Pooled' = Pooled \ {entries[i]} /\ "retire" \in Counted
          /\ conv[entries[i]] = k /\ "retire" \notin Caller
      BY <2>1, PoolFacts, PooledWithout, PoolAssumption DEF Counted, retireChild, BeginTeardown
    <2>3. /\ inUse' = inUse \ {entries[i]} /\ retiring' = retiring \cup {entries[i]}
          /\ teardown' = [teardown EXCEPT ![entries[i]] = "retire"]
      BY <2>1 DEF retireChild, BeginTeardown
    <2> QED BY <1>1, <1>2, <1>3, <2>1, <2>2, <2>3, EntryLeaves
  <1>5. CASE /\ \A i \in At(k) : entries[i] \in retiring
             /\ owner' = [owner EXCEPT ![k] = "noRow"]
             /\ UNCHANGED <<entries, inUse, retiring, armed, closing, teardown, call>>
    <2>1. Absent(k)
      BY <1>5, PoolFacts DEF LeaseInv, UsedHeld
    <2> QED BY <1>3, <1>5, <2>1, PooledSame, RowDeleted
  <1> QED BY <1>4, <1>5 DEF Reset

LEMMA CloseLeases ==
    ASSUME Inv, LeaseInv, closeIdle \/ close \/ CloseEntries \/ CloseDone
    PROVE  LeaseInv'
  <1> USE DEF createVars, evictVars, procVars, entryVars
  <1>1. micro = <<>>
    BY DEF closeIdle, close, CloseEntries, CloseDone, Quiet
  <1>2. Harmless(micro) /\ \A d \in Caller : ~Wakes(micro, d)
    BY <1>1, QuietFacts
  <1>3. CASE closeIdle
    <2>1. Harmless(<<EvictTask("sweep")>>)
      BY DEF Harmless
    <2> QED BY <1>2, <1>3, <2>1, PooledSame, NothingMoves DEF closeIdle
  <1>4. CASE close
    <2> DEFINE S == {c \in Caller : call[c].pc = "waiting"}
    <2>1. /\ \A c \in S : call'[c] = IdleCall /\ call[c].pc = "waiting"
          /\ \A c \in Caller \ S : call'[c] = call[c] /\ call[c].pc # "waiting"
          /\ S \in SUBSET Caller
      BY <1>4 DEF close
    <2>2. /\ inUse' = inUse /\ Pooled' = Pooled /\ phase = "open" /\ phase' = "closing" /\ waiters' = <<>>
          /\ UNCHANGED <<conv, live, retiring, inflight, stage, joiners, creators, teardown, owner, micro>>
      BY <1>4, PooledSame DEF close
    <2> HIDE DEF S
    <2> QED BY <1>2, <2>1, <2>2, CallsStop DEF Creator
  <1>5. CASE CloseEntries
    <2>1. Pooled' = {}
      BY <1>5 DEF CloseEntries, Pooled
    <2> QED BY <1>1, <1>5, <2>1, EntriesLeave DEF CloseEntries
  <1>6. CASE CloseDone
    BY <1>6, PooledSame, NothingMoves DEF CloseDone
  <1> QED BY <1>3, <1>4, <1>5, <1>6

\* In every state of a disciplined pool the calls, leases, creations, rows and
\* the phase of close() fit together.
THEOREM LeasesHold == ASSUME Disciplined PROVE Spec => []LeaseInv
  <1>1. Init => LeaseInv
    <2> SUFFICES ASSUME Init PROVE LeaseInv
      OBVIOUS
    <2> USE DEF Init
    <2>1. Pooled = {} /\ Queued = {}
      BY DEF Pooled, Queued
    <2>2. \A c \in Caller : call[c].pc = "idle" /\ call[c].conv = None
      BY DEF IdleCall
    <2>3. \A c : c \in Caller => c # "none"
      BY PoolAssumption
    <2>4. Harmless(micro)
      BY DEF Harmless
    <2>5. OneCaller /\ CreationsOwned /\ NoEntryYet /\ ResetsOwned
      BY <2>2 DEF OneCaller, CreationsOwned, NoEntryYet, ResetsOwned
    <2>6. MicroSound /\ EvictionsOwned
      BY <2>3, <2>4, HarmlessFacts DEF MicroSound, EvictionsOwned
    <2>7. LeasesSound /\ UsedHeld /\ OwnersSound
      BY <2>1, <2>2, PoolAssumption DEF LeasesSound, UsedHeld, OwnersSound, EntryOwned
    <2>8. PhaseSound /\ CallsAccounted
      BY <2>1, <2>2 DEF PhaseSound, CallsAccounted, Creator
    <2> QED BY <2>5, <2>6, <2>7, <2>8 DEF LeaseInv
  <1>2. Inv /\ LeaseInv /\ [Next]_vars => LeaseInv'
    <2> SUFFICES ASSUME Inv, LeaseInv, [Next]_vars PROVE LeaseInv'
      OBVIOUS
    <2>1. CASE Microtask
      BY <2>1, DrainLeases, ResumeLeases, CreateAfterEvictLeases, EvictLoopLeases,
         RejectLeases DEF Microtask
    <2>2. CASE \E c \in Caller, k \in Conv : Acquire(c, k) \/ Reset(c, k)
      BY <2>2, AcquireLeases, ResetLeases
    <2>3. CASE \E c \in Caller : Release(c)
      BY <2>3, ReleaseLeases
    <2>4. CASE \E x \in Child :
                 \/ ChildAnswers(x)
                 \/ IdleTimer(x) \/ ChildError(x) \/ ChildExit(x) \/ AckTimeout(x)
      BY <2>4, CreationLeases, TeardownLeases, ChildEventLeases DEF ChildAnswers
    <2>5. CASE closeIdle \/ close \/ CloseEntries \/ CloseDone
      BY <2>5, CloseLeases
    <2>6. CASE UNCHANGED vars
      BY <2>6, PooledSame, NothingMoves DEF vars, entryVars, createVars, evictVars, procVars
    <2> QED BY <2>1, <2>2, <2>3, <2>4, <2>5, <2>6 DEF Next
  <1> QED BY <1>1, <1>2, InvariantHolds, PTL DEF Spec

\* No child is leased twice, and an open pool takes a leased child away only
\* when it was retired or has died, for every instance.
THEOREM LeaseExclusiveHolds == ASSUME Disciplined PROVE Spec => []LeaseExclusive
  <1>1. LeaseInv => LeaseExclusive
    BY DEF LeaseInv, LeasesSound, LeaseExclusive
  <1> QED BY <1>1, LeasesHold, PTL

\* Every pooled child of an open pool owns its registry row, for every instance.
THEOREM EntryOwnedHolds == ASSUME Disciplined PROVE Spec => []EntryOwned
  <1>1. LeaseInv => EntryOwned
    BY DEF LeaseInv, OwnersSound
  <1> QED BY <1>1, LeasesHold, PTL

-----------------------------------------------------------------------------
(***************************************************************************)
(* Processes.  Where no process is left behind by a failed negotiation or  *)
(* by a command that is not acknowledged, every process stands for a slot. *)
(***************************************************************************)
NoLeaks == Env \cap {"negotiate", "ackTimeout"} = {}

Accounted(x) == x \in Pooled \/ stage[x] # "none" \/ teardown[x] # "none"

LiveAccounted == rpcClosed = {} /\ \A x \in live : Accounted(x)

LiveInv == LiveAccounted /\ LiveBounded

\* The processes of an open pool are at most the occupied slots.
LEMMA LiveCounted ==
    ASSUME Inv, LeaseInv, LiveAccounted, phase = "open"
    PROVE  LiveBounded
  <1> DEFINE n == Len(entries)
  <1> DEFINE Staged == {x \in Child : stage[x] # "none"}
  <1>1. /\ entries \in Seq(Child) /\ n \in Nat /\ DOMAIN entries = 1 .. n
    BY EntriesFacts DEF Inv
  <1>2. IsFiniteSet(Pooled) /\ Cardinality(Pooled) <= n
    <2>1. entries \in Surjection(1 .. n, Pooled)
      BY <1>1 DEF Pooled, Surjection
    <2>2. IsFiniteSet(1 .. n) /\ Cardinality(1 .. n) = n
      BY <1>1, FS_Interval
    <2> HIDE DEF n
    <2>3. IsFiniteSet(Pooled) /\ Cardinality(Pooled) <= Cardinality(1 .. n)
      BY <2>1, <2>2, FS_Surjection
    <2> QED BY <2>2, <2>3
  <1>3. IsFiniteSet(Creating) /\ IsFiniteSet(Closing)
    BY PoolAssumption, FS_Subset DEF Creating, Closing
  <1>4. IsFiniteSet(Staged) /\ Cardinality(Staged) <= Cardinality(Creating)
    <2> DEFINE f == [k \in Creating |-> inflight[k]]
    <2>1. \A k \in Creating : f[k] \in Staged
      BY DEF Creating, LeaseInv, CreationsOwned, Inv, TypeOK
    <2>2. \A x \in Staged : conv[x] \in Creating /\ f[conv[x]] = x
      BY PoolAssumption DEF Creating, Inv, SlotInv, CreatingReserved
    <2>3. f \in Surjection(Creating, Staged)
      BY <2>1, <2>2 DEF Surjection
    <2> HIDE DEF f, Staged
    <2> QED BY <1>3, <2>3, FS_Surjection
  <1>5. live \subseteq (Pooled \cup Staged) \cup Closing
    <2>1. \A x \in Child : teardown[x] # "none" => x \in Closing
      BY DEF Closing, LeaseInv, PhaseSound, Inv, TypeOK
    <2> QED BY <2>1 DEF LiveAccounted, Accounted, Inv, TypeOK
  <1> HIDE DEF n, Staged
  <1>6. /\ IsFiniteSet(Pooled \cup Staged)
        /\ Cardinality(Pooled \cup Staged) =
             Cardinality(Pooled) + Cardinality(Staged) - Cardinality(Pooled \cap Staged)
    BY <1>2, <1>4, FS_Union
  <1>7. /\ IsFiniteSet((Pooled \cup Staged) \cup Closing)
        /\ Cardinality((Pooled \cup Staged) \cup Closing) =
             Cardinality(Pooled \cup Staged) + Cardinality(Closing)
             - Cardinality((Pooled \cup Staged) \cap Closing)
    BY <1>3, <1>6, FS_Union
  <1>8. /\ Cardinality(Pooled \cap Staged) \in Nat
        /\ Cardinality((Pooled \cup Staged) \cap Closing) \in Nat
        /\ Cardinality(Pooled) \in Nat /\ Cardinality(Staged) \in Nat
        /\ Cardinality(Closing) \in Nat /\ Cardinality(Creating) \in Nat
    <2>1. IsFiniteSet(Pooled \cap Staged) /\ IsFiniteSet((Pooled \cup Staged) \cap Closing)
      BY <1>2, <1>6, FS_Intersection
    <2> QED BY <1>2, <1>3, <1>4, <2>1, FS_CardinalityType
  <1>9. Cardinality(live) <= Cardinality((Pooled \cup Staged) \cup Closing)
        /\ Cardinality(live) \in Nat
    <2>1. live \in SUBSET ((Pooled \cup Staged) \cup Closing)
      BY <1>5
    <2> QED BY <1>7, <2>1, FS_Subset, FS_CardinalityType
  <1>10. /\ n + Cardinality(Creating) + Cardinality(Closing) <= MaxChildren
    BY DEF n, Inv, SlotInv, CountersExact, CapacityBound, occupiedSlots
  <1>11. MaxChildren \in Nat
    BY PoolAssumption
  <1> QED BY <1>1, <1>2, <1>4, <1>6, <1>7, <1>8, <1>9, <1>10, <1>11 DEF LiveBounded, n

\* The Map is permuted at most.
LEMMA LiveSame ==
    ASSUME Inv, LiveAccounted, Pooled' = Pooled, UNCHANGED <<live, rpcClosed, stage, teardown>>
    PROVE  LiveAccounted' /\ live' \subseteq live
  BY DEF LiveAccounted, Accounted

\* A process is started, or nothing changes.
LEMMA LiveCreates ==
    ASSUME Inv, LiveAccounted, NEW c, NEW k, NEW pc, createEntry(c, k, pc),
           UNCHANGED <<entries, rpcClosed, teardown>>
    PROVE  LiveAccounted'
  <1>1. Pooled' = Pooled
    BY PooledSame
  <1>2. CASE UNCHANGED <<stage, live>>
    BY <1>1, <1>2, LiveSame
  <1>3. CASE \E x \in Fresh : stage' = [stage EXCEPT ![x] = "factory"] /\ live' = live \cup {x}
    <2>1. PICK x \in Fresh : stage' = [stage EXCEPT ![x] = "factory"] /\ live' = live \cup {x}
      BY <1>3
    <2>2. x \in Child /\ stage'[x] = "factory" /\ \A y \in Child : stage[y] # "none" => stage'[y] # "none"
      BY <2>1 DEF Fresh, Inv, TypeOK
    <2>3. \A y \in Child : Accounted(y) => Accounted(y)'
      BY <1>1, <2>2 DEF Accounted
    <2> QED BY <2>1, <2>2, <2>3 DEF LiveAccounted, Accounted, Inv, TypeOK
  <1> QED BY <1>2, <1>3 DEF createEntry

\* x leaves the Map to be torn down.
LEMMA LiveLeaves ==
    ASSUME Inv, LiveAccounted, NEW i \in DOMAIN entries, NEW by \in Counted,
           entries' = Without(entries, i), teardown' = [teardown EXCEPT ![entries[i]] = by],
           UNCHANGED <<live, rpcClosed, stage>>
    PROVE  LiveAccounted' /\ live' \subseteq live
  <1>1. Pooled' = Pooled \ {entries[i]} /\ entries[i] \in Child /\ by # "none"
    BY PooledWithout, PoolFacts, PoolAssumption DEF Counted, Evictor
  <1>2. teardown'[entries[i]] = by /\ \A y \in Child : y # entries[i] => teardown'[y] = teardown[y]
    BY <1>1 DEF Inv, TypeOK
  <1>3. \A y \in Child : Accounted(y) => Accounted(y)'
    BY <1>1, <1>2 DEF Accounted
  <1> QED BY <1>3 DEF LiveAccounted, Inv, TypeOK

\* The process of x is closed, and x is not counted any more.
LEMMA LiveCloses ==
    ASSUME Inv, LiveAccounted, Disciplined, NEW x \in Child, NEW ok \in BOOLEAN, ProcessClosed(x, ok),
           Pooled' = Pooled, \A y \in Child : y # x => stage'[y] = stage[y] /\ teardown'[y] = teardown[y]
    PROVE  LiveAccounted' /\ live' \subseteq live
  <1>1. live' = live \ {x} /\ rpcClosed' = {}
    BY DEF ProcessClosed, Disciplined, LiveAccounted
  <1>2. \A y \in Child : y # x /\ Accounted(y) => Accounted(y)'
    BY DEF Accounted
  <1> QED BY <1>1, <1>2 DEF LiveAccounted, Inv, TypeOK

LEMMA LiveTeardown ==
    ASSUME Inv, LiveAccounted, Disciplined, NEW x \in Child, TeardownEnds(x)
    PROVE  LiveAccounted' /\ live' \subseteq live
  <1> USE DEF createVars, evictVars, procVars, entryVars
  <1>1. TRUE \in BOOLEAN /\ FALSE \in BOOLEAN /\ TRUE # FALSE
    OBVIOUS
  <1>2. ASSUME NEW ok \in BOOLEAN, ProcessClosed(x, ok), UNCHANGED <<entries, stage>>,
               teardown' = [teardown EXCEPT ![x] = "none"]
        PROVE  LiveAccounted' /\ live' \subseteq live
    <2>1. \A y \in Child : y # x => stage'[y] = stage[y] /\ teardown'[y] = teardown[y]
      BY <1>2 DEF Inv, TypeOK
    <2> QED BY <1>2, <2>1, PooledSame, LiveCloses
  <1>3. CASE CapacityEvicted(x)
    BY <1>1, <1>2, <1>3 DEF CapacityEvicted, Settled
  <1>4. CASE DrainEvicted(x)
    BY <1>1, <1>2, <1>4 DEF DrainEvicted, Settled
  <1>5. CASE SweepEvicted(x)
    BY <1>1, <1>2, <1>5 DEF SweepEvicted, Settled
  <1>6. CASE RetireEvicted(x)
    BY <1>1, <1>2, <1>6 DEF RetireEvicted, Settled
  <1>7. CASE EvictFailed(x)
    BY <1>7 DEF EvictFailed, Settled, ProcessClosed, Disciplined
  <1>8. CASE RetireFailed(x)
    BY <1>8 DEF RetireFailed, ProcessClosed, Disciplined
  <1>9. CASE \E ok \in BOOLEAN : IdleEvicted(x, ok)
    <2>1. PICK ok \in BOOLEAN : IdleEvicted(x, ok)
      BY <1>9
    <2>2. ok = TRUE
      BY <2>1 DEF IdleEvicted, Settled, ProcessClosed, Disciplined
    <2>3. /\ ProcessClosed(x, ok) /\ UNCHANGED <<entries, stage>>
          /\ teardown' = [teardown EXCEPT ![x] = "none"]
      BY <2>1, <2>2 DEF IdleEvicted, Settled
    <2> QED BY <1>2, <2>3
  <1>10. CASE \E ok \in BOOLEAN : FinalClosed(x, ok)
    <2>1. PICK ok \in BOOLEAN : FinalClosed(x, ok)
      BY <1>10
    <2>2. /\ ProcessClosed(x, ok) /\ UNCHANGED <<entries, stage>>
          /\ teardown' = [teardown EXCEPT ![x] = "none"]
      BY <2>1 DEF FinalClosed, Settled
    <2> QED BY <1>2, <2>2
  <1> QED BY <1>3, <1>4, <1>5, <1>6, <1>7, <1>8, <1>9, <1>10 DEF TeardownEnds

LEMMA LiveCreation ==
    ASSUME Inv, LeaseInv, LiveAccounted, Disciplined, NoLeaks, NEW x \in Child,
           FactoryEnds(x) \/ AttachEnds(x)
    PROVE  LiveAccounted' /\ live' \subseteq live
  <1> USE DEF createVars, evictVars, procVars, entryVars
  <1>1. CASE FactoryDone(x) \/ AttachFail(x)
    <2>1. \A y \in Child : stage[y] # "none" => stage'[y] # "none"
      BY <1>1 DEF FactoryDone, AttachFail, Inv, TypeOK
    <2>2. Pooled' = Pooled /\ UNCHANGED <<live, rpcClosed, teardown>>
      BY <1>1, PooledSame DEF FactoryDone, AttachFail
    <2>3. \A y \in Child : Accounted(y) => Accounted(y)'
      BY <2>1, <2>2 DEF Accounted
    <2> QED BY <2>2, <2>3 DEF LiveAccounted, Inv, TypeOK
  <1>2. CASE FactoryFail(x)
    <2>1. live' = live \ {x}
      BY <1>2 DEF FactoryFail, NoLeaks
    <2>2. \A y \in Child : y # x /\ Accounted(y) => Accounted(y)'
      BY <1>2, PooledSame DEF FactoryFail, Accounted, Inv, TypeOK
    <2> QED BY <1>2, <2>1, <2>2 DEF FactoryFail, LiveAccounted, Inv, TypeOK
  <1>3. CASE AttachDone(x)
    <2>1. conv[x] \in Conv /\ inflight[conv[x]] # None
      BY <1>3, PoolAssumption DEF AttachDone, Inv, SlotInv, CreatingReserved
    <2>2. Absent(conv[x])
      BY <2>1 DEF LeaseInv, CreationsOwned
    <2>3. Pooled' = Pooled \cup {x}
      BY <1>3, <2>2, PooledSet DEF AttachDone
    <2>4. \A y \in Child : y # x => stage'[y] = stage[y]
      BY <1>3 DEF AttachDone, Inv, TypeOK
    <2>5. \A y \in Child : Accounted(y) => Accounted(y)'
      BY <1>3, <2>3, <2>4 DEF AttachDone, Accounted
    <2> QED BY <1>3, <2>5 DEF AttachDone, LiveAccounted, Inv, TypeOK
  <1>4. CASE \E ok \in BOOLEAN : CleanupDone(x, ok)
    <2>1. PICK ok \in BOOLEAN : CleanupDone(x, ok)
      BY <1>4
    <2>2. \A y \in Child : y # x => stage'[y] = stage[y] /\ teardown'[y] = teardown[y]
      BY <2>1 DEF CleanupDone, Inv, TypeOK
    <2>3. ProcessClosed(x, ok) /\ Pooled' = Pooled
      BY <2>1, PooledSame DEF CleanupDone
    <2> QED BY <2>2, <2>3, LiveCloses
  <1> QED BY <1>1, <1>2, <1>3, <1>4 DEF FactoryEnds, AttachEnds

LEMMA LiveChildEvents ==
    ASSUME Inv, LiveAccounted, NoLeaks, NEW x \in Child,
           IdleTimer(x) \/ ChildError(x) \/ ChildExit(x) \/ AckTimeout(x)
    PROVE  LiveAccounted' /\ live' \subseteq live
  <1> USE DEF createVars, evictVars, procVars, entryVars
  <1>0. "idle" \in Counted /\ "retire" \in Counted
    BY DEF Counted
  <1>1. CASE IdleTimer(x)
    <2>1. UNCHANGED <<live, rpcClosed, stage>>
      BY <1>1 DEF IdleTimer
    <2>2. CASE \E i \in At(conv[x]) : /\ entries' = Without(entries, i)
                                      /\ teardown' = [teardown EXCEPT ![entries[i]] = "idle"]
      <3>1. PICK i \in At(conv[x]) : /\ entries' = Without(entries, i)
                                     /\ teardown' = [teardown EXCEPT ![entries[i]] = "idle"]
        BY <2>2
      <3> QED BY <1>0, <2>1, <3>1, PoolFacts, LiveLeaves
    <2>3. CASE UNCHANGED <<entries, closing, teardown>>
      BY <2>1, <2>3, PooledSame, LiveSame
    <2> QED BY <1>1, <2>2, <2>3 DEF IdleTimer
  <1>2. CASE ChildError(x)
    <2>1. PICK i \in DOMAIN entries : retireChild(i)
      BY <1>2 DEF ChildError
    <2> QED BY <1>0, <1>2, <2>1, LiveLeaves DEF ChildError, retireChild, BeginTeardown
  <1>3. CASE ChildExit(x)
    <2>1. /\ x \in Pooled /\ live' = live \ {x} /\ rpcClosed' = {}
          /\ UNCHANGED <<stage, teardown>>
      BY <1>3 DEF ChildExit, LiveAccounted
    <2>2. Pooled' = Pooled \/ Pooled' = Pooled \ {x}
      BY <1>3, PooledSame, PooledWithout DEF ChildExit
    <2>3. \A y \in Child : y # x /\ Accounted(y) => Accounted(y)'
      BY <2>1, <2>2 DEF Accounted
    <2> QED BY <2>1, <2>3 DEF LiveAccounted, Inv, TypeOK
  <1>4. CASE AckTimeout(x)
    BY <1>4 DEF AckTimeout, NoLeaks
  <1> QED BY <1>1, <1>2, <1>3, <1>4

LEMMA LiveMicrotask ==
    ASSUME Inv, LeaseInv, LiveAccounted, Microtask
    PROVE  LiveAccounted' /\ (live' \subseteq live \/ (phase = "open" /\ phase' = phase))
  <1> USE DEF createVars, evictVars, procVars, entryVars
  <1>1. CASE drainWaiters
    <2>1. CASE DrainReuse
      <3>1. PICK i \in At(HeadConv) :
              \/ UNCHANGED <<entries, inUse, armed>>
              \/ Lease(Head(waiters), HeadConv, entries[i])
        BY <2>1 DEF DrainReuse
      <3>2. Pooled' = Pooled
        BY <3>1, PooledSame, LeaseSteps
      <3> QED BY <2>1, <3>2, LiveSame DEF DrainReuse
    <2>2. CASE DrainJoin
      BY <2>2, PooledSame, LiveSame DEF DrainJoin
    <2>3. CASE DrainEvict
      BY <2>3, PooledSame, LiveSame DEF DrainEvict
    <2>4. CASE DrainCreate
      <3>1. phase = "open"
        BY <2>4 DEF DrainCreate, DrainReady, LeaseInv, PhaseSound
      <3> QED BY <2>4, <3>1, LiveCreates DEF DrainCreate
    <2>5. CASE DrainStop
      BY <2>5, PooledSame, LiveSame DEF DrainStop
    <2> QED BY <1>1, <2>1, <2>2, <2>3, <2>4, <2>5 DEF drainWaiters
  <1>2. ASSUME NEW c \in Caller, Resume(c)
        PROVE  LiveAccounted' /\ live' \subseteq live
    <2>1. CASE ResumeReject(c)
      BY <2>1, PooledSame, LiveSame DEF ResumeReject
    <2>2. CASE ResumeLease(c)
      BY <2>2, LeaseSteps, LiveSame DEF ResumeLease
    <2>3. CASE ResumeQueue(c)
      BY <2>3, PooledSame, LiveSame DEF ResumeQueue
    <2> QED BY <1>2, <2>1, <2>2, <2>3 DEF Resume
  <1>3. ASSUME NEW c \in Caller, CreateAfterEvict(c)
        PROVE  LiveAccounted' /\ (live' \subseteq live \/ (phase = "open" /\ phase' = phase))
    <2>1. CASE phase = "open" /\ createEntry(c, call[c].conv, "creating")
      BY <1>3, <2>1, LiveCreates DEF CreateAfterEvict
    <2>2. CASE UNCHANGED <<createVars, conv, live>>
      BY <1>3, <2>2, PooledSame, LiveSame DEF CreateAfterEvict
    <2> QED BY <1>3, <2>1, <2>2 DEF CreateAfterEvict
  <1>4. ASSUME NEW by \in Evictor, EvictNext(by) \/ EvictDone(by)
        PROVE  LiveAccounted' /\ live' \subseteq live
    <2>1. CASE EvictNext(by)
      <3>1. PICK i \in DOMAIN entries : BeginTeardown(i, by)
        BY <2>1 DEF EvictNext
      <3>2. by \in Counted
        BY DEF Counted
      <3> QED BY <2>1, <3>1, <3>2, LiveLeaves DEF EvictNext, BeginTeardown
    <2>2. CASE EvictDone(by)
      BY <2>2, PooledSame, LiveSame DEF EvictDone
    <2> QED BY <1>4, <2>1, <2>2
  <1> QED BY <1>1, <1>2, <1>3, <1>4, RejectLeases DEF Microtask

LEMMA LiveCalls ==
    ASSUME Inv, LeaseInv, LiveAccounted, NEW c \in Caller, NEW k \in Conv, Acquire(c, k) \/ Reset(c, k)
    PROVE  LiveAccounted' /\ phase = "open" /\ phase' = phase
  <1> USE DEF createVars, evictVars, procVars, entryVars
  <1>1. phase = "open" /\ phase' = phase
    BY DEF Acquire, AcquireReuse, AcquireBusy, AcquireJoin, AcquireWait, AcquireEvict,
           AcquireCreate, AcquireNew, AcquireReady, Reset
  <1>2. CASE AcquireReuse(c, k)
    <2>1. PICK i \in At(k) : Lease(c, k, entries[i])
      BY <1>2 DEF AcquireReuse
    <2> QED BY <1>1, <1>2, <2>1, LeaseSteps, LiveSame DEF AcquireReuse
  <1>3. CASE AcquireBusy(c, k)
    BY <1>1, <1>3, PooledSame, LiveSame DEF AcquireBusy
  <1>4. CASE AcquireJoin(c, k)
    BY <1>1, <1>4, PooledSame, LiveSame DEF AcquireJoin
  <1>5. CASE AcquireWait(c, k)
    BY <1>1, <1>5, PooledSame, LiveSame DEF AcquireWait
  <1>6. CASE AcquireEvict(c, k)
    BY <1>1, <1>6, PooledSame, LiveSame DEF AcquireEvict
  <1>7. CASE AcquireCreate(c, k)
    BY <1>1, <1>7, LiveCreates DEF AcquireCreate
  <1>8. CASE Reset(c, k)
    <2>1. UNCHANGED <<live, rpcClosed, stage>>
      BY <1>8 DEF Reset
    <2>2. CASE \E i \in At(k) : retireChild(i)
      <3>1. PICK i \in At(k) : retireChild(i)
        BY <2>2
      <3>2. "retire" \in Counted /\ i \in DOMAIN entries
        BY PoolFacts DEF Counted
      <3> QED BY <1>1, <2>1, <3>1, <3>2, LiveLeaves DEF retireChild, BeginTeardown
    <2>3. CASE UNCHANGED <<entries, inUse, retiring, armed, closing, teardown, call>>
      BY <1>1, <2>1, <2>3, PooledSame, LiveSame
    <2> QED BY <1>8, <2>2, <2>3 DEF Reset
  <1> QED BY <1>2, <1>3, <1>4, <1>5, <1>6, <1>7, <1>8 DEF Acquire

LEMMA LiveRelease ==
    ASSUME Inv, LiveAccounted, NEW c \in Caller, Release(c)
    PROVE  LiveAccounted' /\ live' \subseteq live
  <1>1. CASE \E i \in At(call[c].conv) : entries' = touchLru(i)
    <2>1. Pooled' = Pooled
      BY <1>1, PoolFacts, PooledTouched
    <2> QED BY <2>1, LiveSame DEF Release, createVars, evictVars, procVars
  <1>2. CASE UNCHANGED entries
    BY <1>2, PooledSame, LiveSame DEF Release, createVars, evictVars, procVars
  <1> QED BY <1>1, <1>2 DEF Release

LEMMA LiveClose ==
    ASSUME Inv, LiveAccounted, closeIdle \/ close \/ CloseEntries \/ CloseDone
    PROVE  LiveAccounted' /\ live' \subseteq live
  <1> USE DEF createVars, evictVars, procVars, entryVars
  <1>1. CASE closeIdle
    BY <1>1, PooledSame, LiveSame DEF closeIdle
  <1>2. CASE close
    BY <1>2, PooledSame, LiveSame DEF close
  <1>3. CASE CloseEntries
    <2>1. \A x \in Child : Accounted(x) => Accounted(x)'
      BY <1>3 DEF CloseEntries, Accounted
    <2> QED BY <1>3, <2>1 DEF CloseEntries, LiveAccounted, Inv, TypeOK
  <1>4. CASE CloseDone
    BY <1>4, PooledSame, LiveSame DEF CloseDone
  <1> QED BY <1>1, <1>2, <1>3, <1>4

Open == phase = "open"

\* Every process of such a pool stands for a slot it counts.
THEOREM ProcessesCounted == ASSUME Disciplined, NoLeaks PROVE Spec => []LiveInv
  <1>1. Init => LiveInv
    BY FS_EmptySet, PoolAssumption DEF Init, LiveInv, LiveAccounted, LiveBounded
  <1>2. Inv /\ LeaseInv /\ LiveAccounted /\ Open => LiveBounded
    BY LiveCounted DEF Open
  <1>3. Inv /\ LeaseInv /\ LiveInv /\ [Next]_vars => LiveAccounted' /\ (LiveBounded' \/ Open')
    <2> SUFFICES ASSUME Inv, LeaseInv, LiveInv, [Next]_vars
                 PROVE  LiveAccounted' /\ (LiveBounded' \/ Open')
      OBVIOUS
    <2>1. LiveAccounted /\ LiveBounded
      BY DEF LiveInv
    <2>2. LiveAccounted' /\ (live' \subseteq live \/ phase' = "open")
      <3>1. CASE Microtask
        BY <2>1, <3>1, LiveMicrotask
      <3>2. CASE \E c \in Caller, k \in Conv : Acquire(c, k) \/ Reset(c, k)
        BY <2>1, <3>2, LiveCalls
      <3>3. CASE \E c \in Caller : Release(c)
        BY <2>1, <3>3, LiveRelease
      <3>4. CASE \E x \in Child :
                   \/ ChildAnswers(x)
                   \/ IdleTimer(x) \/ ChildError(x) \/ ChildExit(x) \/ AckTimeout(x)
        BY <2>1, <3>4, LiveCreation, LiveTeardown, LiveChildEvents DEF ChildAnswers
      <3>5. CASE closeIdle \/ close \/ CloseEntries \/ CloseDone
        BY <2>1, <3>5, LiveClose
      <3>6. CASE UNCHANGED vars
        BY <2>1, <3>6, PooledSame, LiveSame DEF vars, entryVars, createVars, evictVars, procVars
      <3> QED BY <3>1, <3>2, <3>3, <3>4, <3>5, <3>6 DEF Next
    <2>3. CASE live' \subseteq live
      <3>1. IsFiniteSet(live)
        BY PoolAssumption, FS_Subset DEF Inv, TypeOK
      <3>2. live' \in SUBSET live
        BY <2>3
      <3>3. Cardinality(live') <= Cardinality(live) /\ Cardinality(live) \in Nat /\ Cardinality(live') \in Nat
        BY <3>1, <3>2, FS_Subset, FS_CardinalityType
      <3>4. MaxChildren \in Nat
        BY PoolAssumption
      <3> QED BY <2>1, <2>2, <3>3, <3>4 DEF LiveBounded
    <2> QED BY <2>2, <2>3 DEF Open
  <1>4. LiveInv <=> LiveAccounted /\ LiveBounded
    BY DEF LiveInv
  <1> QED BY <1>1, <1>2, <1>3, <1>4, InvariantHolds, LeasesHold, PTL DEF Spec

\* There are never more processes than maxChildren, for every instance in which
\* the environment leaves no process behind.
THEOREM LiveBoundedHolds == ASSUME Disciplined, NoLeaks PROVE Spec => []LiveBounded
  BY ProcessesCounted, PTL DEF LiveInv

\* After close() no process, waiter, owner or pending call is left, for every
\* instance in which the environment leaves no process behind.
THEOREM ClosedQuietHolds == ASSUME Disciplined, NoLeaks PROVE Spec => []ClosedQuiet
  <1>1. Inv /\ LeaseInv /\ LiveInv => ClosedQuiet
    <2> SUFFICES ASSUME Inv, LeaseInv, LiveInv, phase = "closed"
                 PROVE  /\ live = {} /\ waiters = <<>>
                        /\ \A k \in Conv : owner[k] \notin Child
                        /\ \A c \in Caller : call[c].pc \in {"idle", "holding"}
      BY DEF ClosedQuiet
    <2>1. /\ waiters = <<>> /\ Pooled = {} /\ \A k \in Conv : inflight[k] = None
          /\ \A c \in Caller : call[c].pc \in {"idle", "holding"}
          /\ \A x \in Child : teardown[x] = "none"
      BY DEF LeaseInv, PhaseSound
    <2>2. \A x \in Child : stage[x] = "none"
      BY <2>1, PoolAssumption DEF Inv, SlotInv, CreatingReserved
    <2>3. live = {}
      BY <2>1, <2>2 DEF LiveInv, LiveAccounted, Accounted, Inv, TypeOK
    <2>4. \A k \in Conv : owner[k] \notin Child
      BY <2>1 DEF LeaseInv, OwnersSound
    <2> QED BY <2>1, <2>3, <2>4
  <1> QED BY <1>1, InvariantHolds, LeasesHold, ProcessesCounted, PTL

-----------------------------------------------------------------------------
(***************************************************************************)
(* Close before release, whoever calls: only a command that is not         *)
(* acknowledged makes an RpcChild close itself behind the pool's back.     *)
(***************************************************************************)
Acknowledged == "ackTimeout" \notin Env

NoneClosed == rpcClosed = {}

\* What a step may do to the rows.
OwnerFreed ==
    \A k \in Conv : owner[k] # "free" /\ owner'[k] = "free" =>
        owner[k] \in Child /\ owner[k] \notin live'

LEMMA OwnerSame ==
    ASSUME owner' = owner
    PROVE  OwnerFreed
  BY DEF OwnerFreed

\* One row gets a value other than NULL.
LEMMA OwnerSet ==
    ASSUME Inv, NEW k \in Conv, NEW v, v # "free", owner' = [owner EXCEPT ![k] = v]
    PROVE  OwnerFreed
  BY DEF OwnerFreed, Inv, TypeOK

LEMMA OwnerReleased ==
    ASSUME Inv, NEW x \in Child, ReleaseOwnership(x), x \notin live'
    PROVE  OwnerFreed
  BY DEF OwnerFreed, ReleaseOwnership, Inv, TypeOK

LEMMA ReleasedClosed ==
    ASSUME NoneClosed, NEW x \in Child, ProcessClosed(x, TRUE)
    PROVE  x \notin live'
  BY DEF NoneClosed, ProcessClosed

LEMMA TeardownFrees ==
    ASSUME Inv, NoneClosed, NEW x \in Child, TeardownEnds(x)
    PROVE  OwnerFreed
  <1>1. ASSUME ReleaseOwnership(x), ProcessClosed(x, TRUE) PROVE OwnerFreed
    BY <1>1, ReleasedClosed, OwnerReleased
  <1>2. CASE CapacityEvicted(x)
    BY <1>1, <1>2 DEF CapacityEvicted, Settled
  <1>3. CASE DrainEvicted(x)
    BY <1>1, <1>3 DEF DrainEvicted, Settled
  <1>4. CASE SweepEvicted(x)
    BY <1>1, <1>4 DEF SweepEvicted, Settled
  <1>5. CASE EvictFailed(x) \/ RetireFailed(x)
    BY <1>5, OwnerSame DEF EvictFailed, RetireFailed
  <1>6. CASE RetireEvicted(x)
    <2>1. CASE ReleaseOwnership(x)
      BY <1>1, <1>6, <2>1 DEF RetireEvicted, Settled
    <2>2. CASE owner' = [owner EXCEPT ![conv[x]] = "noRow"]
      <3>1. conv[x] \in Conv /\ "noRow" # "free"
        BY <1>6 DEF RetireEvicted, Settled, Inv, SlotInv, TornSettled
      <3> QED BY <2>2, <3>1, OwnerSet
    <2> QED BY <1>6, <2>1, <2>2 DEF RetireEvicted
  <1>7. CASE \E ok \in BOOLEAN : IdleEvicted(x, ok) \/ FinalClosed(x, ok)
    <2>1. PICK ok \in BOOLEAN : IdleEvicted(x, ok) \/ FinalClosed(x, ok)
      BY <1>7
    <2>2. CASE ok = FALSE
      BY <2>1, <2>2, OwnerSame DEF IdleEvicted, FinalClosed
    <2>3. CASE ok = TRUE
      BY <1>1, <2>1, <2>3 DEF IdleEvicted, FinalClosed, Settled
    <2> QED BY <2>2, <2>3
  <1> QED BY <1>2, <1>3, <1>4, <1>5, <1>6, <1>7 DEF TeardownEnds

LEMMA StepFrees ==
    ASSUME Inv, NoneClosed, Next
    PROVE  OwnerFreed
  <1> USE OwnerSame
  <1>1. CASE Microtask
    BY <1>1 DEF Microtask, drainWaiters, DrainReuse, DrainJoin, DrainEvict, DrainCreate, DrainStop,
       Resume, ResumeReject, ResumeLease, ResumeQueue, CreateAfterEvict, EvictNext, EvictDone,
       RejectWaiter
  <1>2. ASSUME NEW c \in Caller, NEW k \in Conv, Acquire(c, k) PROVE OwnerFreed
    BY <1>2 DEF Acquire, AcquireReuse, AcquireBusy, AcquireJoin, AcquireWait, AcquireEvict, AcquireCreate
  <1>3. ASSUME NEW c \in Caller, NEW k \in Conv, Reset(c, k) PROVE OwnerFreed
    <2>1. CASE owner' = [owner EXCEPT ![k] = "noRow"]
      <3>1. "noRow" # "free"
        OBVIOUS
      <3> QED BY <2>1, <3>1, OwnerSet
    <2> QED BY <1>3, <2>1 DEF Reset
  <1>4. ASSUME NEW c \in Caller, Release(c) PROVE OwnerFreed
    BY <1>4 DEF Release
  <1>5. ASSUME NEW x \in Child, FactoryEnds(x) \/ AttachEnds(x) PROVE OwnerFreed
    <2>1. CASE AttachDone(x)
      <3>1. conv[x] \in Conv /\ x # "free"
        BY <2>1, PoolAssumption DEF AttachDone, Inv, SlotInv, CreatingReserved
      <3> QED BY <2>1, <3>1, OwnerSet DEF AttachDone
    <2> QED BY <1>5, <2>1 DEF FactoryEnds, AttachEnds, FactoryDone, FactoryFail, AttachFail, CleanupDone
  <1>6. ASSUME NEW x \in Child, ChildExit(x) PROVE OwnerFreed
    <2>1. CASE ReleaseOwnership(x)
      BY <1>6, <2>1, OwnerReleased DEF ChildExit
    <2> QED BY <1>6, <2>1 DEF ChildExit
  <1>7. ASSUME NEW x \in Child, IdleTimer(x) \/ ChildError(x) \/ AckTimeout(x) PROVE OwnerFreed
    BY <1>7 DEF IdleTimer, ChildError, AckTimeout
  <1>8. CASE closeIdle \/ close \/ CloseEntries \/ CloseDone
    BY <1>8 DEF closeIdle, close, CloseEntries, CloseDone
  <1> QED BY <1>1, <1>2, <1>3, <1>4, <1>5, <1>6, <1>7, <1>8, TeardownFrees DEF Next, ChildAnswers

\* Without such a timeout no RpcChild is found closed.
LEMMA NoneClosedKept ==
    ASSUME Acknowledged, NoneClosed, [Next]_vars
    PROVE  NoneClosed'
  <1> USE DEF NoneClosed, procVars
  <1>1. CASE Microtask
    BY <1>1 DEF Microtask, drainWaiters, DrainReuse, DrainJoin, DrainEvict, DrainCreate, DrainStop,
       Resume, ResumeReject, ResumeLease, ResumeQueue, CreateAfterEvict, EvictNext, EvictDone,
       RejectWaiter
  <1>2. ASSUME NEW c \in Caller, NEW k \in Conv, Acquire(c, k) \/ Reset(c, k) PROVE NoneClosed'
    BY <1>2 DEF Acquire, AcquireReuse, AcquireBusy, AcquireJoin, AcquireWait, AcquireEvict,
       AcquireCreate, Reset
  <1>3. ASSUME NEW c \in Caller, Release(c) PROVE NoneClosed'
    BY <1>3 DEF Release
  <1>4. ASSUME NEW x \in Child, FactoryEnds(x) \/ AttachEnds(x) PROVE NoneClosed'
    BY <1>4 DEF FactoryEnds, AttachEnds, FactoryDone, FactoryFail, AttachDone, AttachFail,
       CleanupDone, ProcessClosed
  <1>5. ASSUME NEW x \in Child, TeardownEnds(x) PROVE NoneClosed'
    <2>1. ASSUME NEW ok, ProcessClosed(x, ok) PROVE NoneClosed'
      BY <2>1 DEF ProcessClosed
    <2> QED BY <1>5, <2>1 DEF TeardownEnds, CapacityEvicted, DrainEvicted, SweepEvicted, EvictFailed,
           RetireEvicted, RetireFailed, IdleEvicted, FinalClosed, Settled
  <1>6. ASSUME NEW x \in Child, IdleTimer(x) \/ ChildError(x) \/ ChildExit(x) \/ AckTimeout(x)
        PROVE  NoneClosed'
    BY <1>6 DEF IdleTimer, ChildError, ChildExit, AckTimeout, Acknowledged
  <1>7. CASE closeIdle \/ close \/ CloseEntries \/ CloseDone
    BY <1>7 DEF closeIdle, close, CloseEntries, CloseDone
  <1>8. CASE UNCHANGED vars
    BY <1>8 DEF vars
  <1> QED BY <1>1, <1>2, <1>3, <1>4, <1>5, <1>6, <1>7, <1>8 DEF Next, ChildAnswers

\* Ownership goes back to NULL only from a child whose process is dead, for
\* every instance, every way of calling and every other failure.
THEOREM CloseBeforeReleaseHolds == ASSUME Acknowledged PROVE Spec => CloseBeforeRelease
  <1>1. Init => NoneClosed
    BY DEF Init, NoneClosed
  <1>2. NoneClosed /\ [Next]_vars => NoneClosed'
    BY NoneClosedKept
  <1>3. Inv /\ NoneClosed /\ [Next]_vars =>
          [\A k \in Conv : owner[k] # "free" /\ owner'[k] = "free" =>
             owner[k] \in Child /\ owner[k] \notin live']_vars
    BY StepFrees DEF OwnerFreed
  <1> QED BY <1>1, <1>2, <1>3, InvariantHolds, PTL DEF Spec, CloseBeforeRelease

-----------------------------------------------------------------------------
(***************************************************************************)
(* No lost wakeup, where every creation and every close succeeds.          *)
(***************************************************************************)
Promised == Env \cap {"factory", "negotiate", "attach", "ackTimeout"} = {}

Attaching == {"attach", "attachNew"}

\* No creation can fail: its row stays as getOrCreate found it.
RowsStand ==
    \A x \in Child : /\ stage[x] \in {"none", "factory"} \cup Attaching
                     /\ stage[x] \in Attaching => RowStands(x)

\* The queue holds callers that wait, each once.
QueueSound ==
    /\ \A i \in DOMAIN waiters : call[waiters[i]].pc = "waiting"
    /\ \A i, j \in DOMAIN waiters : waiters[i] = waiters[j] => i = j

\* The waiters have no slot to hope for, or a drain that is not over.
Sweeping == \E x \in Child : teardown[x] \in {"drain", "sweep"}
Blocked == (Full /\ Idle = {}) \/ Sweeping \/ \E c \in Caller : call[c].pc = "drainCreating"

\* The microtask that runs next drains, or takes the last slot itself.
DrainComes ==
    \/ micro = <<DrainTask>> \/ micro = <<EvictTask("drain")>> \/ micro = <<EvictTask("sweep")>>
    \/ \E c \in Caller : micro = <<CreateTask(c)>> /\ occupiedSlots + 1 >= MaxChildren /\ Idle = {}
    \/ \E c \in Caller, x \in Child \cup {None} :
          micro = <<ResumeTask(c, x)>> /\ Full /\ Idle \subseteq {x}

NobodyForgotten == waiters # <<>> => Blocked \/ DrainComes

WaitInv == RowsStand /\ QueueSound /\ NobodyForgotten

LEMMA QuietBlocked ==
    ASSUME NobodyForgotten, micro = <<>>, waiters # <<>>
    PROVE  Blocked
  BY TasksDiffer DEF NobodyForgotten, DrainComes

\* What the step does not disturb.
LEMMA BlockedKept ==
    ASSUME Blocked, Full => Full', Idle = {} => Idle' = {},
           \A x \in Child : teardown[x] \in {"drain", "sweep"} => teardown'[x] = teardown[x],
           \A c \in Caller : call[c].pc = "drainCreating" => call'[c].pc = "drainCreating"
    PROVE  Blocked'
  BY DEF Blocked, Sweeping

LEMMA DrainWillCome ==
    ASSUME micro' = <<DrainTask>> \/ micro' = <<EvictTask("drain")>> \/ micro' = <<EvictTask("sweep")>>
    PROVE  NobodyForgotten'
  BY DEF NobodyForgotten, DrainComes

\* A quiet step that takes nothing from the waiters.
LEMMA QuietKept ==
    ASSUME NobodyForgotten, micro = <<>>, waiters' = waiters, Full => Full', Idle = {} => Idle' = {},
           \A x \in Child : teardown[x] \in {"drain", "sweep"} => teardown'[x] = teardown[x],
           \A c \in Caller : call[c].pc = "drainCreating" => call'[c].pc = "drainCreating"
    PROVE  NobodyForgotten'
  BY QuietBlocked, BlockedKept DEF NobodyForgotten

LEMMA SlotFacts ==
    ASSUME Inv
    PROVE  /\ Len(entries) \in Nat /\ pendingCreations \in Int /\ closing \in Int
           /\ MaxChildren \in Nat /\ occupiedSlots \in Int
           /\ \A i \in DOMAIN entries : /\ entries' = Without(entries, i) => Len(entries') = Len(entries) - 1
                                        /\ entries' = touchLru(i) => Len(entries') = Len(entries)
  <1>1. entries \in Seq(Child) /\ Len(entries) \in Nat /\ DOMAIN entries = 1 .. Len(entries)
    BY EntriesFacts DEF Inv
  <1>2. pendingCreations \in Int /\ closing \in Int /\ MaxChildren \in Nat
    BY PoolAssumption DEF Inv, TypeOK
  <1>3. occupiedSlots \in Int
    BY <1>1, <1>2 DEF occupiedSlots
  <1>4. ASSUME NEW i \in DOMAIN entries, entries' = Without(entries, i)
        PROVE  Len(entries') = Len(entries) - 1
    <2>1. i \in 1 .. Len(entries)
      BY <1>1
    <2>2. Len(Without(entries, i)) = Len(entries) - 1
      BY <1>1, <2>1, WithoutProperties
    <2> QED BY <1>4, <2>2
  <1>5. ASSUME NEW i \in DOMAIN entries, entries' = touchLru(i)
        PROVE  Len(entries') = Len(entries)
    <2>1. Len(touchLru(i)) = Len(entries)
      BY <1>1, TouchProperties
    <2> QED BY <1>5, <2>1
  <1> QED BY <1>1, <1>2, <1>3, <1>4, <1>5

\* A lease moves no slot, and the child it takes is not idle any more.
LEMMA LeaseSlots ==
    ASSUME Inv, NEW c, NEW k, NEW x, Lease(c, k, x), UNCHANGED <<pendingCreations, closing>>
    PROVE  occupiedSlots' = occupiedSlots /\ Idle' = Idle \ {x}
  <1>1. Idle' = Idle \ {x}
    BY LeaseSteps DEF Idle
  <1>2. Len(entries') = Len(entries)
    <2>1. CASE UNCHANGED entries
      BY <2>1
    <2>2. CASE \E i \in At(k) : entries' = touchLru(i)
      BY <2>2, PoolFacts, SlotFacts
    <2> QED BY <2>1, <2>2 DEF Lease, TouchConv
  <1> QED BY <1>1, <1>2 DEF occupiedSlots

\* An entry leaves the Map; its slot is counted in `closing'.
LEMMA LeaveSlots ==
    ASSUME Inv, NEW i \in DOMAIN entries, entries' = Without(entries, i), closing' = closing + 1,
           UNCHANGED pendingCreations
    PROVE  occupiedSlots' = occupiedSlots
  BY SlotFacts DEF occupiedSlots

LEMMA AcquireWaits ==
    ASSUME Inv, LeaseInv, NobodyForgotten, Disciplined, NEW c \in Caller, NEW k \in Conv, Acquire(c, k)
    PROVE  NobodyForgotten'
  <1> USE DEF createVars, evictVars, procVars, entryVars
  <1>1. /\ micro = <<>> /\ phase = "open" /\ call[c].pc = "idle"
        /\ \A d \in Caller : call[d].conv # k
    BY DEF Acquire, AcquireReuse, AcquireBusy, AcquireJoin, AcquireWait, AcquireEvict,
           AcquireCreate, AcquireNew, AcquireReady, MayCall, Disciplined, Quiet
  <1>2. ASSUME NEW pc, NEW j, NEW x, SetCall(c, pc, j, x)
        PROVE  \A d \in Caller : call[d].pc = "drainCreating" => call'[d].pc = "drainCreating"
    BY <1>1, <1>2 DEF SetCall, Inv, TypeOK
  <1>3. CASE AcquireReuse(c, k)
    <2>1. PICK i \in At(k) : Lease(c, k, entries[i])
      BY <1>3 DEF AcquireReuse
    <2>2. occupiedSlots' = occupiedSlots /\ Idle' = Idle \ {entries[i]}
      BY <1>3, <2>1, LeaseSlots DEF AcquireReuse
    <2>3. \A d \in Caller : call[d].pc = "drainCreating" => call'[d].pc = "drainCreating"
      BY <1>2, <2>1 DEF Lease
    <2>4. waiters' = waiters /\ teardown' = teardown
      BY <1>3 DEF AcquireReuse
    <2> QED BY <1>1, <2>2, <2>3, <2>4, QuietKept DEF Full
  <1>4. CASE AcquireBusy(c, k)
    <2>1. PICK x \in Pooled : conv[x] = k /\ x \in inUse
      BY <1>4, PoolFacts DEF AcquireBusy
    <2>2. PICK d \in Caller : call[d].pc = "holding" /\ call[d].child = x
      BY <1>1, <2>1 DEF LeaseInv, UsedHeld
    <2> QED BY <1>1, <2>1, <2>2 DEF LeaseInv, LeasesSound
  <1>5. CASE AcquireJoin(c, k)
    BY <1>1, <1>5 DEF AcquireJoin, LeaseInv, CreationsOwned, Awaits
  <1>6. CASE AcquireWait(c, k)
    BY <1>6 DEF AcquireWait, NobodyForgotten, Blocked, Full, Idle, Pooled, occupiedSlots
  <1>7. CASE AcquireEvict(c, k)
    <2>1. SetCall(c, "evicting", k, None) /\ waiters' = waiters /\ teardown' = teardown
      BY <1>7 DEF AcquireEvict
    <2>2. Full' = Full /\ Idle' = Idle
      BY <1>7 DEF AcquireEvict, Full, Idle, Pooled, occupiedSlots
    <2> QED BY <1>1, <1>2, <2>1, <2>2, QuietKept
  <1>8. CASE AcquireCreate(c, k)
    <2>1. /\ SetCall(c, "creating", k, None) /\ waiters' = waiters /\ teardown' = teardown /\ ~Full
      BY <1>8 DEF AcquireCreate, createEntry
    <2>2. Idle' = Idle
      BY <1>8 DEF AcquireCreate, Idle, Pooled
    <2> QED BY <1>1, <1>2, <2>1, <2>2, QuietKept
  <1> QED BY <1>3, <1>4, <1>5, <1>6, <1>7, <1>8 DEF Acquire

LEMMA CreationWaits ==
    ASSUME Inv, LeaseInv, RowsStand, NobodyForgotten, Promised, NEW x \in Child,
           FactoryEnds(x) \/ AttachEnds(x)
    PROVE  NobodyForgotten'
  <1> USE DEF createVars, evictVars, procVars, entryVars
  <1>1. micro = <<>>
    BY DEF FactoryEnds, AttachEnds, FactoryDone, FactoryFail, AttachDone, AttachFail, CleanupDone, Quiet
  <1>2. CASE FactoryDone(x)
    <2>1. UNCHANGED <<waiters, teardown, call, Full, Idle>>
      BY <1>2 DEF FactoryDone, Full, Idle, Pooled, occupiedSlots
    <2> QED BY <1>1, <2>1, QuietKept
  <1>3. CASE FactoryFail(x)
    BY <1>3 DEF FactoryFail, Promised
  <1>4. CASE AttachFail(x)
    BY <1>4 DEF AttachFail, Promised, RowsStand, Attaching
  <1>5. CASE \E ok \in BOOLEAN : CleanupDone(x, ok)
    BY <1>5 DEF CleanupDone, RowsStand, Attaching
  <1>6. CASE AttachDone(x)
    <2>1. stage[x] # "none"
      BY <1>6 DEF AttachDone
    <2>2. conv[x] \in Conv /\ inflight[conv[x]] # None
      BY <2>1, PoolAssumption DEF Inv, SlotInv, CreatingReserved
    <2>3. Absent(conv[x])
      BY <2>2 DEF LeaseInv, CreationsOwned
    <2>4. Pooled' = Pooled \cup {x} /\ inUse' = inUse \ {x} /\ Idle' = Idle \cup {x}
      BY <1>6, <2>3, PooledSet DEF AttachDone, Idle
    <2>5. entries' = Append(entries, x)
      BY <1>6, <2>3, PoolFacts DEF AttachDone, MapSet
    <2>6. Len(entries') = Len(entries) + 1
      BY <2>5, EntriesFacts, AppendFacts DEF Inv
    <2>7. occupiedSlots' = occupiedSlots
      BY <1>6, <2>6, SlotFacts DEF AttachDone, Settle, occupiedSlots
    <2>8. PICK c \in Caller : micro' = <<ResumeTask(c, x)>>
      BY <1>6, <2>2, SettleWakes DEF AttachDone
    <2>9. waiters' = waiters /\ teardown' = teardown /\ call' = call
      BY <1>6 DEF AttachDone
    <2>10. ASSUME waiters # <<>> PROVE Blocked' \/ DrainComes'
      <3>1. Blocked
        BY <1>1, <2>10, QuietBlocked
      <3>2. CASE Full /\ Idle = {}
        <4>1. Full' /\ Idle' = {x}
          BY <2>4, <2>7, <3>2 DEF Full
        <4> QED BY <2>8, <4>1 DEF DrainComes
      <3>3. CASE Sweeping \/ \E d \in Caller : call[d].pc = "drainCreating"
        BY <2>9, <3>3 DEF Blocked, Sweeping
      <3> QED BY <3>1, <3>2, <3>3 DEF Blocked
    <2> QED BY <2>9, <2>10 DEF NobodyForgotten
  <1> QED BY <1>2, <1>3, <1>4, <1>5, <1>6 DEF FactoryEnds, AttachEnds

LEMMA ResumeWaits ==
    ASSUME Inv, LeaseInv, NobodyForgotten, NEW c \in Caller, Resume(c)
    PROVE  NobodyForgotten'
  <1> USE DEF createVars, evictVars, procVars, entryVars
  <1> DEFINE x == Head(micro).child
  <1> DEFINE pcs == {"creating", "drainCreating", "joining", "drainJoining"}
  <1>0. ResumeReady(c, pcs)
    BY DEF Resume, ResumeReject, ResumeLease, ResumeQueue, ResumeReady
  <1>1. /\ micro = <<ResumeTask(c, x)>> /\ x \in Child \cup {None} /\ call[c].pc \in Creator
    BY <1>0, RunningIs, TaskShapes, ResumeRuns DEF LeaseInv, ResumeReady
  <1>2. ASSUME waiters # <<>> PROVE Blocked \/ (Full /\ Idle \subseteq {x})
    BY <1>1, <1>2, TasksDiffer DEF NobodyForgotten, DrainComes
  <1>3. ASSUME waiters # <<>> PROVE phase = "open"
    BY <1>3 DEF LeaseInv, PhaseSound
  <1>4. <<DrainTask>> \in Seq(Task) /\ Running("resume")
    BY <1>0, TaskFacts DEF ResumeReady
  <1>5. CASE call[c].pc = "drainCreating" /\ waiters # <<>>
    <2>1. AfterResume(c)
      BY DEF Resume, ResumeReject, ResumeLease, ResumeQueue
    <2>2. Then(<<DrainTask>>)
      BY <1>3, <1>5, <2>1 DEF AfterResume
    <2>3. micro' = <<DrainTask>>
      BY <1>4, <2>2, RunningIs DEF LeaseInv
    <2> QED BY <2>3, DrainWillCome
  <1>6. CASE call[c].pc # "drainCreating" /\ waiters # <<>>
    <2>1. \A d \in Caller : d # c => call'[d] = call[d]
      BY DEF Resume, ResumeReject, ResumeLease, ResumeQueue, Lease, HangUp, SetCall, Inv, TypeOK
    <2>2. teardown' = teardown /\ waiters # <<>>
      BY <1>6 DEF Resume, ResumeReject, ResumeLease, ResumeQueue
    <2>3. /\ occupiedSlots' = occupiedSlots
          /\ Idle' = Idle \ {x}
      <3>1. CASE ResumeReject(c)
        <4>1. x = None /\ Idle' = Idle /\ occupiedSlots' = occupiedSlots
          BY <1>3, <1>6, <3>1 DEF ResumeReject, Idle, Pooled, occupiedSlots
        <4>2. None \notin Idle
          BY PoolFacts, PoolAssumption DEF Idle
        <4> QED BY <4>1, <4>2
      <3>2. CASE ResumeLease(c)
        <4>1. occupiedSlots' = occupiedSlots /\ Idle' = Idle \ {x}
          BY <3>2, LeaseSlots DEF ResumeLease
        <4> QED BY <4>1
      <3>3. CASE ResumeQueue(c)
        BY <1>1, <3>3 DEF ResumeQueue, ResumeReady, Creator
      <3> QED BY <3>1, <3>2, <3>3 DEF Resume
    <2>4. CASE Full /\ Idle \subseteq {x}
      BY <2>3, <2>4 DEF Blocked, Full, NobodyForgotten
    <2>5. CASE Blocked
      BY <1>6, <2>1, <2>2, <2>3, <2>5 DEF Blocked, Sweeping, Full, NobodyForgotten
    <2> QED BY <1>2, <2>2, <2>4, <2>5
  <1>7. CASE waiters = <<>>
    <2>1. ~ResumeQueue(c)
      BY <1>1 DEF ResumeQueue, ResumeReady, Creator
    <2> QED BY <1>7, <2>1 DEF Resume, ResumeReject, ResumeLease, NobodyForgotten
  <1> QED BY <1>5, <1>6, <1>7

LEMMA DrainWaits ==
    ASSUME Inv, LeaseInv, QueueSound, NobodyForgotten, drainWaiters
    PROVE  NobodyForgotten'
  <1> USE DEF createVars, evictVars, procVars, entryVars
  <1>1. /\ micro = <<DrainTask>>
        /\ Then(<<EvictTask("drain")>>) => micro' = <<EvictTask("drain")>>
    BY DrainRuns DEF drainWaiters, DrainReuse, DrainJoin, DrainEvict, DrainCreate, DrainStop, DrainReady
  <1>2. CASE DrainReuse
    BY <1>1, <1>2, DrainWillCome DEF DrainReuse
  <1>3. CASE DrainJoin
    <2>1. DrainReady /\ inflight[HeadConv] # None /\ call[Head(waiters)].pc = "waiting"
      BY <1>3 DEF DrainJoin, DrainReady
    <2>2. Head(waiters) \in Caller /\ HeadConv \in Conv /\ HeadConv = call[Head(waiters)].conv
      BY <2>1, HeadFacts DEF HeadConv
    <2>3. PICK d \in Caller : Awaits(d, HeadConv)
      BY <2>1, <2>2 DEF LeaseInv, CreationsOwned
    <2>4. d = Head(waiters)
      BY <2>2, <2>3, WakeAlone DEF Awaits
    <2> QED BY <2>1, <2>3, <2>4 DEF Awaits, Creator
  <1>4. CASE DrainEvict
    BY <1>1, <1>4, DrainWillCome DEF DrainEvict
  <1>5. CASE DrainCreate
    <2>1. Head(waiters) \in Caller
      BY <1>5, HeadFacts DEF DrainCreate
    <2>2. call'[Head(waiters)].pc = "drainCreating"
      BY <1>5, <2>1 DEF DrainCreate, createEntry, SetCall, Inv, TypeOK
    <2> QED BY <2>1, <2>2 DEF NobodyForgotten, Blocked
  <1>6. CASE DrainStop
    <2>1. UNCHANGED <<waiters, teardown, call, Full, Idle>>
      BY <1>6 DEF DrainStop, Full, Idle, Pooled, occupiedSlots
    <2>2. CASE waiters = <<>>
      BY <2>1, <2>2 DEF NobodyForgotten
    <2>3. CASE waiters # <<>> /\ \E i \in At(HeadConv) : entries[i] \in inUse \ retiring
      <3>1. PICK x \in Pooled : conv[x] = HeadConv /\ x \in inUse
        BY <2>3, PoolFacts
      <3>2. phase = "open"
        BY <2>3 DEF LeaseInv, PhaseSound
      <3>3. PICK d \in Caller : call[d].pc = "holding" /\ call[d].child = x
        BY <3>1, <3>2 DEF LeaseInv, UsedHeld
      <3>4. call[d].conv = HeadConv /\ HeadConv \in Conv
        BY <3>1, <3>3, PoolFacts DEF LeaseInv, LeasesSound
      <3>5. Head(waiters) \in Caller /\ call[Head(waiters)].pc = "waiting"
        <4>1. /\ waiters \in Seq(Caller) /\ Len(waiters) \in Nat /\ Len(waiters) # 0
              /\ DOMAIN waiters = 1 .. Len(waiters) /\ Head(waiters) = waiters[1]
          BY <2>3, LenProperties, EmptySeq DEF Inv, TypeOK
        <4> QED BY <4>1 DEF QueueSound
      <3>6. d = Head(waiters)
        BY <3>4, <3>5, WakeAlone DEF HeadConv
      <3> QED BY <3>3, <3>5, <3>6
    <2>4. CASE Full /\ (Idle = {} \/ drainEviction)
      BY <2>1, <2>4 DEF NobodyForgotten, Blocked, Sweeping, drainEviction
    <2> QED BY <1>6, <2>2, <2>3, <2>4 DEF DrainStop
  <1> QED BY <1>2, <1>3, <1>4, <1>5, <1>6 DEF drainWaiters

LEMMA ReleaseWaits ==
    ASSUME Inv, NobodyForgotten, NEW c \in Caller, Release(c)
    PROVE  NobodyForgotten'
  <1>1. CASE micro' = <<DrainTask>>
    BY <1>1, DrainWillCome
  <1>2. CASE UNCHANGED <<entries, inUse, armed, micro>>
    <2>1. micro = <<>> /\ waiters' = waiters /\ teardown' = teardown
      BY DEF Release, Quiet, evictVars
    <2>2. \A d \in Caller : call[d].pc = "drainCreating" => call'[d].pc = "drainCreating"
      BY DEF Release, HangUp, Inv, TypeOK
    <2>3. Full' = Full /\ Idle' = Idle
      BY <1>2 DEF Release, createVars, evictVars, Full, Idle, Pooled, occupiedSlots
    <2> QED BY <2>1, <2>2, <2>3, QuietKept
  <1> QED BY <1>1, <1>2 DEF Release

LEMMA EvictLoopWaits ==
    ASSUME Inv, LeaseInv, NobodyForgotten, NEW by \in Evictor, EvictNext(by) \/ EvictDone(by)
    PROVE  NobodyForgotten'
  <1> USE DEF createVars, evictVars, procVars, entryVars
  <1>1. /\ micro = <<EvictTask(by)>>
        /\ by \in Caller => call[by].pc = "evicting"
        /\ Then(<<DrainTask>>) => micro' = <<DrainTask>>
    BY EvictRuns DEF EvictNext, EvictDone
  <1>2. by \in Caller => by \notin {"drain", "sweep"}
    BY PoolAssumption
  <1>3. ASSUME by \in Caller, waiters # <<>> PROVE Blocked
    BY <1>1, <1>2, <1>3, TasksDiffer DEF NobodyForgotten, DrainComes
  <1>4. CASE EvictNext(by)
    <2>1. PICK n \in Candidates(by) : \E i \in DOMAIN entries :
              entries[i] = snap[by].order[n] /\ BeginTeardown(i, by)
      BY <1>4 DEF EvictNext
    <2>2. PICK i \in DOMAIN entries : entries[i] = snap[by].order[n] /\ BeginTeardown(i, by)
      BY <2>1
    <2>3. entries[i] \in Idle /\ entries[i] \in Child /\ teardown[entries[i]] = "none"
      BY <2>1, <2>2, PoolFacts DEF Candidates
    <2>4. teardown'[entries[i]] = by /\ \A y \in Child : y # entries[i] => teardown'[y] = teardown[y]
      BY <2>2, <2>3 DEF BeginTeardown, Inv, TypeOK
    <2>5. waiters' = waiters /\ call' = call
      BY <1>4 DEF EvictNext
    <2>6. CASE by \in {"drain", "sweep"}
      BY <2>3, <2>4, <2>6 DEF NobodyForgotten, Blocked, Sweeping
    <2>7. CASE by \in Caller
      <3>1. \A y \in Child : teardown[y] \in {"drain", "sweep"} => teardown'[y] = teardown[y]
        BY <2>3, <2>4
      <3>2. ASSUME waiters # <<>> PROVE Blocked'
        <4>1. Blocked /\ Idle # {}
          BY <1>3, <2>3, <2>7, <3>2
        <4> QED BY <2>5, <3>1, <4>1 DEF Blocked, Sweeping
      <3> QED BY <2>5, <3>2 DEF NobodyForgotten
    <2> QED BY <2>6, <2>7 DEF Evictor
  <1>5. CASE EvictDone(by)
    <2>1. CASE by = "drain"
      BY <1>5, <2>1 DEF EvictDone, NobodyForgotten
    <2>2. CASE by = "sweep"
      BY <1>1, <1>2, <1>5, <2>2, DrainWillCome DEF EvictDone
    <2>3. CASE by \in Caller
      <3>1. UNCHANGED <<waiters, teardown, Full, Idle>>
        BY <1>2, <1>5, <2>3 DEF EvictDone, Full, Idle, Pooled, occupiedSlots
      <3>2. \A d \in Caller : call[d].pc = "drainCreating" => call'[d].pc = "drainCreating"
        BY <1>1, <1>2, <1>5, <2>3 DEF EvictDone
      <3> QED BY <1>3, <2>3, <3>1, <3>2, BlockedKept DEF NobodyForgotten
    <2> QED BY <2>1, <2>2, <2>3 DEF Evictor
  <1> QED BY <1>4, <1>5

LEMMA CreateAfterEvictWaits ==
    ASSUME Inv, LeaseInv, NobodyForgotten, NEW c \in Caller, CreateAfterEvict(c)
    PROVE  NobodyForgotten'
  <1> USE DEF createVars, evictVars, procVars, entryVars
  <1>1. micro = <<CreateTask(c)>> /\ call[c].pc = "evicting" /\ waiters' = waiters
    BY CreateRuns DEF CreateAfterEvict
  <1>2. CASE waiters = <<>>
    BY <1>1, <1>2 DEF NobodyForgotten
  <1>3. CASE waiters # <<>>
    <2>1. phase = "open"
      BY <1>3 DEF LeaseInv, PhaseSound
    <2>2. call[c].conv \in Conv /\ \A d \in Caller : d # c => call[d].conv # call[c].conv
      BY <1>1, WakeAlone DEF Inv, CallsNamed
    <2>3. inflight[call[c].conv] = None
      <3>1. \A d \in Caller : ~Awaits(d, call[c].conv)
        BY <1>1, <2>2 DEF Awaits, Creator
      <3> QED BY <2>2, <3>1 DEF LeaseInv, CreationsOwned
    <2>4. /\ pendingCreations' = pendingCreations + 1 /\ UNCHANGED <<entries, closing, inUse, teardown>>
          /\ SetCall(c, "creating", call[c].conv, None)
      BY <2>1, <2>3 DEF CreateAfterEvict, createEntry
    <2>5. occupiedSlots' = occupiedSlots + 1 /\ Idle' = Idle
      BY <2>4, SlotFacts DEF occupiedSlots, Idle, Pooled
    <2>6. \A d \in Caller : call[d].pc = "drainCreating" => call'[d].pc = "drainCreating"
      BY <1>1, <2>4 DEF SetCall, Inv, TypeOK
    <2>7. Full => Full'
      BY <2>5, SlotFacts DEF Full
    <2>8. CASE Blocked
      BY <2>4, <2>5, <2>6, <2>7, <2>8, BlockedKept DEF NobodyForgotten
    <2>9. CASE DrainComes
      <3>1. occupiedSlots + 1 >= MaxChildren /\ Idle = {}
        BY <1>1, <2>9, TasksDiffer DEF DrainComes
      <3> QED BY <2>5, <3>1 DEF NobodyForgotten, Blocked, Full
    <2> QED BY <1>3, <2>8, <2>9 DEF NobodyForgotten
  <1> QED BY <1>2, <1>3

LEMMA TeardownWaits ==
    ASSUME Inv, LeaseInv, NobodyForgotten, Disciplined, NEW x \in Child, TeardownEnds(x)
    PROVE  NobodyForgotten'
  <1> USE DEF createVars, evictVars, procVars, entryVars
  <1>1. CASE CapacityEvicted(x)
    <2>1. /\ micro = <<>> /\ teardown[x] \in Caller /\ micro' = <<CreateTask(teardown[x])>>
          /\ teardown' = [teardown EXCEPT ![x] = "none"] /\ Recycle(x) /\ closing' = closing - 1
          /\ UNCHANGED <<entries, pendingCreations, waiters, call>>
      BY <1>1 DEF CapacityEvicted, Settled, Quiet
    <2>2. x \notin Pooled /\ Pooled' = Pooled
      BY <2>1, PoolFacts, PooledSame, PoolAssumption
    <2>3. Idle' = Idle
      BY <2>1, <2>2 DEF Idle, Recycle
    <2>4. occupiedSlots' + 1 = occupiedSlots /\ occupiedSlots \in Int
      BY <2>1, SlotFacts DEF occupiedSlots
    <2>5. \A y \in Child : teardown[y] \in {"drain", "sweep"} => teardown'[y] = teardown[y]
      BY <2>1, PoolAssumption DEF Inv, TypeOK
    <2>6. ASSUME waiters # <<>> PROVE Blocked' \/ DrainComes'
      <3>1. Blocked
        BY <2>1, <2>6, QuietBlocked
      <3>2. CASE Full /\ Idle = {}
        <4>1. occupiedSlots' + 1 >= MaxChildren /\ Idle' = {}
          BY <2>3, <2>4, <3>2 DEF Full
        <4> QED BY <2>1, <4>1 DEF DrainComes
      <3>3. CASE Sweeping \/ \E d \in Caller : call[d].pc = "drainCreating"
        BY <2>1, <2>5, <3>3 DEF Blocked, Sweeping
      <3> QED BY <3>1, <3>2, <3>3 DEF Blocked
    <2> QED BY <2>1, <2>6 DEF NobodyForgotten
  <1>2. CASE DrainEvicted(x) \/ SweepEvicted(x) \/ RetireEvicted(x)
    BY <1>2, DrainWillCome DEF DrainEvicted, SweepEvicted, RetireEvicted
  <1>3. CASE EvictFailed(x) \/ RetireFailed(x)
    BY <1>3 DEF EvictFailed, RetireFailed, Settled, ProcessClosed, Disciplined
  <1>4. CASE \E ok \in BOOLEAN : IdleEvicted(x, ok)
    BY <1>4, DrainWillCome DEF IdleEvicted
  <1>5. CASE \E ok \in BOOLEAN : FinalClosed(x, ok)
    <2>1. teardown[x] = "final" /\ waiters' = waiters
      BY <1>5 DEF FinalClosed, Settled
    <2>2. waiters = <<>>
      BY <2>1 DEF LeaseInv, PhaseSound
    <2> QED BY <2>1, <2>2 DEF NobodyForgotten
  <1> QED BY <1>1, <1>2, <1>3, <1>4, <1>5 DEF TeardownEnds

LEMMA RetireWaits ==
    ASSUME Inv, NobodyForgotten, micro = <<>>, NEW i \in DOMAIN entries, retireChild(i),
           UNCHANGED <<pendingCreations, waiters>>,
           \A c \in Caller : call[c].pc = "drainCreating" => call'[c].pc = "drainCreating"
    PROVE  NobodyForgotten'
  <1>1. occupiedSlots' = occupiedSlots
    BY LeaveSlots DEF retireChild, BeginTeardown
  <1>2. entries[i] \in Child /\ teardown[entries[i]] = "none"
    BY PoolFacts
  <1>3. Idle = {} => Idle' = {}
    <2>1. Pooled' = Pooled \ {entries[i]} /\ inUse' = inUse \ {entries[i]}
      BY PooledWithout DEF retireChild, BeginTeardown
    <2> QED BY <2>1 DEF Idle
  <1>4. \A x \in Child : teardown[x] \in {"drain", "sweep"} => teardown'[x] = teardown[x]
    BY <1>2 DEF retireChild, BeginTeardown, Inv, TypeOK
  <1> QED BY <1>1, <1>3, <1>4, QuietKept DEF Full

LEMMA ChildEventWaits ==
    ASSUME Inv, LeaseInv, NobodyForgotten, NEW x \in Child,
           IdleTimer(x) \/ ChildError(x) \/ ChildExit(x) \/ AckTimeout(x)
    PROVE  NobodyForgotten'
  <1> USE DEF createVars, evictVars, procVars, entryVars
  <1>0. micro = <<>>
    BY DEF IdleTimer, ChildError, ChildExit, AckTimeout, Quiet
  <1>1. CASE IdleTimer(x)
    <2>1. UNCHANGED <<conv, inUse, pendingCreations, waiters, call>>
      BY <1>1 DEF IdleTimer
    <2>2. CASE \E i \in At(conv[x]) :
                 /\ entries[i] \notin inUse /\ entries' = Without(entries, i)
                 /\ closing' = closing + 1
                 /\ teardown' = [teardown EXCEPT ![entries[i]] = "idle"]
      <3>1. PICK i \in At(conv[x]) :
                 /\ entries[i] \notin inUse /\ entries' = Without(entries, i)
                 /\ closing' = closing + 1
                 /\ teardown' = [teardown EXCEPT ![entries[i]] = "idle"]
        BY <2>2
      <3>2. /\ i \in DOMAIN entries /\ entries[i] \in Child /\ teardown[entries[i]] = "none"
            /\ entries[i] \in Idle
        BY <3>1, PoolFacts DEF Idle
      <3>3. occupiedSlots' = occupiedSlots
        BY <2>1, <3>1, <3>2, LeaveSlots
      <3>4. \A y \in Child : teardown[y] \in {"drain", "sweep"} => teardown'[y] = teardown[y]
        BY <3>1, <3>2 DEF Inv, TypeOK
      <3> QED BY <1>0, <2>1, <3>2, <3>3, <3>4, QuietKept DEF Full
    <2>3. CASE UNCHANGED <<entries, closing, teardown>>
      <3>1. Full' = Full /\ Idle' = Idle
        BY <2>1, <2>3 DEF Full, Idle, Pooled, occupiedSlots
      <3> QED BY <1>0, <2>1, <2>3, <3>1, QuietKept
    <2> QED BY <1>1, <2>2, <2>3 DEF IdleTimer
  <1>2. CASE ChildError(x)
    <2>1. PICK i \in DOMAIN entries : retireChild(i)
      BY <1>2 DEF ChildError
    <2>2. UNCHANGED <<pendingCreations, waiters, call>>
      BY <1>2 DEF ChildError
    <2> QED BY <1>0, <2>1, <2>2, RetireWaits
  <1>3. CASE ChildExit(x)
    <2>1. CASE micro' = <<DrainTask>>
      BY <2>1, DrainWillCome
    <2>2. CASE UNCHANGED <<entryVars, owner, micro>>
      <3>1. UNCHANGED <<waiters, teardown, call, Full, Idle>>
        BY <1>3, <2>2 DEF ChildExit, Full, Idle, Pooled, occupiedSlots
      <3> QED BY <1>0, <3>1, QuietKept
    <2> QED BY <1>3, <2>1, <2>2 DEF ChildExit
  <1>4. CASE AckTimeout(x)
    <2>1. UNCHANGED <<waiters, teardown, call, Full, Idle>>
      BY <1>4 DEF AckTimeout, Full, Idle, Pooled, occupiedSlots
    <2> QED BY <1>0, <2>1, QuietKept
  <1> QED BY <1>1, <1>2, <1>3, <1>4

LEMMA ResetWaits ==
    ASSUME Inv, NobodyForgotten, NEW c \in Caller, NEW k \in Conv, Reset(c, k)
    PROVE  NobodyForgotten'
  <1> USE DEF createVars, evictVars, procVars, entryVars
  <1>0. micro = <<>> /\ call[c].pc = "idle" /\ UNCHANGED <<pendingCreations, waiters>>
    BY DEF Reset, Quiet
  <1>1. CASE \E i \in At(k) : retireChild(i) /\ SetCall(c, "resetting", k, entries[i])
    <2>1. PICK i \in At(k) : retireChild(i) /\ SetCall(c, "resetting", k, entries[i])
      BY <1>1
    <2>2. \A d \in Caller : call[d].pc = "drainCreating" => call'[d].pc = "drainCreating"
      BY <1>0, <2>1 DEF SetCall, Inv, TypeOK
    <2> QED BY <1>0, <2>1, <2>2, PoolFacts, RetireWaits
  <1>2. CASE UNCHANGED <<entries, inUse, retiring, armed, closing, teardown, call>>
    <2>1. Full' = Full /\ Idle' = Idle
      BY <1>0, <1>2 DEF Full, Idle, Pooled, occupiedSlots
    <2> QED BY <1>0, <1>2, <2>1, QuietKept
  <1> QED BY <1>1, <1>2 DEF Reset

LEMMA CloseWaits ==
    ASSUME LeaseInv, NobodyForgotten, closeIdle \/ close \/ CloseEntries \/ CloseDone
    PROVE  NobodyForgotten'
  <1>1. CASE closeIdle
    BY <1>1, DrainWillCome DEF closeIdle
  <1>2. CASE close
    BY <1>2 DEF close, NobodyForgotten
  <1>3. CASE CloseEntries \/ CloseDone
    BY <1>3 DEF CloseEntries, CloseDone, NobodyForgotten, LeaseInv, PhaseSound
  <1> QED BY <1>1, <1>2, <1>3

\* The steps that leave the row of every creation as it was found.
LEMMA RowsKept ==
    ASSUME Inv, RowsStand,
           \A y \in Child : \/ stage'[y] \in {"none", "factory"}
                            \/ stage'[y] = stage[y] /\ conv'[y] = conv[y],
           \A y \in Child : stage[y] \in Attaching =>
               (owner'[conv[y]] = "noRow" <=> owner[conv[y]] = "noRow")
    PROVE  RowsStand'
  <1> SUFFICES ASSUME NEW y \in Child
               PROVE  /\ stage'[y] \in {"none", "factory"} \cup Attaching
                      /\ stage'[y] \in Attaching => RowStands(y)'
    BY DEF RowsStand
  <1>1. CASE stage'[y] \in {"none", "factory"}
    BY <1>1 DEF Attaching
  <1>2. CASE stage'[y] = stage[y] /\ conv'[y] = conv[y]
    BY <1>2 DEF RowsStand, RowStands
  <1> QED BY <1>1, <1>2

\* A release leaves a row a row.
LEMMA ReleaseKeepsRow ==
    ASSUME Inv, NEW x \in Child, ReleaseOwnership(x)
    PROVE  \A k \in Conv : owner'[k] = "noRow" <=> owner[k] = "noRow"
  BY PoolAssumption DEF ReleaseOwnership, Inv, TypeOK

\* A conversation with a creation in flight has its caller.
LEMMA CreationCalled ==
    ASSUME Inv, LeaseInv, NEW y \in Child, stage[y] # "none"
    PROVE  conv[y] \in Conv /\ \E c \in Caller : call[c].conv = conv[y] /\ call[c].pc \in Creator
  <1>1. conv[y] \in Conv /\ inflight[conv[y]] # None
    BY PoolAssumption DEF Inv, SlotInv, CreatingReserved
  <1> QED BY <1>1 DEF LeaseInv, CreationsOwned, Awaits

LEMMA CreateKeepsRows ==
    ASSUME Inv, RowsStand, NEW c, NEW k, NEW pc, createEntry(c, k, pc), UNCHANGED owner
    PROVE  RowsStand'
  <1>1. CASE UNCHANGED <<stage, conv>>
    BY <1>1, RowsKept
  <1>2. CASE \E x \in Fresh : stage' = [stage EXCEPT ![x] = "factory"] /\ conv' = [conv EXCEPT ![x] = k]
    BY <1>2, RowsKept DEF Fresh, Inv, TypeOK
  <1> QED BY <1>1, <1>2 DEF createEntry

LEMMA CreationRows ==
    ASSUME Inv, LeaseInv, RowsStand, Promised, NEW x \in Child, FactoryEnds(x) \/ AttachEnds(x)
    PROVE  RowsStand'
  <1> USE DEF createVars, evictVars, procVars, entryVars
  <1>1. CASE FactoryDone(x)
    <2>1. /\ UNCHANGED <<conv, owner>>
          /\ stage'[x] = IF owner[conv[x]] = "noRow" THEN "attachNew" ELSE "attach"
          /\ \A y \in Child : y # x => stage'[y] = stage[y]
      BY <1>1 DEF FactoryDone, Inv, TypeOK
    <2> QED BY <2>1 DEF RowsStand, RowStands, Attaching
  <1>2. CASE FactoryFail(x)
    BY <1>2 DEF FactoryFail, Promised
  <1>3. CASE AttachFail(x)
    BY <1>3 DEF AttachFail, Promised, RowsStand, Attaching
  <1>4. CASE \E ok \in BOOLEAN : CleanupDone(x, ok)
    BY <1>4 DEF CleanupDone, RowsStand, Attaching
  <1>5. CASE AttachDone(x)
    <2>1. /\ UNCHANGED conv /\ stage[x] # "none" /\ stage'[x] = "none"
          /\ \A y \in Child : y # x => stage'[y] = stage[y]
          /\ owner' = [owner EXCEPT ![conv[x]] = x]
      BY <1>5 DEF AttachDone, Inv, TypeOK
    <2>2. conv[x] \in Conv /\ \A y \in Child : stage[y] # "none" /\ conv[y] = conv[x] => y = x
      BY <2>1 DEF Inv, SlotInv, CreatingReserved
    <2>3. \A k \in Conv : k # conv[x] => owner'[k] = owner[k]
      BY <2>1 DEF Inv, TypeOK
    <2>4. ASSUME NEW y \in Child, y # x, stage[y] \in Attaching
          PROVE  owner'[conv[y]] = owner[conv[y]]
      BY <2>2, <2>3, <2>4 DEF Attaching, Inv, SlotInv, CreatingReserved
    <2> QED BY <2>1, <2>4 DEF RowsStand, RowStands, Attaching
  <1> QED BY <1>1, <1>2, <1>3, <1>4, <1>5 DEF FactoryEnds, AttachEnds

LEMMA TeardownRows ==
    ASSUME Inv, LeaseInv, RowsStand, Disciplined, NEW x \in Child, TeardownEnds(x)
    PROVE  RowsStand'
  <1> USE DEF createVars, evictVars, procVars, entryVars
  <1>0. \A c \in Caller : c \notin {"none", "drain", "sweep", "idle", "retire", "final"}
    BY PoolAssumption
  <1>1. ~EvictFailed(x) /\ ~RetireFailed(x)
    BY DEF EvictFailed, RetireFailed, Settled, ProcessClosed, Disciplined
  <1>2. teardown[x] # "none" /\ UNCHANGED stage /\ (UNCHANGED conv \/ conv' = [conv EXCEPT ![x] = None])
    <2>1. CASE CapacityEvicted(x)
      BY <1>0, <2>1 DEF CapacityEvicted, Settled, Recycle
    <2>2. CASE DrainEvicted(x) \/ SweepEvicted(x)
      BY <2>2 DEF DrainEvicted, SweepEvicted, Settled, Recycle
    <2>3. CASE RetireEvicted(x)
      BY <2>3 DEF RetireEvicted, Settled, Recycle
    <2>4. CASE \E ok \in BOOLEAN : IdleEvicted(x, ok)
      BY <2>4 DEF IdleEvicted, Settled, Recycle
    <2>5. CASE \E ok \in BOOLEAN : FinalClosed(x, ok)
      BY <2>5 DEF FinalClosed, Settled, Recycle
    <2> QED BY <1>1, <2>1, <2>2, <2>3, <2>4, <2>5 DEF TeardownEnds
  <1>3. stage[x] = "none"
    BY <1>2 DEF Inv, SlotInv, TornSettled
  <1>4. \A y \in Child : \/ stage'[y] \in {"none", "factory"}
                         \/ stage'[y] = stage[y] /\ conv'[y] = conv[y]
    BY <1>2, <1>3 DEF Inv, TypeOK
  <1>5. \A y \in Child : stage[y] \in Attaching => conv[y] \in Conv
    BY DEF Attaching, Inv, SlotInv, CreatingReserved
  <1>6. CASE ReleaseOwnership(x) \/ UNCHANGED owner
    BY <1>4, <1>5, <1>6, ReleaseKeepsRow, RowsKept
  <1>7. CASE /\ \E c \in Caller : call[c].pc = "resetting" /\ call[c].child = x
             /\ owner' = [owner EXCEPT ![conv[x]] = "noRow"]
    <2>1. PICK c \in Caller : call[c].pc = "resetting" /\ call[c].child = x
      BY <1>7
    <2>2. conv[x] = call[c].conv /\ conv[x] \in Conv
      BY <2>1 DEF LeaseInv, ResetsOwned, Inv, CallsNamed
    <2>3. ASSUME NEW y \in Child, stage[y] # "none" PROVE conv[y] # conv[x]
      <3>1. PICK d \in Caller : call[d].conv = conv[y] /\ call[d].pc \in Creator
        BY <2>3, CreationCalled
      <3>2. d # c
        BY <2>1, <3>1 DEF Creator
      <3> QED BY <2>2, <3>1, <3>2, WakeAlone
    <2>4. \A y \in Child : stage[y] \in Attaching => owner'[conv[y]] = owner[conv[y]]
      BY <1>5, <1>7, <2>3 DEF Attaching, Inv, TypeOK
    <2> QED BY <1>4, <2>4, RowsKept
  <1>8. ReleaseOwnership(x) \/ UNCHANGED owner
        \/ (/\ \E c \in Caller : call[c].pc = "resetting" /\ call[c].child = x
            /\ owner' = [owner EXCEPT ![conv[x]] = "noRow"])
    <2>1. CASE RetireEvicted(x)
      BY <2>1 DEF RetireEvicted
    <2>2. CASE CapacityEvicted(x) \/ DrainEvicted(x) \/ SweepEvicted(x)
      BY <2>2 DEF CapacityEvicted, DrainEvicted, SweepEvicted
    <2>3. CASE \E ok \in BOOLEAN : IdleEvicted(x, ok) \/ FinalClosed(x, ok)
      BY <2>3 DEF IdleEvicted, FinalClosed
    <2> QED BY <1>1, <2>1, <2>2, <2>3 DEF TeardownEnds
  <1> QED BY <1>6, <1>7, <1>8

LEMMA OtherRows ==
    ASSUME Inv, LeaseInv, RowsStand, Promised,
           \/ Microtask
           \/ \E c \in Caller, k \in Conv : Acquire(c, k) \/ Reset(c, k)
           \/ \E c \in Caller : Release(c)
           \/ \E x \in Child : IdleTimer(x) \/ ChildError(x) \/ ChildExit(x) \/ AckTimeout(x)
           \/ closeIdle \/ close \/ CloseEntries \/ CloseDone
    PROVE  RowsStand'
  <1> USE DEF createVars, evictVars, procVars, entryVars
  <1>1. ASSUME UNCHANGED <<stage, conv, owner>> PROVE RowsStand'
    BY <1>1, RowsKept
  <1>2. CASE drainWaiters
    BY <1>1, <1>2, CreateKeepsRows DEF drainWaiters, DrainReuse, DrainJoin, DrainEvict, DrainCreate, DrainStop
  <1>3. ASSUME NEW c \in Caller, Resume(c) PROVE RowsStand'
    BY <1>1, <1>3 DEF Resume, ResumeReject, ResumeLease, ResumeQueue
  <1>4. ASSUME NEW c \in Caller, CreateAfterEvict(c) PROVE RowsStand'
    BY <1>1, <1>4, CreateKeepsRows DEF CreateAfterEvict
  <1>5. ASSUME NEW by \in Evictor, EvictNext(by) \/ EvictDone(by) PROVE RowsStand'
    BY <1>1, <1>5 DEF EvictNext, EvictDone
  <1>6. CASE Microtask
    BY <1>2, <1>3, <1>4, <1>5, <1>6, RejectLeases DEF Microtask
  <1>7. ASSUME NEW c \in Caller, NEW k \in Conv, Acquire(c, k) PROVE RowsStand'
    BY <1>1, <1>7, CreateKeepsRows DEF Acquire, AcquireReuse, AcquireBusy, AcquireJoin, AcquireWait,
       AcquireEvict, AcquireCreate
  <1>8. ASSUME NEW c \in Caller, NEW k \in Conv, Reset(c, k) PROVE RowsStand'
    <2>1. UNCHANGED <<stage, conv>> /\ \A d \in Caller : call[d].conv # k
      BY <1>8 DEF Reset
    <2>2. UNCHANGED owner \/ owner' = [owner EXCEPT ![k] = "noRow"]
      BY <1>8 DEF Reset
    <2>3. \A y \in Child : stage[y] \in Attaching => owner'[conv[y]] = owner[conv[y]]
      BY <2>1, <2>2, CreationCalled DEF Attaching, Inv, TypeOK
    <2> QED BY <2>1, <2>3, RowsKept
  <1>9. ASSUME NEW c \in Caller, Release(c) PROVE RowsStand'
    BY <1>1, <1>9 DEF Release
  <1>10. ASSUME NEW x \in Child, IdleTimer(x) \/ ChildError(x) \/ AckTimeout(x) PROVE RowsStand'
    BY <1>1, <1>10 DEF IdleTimer, ChildError, AckTimeout, Promised
  <1>11. ASSUME NEW x \in Child, ChildExit(x) PROVE RowsStand'
    <2>1. CASE UNCHANGED <<entryVars, owner, micro>>
      BY <1>1, <1>11, <2>1 DEF ChildExit
    <2>2. CASE /\ \E i \in DOMAIN entries : entries[i] = x
               /\ Recycle(x) /\ ReleaseOwnership(x)
      <3>1. stage[x] = "none" /\ UNCHANGED stage
        BY <1>11, <2>2 DEF Inv, SlotInv, PooledSettled, ChildExit
      <3>2. \A y \in Child : stage'[y] \in {"none", "factory"} \/ (stage'[y] = stage[y] /\ conv'[y] = conv[y])
        BY <2>2, <3>1 DEF Recycle, Inv, TypeOK
      <3>3. \A y \in Child : stage[y] \in Attaching => conv[y] \in Conv
        BY DEF Attaching, Inv, SlotInv, CreatingReserved
      <3> QED BY <2>2, <3>2, <3>3, ReleaseKeepsRow, RowsKept
    <2> QED BY <1>11, <2>1, <2>2 DEF ChildExit
  <1>12. CASE closeIdle \/ close \/ CloseEntries \/ CloseDone
    BY <1>1, <1>12 DEF closeIdle, close, CloseEntries, CloseDone
  <1> QED BY <1>6, <1>7, <1>8, <1>9, <1>10, <1>11, <1>12

\* The queue of waiters, untouched, longer by one, shorter by one, or empty.
LEMMA QueueKept ==
    ASSUME Inv, QueueSound, waiters' = waiters,
           \A d \in Caller : call[d].pc = "waiting" => call'[d].pc = "waiting"
    PROVE  QueueSound'
  <1>1. \A i \in DOMAIN waiters : waiters[i] \in Caller
    BY ElementOfSeq, LenProperties DEF Inv, TypeOK
  <1> QED BY <1>1 DEF QueueSound

LEMMA QueueGrows ==
    ASSUME Inv, QueueSound, NEW c \in Caller, call[c].pc # "waiting", waiters' = Append(waiters, c),
           call'[c].pc = "waiting", \A d \in Caller : d # c => call'[d] = call[d]
    PROVE  QueueSound'
  <1>1. /\ waiters \in Seq(Caller) /\ Len(waiters) \in Nat /\ DOMAIN waiters = 1 .. Len(waiters)
        /\ \A i \in DOMAIN waiters : waiters[i] \in Caller
    BY ElementOfSeq, LenProperties DEF Inv, TypeOK
  <1>2. /\ DOMAIN waiters' = 1 .. (Len(waiters) + 1)
        /\ \A j \in 1 .. (Len(waiters) + 1) : waiters'[j] = IF j <= Len(waiters) THEN waiters[j] ELSE c
    BY <1>1, AppendFacts
  <1>3. \A i \in DOMAIN waiters : waiters[i] # c /\ call'[waiters[i]].pc = "waiting"
    BY <1>1 DEF QueueSound
  <1>4. \A i \in DOMAIN waiters' : call'[waiters'[i]].pc = "waiting"
    BY <1>1, <1>2, <1>3
  <1>5. \A i, j \in DOMAIN waiters' : waiters'[i] = waiters'[j] => i = j
    BY <1>1, <1>2, <1>3 DEF QueueSound
  <1> QED BY <1>4, <1>5 DEF QueueSound

LEMMA QueueShrinks ==
    ASSUME Inv, QueueSound, waiters # <<>>, waiters' = Tail(waiters),
           \A d \in Caller : d # Head(waiters) => call'[d] = call[d]
    PROVE  QueueSound'
  <1>1. /\ waiters \in Seq(Caller) /\ Len(waiters) \in Nat /\ DOMAIN waiters = 1 .. Len(waiters)
        /\ Len(waiters) # 0 /\ \A i \in DOMAIN waiters : waiters[i] \in Caller
    BY ElementOfSeq, LenProperties, EmptySeq DEF Inv, TypeOK
  <1>2. /\ Head(waiters) = waiters[1]
        /\ DOMAIN waiters' = 1 .. (Len(waiters) - 1)
        /\ \A j \in 1 .. (Len(waiters) - 1) : waiters'[j] = waiters[j + 1]
    BY <1>1
  <1>3. \A j \in DOMAIN waiters' : j + 1 \in DOMAIN waiters /\ waiters[j + 1] # Head(waiters)
    BY <1>1, <1>2 DEF QueueSound
  <1>4. \A j \in DOMAIN waiters' : call'[waiters'[j]].pc = "waiting"
    BY <1>1, <1>2, <1>3 DEF QueueSound
  <1>5. \A i, j \in DOMAIN waiters' : waiters'[i] = waiters'[j] => i = j
    BY <1>1, <1>2, <1>3 DEF QueueSound
  <1> QED BY <1>4, <1>5 DEF QueueSound

LEMMA QueueEmpty ==
    ASSUME waiters' = <<>>
    PROVE  QueueSound'
  BY DEF QueueSound

\* A step of one caller that is not queued.
LEMMA QueueBystander ==
    ASSUME Inv, QueueSound, waiters' = waiters, NEW c \in Caller, call[c].pc # "waiting",
           \A d \in Caller : d # c => call'[d] = call[d]
    PROVE  QueueSound'
  BY QueueKept

LEMMA StepQueues ==
    ASSUME Inv, LeaseInv, QueueSound, Disciplined, [Next]_vars
    PROVE  QueueSound'
  <1> USE DEF createVars, evictVars, procVars, entryVars
  <1>0. ASSUME NEW c \in Caller, NEW pc, NEW k, NEW x, SetCall(c, pc, k, x) \/ HangUp(c)
        PROVE  /\ \A d \in Caller : d # c => call'[d] = call[d]
               /\ SetCall(c, pc, k, x) => call'[c].pc = pc
    BY <1>0 DEF SetCall, HangUp, Inv, TypeOK
  <1>1. ASSUME UNCHANGED <<waiters, call>> PROVE QueueSound'
    BY <1>1, QueueKept
  <1>2. CASE drainWaiters
    <2>1. CASE DrainReuse
      <3>1. DrainReady /\ waiters # <<>> /\ waiters' = Tail(waiters) /\ Head(waiters) \in Caller
        BY <2>1, HeadFacts DEF DrainReuse, DrainReady
      <3>2. \A d \in Caller : d # Head(waiters) => call'[d] = call[d]
        BY <2>1, <3>1 DEF DrainReuse, Lease, SetCall, HangUp, Inv, TypeOK
      <3> QED BY <3>1, <3>2, QueueShrinks
    <2>2. CASE DrainJoin \/ DrainCreate
      <3>1. DrainReady /\ waiters # <<>> /\ waiters' = Tail(waiters) /\ Head(waiters) \in Caller
        BY <2>2, HeadFacts DEF DrainJoin, DrainCreate, DrainReady
      <3>2. \A d \in Caller : d # Head(waiters) => call'[d] = call[d]
        BY <2>2, <3>1 DEF DrainJoin, DrainCreate, createEntry, SetCall, Inv, TypeOK
      <3> QED BY <3>1, <3>2, QueueShrinks
    <2>3. CASE DrainEvict \/ DrainStop
      BY <1>1, <2>3 DEF DrainEvict, DrainStop
    <2> QED BY <1>2, <2>1, <2>2, <2>3 DEF drainWaiters
  <1>3. ASSUME NEW c \in Caller, Resume(c) PROVE QueueSound'
    <2>1. ResumeReady(c, {"creating", "drainCreating", "joining", "drainJoining"})
      BY <1>3 DEF Resume, ResumeReject, ResumeLease, ResumeQueue, ResumeReady
    <2>2. call[c].pc \in Creator
      BY <2>1, ResumeRuns
    <2>3. ~ResumeQueue(c)
      BY <2>2 DEF ResumeQueue, ResumeReady, Creator
    <2>4. waiters' = waiters /\ \A d \in Caller : d # c => call'[d] = call[d]
      BY <1>3, <2>3 DEF Resume, ResumeReject, ResumeLease, Lease, SetCall, HangUp, Inv, TypeOK
    <2>5. call[c].pc # "waiting"
      BY <2>2 DEF Creator
    <2> QED BY <2>4, <2>5, QueueBystander
  <1>4. ASSUME NEW c \in Caller, CreateAfterEvict(c) PROVE QueueSound'
    <2>1. /\ waiters' = waiters /\ call[c].pc # "waiting"
          /\ \A d \in Caller : d # c => call'[d] = call[d]
      BY <1>4 DEF CreateAfterEvict, createEntry, SetCall, HangUp, Inv, TypeOK
    <2> QED BY <2>1, QueueBystander
  <1>5. ASSUME NEW by \in Evictor, EvictNext(by) PROVE QueueSound'
    BY <1>1, <1>5 DEF EvictNext
  <1>6. ASSUME NEW by \in Evictor, EvictDone(by) PROVE QueueSound'
    <2>1. CASE by = "drain"
      BY <1>6, <2>1, QueueEmpty DEF EvictDone
    <2>2. CASE by # "drain"
      <3>1. by \in Caller => call[by].pc = "evicting"
        BY <1>6, EvictRuns DEF EvictDone
      <3> QED BY <1>6, <2>2, <3>1, QueueKept DEF EvictDone
    <2> QED BY <2>1, <2>2
  <1>7. CASE Microtask
    BY <1>2, <1>3, <1>4, <1>5, <1>6, <1>7, RejectLeases DEF Microtask
  <1>8. ASSUME NEW c \in Caller, NEW k \in Conv, Acquire(c, k) PROVE QueueSound'
    <2>1. call[c].pc = "idle"
      BY <1>8 DEF Acquire, AcquireReuse, AcquireBusy, AcquireJoin, AcquireWait, AcquireEvict,
             AcquireCreate, AcquireNew, AcquireReady
    <2>2. CASE AcquireBusy(c, k) \/ AcquireWait(c, k)
      <3>1. waiters' = Append(waiters, c) /\ SetCall(c, "waiting", k, None)
        BY <2>2 DEF AcquireBusy, AcquireWait, enqueueWaiter
      <3> QED BY <1>0, <2>1, <3>1, QueueGrows
    <2>3. CASE \/ AcquireReuse(c, k) \/ AcquireJoin(c, k) \/ AcquireEvict(c, k) \/ AcquireCreate(c, k)
      <3>1. waiters' = waiters /\ \A d \in Caller : d # c => call'[d] = call[d]
        BY <2>3 DEF AcquireReuse, AcquireJoin, AcquireEvict, AcquireCreate, createEntry, Lease, SetCall,
               Inv, TypeOK
      <3> QED BY <2>1, <3>1, QueueBystander
    <2> QED BY <1>8, <2>2, <2>3 DEF Acquire
  <1>9. ASSUME NEW c \in Caller, NEW k \in Conv, Reset(c, k) PROVE QueueSound'
    <2>1. /\ waiters' = waiters /\ call[c].pc # "waiting"
          /\ \A d \in Caller : d # c => call'[d] = call[d]
      BY <1>9 DEF Reset, SetCall, Inv, TypeOK
    <2> QED BY <2>1, QueueBystander
  <1>10. ASSUME NEW c \in Caller, Release(c) PROVE QueueSound'
    <2>1. /\ waiters' = waiters /\ call[c].pc # "waiting"
          /\ \A d \in Caller : d # c => call'[d] = call[d]
      BY <1>10 DEF Release, HangUp, Inv, TypeOK
    <2> QED BY <2>1, QueueBystander
  <1>11. ASSUME NEW x \in Child, FactoryEnds(x) \/ AttachEnds(x) PROVE QueueSound'
    BY <1>1, <1>11 DEF FactoryEnds, AttachEnds, FactoryDone, FactoryFail, AttachDone, AttachFail, CleanupDone
  <1>12. ASSUME NEW x \in Child, TeardownEnds(x) PROVE QueueSound'
    <2>1. ~RetireFailed(x)
      BY DEF RetireFailed, ProcessClosed, Disciplined
    <2>2. CASE RetireEvicted(x)
      BY <2>2, QueueKept DEF RetireEvicted
    <2>3. CASE CapacityEvicted(x) \/ DrainEvicted(x) \/ SweepEvicted(x) \/ EvictFailed(x)
      BY <1>1, <2>3 DEF CapacityEvicted, DrainEvicted, SweepEvicted, EvictFailed
    <2>4. CASE \E ok \in BOOLEAN : IdleEvicted(x, ok) \/ FinalClosed(x, ok)
      BY <1>1, <2>4 DEF IdleEvicted, FinalClosed
    <2> QED BY <1>12, <2>1, <2>2, <2>3, <2>4 DEF TeardownEnds
  <1>13. ASSUME NEW x \in Child, IdleTimer(x) \/ ChildError(x) \/ ChildExit(x) \/ AckTimeout(x)
         PROVE  QueueSound'
    BY <1>1, <1>13 DEF IdleTimer, ChildError, ChildExit, AckTimeout
  <1>14. CASE close
    BY <1>14, QueueEmpty DEF close
  <1>15. CASE closeIdle \/ CloseEntries \/ CloseDone
    BY <1>1, <1>15 DEF closeIdle, CloseEntries, CloseDone
  <1>16. CASE UNCHANGED vars
    BY <1>1, <1>16 DEF vars
  <1> QED BY <1>7, <1>8, <1>9, <1>10, <1>11, <1>12, <1>13, <1>14, <1>15, <1>16 DEF Next, ChildAnswers

\* A disciplined pool whose creations all succeed forgets no waiter: the queue
\* is in order, and between events it is blocked or a drain is under way.
THEOREM WaitsHold == ASSUME Disciplined, Promised PROVE Spec => []WaitInv
  <1>1. Init => WaitInv
    BY DEF Init, WaitInv, RowsStand, QueueSound, NobodyForgotten, Attaching
  <1>2. Inv /\ LeaseInv /\ WaitInv /\ [Next]_vars => WaitInv'
    <2> SUFFICES ASSUME Inv, LeaseInv, RowsStand, QueueSound, NobodyForgotten, [Next]_vars
                 PROVE  RowsStand' /\ NobodyForgotten'
      BY StepQueues DEF WaitInv
    <2>1. CASE Microtask
      BY <2>1, OtherRows, DrainWaits, ResumeWaits, CreateAfterEvictWaits, EvictLoopWaits,
         RejectLeases DEF Microtask
    <2>2. CASE \E c \in Caller, k \in Conv : Acquire(c, k) \/ Reset(c, k)
      BY <2>2, OtherRows, AcquireWaits, ResetWaits
    <2>3. CASE \E c \in Caller : Release(c)
      BY <2>3, OtherRows, ReleaseWaits
    <2>4. CASE \E x \in Child : ChildAnswers(x)
      BY <2>4, CreationRows, TeardownRows, CreationWaits, TeardownWaits DEF ChildAnswers
    <2>5. CASE \E x \in Child : IdleTimer(x) \/ ChildError(x) \/ ChildExit(x) \/ AckTimeout(x)
      BY <2>5, OtherRows, ChildEventWaits
    <2>6. CASE closeIdle \/ close \/ CloseEntries \/ CloseDone
      BY <2>6, OtherRows, CloseWaits
    <2>7. CASE UNCHANGED vars
      BY <2>7, RowsKept DEF vars, entryVars, createVars, evictVars, procVars, NobodyForgotten, Blocked,
         DrainComes, Sweeping, Full, Idle, Pooled, occupiedSlots
    <2> QED BY <2>1, <2>2, <2>3, <2>4, <2>5, <2>6, <2>7 DEF Next
  <1> QED BY <1>1, <1>2, InvariantHolds, LeasesHold, PTL DEF Spec

\* No lost wakeup, for every instance: between events a caller waits only while
\* every slot is taken and no child is idle, or while a drain is under way.
THEOREM WaitersBlockedHolds == ASSUME Disciplined, Promised PROVE Spec => []WaitersBlocked
  <1>1. WaitInv => WaitersBlocked
    BY QuietBlocked DEF WaitInv, WaitersBlocked, Quiet, Blocked, Sweeping
  <1> QED BY <1>1, WaitsHold, PTL
=============================================================================
