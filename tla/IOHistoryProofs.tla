---------------------------- MODULE IOHistoryProofs ---------------------------
(***************************************************************************)
(* The rings of IOHistory answer every query as the complete log would.    *)
(* The invariant says what the rings hold, by the age of a sample: the     *)
(* k-th oldest, at Slot(k).  Which slots these are changes with every      *)
(* sample; the first lemmas say how.                                       *)
(***************************************************************************)
EXTENDS IOHistory, Integers, WellFoundedInduction, TLAPS

Ages == 0..(filled - 1)

Held(k) == times[Slot(k)]

\* The samples are in order, at least a second apart, and up to now.
Ordered ==
    /\ \A j, k \in Ages : j <= k => Held(j) + (k - j) <= Held(k)
    /\ \A k \in Ages : Held(k) \in DOMAIN log
    /\ \A t \in DOMAIN log : t <= clock

\* All samples of the window are in the rings.
Complete ==
    \A t \in DOMAIN log : clock < t + Window => \E k \in Ages : Held(k) = t

NetworkRing == \A k \in Ages : network[Slot(k)] = Held(k)

\* A ring has what was read of its disk within the window.  (A ring that was
\* dropped and made anew lacks what is older.)
DiskRings ==
    \A m \in DOMAIN disks :
        /\ \A t \in DOMAIN log : m \in log[t] => t <= disks[m].lastAt
        /\ \A k \in Ages : clock <= Held(k) + Window =>
              disks[m].rates[Slot(k)] = IF m \in log[Held(k)] THEN Held(k) ELSE Gap

\* A disk without a ring was not read within the window.
NoRings ==
    \A m \in Mounts \ DOMAIN disks : \A t \in DOMAIN log :
        m \in log[t] => t + Window < clock

HistoryInv ==
    HistoryTypeOK /\ Ordered /\ Complete /\ NetworkRing /\ DiskRings /\ NoRings

-----------------------------------------------------------------------------
(* Slots.                                                                   *)

LEMMA Modulo ==
    ASSUME NEW n \in Nat \ {0}, NEW x \in 0..(2 * n - 1)
    PROVE  x % n = IF x < n THEN x ELSE x - n
OBVIOUS

LEMMA TypeFacts ==
    ASSUME HistoryTypeOK
    PROVE  /\ Window \in Nat \ {0}
           /\ head \in 0..(Window - 1) /\ filled \in 0..Window /\ clock \in Nat
           /\ DOMAIN disks \in SUBSET Mounts
           /\ \A m \in DOMAIN disks :
                 disks[m] \in [rates : [Slots -> Times \cup {Gap}], lastAt : Times]
           /\ DOMAIN log \in SUBSET Times
           /\ \A t \in DOMAIN log : log[t] \in SUBSET Mounts
           /\ log = [t \in DOMAIN log |-> log[t]]
BY HistoryAssumption DEF HistoryTypeOK, Slots, Times

\* Where the k-th oldest sample is: after the head, or before it.
LEMMA SlotOf ==
    ASSUME HistoryTypeOK, NEW k \in Ages
    PROVE  /\ Slot(k) \in Slots
           /\ Slot(k) = IF head + k < filled THEN head + k + Window - filled
                                             ELSE head + k - filled
<1> DEFINE x == head + Window - filled + k
<1>1. x \in 0..(2 * Window - 1) /\ Window \in Nat \ {0}
  BY TypeFacts DEF Ages
<1>2. x % Window = IF x < Window THEN x ELSE x - Window
  <2> HIDE DEF x
  <2> QED  BY <1>1, Modulo
<1>3. Slot(k) = x % Window
  BY DEF Slot
<1>4. head \in 0..(Window - 1) /\ filled \in 0..Window /\ k \in 0..(filled - 1)
  BY TypeFacts DEF Ages
<1>5. Slot(k) = IF head + k < filled THEN head + k + Window - filled
                                     ELSE head + k - filled
  BY <1>1, <1>2, <1>3, <1>4
<1> QED  BY <1>1, <1>4, <1>5 DEF Slots

\* The step of head and filled: at most the oldest sample leaves, and the
\* others are where they were, one younger each if it did.
Lost == IF filled < Window THEN 0 ELSE 1

LEMMA NextSlots ==
    ASSUME HistoryTypeOK, NEW at, NEW rated, Advance(at, rated)
    PROVE  /\ head' \in Slots /\ filled' \in 1..Window
           /\ filled' = filled + 1 - Lost
           /\ \A k \in Nat : k = filled - Lost => Slot(k)' = head
           /\ \A k \in 0..(filled - Lost - 1) :
                 k + Lost \in Ages /\ Slot(k)' = Slot(k + Lost) /\ Slot(k)' # head
<1>1. Window \in Nat \ {0} /\ head \in 0..(Window - 1) /\ filled \in 0..Window
  BY TypeFacts
<1>2. head' = IF head + 1 < Window THEN head + 1 ELSE 0
  <2> DEFINE x == head + 1
  <2>1. x \in 0..(2 * Window - 1)
    BY <1>1
  <2>2. x % Window = IF x < Window THEN x ELSE x - Window
    <3> HIDE DEF x
    <3> QED  BY <1>1, <2>1, Modulo
  <2>3. head' = x % Window
    BY DEF Advance
  <2> QED  BY <1>1, <2>2, <2>3
<1>3. /\ head' \in 0..(Window - 1) /\ filled' \in 1..Window
      /\ filled' = filled + 1 - Lost
  BY <1>1, <1>2 DEF Lost, Advance
<1>4. ASSUME NEW k \in 0..(filled' - 1)
      PROVE  Slot(k)' = IF head' + k < filled' THEN head' + k + Window - filled'
                                              ELSE head' + k - filled'
  <2> DEFINE x == head' + Window - filled' + k
  <2>1. x \in 0..(2 * Window - 1)
    BY <1>1, <1>3
  <2>2. x % Window = IF x < Window THEN x ELSE x - Window
    BY <1>1, <2>1, Modulo
  <2>3. Slot(k)' = x % Window
    BY DEF Slot
  <2> QED  BY <1>1, <1>3, <2>2, <2>3
<1>5. ASSUME NEW k \in Nat, k = filled - Lost
      PROVE  Slot(k)' = head
  <2>1. k \in 0..(filled' - 1) /\ k = filled' - 1
    BY <1>1, <1>3, <1>5 DEF Lost
  <2>2. Slot(k)' = IF head' + k < filled' THEN head' + k + Window - filled'
                                         ELSE head' + k - filled'
    BY <1>4, <2>1
  <2> QED  BY <1>1, <1>2, <1>3, <2>1, <2>2
<1>6. ASSUME NEW k \in 0..(filled - Lost - 1)
      PROVE  k + Lost \in Ages /\ Slot(k)' = Slot(k + Lost) /\ Slot(k)' # head
  <2>1. k \in 0..(filled' - 1) /\ k + Lost \in Ages
    BY <1>1, <1>3 DEF Lost, Ages
  <2>2. Slot(k + Lost) = IF head + (k + Lost) < filled
                         THEN head + (k + Lost) + Window - filled
                         ELSE head + (k + Lost) - filled
    BY <2>1, SlotOf
  <2>3. Slot(k)' = IF head' + k < filled' THEN head' + k + Window - filled'
                                         ELSE head' + k - filled'
    BY <1>4, <2>1
  <2> QED  BY <1>1, <1>2, <1>3, <2>1, <2>2, <2>3 DEF Lost
<1> QED  BY <1>3, <1>5, <1>6 DEF Slots

-----------------------------------------------------------------------------
(* Recording.                                                               *)

LEMMA HistoryInitially == HistoryInit => HistoryInv
<1> SUFFICES ASSUME HistoryInit PROVE HistoryInv
  OBVIOUS
<1>1. HistoryTypeOK
  <2>1. times \in [Slots -> Times \cup {Gap}] /\ network \in [Slots -> Times \cup {Gap}]
    BY DEF HistoryInit, Blank
  <2>2. clock \in Times /\ head \in Slots /\ filled \in 0..Window
    BY HistoryAssumption DEF HistoryInit, Times, Slots
  <2>3. disks \in [{} -> [rates : [Slots -> Times \cup {Gap}], lastAt : Times]]
    BY DEF HistoryInit
  <2>4. prev \in [seeded : BOOLEAN, disks : SUBSET Mounts]
    BY DEF HistoryInit, Unseeded
  <2>5. log \in [{} -> SUBSET Mounts]
    BY DEF HistoryInit
  <2>6. \E D \in SUBSET Mounts :
           disks \in [D -> [rates : [Slots -> Times \cup {Gap}], lastAt : Times]]
    BY <2>3
  <2>7. \E T \in SUBSET Times : log \in [T -> SUBSET Mounts]
    BY <2>5
  <2> QED  BY <2>1, <2>2, <2>4, <2>6, <2>7 DEF HistoryTypeOK
<1>2. Ages = {} /\ DOMAIN log = {} /\ DOMAIN disks = {}
  BY DEF HistoryInit, Ages
<1> QED
  BY <1>1, <1>2 DEF HistoryInv, Ordered, Complete, NetworkRing, DiskRings, NoRings

\* A sample: its rates go to the slot it takes, and nothing else changes.
Sampled(at, rated) ==
    /\ at = clock + 1 /\ at \in Times /\ rated \in SUBSET Mounts
    /\ clock' = at
    /\ Advance(at, rated)
    /\ log' = [t \in DOMAIN log \cup {at} |-> IF t = at THEN rated ELSE log[t]]
    /\ prev' \in [seeded : BOOLEAN, disks : SUBSET Mounts]

LEMMA SampledAges ==
    ASSUME HistoryInv, NEW at, NEW rated, Sampled(at, rated)
    PROVE  /\ filled' = filled + 1 - Lost /\ Lost \in {0, 1} /\ filled \in Nat
           /\ Lost = 1 => filled = Window
           /\ at \in Nat /\ at \notin DOMAIN log
           /\ \A k \in Ages' : \/ k = filled - Lost
                               \/ k \in 0..(filled - Lost - 1) /\ k + Lost \in Ages
           /\ \A k \in Nat : k = filled - Lost =>
                 Slot(k)' = head /\ Held(k)' = at /\ k \in Ages'
           /\ \A k \in 0..(filled - Lost - 1) :
                 /\ k \in Ages' /\ k + Lost \in Ages
                 /\ Slot(k)' = Slot(k + Lost) /\ Slot(k)' # head
                 /\ Held(k)' = Held(k + Lost)
<1>1. HistoryTypeOK /\ Advance(at, rated)
  BY DEF HistoryInv, Sampled
<1>2. /\ head' \in Slots /\ filled' \in 1..Window /\ filled' = filled + 1 - Lost
      /\ \A k \in Nat : k = filled - Lost => Slot(k)' = head
      /\ \A k \in 0..(filled - Lost - 1) :
            k + Lost \in Ages /\ Slot(k)' = Slot(k + Lost) /\ Slot(k)' # head
  BY <1>1, NextSlots
<1>3. filled \in 0..Window /\ head \in Slots /\ clock \in Nat /\ Window \in Nat \ {0}
  BY <1>1, TypeFacts DEF Slots
<1>4. Lost \in {0, 1} /\ (Lost = 1 => filled = Window)
  BY <1>3 DEF Lost
<1>5. at \in Nat /\ at \notin DOMAIN log
  BY <1>3 DEF Sampled, HistoryInv, Ordered, Times
<1>6. times \in [Slots -> Times \cup {Gap}] /\ times' = [times EXCEPT ![head] = at]
  BY <1>1 DEF HistoryTypeOK, Advance
<1>7. ASSUME NEW k \in Nat, k = filled - Lost
      PROVE  Slot(k)' = head /\ Held(k)' = at /\ k \in Ages'
  <2>1. Slot(k)' = head
    BY <1>2, <1>7
  <2>2. k \in 0..(filled' - 1)
    BY <1>2, <1>3, <1>4, <1>7
  <2> QED  BY <1>3, <1>6, <2>1, <2>2 DEF Held, Ages
<1>8. ASSUME NEW k \in 0..(filled - Lost - 1)
      PROVE  /\ k \in Ages' /\ k + Lost \in Ages
             /\ Slot(k)' = Slot(k + Lost) /\ Slot(k)' # head
             /\ Held(k)' = Held(k + Lost)
  <2>1. k + Lost \in Ages /\ Slot(k)' = Slot(k + Lost) /\ Slot(k)' # head
    BY <1>2
  <2>2. Slot(k + Lost) \in Slots
    BY <1>1, <2>1, SlotOf
  <2>3. Held(k)' = Held(k + Lost)
    BY <1>6, <2>1, <2>2 DEF Held
  <2>4. k \in 0..(filled' - 1)
    BY <1>2, <1>3, <1>4
  <2> QED  BY <2>1, <2>3, <2>4 DEF Ages
<1>9. ASSUME NEW k \in Ages'
      PROVE  \/ k = filled - Lost
             \/ k \in 0..(filled - Lost - 1) /\ k + Lost \in Ages
  BY <1>2, <1>3, <1>4, <1>8, <1>9 DEF Ages
<1> QED  BY <1>2, <1>3, <1>4, <1>5, <1>7, <1>8, <1>9

LEMMA LogGrows ==
    ASSUME HistoryInv, NEW at, NEW rated, Sampled(at, rated)
    PROVE  /\ DOMAIN log' = DOMAIN log \cup {at}
           /\ log'[at] = rated
           /\ \A t \in DOMAIN log : log'[t] = log[t]
BY SampledAges DEF Sampled

LEMMA SampledTypes ==
    ASSUME HistoryInv, NEW at, NEW rated, Sampled(at, rated)
    PROVE  HistoryTypeOK'
<1>1. HistoryTypeOK /\ Advance(at, rated) /\ rated \in SUBSET Mounts /\ at \in Times
  BY DEF HistoryInv, Sampled
<1> DEFINE Ring == [rates : [Slots -> Times \cup {Gap}], lastAt : Times]
<1>2. head \in Slots /\ head' \in Slots /\ filled' \in 0..Window
  BY <1>1, NextSlots DEF HistoryTypeOK
<1>3. /\ times' \in [Slots -> Times \cup {Gap}]
      /\ network' \in [Slots -> Times \cup {Gap}]
  BY <1>1, <1>2 DEF HistoryTypeOK, Advance
<1>4. ASSUME NEW m \in Kept(at) \cup rated PROVE DiskRing(m, at, rated) \in Ring
  <2>1. Blank \in [Slots -> Times \cup {Gap}]
    BY DEF Blank
  <2>2. CASE m \in Kept(at)
    <3>1. disks[m] \in Ring
      BY <1>1, <2>2, TypeFacts DEF Kept
    <3>2. [disks[m] EXCEPT !.rates = Cleared(@, head)] \in Ring
      BY <1>2, <3>1 DEF Cleared
    <3> QED  BY <1>1, <1>2, <2>2, <3>2 DEF DiskRing
  <2>3. CASE m \notin Kept(at)
    BY <1>1, <1>2, <2>1, <2>3 DEF DiskRing
  <2> QED  BY <2>2, <2>3
<1>5. \E D \in SUBSET Mounts : disks' \in [D -> Ring]
  <2>1. Kept(at) \cup rated \in SUBSET Mounts
    BY <1>1, TypeFacts DEF Kept
  <2>2. disks' \in [Kept(at) \cup rated -> Ring]
    BY <1>1, <1>4 DEF Advance
  <2> QED  BY <2>1, <2>2
<1>6. \E T \in SUBSET Times : log' \in [T -> SUBSET Mounts]
  <2>1. DOMAIN log \cup {at} \in SUBSET Times
    BY <1>1, TypeFacts
  <2>2. log' \in [DOMAIN log \cup {at} -> SUBSET Mounts]
    BY <1>1, TypeFacts DEF Sampled
  <2> QED  BY <2>1, <2>2
<1> QED  BY <1>1, <1>2, <1>3, <1>5, <1>6 DEF HistoryTypeOK, Sampled

LEMMA SampledOrder ==
    ASSUME HistoryInv, NEW at, NEW rated, Sampled(at, rated)
    PROVE  Ordered' /\ Complete' /\ NetworkRing'
<1>1. Ordered /\ Complete /\ NetworkRing /\ HistoryTypeOK
  BY DEF HistoryInv
<1>2. clock \in Nat /\ filled \in Nat /\ Lost \in {0, 1} /\ at = clock + 1 /\ clock' = at
  BY <1>1, TypeFacts, SampledAges DEF Sampled
<1>3. \A k \in Ages : Held(k) \in DOMAIN log /\ Held(k) \in Nat
  BY <1>1, TypeFacts DEF Ordered, Times
<1>4. ASSUME NEW j \in Ages', NEW k \in Ages', j <= k
      PROVE  Held(j)' + (k - j) <= Held(k)'
  <2>1. CASE j = filled - Lost
    <3>1. k = j
      BY <1>2, <1>4, <2>1, SampledAges DEF Ages
    <3>2. j \in Nat
      BY <1>2 DEF Ages
    <3> QED  BY <1>2, <2>1, <3>1, <3>2, SampledAges
  <2>2. CASE j \in 0..(filled - Lost - 1) /\ k = filled - Lost
    <3>1. j + Lost \in Ages /\ filled - 1 \in Ages /\ Held(j)' = Held(j + Lost)
      BY <1>2, <2>2, SampledAges DEF Ages
    <3>2. Held(j + Lost) + (filled - 1 - (j + Lost)) <= Held(filled - 1)
      BY <1>1, <1>2, <3>1 DEF Ordered, Ages
    <3>3. Held(filled - 1) <= clock
      BY <1>1, <3>1 DEF Ordered
    <3>4. Held(k)' = at
      BY <1>2, <2>2, SampledAges
    <3> QED  BY <1>2, <1>3, <2>2, <3>1, <3>2, <3>3, <3>4
  <2>3. CASE j \in 0..(filled - Lost - 1) /\ k \in 0..(filled - Lost - 1)
    <3>1. /\ j + Lost \in Ages /\ Held(j)' = Held(j + Lost)
          /\ k + Lost \in Ages /\ Held(k)' = Held(k + Lost)
      BY <2>3, SampledAges
    <3>2. Held(j + Lost) + ((k + Lost) - (j + Lost)) <= Held(k + Lost)
      BY <1>1, <1>2, <1>4, <2>3, <3>1 DEF Ordered
    <3> QED  BY <1>2, <1>3, <2>3, <3>1, <3>2
  <2> QED  BY <2>1, <2>2, <2>3, SampledAges
<1>5. \A k \in Ages' : Held(k)' \in DOMAIN log'
  <2>1. ASSUME NEW k \in Ages' PROVE Held(k)' \in DOMAIN log \cup {at}
    <3>1. CASE k = filled - Lost
      <4>1. k \in Nat
        BY DEF Ages
      <4> QED  BY <3>1, <4>1, SampledAges
    <3>2. CASE k \in 0..(filled - Lost - 1)
      BY <1>3, <3>2, SampledAges
    <3> QED  BY <3>1, <3>2, SampledAges
  <2> QED  BY <2>1, LogGrows
<1>6. \A t \in DOMAIN log' : t <= clock'
  <2>1. \A t \in DOMAIN log : t \in Nat /\ t <= clock
    BY <1>1, TypeFacts DEF Ordered, Times
  <2>2. \A t \in DOMAIN log \cup {at} : t <= clock'
    BY <1>2, <2>1
  <2>3. DOMAIN log' = DOMAIN log \cup {at}
    BY LogGrows
  <2> QED  BY <2>2, <2>3
<1>7. Ordered'
  BY <1>4, <1>5, <1>6 DEF Ordered
<1>8. ASSUME NEW t \in DOMAIN log', clock' < t + Window
      PROVE  \E k \in Ages' : Held(k)' = t
  <2>1. filled - Lost \in Nat
    BY <1>1, <1>2, TypeFacts DEF Lost
  <2>2. CASE t = at
    BY <2>1, <2>2, SampledAges
  <2>3. CASE t # at
    <3>1. t \in DOMAIN log /\ t \in Nat
      <4>1. DOMAIN log' = DOMAIN log \cup {at}
        BY LogGrows
      <4>2. t \in DOMAIN log
        BY <2>3, <4>1
      <4> QED  BY <1>1, <4>2, TypeFacts DEF Times
    <3>2. Window \in Nat
      BY <1>1, TypeFacts
    <3>3. PICK k \in Ages : Held(k) = t
      BY <1>1, <1>2, <1>8, <3>1, <3>2 DEF Complete
    <3>4. Lost <= k
      <4> SUFFICES ASSUME Lost = 1, k = 0 PROVE FALSE
        BY <1>2 DEF Ages
      <4>1. filled = Window /\ filled - 1 \in Ages /\ 0 \in Ages
        BY <1>2, SampledAges DEF Ages
      <4>2. Held(0) + (filled - 1 - 0) <= Held(filled - 1) /\ Held(filled - 1) <= clock
        BY <1>1, <1>2, <4>1 DEF Ordered, Ages
      <4> QED  BY <1>2, <1>3, <1>8, <3>1, <3>2, <3>3, <4>1, <4>2
    <3>5. k - Lost \in 0..(filled - Lost - 1) /\ (k - Lost) + Lost = k
      BY <1>2, <3>4 DEF Ages
    <3> QED  BY <3>3, <3>5, SampledAges
  <2> QED  BY <2>2, <2>3
<1>9. NetworkRing'
  <2> SUFFICES ASSUME NEW k \in Ages' PROVE network'[Slot(k)'] = Held(k)'
    BY DEF NetworkRing
  <2>1. network' = [network EXCEPT ![head] = at]
        /\ network \in [Slots -> Times \cup {Gap}] /\ head \in Slots
    BY <1>1 DEF Sampled, Advance, HistoryTypeOK
  <2>2. CASE k = filled - Lost
    <3>1. k \in Nat
      BY DEF Ages
    <3> QED  BY <2>1, <2>2, <3>1, SampledAges
  <2>3. CASE k \in 0..(filled - Lost - 1)
    <3>1. k + Lost \in Ages /\ Slot(k)' = Slot(k + Lost) /\ Slot(k)' # head
          /\ Held(k)' = Held(k + Lost)
      BY <2>3, SampledAges
    <3>2. Slot(k + Lost) \in Slots
      BY <1>1, <3>1, SlotOf
    <3> QED  BY <1>1, <2>1, <3>1, <3>2 DEF NetworkRing
  <2> QED  BY <2>2, <2>3, SampledAges
<1> QED  BY <1>7, <1>8, <1>9 DEF Complete

LEMMA SampledDisks ==
    ASSUME HistoryInv, NEW at, NEW rated, Sampled(at, rated)
    PROVE  DiskRings' /\ NoRings'
<1>1. DiskRings /\ NoRings /\ Ordered /\ HistoryTypeOK
  BY DEF HistoryInv
<1>2. /\ clock \in Nat /\ Window \in Nat /\ head \in Slots
      /\ at = clock + 1 /\ clock' = at /\ rated \in SUBSET Mounts
  BY <1>1, TypeFacts DEF Sampled, Slots
<1>3. /\ DOMAIN disks' = Kept(at) \cup rated
      /\ \A m \in DOMAIN disks' : disks'[m] = DiskRing(m, at, rated)
  BY DEF Sampled, Advance
<1>4. ASSUME NEW t \in DOMAIN log', NEW m, m \in log'[t]
      PROVE  \/ t = at /\ m \in rated
             \/ t \in DOMAIN log /\ t \in Nat /\ t <= clock /\ m \in log[t]
  <2>1. CASE t = at
    BY <1>4, <2>1, LogGrows
  <2>2. CASE t # at
    <3>1. DOMAIN log' = DOMAIN log \cup {at}
      BY LogGrows
    <3>2. t \in DOMAIN log
      BY <2>2, <3>1
    <3>3. log'[t] = log[t]
      BY <3>2, LogGrows
    <3>4. t \in Nat /\ t <= clock
      BY <1>1, <3>2, TypeFacts DEF Ordered, Times
    <3> QED  BY <1>4, <3>2, <3>3, <3>4
  <2> QED  BY <2>1, <2>2
\* Who has no ring that is kept was not read within the window.
<1>5. ASSUME NEW m \in Mounts \ Kept(at), NEW t \in DOMAIN log, m \in log[t]
      PROVE  t \in Nat /\ t + Window < at
  <2>1. t \in Nat
    BY <1>1, TypeFacts DEF Times
  <2>2. CASE m \in DOMAIN disks
    <3>1. disks[m].lastAt \in Nat /\ ~(at - disks[m].lastAt <= Window)
      BY <1>1, <1>5, <2>2, TypeFacts DEF Kept, Times
    <3>2. t <= disks[m].lastAt
      BY <1>1, <1>5, <2>2 DEF DiskRings
    <3> QED  BY <1>2, <2>1, <3>1, <3>2
  <2>3. CASE m \notin DOMAIN disks
    BY <1>1, <1>2, <1>5, <2>1, <2>3 DEF NoRings
  <2> QED  BY <2>1, <2>2, <2>3
<1>6. ASSUME NEW m \in DOMAIN disks', NEW t \in DOMAIN log', m \in log'[t]
      PROVE  t <= disks'[m].lastAt
  <2>1. CASE m \in rated
    <3>1. disks'[m].lastAt = at
      <4>1. DiskRing(m, at, rated).lastAt = at
        BY <2>1 DEF DiskRing
      <4> QED  BY <1>3, <4>1
    <3> QED  BY <1>2, <1>4, <1>6, <3>1
  <2>2. CASE m \notin rated
    <3>1. m \in Kept(at) /\ disks'[m].lastAt = disks[m].lastAt
      <4>1. m \in Kept(at)
        BY <1>3, <2>2
      <4>2. disks[m] \in [rates : [Slots -> Times \cup {Gap}], lastAt : Times]
        BY <1>1, <4>1, TypeFacts DEF Kept
      <4> QED  BY <1>3, <2>2, <4>1, <4>2 DEF DiskRing
    <3>2. t \in DOMAIN log /\ m \in log[t]
      BY <1>4, <1>6, <2>2
    <3> QED  BY <1>1, <3>1, <3>2 DEF DiskRings, Kept
  <2> QED  BY <2>1, <2>2
<1>7. ASSUME NEW m \in DOMAIN disks', NEW k \in Ages', clock' <= Held(k)' + Window
      PROVE  disks'[m].rates[Slot(k)'] =
                IF m \in log'[Held(k)'] THEN Held(k)' ELSE Gap
  <2>1. m \in Kept(at) => disks[m] \in [rates : [Slots -> Times \cup {Gap}], lastAt : Times]
    BY <1>1, TypeFacts DEF Kept
  <2>2. CASE k = filled - Lost
    <3>1. Slot(k)' = head /\ Held(k)' = at /\ log'[at] = rated
      <4>1. k \in Nat
        BY DEF Ages
      <4> QED  BY <2>2, <4>1, SampledAges, LogGrows
    <3>2. DiskRing(m, at, rated).rates[head] = IF m \in rated THEN at ELSE Gap
      <4>1. CASE m \in rated /\ m \in Kept(at)
        BY <1>2, <2>1, <4>1 DEF DiskRing, Cleared
      <4>2. CASE m \in rated /\ m \notin Kept(at)
        BY <1>2, <4>2 DEF DiskRing, Blank
      <4>3. CASE m \notin rated
        BY <1>2, <1>3, <2>1, <4>3 DEF DiskRing, Cleared
      <4> QED  BY <4>1, <4>2, <4>3
    <3> QED  BY <1>3, <3>1, <3>2
  <2>3. CASE k \in 0..(filled - Lost - 1)
    <3> DEFINE s == Slot(k + Lost)
               t == Held(k + Lost)
    <3>1. /\ k + Lost \in Ages /\ Slot(k)' = s /\ s # head /\ Held(k)' = t
      BY <2>3, SampledAges
    <3>2. s \in Slots /\ t \in DOMAIN log /\ t \in Nat /\ log'[t] = log[t]
      <4>1. s \in Slots
        BY <1>1, <3>1, SlotOf
      <4>2. t \in DOMAIN log
        BY <1>1, <3>1 DEF Ordered
      <4>3. t \in Nat
        BY <1>1, <4>2, TypeFacts DEF Times
      <4> QED  BY <4>1, <4>2, <4>3, LogGrows
    <3>3. at <= t + Window
      BY <1>2, <1>7, <3>1
    <3>4. CASE m \in Kept(at)
      <4>1. DiskRing(m, at, rated).rates[s] = disks[m].rates[s]
        BY <2>1, <3>1, <3>2, <3>4 DEF DiskRing, Cleared
      <4>2. clock <= t + Window
        BY <1>2, <3>2, <3>3
      <4>3. disks[m].rates[s] = IF m \in log[t] THEN t ELSE Gap
        BY <1>1, <3>1, <3>4, <4>2 DEF DiskRings, Kept
      <4> QED  BY <1>3, <3>1, <3>2, <4>1, <4>3
    <3>5. CASE m \notin Kept(at)
      <4>1. m \in rated /\ DiskRing(m, at, rated).rates[s] = Gap
        BY <1>2, <1>3, <3>1, <3>2, <3>5 DEF DiskRing, Blank
      <4>2. m \notin log[t]
        BY <1>2, <1>5, <3>2, <3>3, <3>5, <4>1
      <4> QED  BY <1>3, <3>1, <3>2, <4>1, <4>2
    <3> QED  BY <3>4, <3>5
  <2> QED  BY <2>2, <2>3, SampledAges
<1>8. ASSUME NEW m \in Mounts \ DOMAIN disks', NEW t \in DOMAIN log', m \in log'[t]
      PROVE  t + Window < clock'
  <2>1. m \notin Kept(at) /\ m \notin rated
    BY <1>3, <1>8
  <2>2. t \in DOMAIN log /\ m \in log[t]
    BY <1>4, <1>8, <2>1
  <2> QED  BY <1>2, <1>5, <1>8, <2>1, <2>2
<1> QED  BY <1>6, <1>7, <1>8 DEF DiskRings, NoRings

LEMMA TimePasses ==
    ASSUME HistoryInv, clock' = clock + 1, clock' \in Times,
           UNCHANGED <<times, head, filled, network, disks, log>>,
           prev' \in [seeded : BOOLEAN, disks : SUBSET Mounts]
    PROVE  HistoryInv'
<1>1. HistoryTypeOK /\ Ordered /\ Complete /\ NetworkRing /\ DiskRings /\ NoRings
  BY DEF HistoryInv
<1>2. HistoryTypeOK'
  BY <1>1 DEF HistoryTypeOK
<1>3. Ages' = Ages /\ \A k : Slot(k)' = Slot(k) /\ Held(k)' = Held(k)
  BY DEF Ages, Slot, Held
<1>4. /\ clock \in Nat /\ Window \in Nat /\ \A t \in DOMAIN log : t \in Nat
      /\ \A k \in Ages : Held(k) \in Nat
  BY <1>1, TypeFacts DEF Ordered, Times
<1>5. Ordered' /\ NetworkRing'
  BY <1>1, <1>3, <1>4 DEF Ordered, NetworkRing
<1>6. Complete'
  BY <1>1, <1>3, <1>4 DEF Complete
<1>7. DiskRings'
  BY <1>1, <1>3, <1>4 DEF DiskRings
<1>8. NoRings'
  BY <1>1, <1>4 DEF NoRings
<1> QED  BY <1>2, <1>5, <1>6, <1>7, <1>8 DEF HistoryInv

LEMMA HistoryStep == ASSUME HistoryInv, [HistoryNext]_historyVars PROVE HistoryInv'
<1>1. CASE Tick
  <2>1. clock' = clock + 1 /\ clock' \in Times
    BY <1>1, TypeFacts, HistoryAssumption DEF Tick, HistoryInv, Times
  <2>2. ASSUME NEW seen \in SUBSET Mounts, Record(clock', seen) PROVE HistoryInv'
    <3>1. prev' \in [seeded : BOOLEAN, disks : SUBSET Mounts]
      BY <2>2 DEF Record
    <3>2. CASE ~prev.seeded
      BY <2>1, <2>2, <3>1, <3>2, TimePasses DEF Record
    <3>3. CASE prev.seeded
      <4>1. Sampled(clock', seen \cap prev.disks)
        BY <2>1, <2>2, <3>1, <3>3 DEF Record, Sampled
      <4> QED  BY <4>1, SampledTypes, SampledOrder, SampledDisks DEF HistoryInv
    <3> QED  BY <3>2, <3>3
  <2>3. CASE UNCHANGED ringVars
    <3>1. prev' \in [seeded : BOOLEAN, disks : SUBSET Mounts]
      BY <2>3 DEF ringVars, HistoryInv, HistoryTypeOK
    <3> QED  BY <2>1, <2>3, <3>1, TimePasses DEF ringVars
  <2> QED  BY <1>1, <2>2, <2>3 DEF Tick
<1>2. CASE UNCHANGED historyVars
  BY <1>2 DEF historyVars, ringVars, HistoryInv, HistoryTypeOK, Ordered, Complete,
              NetworkRing, DiskRings, NoRings, Ages, Held, Slot
<1> QED  BY <1>1, <1>2 DEF HistoryNext

LEMMA HistoryInvariant == HistorySpec => []HistoryInv
BY HistoryInitially, HistoryStep, PTL DEF HistorySpec

-----------------------------------------------------------------------------
(* Queries.                                                                 *)

\* The grid: its buckets are as wide as each other and fill the window.
LEMMA GridFacts ==
    ASSUME NEW now \in Nat, NEW window \in Nat \ {0}, NEW points \in 1..window
    PROVE  LET grid == Grid(now, window, points) IN
           /\ grid.points \in Nat \ {0} /\ grid.step \in Nat \ {0}
           /\ grid.start \in Int /\ grid.end = grid.start + grid.points * grid.step
<1> DEFINE n == Less(points, QueryCap)
<1>0. n \in 1..window
  BY HistoryAssumption DEF Less
<1>1. More(Less(Less(More(points, 1), QueryCap), window), 1) = n
  BY HistoryAssumption DEF More, Less
<1> HIDE DEF n
<1> DEFINE q == window \div n
<1>2. q \in Nat /\ window < n * q + n
  BY <1>0
<1>3. q # 0
  BY <1>0, <1>2
<1>4. More(q, 1) = q /\ q \in Nat \ {0}
  BY <1>2, <1>3 DEF More
<1> DEFINE e == CeilTo(now, q)
<1> HIDE DEF q
<1>5. e \in Int
  <2>1. now + q - 1 \in Nat
    BY <1>4
  <2>2. (now + q - 1) \div q \in Nat
    BY <1>4, <2>1
  <2> QED  BY <1>4, <2>2 DEF CeilTo
<1> HIDE DEF e
<1>6. Grid(now, window, points) =
         [start |-> e - n * q, end |-> e, step |-> q, points |-> n]
  BY <1>1, <1>4 DEF Grid, e, q
<1>7. n * q \in Int
  BY <1>0, <1>4
<1> QED  BY <1>0, <1>4, <1>5, <1>6, <1>7

\* A time is in the bucket its division by the step gives, and the end of the
\* grid is in the last.
LEMMA BucketFacts ==
    ASSUME NEW grid, NEW n \in Nat \ {0}, NEW b \in 0..(n - 1), NEW t \in Int,
           grid.points = n, grid.step \in Nat \ {0}, grid.start \in Int,
           grid.end = grid.start + n * grid.step
    PROVE  (grid.start <= t /\ t <= grid.end /\ BucketOf(t, grid) = b)
              <=> /\ grid.start + b * grid.step <= t
                  /\ \/ t < grid.start + (b + 1) * grid.step
                     \/ b = n - 1 /\ t = grid.end
<1> DEFINE d == grid.step
           s == grid.start
           x == t - s
           q == x \div d
<1>1. d \in Nat \ {0} /\ s \in Int /\ x \in Int /\ t = s + x /\ grid.end = s + n * d
  OBVIOUS
<1>2. \A i, j \in Int : i <= j => i * d <= j * d
  BY <1>1
<1>3. BucketOf(t, grid) = IF q <= n - 1 THEN q ELSE n - 1
  BY DEF BucketOf, Less
<1> HIDE DEF x, d, s
<1>4. ASSUME x \in Nat PROVE q \in Nat /\ q * d <= x /\ x < (q + 1) * d
  <2>1. q \in Nat /\ d * q <= x /\ x < d * q + d
    BY <1>1, <1>4
  <2> QED  BY <1>1, <2>1
<1>5. n * d \in Nat /\ b * d \in Nat /\ (b + 1) * d \in Nat /\ b * d <= n * d
      /\ (b + 1) * d <= n * d
  <2>1. b <= n /\ b + 1 <= n
    OBVIOUS
  <2> QED  BY <1>1, <1>2, <2>1
<1> HIDE DEF q
<1>6. ASSUME 0 <= x, x <= n * d, (IF q <= n - 1 THEN q ELSE n - 1) = b
      PROVE  b * d <= x /\ (x < (b + 1) * d \/ (b = n - 1 /\ x = n * d))
  <2>1. x \in Nat
    BY <1>1, <1>6
  <2>2. q \in Nat /\ q * d <= x /\ x < (q + 1) * d
    BY <1>4, <2>1
  <2>3. CASE q <= n - 1
    BY <1>6, <2>2, <2>3
  <2>4. CASE ~(q <= n - 1)
    <3>1. b = n - 1 /\ n <= q
      BY <1>6, <2>2, <2>4
    <3>2. n * d <= q * d
      BY <1>2, <2>2, <3>1
    <3> QED  BY <1>1, <1>5, <1>6, <2>1, <2>2, <3>1, <3>2
  <2> QED  BY <2>3, <2>4
<1>7. ASSUME b * d <= x, x < (b + 1) * d \/ (b = n - 1 /\ x = n * d)
      PROVE  /\ 0 <= x /\ x <= n * d
             /\ (IF q <= n - 1 THEN q ELSE n - 1) = b
  <2>1. x \in Nat /\ x <= n * d
    BY <1>1, <1>5, <1>7
  <2>2. q \in Nat /\ q * d <= x /\ x < (q + 1) * d
    BY <1>4, <2>1
  <2>3. CASE x < (b + 1) * d
    <3>1. ~(b + 1 <= q)
      <4> SUFFICES ASSUME b + 1 <= q PROVE FALSE
        OBVIOUS
      <4>1. (b + 1) * d <= q * d
        BY <1>2, <2>2
      <4> QED  BY <1>1, <1>5, <2>1, <2>2, <2>3, <4>1
    <3>2. ~(q + 1 <= b)
      <4> SUFFICES ASSUME q + 1 <= b PROVE FALSE
        OBVIOUS
      <4>1. (q + 1) * d <= b * d /\ (q + 1) * d \in Int
        BY <1>1, <1>2, <2>2
      <4> QED  BY <1>1, <1>5, <1>7, <2>1, <2>2, <4>1
    <3> QED  BY <2>1, <2>2, <3>1, <3>2
  <2>4. CASE b = n - 1 /\ x = n * d
    <3>1. ~(q + 1 <= n)
      <4> SUFFICES ASSUME q + 1 <= n PROVE FALSE
        OBVIOUS
      <4>1. (q + 1) * d <= n * d /\ (q + 1) * d \in Int
        BY <1>1, <1>2, <2>2
      <4> QED  BY <1>1, <1>5, <2>1, <2>2, <2>4, <4>1
    <3> QED  BY <2>1, <2>2, <2>4, <3>1
  <2> QED  BY <1>7, <2>1, <2>3, <2>4
<1>8. /\ grid.start <= t <=> 0 <= x
      /\ t <= grid.end <=> x <= n * d
      /\ t = grid.end <=> x = n * d
      /\ grid.start + b * grid.step <= t <=> b * d <= x
      /\ t < grid.start + (b + 1) * grid.step <=> x < (b + 1) * d
  BY <1>1, <1>5 DEF s, d
<1> QED  BY <1>3, <1>6, <1>7, <1>8

LEMMA FirstFacts ==
    ASSUME HistoryTypeOK, NEW t \in Int
    PROVE  /\ FirstSampleAtOrAfter(t) \in 0..filled
           /\ \A j \in Ages : j < FirstSampleAtOrAfter(t) => Held(j) < t
<1> DEFINE S == {k \in 0..filled : k = filled \/ times[Slot(k)] >= t}
           First(k) == /\ \A j \in 0..(k - 1) : times[Slot(j)] < t
                       /\ k = filled \/ times[Slot(k)] >= t
<1>1. filled \in Nat
  BY TypeFacts
<1>2. PICK m \in S : \A j \in S : ~(j < m)
  <2>1. \E R : IsWellFoundedOn(R, Nat) /\ \A x, y \in Nat : y < x => <<y, x>> \in R
    <3>1. IsWellFoundedOn(OpToRel(<, Nat), Nat)
      BY NatLessThanWellFounded
    <3>2. \A x, y \in Nat : y < x => <<y, x>> \in OpToRel(<, Nat)
      BY DEF OpToRel
    <3> QED  BY <3>1, <3>2
  <2>2. PICK R : IsWellFoundedOn(R, Nat) /\ \A x, y \in Nat : y < x => <<y, x>> \in R
    BY <2>1
  <2>3. S \subseteq Nat /\ filled \in S
    BY <1>1
  <2>4. PICK m \in S : \A j \in S : ~(<<j, m>> \in R)
    BY <2>2, <2>3, WFMin
  <2> QED  BY <2>2, <2>3, <2>4
<1>3. First(m)
  <2>1. ASSUME NEW j \in 0..(m - 1) PROVE times[Slot(j)] < t
    <3>1. j \in Ages /\ j \in 0..filled /\ j < m /\ j # filled
      BY <1>1, <1>2 DEF Ages
    <3>2. times[Slot(j)] \in Int
      BY <3>1, SlotOf DEF HistoryTypeOK, Times, Gap
    <3> QED  BY <1>2, <3>1, <3>2
  <2> QED  BY <1>2, <2>1
<1>4. FirstSampleAtOrAfter(t) \in 0..filled /\ First(FirstSampleAtOrAfter(t))
  <2>1. m \in 0..filled
    BY <1>2
  <2>2. FirstSampleAtOrAfter(t) = CHOOSE k \in 0..filled : First(k)
    BY DEF FirstSampleAtOrAfter
  <2> HIDE DEF First
  <2> QED  BY <1>3, <2>1, <2>2
<1> QED  BY <1>1, <1>4 DEF Ages, Held

\* What a ring has of the samples S of its source, of those in the window.
RingOf(rates, S) ==
    \A k \in Ages : clock <= Held(k) + Window =>
        rates[Slot(k)] = IF Held(k) \in S THEN Held(k) ELSE Gap

\* The readings a sample is smoothed over, and those it should be.
MeanOf(S, t) == {r \in S : r <= t /\ t < r + Smoothing}

Before(start) == IF start > Smoothing THEN start - Smoothing ELSE 0

LEMMA AgeFacts ==
    ASSUME HistoryInv
    PROVE  /\ clock \in Nat /\ filled \in Nat
           /\ Window \in Nat \ {0} /\ Smoothing \in Nat \ {0}
           /\ \A k \in Ages : Held(k) \in Nat \ {0} /\ Held(k) \in DOMAIN log
           /\ \A t \in DOMAIN log : t \in Nat \ {0} /\ t <= clock
           /\ \A j, k \in Ages : Held(j) <= Held(k) <=> j <= k
<1>1. HistoryTypeOK /\ Ordered
  BY DEF HistoryInv
<1>2. \A t \in DOMAIN log : t \in Nat \ {0} /\ t <= clock
  BY <1>1, TypeFacts DEF Ordered, Times
<1>3. \A k \in Ages : Held(k) \in Nat \ {0} /\ Held(k) \in DOMAIN log
  BY <1>1, <1>2 DEF Ordered
<1>4. ASSUME NEW j \in Ages, NEW k \in Ages PROVE Held(j) <= Held(k) <=> j <= k
  <2>1. j \in Int /\ k \in Int
    BY DEF Ages
  <2>2. j <= k => Held(j) + (k - j) <= Held(k)
    BY <1>1 DEF Ordered
  <2>3. k <= j => Held(k) + (j - k) <= Held(j)
    BY <1>1 DEF Ordered
  <2> QED  BY <1>3, <2>1, <2>2, <2>3
<1> QED  BY <1>1, <1>2, <1>3, <1>4, TypeFacts, HistoryAssumption

LEMMA FirstIsEarly ==
    ASSUME HistoryInv, NEW start \in Int
    PROVE  /\ FirstSampleAtOrAfter(Before(start)) \in 0..filled
           /\ \A j \in Ages : start - Smoothing < Held(j) =>
                 FirstSampleAtOrAfter(Before(start)) <= j
<1> DEFINE first == FirstSampleAtOrAfter(Before(start))
<1>1. HistoryTypeOK /\ Before(start) \in Int
  BY HistoryAssumption DEF HistoryInv, Before
<1>2. first \in 0..filled /\ \A j \in Ages : j < first => Held(j) < Before(start)
  BY <1>1, FirstFacts
<1> HIDE DEF first
<1>3. ASSUME NEW j \in Ages, start - Smoothing < Held(j) PROVE ~(j < first)
  BY <1>2, <1>3, AgeFacts DEF Before
<1>4. \A j \in Ages : j \in Int
  BY DEF Ages
<1> QED  BY <1>2, <1>3, <1>4, AgeFacts DEF first

\* Smoothing looks at all readings it should, and at no other.
LEMMA MeanIsReference ==
    ASSUME HistoryInv, NEW rates, NEW S \in SUBSET DOMAIN log, RingOf(rates, S),
           NEW start \in Int, start + Window >= clock + Smoothing,
           NEW k \in Ages, start <= Held(k)
    PROVE  Mean(rates, FirstSampleAtOrAfter(Before(start)), k) = MeanOf(S, Held(k))
<1> DEFINE first == FirstSampleAtOrAfter(Before(start))
<1>1. /\ first \in 0..filled
      /\ \A j \in Ages : start - Smoothing < Held(j) => first <= j
  BY FirstIsEarly
<1> HIDE DEF first
<1>2. ASSUME NEW r \in MeanOf(S, Held(k))
      PROVE  r \in Mean(rates, first, k)
  <2>1. r \in S /\ r \in DOMAIN log /\ r <= Held(k) /\ Held(k) < r + Smoothing
    BY <1>2 DEF MeanOf
  <2>2. clock < r + Window /\ start - Smoothing < r /\ r \in Nat
    BY <2>1, AgeFacts
  <2>3. PICK j \in Ages : Held(j) = r
    BY <2>1, <2>2 DEF HistoryInv, Complete
  <2>4. j <= k /\ first <= j /\ j \in Int
    BY <1>1, <2>1, <2>2, <2>3, AgeFacts DEF Ages
  <2>5. rates[Slot(j)] = r
    BY <2>1, <2>2, <2>3, AgeFacts DEF RingOf
  <2>6. r # Gap /\ Held(k) - Held(j) < Smoothing
    BY <2>1, <2>3, AgeFacts DEF Gap
  <2>7. j \in first..k
    BY <1>1, <2>4 DEF Ages
  <2> QED  BY <2>5, <2>6, <2>7 DEF Mean, Held
<1>3. ASSUME NEW r \in Mean(rates, first, k)
      PROVE  r \in MeanOf(S, Held(k))
  <2>1. PICK j \in first..k : r = rates[Slot(j)] /\ Held(k) - Held(j) < Smoothing /\ r # Gap
    BY <1>3 DEF Mean, Held
  <2>2. j \in Ages /\ j <= k
    BY <1>1, <2>1, AgeFacts DEF Ages
  <2>3. Held(j) <= Held(k) /\ Held(k) < Held(j) + Smoothing /\ clock <= Held(j) + Window
    BY <2>1, <2>2, AgeFacts
  <2>4. r = Held(j) /\ r \in S
    BY <2>1, <2>2, <2>3 DEF RingOf
  <2> QED  BY <2>3, <2>4 DEF MeanOf
<1> QED  BY <1>2, <1>3 DEF first

\* The buckets of the samples that the complete log has, of a source.
Due(t, grid, b) ==
    /\ grid.start + b * grid.step <= t
    /\ \/ t < grid.start + (b + 1) * grid.step
       \/ b = grid.points - 1 /\ t = grid.end

LogBuckets(S, grid) ==
    [b \in 0..(grid.points - 1) |->
        {<<t, MeanOf(S, t)>> :
            t \in {u \in DOMAIN log : Due(u, grid, b) /\ MeanOf(S, u) # {}}}]

\* A grid of a query: its buckets fill it, and what it needs is retained.
Retained(grid) ==
    /\ grid.points \in Nat \ {0} /\ grid.step \in Nat \ {0} /\ grid.start \in Int
    /\ grid.end = grid.start + grid.points * grid.step
    /\ grid.start + Window >= clock + Smoothing

\* The buckets a ring is cut into, before any is carried over.
RingBuckets(rates, grid) ==
    LET first == FirstSampleAtOrAfter(Before(grid.start))
        In(k, b) == /\ grid.start <= times[Slot(k)] /\ times[Slot(k)] <= grid.end
                    /\ BucketOf(times[Slot(k)], grid) = b
                    /\ Mean(rates, first, k) # {}
    IN  [b \in 0..(grid.points - 1) |->
            {<<times[Slot(k)], Mean(rates, first, k)>> :
                k \in {j \in first..(filled - 1) : In(j, b)}}]

\* A ring of the samples S is cut into buckets as S itself.
LEMMA BucketIsReference ==
    ASSUME HistoryInv, NEW rates, NEW S \in SUBSET DOMAIN log, RingOf(rates, S),
           NEW grid, Retained(grid), NEW b \in 0..(grid.points - 1)
    PROVE  RingBuckets(rates, grid)[b] = LogBuckets(S, grid)[b]
<1> DEFINE first == FirstSampleAtOrAfter(Before(grid.start))
           In(k) == /\ grid.start <= times[Slot(k)] /\ times[Slot(k)] <= grid.end
                    /\ BucketOf(times[Slot(k)], grid) = b
                    /\ Mean(rates, first, k) # {}
           Got == {<<times[Slot(k)], Mean(rates, first, k)>> :
                      k \in {j \in first..(filled - 1) : In(j)}}
           Wanted == {<<t, MeanOf(S, t)>> :
                         t \in {u \in DOMAIN log : Due(u, grid, b) /\ MeanOf(S, u) # {}}}
<1>0. /\ grid.points \in Nat \ {0} /\ grid.step \in Nat \ {0} /\ grid.start \in Int
      /\ grid.end = grid.start + grid.points * grid.step
      /\ grid.start + Window >= clock + Smoothing
  BY DEF Retained
<1>1. /\ first \in 0..filled
      /\ \A j \in Ages : grid.start - Smoothing < Held(j) => first <= j
  BY <1>0, FirstIsEarly
<1>2. \A t \in Int : (grid.start <= t /\ t <= grid.end /\ BucketOf(t, grid) = b) <=> Due(t, grid, b)
  BY <1>0, BucketFacts DEF Due
<1>3. \A k \in Ages : grid.start <= Held(k) => Mean(rates, first, k) = MeanOf(S, Held(k))
  BY <1>0, MeanIsReference
<1>4. \A k \in Ages : Held(k) = times[Slot(k)]
  BY DEF Held
<1>5. \A k \in first..(filled - 1) : k \in Ages
  BY <1>1, AgeFacts DEF Ages
<1> HIDE DEF first
<1>6. ASSUME NEW k \in first..(filled - 1), In(k)
      PROVE  <<times[Slot(k)], Mean(rates, first, k)>> \in Wanted
  <2>1. k \in Ages /\ Held(k) = times[Slot(k)] /\ Held(k) \in Int /\ Held(k) \in DOMAIN log
    BY <1>4, <1>5, AgeFacts
  <2>2. Due(Held(k), grid, b) /\ Mean(rates, first, k) = MeanOf(S, Held(k))
    BY <1>2, <1>3, <1>6, <2>1
  <2>3. MeanOf(S, Held(k)) # {}
    BY <1>6, <2>2
  <2> QED  BY <2>1, <2>2, <2>3
<1>7. ASSUME NEW t \in DOMAIN log, Due(t, grid, b), MeanOf(S, t) # {}
      PROVE  <<t, MeanOf(S, t)>> \in Got
  <2>1. t \in Int /\ grid.start <= t /\ t <= grid.end /\ BucketOf(t, grid) = b
    BY <1>2, <1>7, AgeFacts
  <2>2. clock < t + Window
    BY <1>0, <2>1, AgeFacts
  <2>3. PICK k \in Ages : Held(k) = t
    BY <2>2 DEF HistoryInv, Complete
  <2>4. first <= k
    BY <1>0, <1>1, <2>1, <2>3, AgeFacts
  <2>5. k \in first..(filled - 1)
    BY <1>1, <2>4, AgeFacts DEF Ages
  <2>6. Mean(rates, first, k) = MeanOf(S, t) /\ times[Slot(k)] = t
    BY <1>3, <1>4, <2>1, <2>3
  <2>7. In(k)
    BY <1>7, <2>1, <2>6
  <2> HIDE DEF In
  <2> QED  BY <2>5, <2>6, <2>7
<1>8. Got \subseteq Wanted
  <2> HIDE DEF In
  <2> QED  BY <1>6
<1>9. Wanted \subseteq Got
  BY <1>7
<1>10. Got = Wanted
  BY <1>8, <1>9
<1> QED  BY <1>10 DEF RingBuckets, LogBuckets, first, In, Got, Wanted

\* The rings are rings of the readings of their source.
LEMMA NetworkReadings == ASSUME HistoryInv PROVE RingOf(network, Readings(NetworkSource))
<1>1. \A k \in Ages : network[Slot(k)] = Held(k) /\ Held(k) \in DOMAIN log
  BY AgeFacts DEF HistoryInv, NetworkRing
<1> QED  BY <1>1 DEF RingOf, Readings

LEMMA DiskReadings ==
    ASSUME HistoryInv, NEW m \in DOMAIN disks
    PROVE  RingOf(disks[m].rates, Readings(m))
<1>1. m # NetworkSource
  BY HistoryAssumption, TypeFacts DEF HistoryInv, NetworkSource
<1>2. \A k \in Ages : clock <= Held(k) + Window =>
         disks[m].rates[Slot(k)] = IF m \in log[Held(k)] THEN Held(k) ELSE Gap
  BY DEF HistoryInv, DiskRings
<1>3. \A k \in Ages : Held(k) \in DOMAIN log
  BY AgeFacts
<1> QED  BY <1>1, <1>2, <1>3 DEF RingOf, Readings

LEMMA DownsampleIsReference ==
    ASSUME HistoryInv, NEW rates, NEW S \in SUBSET DOMAIN log, RingOf(rates, S),
           NEW grid, Retained(grid)
    PROVE  Downsample(rates, grid) = Carried(LogBuckets(S, grid))
<1>1. Downsample(rates, grid) = Carried(RingBuckets(rates, grid))
  BY DEF Downsample, Before, RingBuckets
<1>2. /\ DOMAIN RingBuckets(rates, grid) = 0..(grid.points - 1)
      /\ DOMAIN LogBuckets(S, grid) = 0..(grid.points - 1)
  BY DEF RingBuckets, LogBuckets
<1>3. \A b \in 0..(grid.points - 1) : RingBuckets(rates, grid)[b] = LogBuckets(S, grid)[b]
  BY BucketIsReference
<1>4. \A b \in 0..(grid.points - 1) : b > 0 => b - 1 \in 0..(grid.points - 1)
  BY DEF Retained
<1> QED  BY <1>1, <1>2, <1>3, <1>4 DEF Carried

\* Of a disk without a ring the log has nothing that a query could ask for.
LEMMA NothingToAnswer ==
    ASSUME HistoryInv, NEW m \in Mounts \ DOMAIN disks, NEW grid, Retained(grid)
    PROVE  Carried(LogBuckets(Readings(m), grid)) = [b \in 0..(grid.points - 1) |-> {}]
<1>1. m # NetworkSource
  BY HistoryAssumption DEF NetworkSource
<1>2. ASSUME NEW b \in 0..(grid.points - 1), NEW t \in DOMAIN log, Due(t, grid, b)
      PROVE  MeanOf(Readings(m), t) = {}
  <2>1. t \in Int
    BY AgeFacts
  <2>2. grid.start <= t
    BY <1>2, <2>1, BucketFacts DEF Due, Retained
  <2>3. ASSUME NEW r \in MeanOf(Readings(m), t) PROVE FALSE
    <3>1. r \in DOMAIN log /\ m \in log[r] /\ t < r + Smoothing
      BY <1>1 DEF MeanOf, Readings
    <3>2. r + Window < clock
      BY <3>1 DEF HistoryInv, NoRings
    <3> QED  BY <2>1, <2>2, <3>1, <3>2, AgeFacts DEF Retained
  <2> QED  BY <2>3
<1>3. \A b \in 0..(grid.points - 1) : LogBuckets(Readings(m), grid)[b] = {}
  BY <1>2 DEF LogBuckets
<1>4. DOMAIN LogBuckets(Readings(m), grid) = 0..(grid.points - 1)
  BY DEF LogBuckets
<1>5. \A b \in 0..(grid.points - 1) : b > 0 => b - 1 \in 0..(grid.points - 1)
  BY DEF Retained
<1> QED  BY <1>3, <1>4, <1>5 DEF Carried

LEMMA AnswersAreRight == HistoryInv => QueryIsReference
<1> SUFFICES ASSUME HistoryInv, NEW window \in 1..Window, NEW points \in 1..window,
                    NEW source \in Mounts \cup {NetworkSource},
                    Grid(clock, window, points).start + Window >= clock + Smoothing
             PROVE  Query(clock, window, points, source)
                        = Promised(clock, window, points, source)
  BY DEF QueryIsReference
<1> DEFINE grid == Grid(clock, window, points)
<1>1. Retained(grid)
  <2>1. clock \in Nat /\ window \in Nat \ {0} /\ points \in Nat \ {0}
    BY AgeFacts
  <2>2. /\ grid.points \in Nat \ {0} /\ grid.step \in Nat \ {0}
        /\ grid.start \in Int /\ grid.end = grid.start + grid.points * grid.step
    BY <2>1, GridFacts
  <2> QED  BY <2>1, <2>2 DEF Retained
<1> HIDE DEF grid
<1>2. Promised(clock, window, points, source) = Carried(LogBuckets(Readings(source), grid))
  BY DEF Promised, LogBuckets, Due, MeanOf, grid
<1>3. \A s \in Mounts \cup {NetworkSource} : Readings(s) \in SUBSET DOMAIN log
  BY DEF Readings
<1>4. DOMAIN disks \subseteq Mounts /\ NetworkSource \notin Mounts
  BY HistoryAssumption, TypeFacts DEF HistoryInv, NetworkSource
<1>5. CASE source = NetworkSource
  <2>1. Query(clock, window, points, source) = Downsample(network, grid)
    BY <1>4, <1>5 DEF Query, grid
  <2> QED  BY <1>1, <1>2, <1>3, <1>5, <2>1, NetworkReadings, DownsampleIsReference
<1>6. CASE source \in DOMAIN disks
  <2>1. Query(clock, window, points, source) = Downsample(disks[source].rates, grid)
    BY <1>4, <1>6 DEF Query, grid
  <2> QED  BY <1>1, <1>2, <1>3, <1>4, <1>6, <2>1, DiskReadings, DownsampleIsReference
<1>7. CASE source \in Mounts \ DOMAIN disks
  <2>1. Query(clock, window, points, source) = [b \in 0..(grid.points - 1) |-> {}]
    BY <1>4, <1>7 DEF Query, grid
  <2> QED  BY <1>1, <1>2, <1>7, <2>1, NothingToAnswer
<1> QED  BY <1>5, <1>6, <1>7

-----------------------------------------------------------------------------

\* The rings, their head and count, and the log have the types they should,
\* whatever the window and however many disks come and go.
THEOREM HistoryTypeCorrect == HistorySpec => []HistoryTypeOK
<1>1. HistoryInv => HistoryTypeOK
  BY DEF HistoryInv
<1> QED  BY <1>1, HistoryInvariant, PTL

\* For every window, smoothing and set of disks: a query about time that is
\* retained is answered as if every sample ever taken had been kept, of the
\* network and of each disk, those whose ring was dropped included.
THEOREM QueriesAreAnswered == HistorySpec => []QueryIsReference
BY HistoryInvariant, AnswersAreRight, PTL
=============================================================================
