------------------------------ MODULE IOHistory ------------------------------
(***************************************************************************)
(* The throughput history the daemon keeps in memory                       *)
(* (internal/system/iohistory.go): one ring of sample times, and aligned   *)
(* with it slot for slot one ring of rates for the network and one for     *)
(* each disk that was seen within the window.  A query smooths the rates   *)
(* and averages them into buckets.                                         *)
(* A rate is named by the time of the sample it belongs to, an average by  *)
(* the samples it is taken of: what matters is which samples end up where. *)
(* Times are seconds, the interval between samples.                        *)
(***************************************************************************)
EXTENDS Naturals

CONSTANTS
    Mounts,     \* the disks
    Window,     \* HistoryWindow, which is also the number of slots
    Smoothing,  \* SmoothingWindow
    QueryCap,   \* MaxQueryPoints
    MaxClock    \* bound: how long the daemon runs

ASSUME HistoryAssumption ==
    /\ Window \in Nat \ {0} /\ Smoothing \in Nat \ {0} /\ QueryCap \in Nat \ {0}
    /\ MaxClock \in Nat \ {0}
    /\ "network" \notin Mounts

Gap    == 0                \* NaN: no reading
Slots  == 0..(Window - 1)
Times  == 1..MaxClock
Blank  == [s \in Slots |-> Gap]

VARIABLES
    clock,    \* now
    times,    \* the time of the sample in each slot
    head,     \* the slot the next sample goes to
    filled,   \* how many slots hold a sample
    network,  \* the network's ring
    disks,    \* the rings of the disks, each with when it was last set
    prev,     \* the reading before: the disks in it (and whether there is one)
    log       \* history: every sample, as the disks it has a rate for

ringVars    == <<times, head, filled, network, disks, prev, log>>
historyVars == <<clock, ringVars>>

Unseeded == [seeded |-> FALSE, disks |-> {}]

HistoryTypeOK ==
    /\ clock \in Times
    /\ times \in [Slots -> Times \cup {Gap}]
    /\ head \in Slots /\ filled \in 0..Window
    /\ network \in [Slots -> Times \cup {Gap}]
    /\ \E D \in SUBSET Mounts :
          disks \in [D -> [rates : [Slots -> Times \cup {Gap}], lastAt : Times]]
    /\ prev \in [seeded : BOOLEAN, disks : SUBSET Mounts]
    /\ \E T \in SUBSET Times : log \in [T -> SUBSET Mounts]

HistoryInit ==
    /\ clock = 1
    /\ times = Blank /\ head = 0 /\ filled = 0
    /\ network = Blank
    /\ disks = [m \in {} |-> Blank]
    /\ prev = Unseeded
    /\ log = [t \in {} |-> {}]

-----------------------------------------------------------------------------
(* Recording.                                                               *)

Cleared_NotAtAll(rates, slot) == rates

\* ratesRing.clear: no reading in this slot.
Cleared(rates, slot) == [rates EXCEPT ![slot] = Gap]

\* The disks seen within the window; the rings of the others are dropped.
Kept(at) == {m \in DOMAIN disks : at - disks[m].lastAt <= Window}

\* diskRing, with its slot cleared, and the rate of a disk that has one.
DiskRing(m, at, rated) ==
    LET ring == IF m \in Kept(at)
                THEN [disks[m] EXCEPT !.rates = Cleared(@, head)]
                ELSE [rates |-> Blank, lastAt |-> at]
    IN  IF m \in rated
        THEN [rates |-> [ring.rates EXCEPT ![head] = at], lastAt |-> at]
        ELSE ring

\* advance claims the next slot and clears it in every ring, and the rates
\* of the network and of the disks in rated are set.
Advance(at, rated) ==
    /\ times' = [times EXCEPT ![head] = at]
    /\ head' = (head + 1) % Window
    /\ filled' = IF filled < Window THEN filled + 1 ELSE filled
    /\ network' = [network EXCEPT ![head] = at]
    /\ disks' = [m \in Kept(at) \cup rated |-> DiskRing(m, at, rated)]

\* A reading of the counters, with those of the disks seen.  The first one,
\* of the daemon or of a disk, only is what the next is compared with.
Record(at, seen) ==
    /\ prev' = [seeded |-> TRUE, disks |-> seen]
    /\ \/ /\ ~prev.seeded
          /\ UNCHANGED <<times, head, filled, network, disks, log>>
       \/ /\ prev.seeded
          /\ Advance(at, seen \cap prev.disks)
          /\ log' = [t \in DOMAIN log \cup {at} |->
                       IF t = at THEN seen \cap prev.disks ELSE log[t]]

\* The sampler's loop: the ticker fires, and the counters are read, or they
\* cannot be.
Tick ==
    /\ clock < MaxClock
    /\ clock' = clock + 1
    /\ \/ \E seen \in SUBSET Mounts : Record(clock', seen)
       \/ UNCHANGED ringVars

HistoryNext == Tick

HistorySpec == HistoryInit /\ [][HistoryNext]_historyVars

-----------------------------------------------------------------------------
(* Queries: of the last `window` seconds before `now`, in `points` buckets. *)

CeilTo(t, step) == ((t + step - 1) \div step) * step

Less(x, y) == IF x <= y THEN x ELSE y
More(x, y) == IF x >= y THEN x ELSE y

\* resolveBucketWindow: a grid of buckets that does not move with now.
Grid(now, window, points) ==
    LET n    == More(Less(Less(More(points, 1), QueryCap), window), 1)
        step == More(window \div n, 1)
        end  == CeilTo(now, step)
    IN  [start |-> end - n * step, end |-> end, step |-> step, points |-> n]

\* The ring slot of the k-th oldest sample.
Slot(k) == (head + Window - filled + k) % Window

\* firstSampleAtOrAfter, by its binary search's answer.
FirstSampleAtOrAfter(t) ==
    CHOOSE k \in 0..filled :
        /\ \A j \in 0..(k - 1) : times[Slot(j)] < t
        /\ k = filled \/ times[Slot(k)] >= t

\* trailingMean, at the k-th sample: over the readings from the first on.
Mean(rates, first, k) ==
    {rates[Slot(j)] : j \in {i \in first..k :
        times[Slot(k)] - times[Slot(i)] < Smoothing}} \ {Gap}

BucketOf(t, grid) == Less((t - grid.start) \div grid.step, grid.points - 1)

\* A bucket without a sample takes the value of the one before, if that has.
Carried(buckets) ==
    [b \in DOMAIN buckets |->
        IF buckets[b] = {} /\ b > 0 THEN buckets[b - 1] ELSE buckets[b]]

\* downsample; a value is the set of the samples averaged, each with the
\* readings it is the mean of ({}: a gap).
Downsample(rates, grid) ==
    LET first == FirstSampleAtOrAfter(
                    IF grid.start > Smoothing THEN grid.start - Smoothing ELSE 0)
        In(k, b) ==
            /\ grid.start <= times[Slot(k)] /\ times[Slot(k)] <= grid.end
            /\ BucketOf(times[Slot(k)], grid) = b
            /\ Mean(rates, first, k) # {}
    IN  Carried([b \in 0..(grid.points - 1) |->
            {<<times[Slot(k)], Mean(rates, first, k)>> :
                k \in {j \in first..(filled - 1) : In(j, b)}}])

NetworkSource == "network"

Query(now, window, points, source) ==
    LET grid == Grid(now, window, points) IN
    CASE source = NetworkSource -> Downsample(network, grid)
      [] source \in DOMAIN disks -> Downsample(disks[source].rates, grid)
      [] OTHER -> [b \in 0..(grid.points - 1) |-> {}]

-----------------------------------------------------------------------------

\* What the query promises, of the complete log: in each bucket the samples
\* of its time, each as the mean of the readings shortly before it.
Readings(source) ==
    {t \in DOMAIN log : source = NetworkSource \/ source \in log[t]}

Promised(now, window, points, source) ==
    LET grid == Grid(now, window, points)
        MeanAt(t) == {r \in Readings(source) : r <= t /\ t < r + Smoothing}
        In(t, b) ==
            /\ grid.start + b * grid.step <= t
            /\ \/ t < grid.start + (b + 1) * grid.step
               \/ b = grid.points - 1 /\ t = grid.end
    IN  Carried([b \in 0..(grid.points - 1) |->
            {<<t, MeanAt(t)>> :
                t \in {u \in DOMAIN log : In(u, b) /\ MeanAt(u) # {}}}])

\* However long the daemon runs, whichever samples fail and whichever disks
\* come and go, a query about time that is retained (with what it smooths
\* over) answers as if every sample had been kept (iohistory.go:146-170,
\* 316-361).  (Before the first sample all is gaps.)
QueryIsReference ==
    filled > 0 =>
        \A window \in 1..Window : \A points \in 1..window :
            \A source \in Mounts \cup {NetworkSource} :
                Grid(clock, window, points).start + Window >= clock + Smoothing =>
                    Query(clock, window, points, source)
                        = Promised(clock, window, points, source)
=============================================================================
