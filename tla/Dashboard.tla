------------------------------ MODULE Dashboard ------------------------------
(***************************************************************************)
(* The dashboard (components/dashboard.tsx): its metrics, polled from      *)
(* /api/system, and how gauges (gauge-panel.tsx) and charts (line-chart.tsx*)
(* under network-throughput-chart.tsx and disk-io-chart.tsx) draw what     *)
(* they are given.  What a chart asks for is in IOChart.                   *)
(* A worker ticks every second and each tick calls refetch(): react-query  *)
(* then drops the request that is under way and sends another, if there    *)
(* are metrics on the page, and else leaves it the one under way.  One     *)
(* that fails is repeated after 1, 2 and 4 seconds before it counts as     *)
(* failed: over metrics, a tick comes before the second repetition.        *)
(***************************************************************************)
EXTENDS Integers, FiniteSets, Sequences

CONSTANTS
    Metrics,    \* bound: what the host's metrics may be
    NoMetrics,  \* none on the page
    Retries,    \* how often react-query repeats a failed request
    NoPoint,    \* a bucket without a sample; a metric that is not there
    Scales,     \* NETWORK_SCALE_OPTIONS: the tops of the network chart's axis
    DefaultScale,  \* DEFAULT_NETWORK_SCALE
    Unscaled,   \* the disk charts: the axis follows the data
    Curves      \* bound: what the two lines of a chart may be, equally long

VARIABLES
    meters,      \* the host: its metrics
    dashOn,      \* the dashboard is on the page
    gauges,      \* the query: the metrics it has, or NoMetrics
    trouble,     \* the query: its last request failed
    inquiry,     \* the query: the request under way, or NoInquiry
    savedScale,  \* the browser: the setting (Unscaled: none or nonsense)
    scale,       \* the scale chosen
    lines        \* the lines the network chart has

dashVars == <<meters, dashOn, gauges, trouble, inquiry, savedScale, scale, lines>>

\* A request: how often it failed, whether it waits for its repetition, what
\* the answer will say, and whether this visit of the page made it.
NoInquiry == [failures |-> 0, waiting |-> FALSE, says |-> NoMetrics, own |-> FALSE]
Inquiry   == [failures : 0..Retries, waiting : BOOLEAN, says : Metrics, own : BOOLEAN]

ASSUME DashAssumption ==
    /\ NoMetrics \notin Metrics
    /\ \A m \in Metrics :
          /\ {m.cpu, m.memory, m.load, m.cpus} \subseteq Int /\ m.uptime \in Nat
          /\ \A d \in DOMAIN m.disks :
                m.disks[d].used \in Int /\ m.disks[d].busy \in Int \cup {NoPoint}
    /\ Retries \in Nat /\ Retries > 1
    /\ NoPoint \notin Int
    /\ Scales \subseteq Nat \ {0} /\ DefaultScale \in Scales
    /\ Unscaled \notin Int
    /\ \A c \in Curves :
          /\ c \in [{"rx", "tx"} -> Seq(Nat \cup {NoPoint})]
          /\ Len(c.rx) = Len(c.tx)

DashTypeOK ==
    /\ meters \in Metrics
    /\ dashOn \in BOOLEAN /\ trouble \in BOOLEAN
    /\ gauges \in Metrics \cup {NoMetrics}
    /\ inquiry \in Inquiry \cup {NoInquiry}
    /\ savedScale \in Scales \cup {Unscaled}
    /\ scale \in Scales
    /\ lines \in Curves

DashInit ==
    /\ meters \in Metrics
    /\ dashOn = FALSE
    /\ gauges = NoMetrics /\ trouble = FALSE /\ inquiry = NoInquiry
    /\ savedScale = Unscaled /\ scale = DefaultScale
    /\ lines \in Curves

-----------------------------------------------------------------------------
(* Gauges.  Readings are whole percents, loads hundredths.                  *)

ClampPercent(v) ==
    CASE v = NoPoint -> 0
      [] v # NoPoint /\ v < 0 -> 0
      [] v # NoPoint /\ v > 100 -> 100
      [] OTHER -> v

LoadGaugePercent(m) == IF m.cpus <= 0 THEN 0 ELSE ClampPercent(m.load \div m.cpus)

GaugeColor(v) == CASE v > 90 -> "crit" [] v \in 81..90 -> "warn" [] OTHER -> "ok"

\* The arc of GaugePanel: nothing for zero, and never too short to be seen.
MinVisiblePercent == 3
GaugePanel(value) ==
    LET v == ClampPercent(value) IN
    [arc   |-> IF v \in 1..MinVisiblePercent THEN MinVisiblePercent ELSE v,
     color |-> GaugeColor(v)]

\* formatUptime, in days, hours and minutes.
FormatUptime(seconds) ==
    [days    |-> seconds \div 86400,
     hours   |-> (seconds % 86400) \div 3600,
     minutes |-> (seconds % 3600) \div 60]

UptimePanel(m) == FormatUptime(m.uptime)

\* The gauge is of the load per processor, the number under it is the load.
LoadGaugePanel(m) == [gauge |-> GaugePanel(LoadGaugePercent(m)), display |-> m.load]

\* The panels of the host.
HostPanels(m) ==
    [cpu    |-> GaugePanel(m.cpu),
     load   |-> LoadGaugePanel(m),
     memory |-> GaugePanel(m.memory),
     uptime |-> UptimePanel(m)]

\* A section per disk, with its mount as a heading if there are several.
DiskPanels(m) ==
    [d \in DOMAIN m.disks |->
        [heading |-> Cardinality(DOMAIN m.disks) > 1,
         usage   |-> GaugePanel(m.disks[d].used),
         busy    |-> GaugePanel(m.disks[d].busy)]]

-----------------------------------------------------------------------------
(* Line charts.                                                             *)

\* networkScaleMaxBytes, with isNetworkScaleId.
ReadScale(saved) == IF saved \in Scales THEN saved ELSE DefaultScale

Drawable(c) ==
    ({c.rx[i] : i \in DOMAIN c.rx} \cup {c.tx[i] : i \in DOMAIN c.tx}) \ {NoPoint}

\* latestValue: what the legend says of a line.
LatestValue(values) ==
    LET known == {i \in DOMAIN values : values[i] # NoPoint} IN
    IF known = {} THEN 0 ELSE values[CHOOSE i \in known : \A j \in known : j <= i]

\* peakValue: the top of an axis that follows the data.
PeakValue(c) == CHOOSE m \in Drawable(c) \cup {1} : \A v \in Drawable(c) \cup {1} : v <= m

AxisTop(c, max) == IF max = Unscaled THEN PeakValue(c) ELSE max

Clamped_Never(v, max) == v

\* What is drawn for a value when the axis is fixed.
Clamped(v, max) ==
    IF v # NoPoint /\ max # Unscaled /\ v > max THEN max ELSE v

\* The rows of the chart: of each line what is drawn and what the tooltip says.
PlotRows(c, slots, max) ==
    [i \in 1..slots |->
        [line \in DOMAIN c |->
            LET v == IF i \in DOMAIN c[line] THEN c[line][i] ELSE NoPoint
            IN  [drawn |-> Clamped(v, max), raw |-> v]]]

PlotSlots(c) == Len(c.rx)

LineChart(c, max) ==
    [top    |-> AxisTop(c, max),
     rows   |-> PlotRows(c, PlotSlots(c), max),
     legend |-> [line \in DOMAIN c |-> LatestValue(c[line])]]

\* hasSamples: until then the panel says that it collects samples.
HasSamples(c) == Drawable(c) # {}

ChartPanel(c, max) == [waiting |-> ~HasSamples(c), plot |-> LineChart(c, max)]

NetworkChart == ChartPanel(lines, scale)
DiskIOChart  == ChartPanel(lines, Unscaled)

-----------------------------------------------------------------------------
(* The query.                                                               *)

\* What the page shows in the dashboard's place.
PageShows ==
    CASE trouble -> "error"
      [] ~trouble /\ gauges # NoMetrics -> "gauges"
      [] ~trouble /\ gauges = NoMetrics /\ inquiry # NoInquiry -> "loading"
      [] OTHER -> "none"

\* A request of its own: without metrics the last error is forgotten.
AskAnew ==
    /\ inquiry' = [failures |-> 0, waiting |-> FALSE, says |-> meters, own |-> TRUE]
    /\ trouble' = (trouble /\ gauges # NoMetrics)

\* The page appears: it asks, or joins the request that is under way.
ShowDashboard ==
    /\ ~dashOn
    /\ dashOn' = TRUE
    /\ IF inquiry = NoInquiry THEN AskAnew ELSE UNCHANGED <<inquiry, trouble>>
    /\ scale' = ReadScale(savedScale)
    /\ UNCHANGED <<meters, gauges, savedScale, lines>>

\* It goes, and the worker with it; what the query has may be forgotten.
HideDashboard ==
    /\ dashOn
    /\ dashOn' = FALSE
    /\ \/ /\ UNCHANGED <<gauges, trouble>>
          /\ inquiry' = [inquiry EXCEPT !.own = FALSE]
       \/ gauges' = NoMetrics /\ trouble' = FALSE /\ inquiry' = NoInquiry
    /\ UNCHANGED <<meters, savedScale, scale, lines>>

PollTick_WhileGauges ==
    /\ dashOn /\ gauges # NoMetrics
    /\ AskAnew
    /\ UNCHANGED <<meters, dashOn, gauges, savedScale, scale, lines>>

\* useKeepaliveInterval calls system.refetch().
PollTick ==
    /\ dashOn /\ (inquiry = NoInquiry \/ gauges # NoMetrics)
    /\ AskAnew
    /\ UNCHANGED <<meters, dashOn, gauges, savedScale, scale, lines>>

ReceiveMetrics ==
    /\ inquiry # NoInquiry /\ ~inquiry.waiting
    /\ gauges' = inquiry.says /\ trouble' = FALSE
    /\ inquiry' = NoInquiry
    /\ UNCHANGED <<meters, dashOn, savedScale, scale, lines>>

MetricsFail_OneRetry ==
    /\ inquiry # NoInquiry
    /\ ~inquiry.waiting \/ ~dashOn
    /\ IF dashOn /\ inquiry.failures < 1
       THEN /\ inquiry' = [inquiry EXCEPT !.failures = @ + 1, !.waiting = TRUE]
            /\ UNCHANGED trouble
       ELSE inquiry' = NoInquiry /\ trouble' = TRUE
    /\ UNCHANGED <<meters, dashOn, gauges, savedScale, scale, lines>>

\* A failure is the last one after all repetitions, or when nobody looks.
MetricsFail ==
    /\ inquiry # NoInquiry
    /\ ~inquiry.waiting \/ ~dashOn
    /\ IF dashOn /\ inquiry.failures < Retries
       THEN /\ inquiry' = [inquiry EXCEPT !.failures = @ + 1, !.waiting = TRUE]
            /\ UNCHANGED trouble
       ELSE inquiry' = NoInquiry /\ trouble' = TRUE
    /\ UNCHANGED <<meters, dashOn, gauges, savedScale, scale, lines>>

\* Over metrics, only the first repetition comes before the next tick, unless
\* the request is from before this visit.
Repeat ==
    /\ dashOn /\ inquiry.waiting
    /\ (gauges # NoMetrics /\ inquiry.own => inquiry.failures = 1)
    /\ inquiry' = [inquiry EXCEPT !.waiting = FALSE, !.says = meters]
    /\ UNCHANGED <<meters, dashOn, gauges, trouble, savedScale, scale, lines>>

-----------------------------------------------------------------------------

\* The choice is stored, unless storage is full or closed to the page.
ChooseScale(s) ==
    /\ dashOn /\ PageShows = "gauges" /\ s # scale
    /\ scale' = s
    /\ savedScale' \in {savedScale, s}
    /\ UNCHANGED <<meters, dashOn, gauges, trouble, inquiry, lines>>

\* The chart is given other lines.
ServeLines(c) ==
    /\ dashOn /\ PageShows = "gauges"
    /\ lines' = c
    /\ UNCHANGED <<meters, dashOn, gauges, trouble, inquiry, savedScale, scale>>

MetersMove ==
    /\ meters' \in Metrics \ {meters}
    /\ UNCHANGED <<dashOn, gauges, trouble, inquiry, savedScale, scale, lines>>

DashNext ==
    \/ ShowDashboard \/ HideDashboard
    \/ PollTick \/ ReceiveMetrics \/ MetricsFail \/ Repeat
    \/ (\E s \in Scales : ChooseScale(s)) \/ (\E c \in Curves : ServeLines(c))
    \/ MetersMove

DashSpec == DashInit /\ [][DashNext]_dashVars

\* The worker and the timers of the repetitions tick, and requests are
\* answered in time again and again.
DashFairness ==
    /\ WF_dashVars(PollTick) /\ WF_dashVars(Repeat)
    /\ SF_dashVars(ReceiveMetrics)

-----------------------------------------------------------------------------

\* While the dashboard is up, gauges once shown give way neither to an error
\* nor to "Loading": a tick drops a failing request before its last repetition
\* (dashboard.tsx:36-46).  The exception is a request that an earlier visit of
\* the page made and this one joined: it may have failed before.  The price
\* is that old gauges stay, unmarked, while the daemon fails.
GaugesStay ==
    [][dashOn /\ dashOn' /\ PageShows = "gauges" =>
            PageShows' = "gauges" \/ ~inquiry.own]_dashVars

\* Whatever failed before, once the host's metrics stay as they are a
\* dashboard that is left alone comes to show them, gauge by gauge.
GaugesCatchUp ==
    <>[][UNCHANGED <<meters, dashOn>>]_<<meters, dashOn>> =>
        <>[](dashOn => /\ PageShows = "gauges"
                       /\ HostPanels(gauges) = HostPanels(meters)
                       /\ DiskPanels(gauges) = DiskPanels(meters))

\* No line leaves its plot, whatever the scale: what is too much for the axis
\* runs along its top, and only that is not drawn as it was served; the legend
\* says of a line its last sample; and a panel that collects samples draws
\* nothing (line-chart.tsx:29-89).
DrawnInAxis ==
    \A panel \in {NetworkChart, DiskIOChart}, line \in DOMAIN lines :
        LET chart == panel.plot
            Point(i) == chart.rows[i][line]
        IN  /\ \A i \in DOMAIN chart.rows :
                  CASE Point(i).raw = NoPoint -> Point(i).drawn = NoPoint
                    [] Point(i).raw \in 0..chart.top -> Point(i).drawn = Point(i).raw
                    [] OTHER -> Point(i).drawn = chart.top
            /\ \A i \in DOMAIN chart.rows :
                  Point(i).raw # NoPoint /\ chart.legend[line] # Point(i).raw =>
                      \E j \in DOMAIN chart.rows : j > i /\ Point(j).raw # NoPoint
            /\ panel.waiting => \A i \in DOMAIN chart.rows : Point(i).drawn = NoPoint
=============================================================================
