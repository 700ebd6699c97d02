----------------------------- MODULE PageProofs -----------------------------
(***************************************************************************)
(* Proofs about what is on the page: the charts' requests (IOChart), the   *)
(* gauges of the dashboard and what its charts draw (Dashboard), the frame *)
(* of the sidebar (SidebarFrame) and its switches (ServiceSwitch), and the *)
(* table of traffic (VnstatPanel), for any ranges, widths, metrics,        *)
(* curves, windows and catalogs.  At the end all parts of WebParts are put *)
(* together: what is proved of each holds of the composition, whose run    *)
(* checks it.                                                              *)
(***************************************************************************)
EXTENDS WebParts, FormsProofs, PlaybookProofs, IOHistoryProofs

-----------------------------------------------------------------------------
(* The charts.                                                              *)

\* What the server takes and answers with as many buckets as asked for.
Served(key) == Accepted(key) /\ key.points <= key.seconds

\* Answers are as long as their keys say, and the chart on the page has the
\* answer it shows.
ChartInv ==
    /\ ChartTypeOK
    /\ \A key \in underway : Served(key)
    /\ \A key \in DOMAIN answers : answers[key] = key.points
    /\ chartOn /\ lastShown # NoKey => lastShown \in DOMAIN answers

\* What the proofs need of the figures.
LEMMA Figures ==
    /\ HistoryWindow \in Nat \ {0}
    /\ MaxChartPoints \in Nat \ {0} /\ MaxQueryPoints = MaxChartPoints
    /\ SampleSeconds = 1 /\ FallbackWidth \in Nat
  BY DEF HistoryWindow, MaxChartPoints, MaxQueryPoints, SampleSeconds,
     FallbackWidth

\* chartPointBudget is within the bounds of both sides.
LEMMA BudgetFits ==
    ASSUME NEW seconds \in 1..HistoryWindow, NEW width \in Nat
    PROVE  /\ Budget(seconds, width) \in 1..MaxChartPoints
           /\ Budget(seconds, width) <= seconds
<1>1. seconds \div SampleSeconds = seconds
  BY Figures
<1> QED  BY <1>1, Figures DEF Budget, Higher, Lower

LEMMA KeyIsServed ==
    ASSUME ChartTypeOK
    PROVE  ChartKey \in ChartKeys /\ Served(ChartKey)
<1>1. interval \in 1..HistoryWindow /\ chartWidth \in Nat
  BY ChartAssumption DEF ChartTypeOK
<1>2. /\ ChartKey.seconds = interval
      /\ ChartKey.points \in 1..MaxChartPoints /\ ChartKey.points <= interval
  BY <1>1, BudgetFits DEF ChartKey
<1>3. ChartKey \in ChartKeys
  BY <1>1, <1>2, Figures DEF ChartKey, ChartKeys
<1>4. Served(ChartKey)
  BY <1>1, <1>2, Figures DEF Served, Accepted
<1> QED  BY <1>3, <1>4

\* Of a key that is served the answer has as many buckets as the key says.
LEMMA BucketsAreThePoints ==
    ASSUME NEW key \in ChartKeys, Served(key) PROVE Buckets(key) = key.points
<1>1. key.seconds \in Nat /\ key.points \in Nat
  BY Figures DEF ChartKeys
<1>2. key.seconds \div SampleSeconds = key.seconds
  BY <1>1, Figures
<1> QED  BY <1>1, <1>2, Figures DEF Buckets, Served, Accepted, Higher, Lower

LEMMA NoKeyIsKey == NoKey \in ChartKeys
  BY Figures DEF NoKey, ChartKeys

LEMMA QuantizedIsWidth == ASSUME NEW w \in Nat PROVE Quantized(w) \in Nat
  BY DEF Quantized, Higher, WidthStep

LEMMA ChartInitially == ChartInit => ChartInv
  BY ChartAssumption, Figures, NoKeyIsKey DEF ChartInit, ChartInv, ChartTypeOK

\* Drawing the chart anew keeps the answers and what it shows in step.
LEMMA DrawKeeps ==
    ASSUME ChartInv, NEW seconds \in ChartIntervals, NEW width \in Nat, NEW have,
           DOMAIN have \subseteq ChartKeys,
           \A key \in DOMAIN have : have[key] = key.points,
           DOMAIN answers \subseteq DOMAIN have,
           Draw(seconds, width, have), chartOn' = chartOn
    PROVE  /\ interval' \in ChartIntervals /\ chartWidth' \in Nat
           /\ DOMAIN answers' \subseteq ChartKeys
           /\ \A key \in DOMAIN answers' : answers'[key] = key.points
           /\ lastShown' \in ChartKeys
           /\ chartOn' /\ lastShown' # NoKey => lastShown' \in DOMAIN answers'
  BY DEF ChartInv, ChartTypeOK, Draw

LEMMA ChartStep == ASSUME ChartInv, [ChartNext]_chartVars PROVE ChartInv'
<1> USE DEF ChartInv, ChartTypeOK
<1>0. ChartKey \in ChartKeys /\ Served(ChartKey)
  BY KeyIsServed
<1>1. CASE ShowChart
  BY <1>1, ChartAssumption, Figures, NoKeyIsKey DEF ShowChart, ReadInterval
<1>2. CASE HideChart
  BY <1>2 DEF HideChart
<1>3. CASE AskForHistory
  BY <1>0, <1>3 DEF AskForHistory
<1>4. ASSUME NEW seconds \in ChartIntervals, ChooseInterval(seconds)
      PROVE  ChartInv'
  BY <1>4, DrawKeeps DEF ChooseInterval
<1>5. ASSUME NEW w \in PlotWidths, Measure(w) PROVE ChartInv'
  BY <1>5, DrawKeeps, QuantizedIsWidth, ChartAssumption DEF Measure
<1>6. ASSUME NEW key \in underway, ReceiveHistory(key) PROVE ChartInv'
  <2> DEFINE have == [k \in DOMAIN answers \cup {key} |->
                        IF k = key THEN Buckets(key) ELSE answers[k]]
  <2>1. key \in ChartKeys /\ Buckets(key) = key.points
    BY BucketsAreThePoints
  <2>2. \A k \in DOMAIN have : have[k] = k.points
    BY <2>1
  <2>3. DOMAIN have \subseteq ChartKeys /\ DOMAIN answers \subseteq DOMAIN have
    BY <2>1
  <2>4. Draw(interval, chartWidth, have)
    BY <1>6 DEF ReceiveHistory
  <2> HIDE DEF have
  <2> QED  BY <1>6, <2>2, <2>3, <2>4, DrawKeeps DEF ReceiveHistory
<1>7. ASSUME NEW key \in underway, HistoryFails(key) PROVE ChartInv'
  BY <1>7 DEF HistoryFails
<1>8. CASE UNCHANGED chartVars
  BY <1>8 DEF chartVars
<1> QED
  BY <1>1, <1>2, <1>3, <1>4, <1>5, <1>6, <1>7, <1>8 DEF ChartNext

LEMMA ChartInvServes == ChartInv => ChartIsServed
<1> SUFFICES ASSUME ChartInv PROVE ChartIsServed
  OBVIOUS
<1>1. \A key \in underway : Accepted(key)
  BY DEF ChartInv, Served
<1>2. ASSUME chartOn, Plotted # NoKey
      PROVE  Plotted \in DOMAIN answers /\ answers[Plotted] = Plotted.points
  BY <1>2 DEF ChartInv, Plotted
<1> QED  BY <1>1, <1>2 DEF ChartIsServed

LEMMA ChartInvariant == ChartSpec => []ChartInv
  BY ChartInitially, ChartStep, PTL DEF ChartSpec

\* No chart asks for what the daemon refuses, and what it plots has a point
\* for each it asked for, whatever storage holds and however wide the plot is
\* (chart-interval.ts:42-46, io_history.go:43-63).
THEOREM ChartsAreServed == ChartSpec => [](ChartTypeOK /\ ChartIsServed)
<1>1. ChartInv => ChartTypeOK /\ ChartIsServed
  BY ChartInvServes DEF ChartInv
<1> QED  BY <1>1, ChartInvariant, PTL

-----------------------------------------------------------------------------
(* The gauges.                                                              *)

\* A request of this visit over metrics that is on its way has failed once at
\* most: the next tick comes before a second repetition.
DashInv ==
    /\ DashTypeOK
    /\ inquiry.own => dashOn
    /\ gauges # NoMetrics /\ inquiry.own /\ ~inquiry.waiting =>
          inquiry.failures <= 1

\* What the proofs need of the constants.
LEMMA DashFigures ==
    /\ NoMetrics \notin Metrics
    /\ Retries \in Nat /\ Retries > 1
    /\ DefaultScale \in Scales
  BY DashAssumption

\* The fields of a request, and of none.
LEMMA InquiryFields ==
    ASSUME DashTypeOK
    PROVE  /\ inquiry.failures \in 0..Retries
           /\ inquiry.waiting \in BOOLEAN /\ inquiry.own \in BOOLEAN
           /\ inquiry # NoInquiry => inquiry \in Inquiry /\ inquiry.says \in Metrics
<1>1. CASE inquiry = NoInquiry
  BY <1>1, DashFigures DEF NoInquiry
<1>2. CASE inquiry \in Inquiry
  BY <1>2 DEF Inquiry
<1> QED  BY <1>1, <1>2 DEF DashTypeOK

LEMMA AskAnewAsks ==
    ASSUME DashTypeOK, AskAnew
    PROVE  /\ inquiry' \in Inquiry /\ inquiry'.own /\ inquiry'.failures = 0
           /\ trouble' \in BOOLEAN
           /\ gauges # NoMetrics => trouble' = trouble
  BY DashFigures DEF DashTypeOK, AskAnew, Inquiry

LEMMA DashInitially == DashInit => DashInv
<1> SUFFICES ASSUME DashInit PROVE DashInv
  OBVIOUS
<1>1. DashTypeOK
  BY DashFigures DEF DashInit, DashTypeOK
<1>2. ~inquiry.own
  BY DEF DashInit, NoInquiry
<1> QED  BY <1>1, <1>2 DEF DashInv

LEMMA DashStep == ASSUME DashInv, [DashNext]_dashVars PROVE DashInv'
<1> USE DEF DashInv
<1>0. DashTypeOK
  OBVIOUS
<1>1. CASE ShowDashboard
  <2>1. scale' \in Scales
    BY <1>1, DashFigures DEF ShowDashboard, ReadScale
  <2>2. CASE inquiry = NoInquiry
    BY <1>1, <2>1, <2>2, AskAnewAsks DEF ShowDashboard, DashTypeOK
  <2>3. CASE inquiry # NoInquiry
    BY <1>1, <2>1, <2>3 DEF ShowDashboard, DashTypeOK
  <2> QED  BY <2>2, <2>3
<1>2. CASE HideDashboard
  <2>1. CASE gauges' = NoMetrics /\ trouble' = FALSE /\ inquiry' = NoInquiry
    BY <1>2, <2>1 DEF HideDashboard, DashTypeOK, NoInquiry
  <2>2. CASE /\ UNCHANGED <<gauges, trouble>>
             /\ inquiry' = [inquiry EXCEPT !.own = FALSE]
    <3>1. CASE inquiry = NoInquiry
      BY <1>2, <2>2, <3>1 DEF HideDashboard, DashTypeOK, NoInquiry
    <3>2. CASE inquiry \in Inquiry
      <4>1. inquiry' \in Inquiry /\ ~inquiry'.own
        BY <2>2, <3>2 DEF Inquiry
      <4> QED  BY <1>2, <2>2, <4>1 DEF HideDashboard, DashTypeOK
    <3> QED  BY <3>1, <3>2 DEF DashTypeOK
  <2> QED  BY <1>2, <2>1, <2>2 DEF HideDashboard
<1>3. CASE PollTick
  BY <1>3, AskAnewAsks DEF PollTick, DashTypeOK
<1>4. CASE ReceiveMetrics
  <2>1. inquiry.says \in Metrics /\ ~NoInquiry.own
    BY <1>4, InquiryFields DEF ReceiveMetrics, NoInquiry
  <2> QED  BY <1>4, <2>1 DEF ReceiveMetrics, DashTypeOK
<1>5. CASE MetricsFail
  <2>1. CASE dashOn /\ inquiry.failures < Retries
    <3> DEFINE next == [inquiry EXCEPT !.failures = @ + 1, !.waiting = TRUE]
    <3>1. inquiry' = next
      BY <1>5, <2>1 DEF MetricsFail
    <3>2. inquiry \in Inquiry /\ inquiry.failures + 1 \in 0..Retries
      BY <1>5, <2>1, InquiryFields, DashFigures DEF MetricsFail
    <3>3. next \in Inquiry /\ next.waiting
      BY <3>2 DEF Inquiry
    <3> QED  BY <1>5, <2>1, <3>1, <3>3 DEF MetricsFail, DashTypeOK
  <2>2. CASE ~(dashOn /\ inquiry.failures < Retries)
    <3>1. ~NoInquiry.own
      BY DEF NoInquiry
    <3> QED  BY <1>5, <2>2, <3>1 DEF MetricsFail, DashTypeOK
  <2> QED  BY <2>1, <2>2
<1>6. CASE Repeat
  <2>1. inquiry \in Inquiry
    BY <1>6, InquiryFields DEF Repeat, NoInquiry
  <2>2. /\ inquiry' \in Inquiry
        /\ inquiry'.own = inquiry.own /\ inquiry'.failures = inquiry.failures
    BY <1>6, <2>1 DEF Repeat, DashTypeOK, Inquiry
  <2> QED  BY <1>6, <2>2 DEF Repeat, DashTypeOK
<1>7. ASSUME NEW s \in Scales, ChooseScale(s) PROVE DashInv'
  BY <1>7 DEF ChooseScale, DashTypeOK
<1>8. ASSUME NEW c \in Curves, ServeLines(c) PROVE DashInv'
  BY <1>8 DEF ServeLines, DashTypeOK
<1>9. CASE MetersMove
  BY <1>9 DEF MetersMove, DashTypeOK
<1>10. CASE UNCHANGED dashVars
  BY <1>10 DEF dashVars, DashTypeOK
<1> QED
  BY <1>1, <1>2, <1>3, <1>4, <1>5, <1>6, <1>7, <1>8, <1>9, <1>10 DEF DashNext

LEMMA DashInvariant == DashSpec => []DashInv
  BY DashInitially, DashStep, PTL DEF DashSpec

\* Gauges are on the page exactly with metrics and without an error.
LEMMA ShowsGauges == (PageShows = "gauges") <=> (~trouble /\ gauges # NoMetrics)
  BY DEF PageShows

LEMMA StepKeepsGauges ==
    ASSUME DashInv, DashNext, dashOn, dashOn', PageShows = "gauges", inquiry.own
    PROVE  ~trouble' /\ gauges' # NoMetrics
<1>0. ~trouble /\ gauges # NoMetrics /\ DashTypeOK
  BY ShowsGauges DEF DashInv
<1>1. CASE PollTick
  BY <1>0, <1>1, AskAnewAsks DEF PollTick
<1>2. CASE ReceiveMetrics
  BY <1>0, <1>2, InquiryFields, DashFigures DEF ReceiveMetrics
<1>3. CASE MetricsFail
  <2>1. inquiry.failures < Retries
    BY <1>0, <1>3, InquiryFields, DashFigures DEF MetricsFail, DashInv
  <2> QED  BY <1>0, <1>3, <2>1 DEF MetricsFail
<1>4. ASSUME \/ ShowDashboard \/ HideDashboard \/ Repeat \/ MetersMove
             \/ \E s \in Scales : ChooseScale(s)
             \/ \E c \in Curves : ServeLines(c)
      PROVE  ~trouble' /\ gauges' # NoMetrics
  BY <1>0, <1>4 DEF ShowDashboard, HideDashboard, Repeat, MetersMove,
     ChooseScale, ServeLines
<1> QED  BY <1>1, <1>2, <1>3, <1>4 DEF DashNext

\* The dashboard's state is well typed, whatever fails and is repeated.
THEOREM DashTypeCorrect == DashSpec => []DashTypeOK
<1>1. DashInv => DashTypeOK
  BY DEF DashInv
<1> QED  BY <1>1, DashInvariant, PTL

\* Over gauges no request of the dashboard comes to its last repetition: while
\* it is up they give way neither to an error nor to "Loading", unless it
\* joined a request of an earlier visit (dashboard.tsx:36-46).
THEOREM GaugesAreKept == DashSpec => GaugesStay
<1>1. DashInv /\ [DashNext]_dashVars =>
        [dashOn /\ dashOn' /\ PageShows = "gauges" =>
            PageShows' = "gauges" \/ ~inquiry.own]_dashVars
  <2> SUFFICES ASSUME DashInv, DashNext, dashOn, dashOn', PageShows = "gauges",
                      inquiry.own
               PROVE  PageShows' = "gauges"
    OBVIOUS
  <2>1. ~trouble' /\ gauges' # NoMetrics
    BY StepKeepsGauges
  <2> QED  BY <2>1 DEF PageShows
<1> QED  BY <1>1, DashInvariant, PTL DEF DashSpec, GaugesStay

-----------------------------------------------------------------------------
(* What the charts draw.                                                    *)

\* Of the curves, and of what a chart is drawn with.
LEMMA CurveFacts ==
    ASSUME NEW c \in Curves, NEW line \in DOMAIN c
    PROVE  /\ DOMAIN c = {"rx", "tx"}
           /\ c[line] \in Seq(Nat \cup {NoPoint})
           /\ Len(c[line]) \in Nat /\ DOMAIN c[line] = 1..Len(c[line])
           /\ \A i \in DOMAIN c[line] : c[line][i] \in Nat \cup {NoPoint}
           /\ PlotSlots(c) = Len(c[line])
<1>1. c \in [{"rx", "tx"} -> Seq(Nat \cup {NoPoint})] /\ Len(c.rx) = Len(c.tx)
  BY DashAssumption
<1>2. DOMAIN c = {"rx", "tx"} /\ c[line] \in Seq(Nat \cup {NoPoint})
  BY <1>1
<1>3. \A i \in DOMAIN c[line] : c[line][i] \in Nat \cup {NoPoint}
  BY <1>2
<1>4. Len(c[line]) \in Nat /\ DOMAIN c[line] = 1..Len(c[line])
  BY <1>2
<1>5. PlotSlots(c) = Len(c[line])
  BY <1>1, <1>2 DEF PlotSlots
<1> QED  BY <1>2, <1>3, <1>4, <1>5

LEMMA PointFacts ==
    /\ NoPoint \notin Int /\ Unscaled \notin Int
    /\ \A max \in Scales : max \in Nat \ {0}
  BY DashAssumption

\* The samples of a line are bounded: a first one beyond every bound would be
\* one more than the samples before it, which have one.
LEMMA LineIsBounded ==
    ASSUME NEW c \in Curves, NEW line \in DOMAIN c
    PROVE  \E top \in Nat : \A i \in DOMAIN c[line] : c[line][i] # NoPoint => c[line][i] <= top
<1> DEFINE n == Len(c[line])
           Bound(k, top) == \A i \in 1..k : c[line][i] # NoPoint => c[line][i] <= top
           Unbounded == {k \in 0..n : \A top \in Nat : ~Bound(k, top)}
<1>1. n \in Nat /\ DOMAIN c[line] = 1..n
      /\ \A i \in 1..n : c[line][i] \in Nat \cup {NoPoint}
  BY CurveFacts
<1> HIDE DEF n
<1>2. SUFFICES ASSUME Unbounded # {} PROVE FALSE
  <2>1. n \in 0..n
    BY <1>1
  <2>2. \E top \in Nat : Bound(n, top)
    <3> HIDE DEF Bound
    <3> QED  BY <1>2, <2>1
  <2> QED  BY <1>1, <2>2
<1>3. PICK k \in Unbounded : \A j \in Unbounded : k <= j
  <2>1. Unbounded \subseteq Nat
    BY <1>1
  <2> HIDE DEF Unbounded
  <2> QED  BY <1>2, <2>1, HasSmallest
<1>4. k # 0
  <2>1. Bound(0, 0)
    OBVIOUS
  <2> QED  BY <1>3, <2>1
<1>5. k \in 1..n /\ k - 1 \in 0..n /\ k - 1 \notin Unbounded
  <2>1. k \in 0..n /\ k # 0
    BY <1>3, <1>4
  <2>2. k \in 1..n /\ k - 1 \in 0..n /\ ~(k <= k - 1)
    BY <1>1, <2>1
  <2> HIDE DEF Unbounded
  <2> QED  BY <1>3, <2>2
<1>6. PICK top \in Nat : Bound(k - 1, top)
  BY <1>5
<1>7. PICK more \in Nat : top <= more /\ (c[line][k] # NoPoint => c[line][k] <= more)
  <2>1. c[line][k] \in Nat \cup {NoPoint}
    BY <1>1, <1>5
  <2>2. CASE c[line][k] = NoPoint
    BY <2>2
  <2>3. CASE c[line][k] \in Nat /\ c[line][k] <= top
    BY <2>3
  <2>4. CASE c[line][k] \in Nat /\ top <= c[line][k]
    BY <2>4
  <2> QED  BY <2>1, <2>2, <2>3, <2>4
<1>8. Bound(k, more)
  <2>1. ASSUME NEW i \in 1..k, c[line][i] # NoPoint PROVE c[line][i] <= more
    <3>1. CASE i = k
      BY <1>7, <2>1, <3>1
    <3>2. CASE i # k
      <4>1. i \in 1..(k - 1) /\ i \in 1..n
        BY <1>1, <1>5, <3>2
      <4>2. c[line][i] <= top /\ c[line][i] \in Nat
        BY <1>1, <1>6, <2>1, <4>1, PointFacts
      <4> QED  BY <1>7, <4>2
    <3> QED  BY <3>1, <3>2
  <2> QED  BY <2>1
<1> QED  BY <1>3, <1>8

\* An axis that follows the data has a top, and no sample is above it.
LEMMA PeakIsTop ==
    ASSUME NEW c \in Curves
    PROVE  /\ PeakValue(c) \in Nat
           /\ \A line \in DOMAIN c : \A i \in DOMAIN c[line] :
                 c[line][i] # NoPoint => c[line][i] <= PeakValue(c)
<1> DEFINE S == Drawable(c) \cup {1}
           IsPeak(m) == \A v \in S : v <= m
<1>1. "rx" \in DOMAIN c /\ "tx" \in DOMAIN c /\ \A line \in DOMAIN c : line \in {"rx", "tx"}
  BY DashAssumption
<1>2. \A v \in Drawable(c) : \E line \in DOMAIN c : \E i \in DOMAIN c[line] :
         v = c[line][i] /\ v # NoPoint
  BY <1>1 DEF Drawable
<1>3. \A line \in DOMAIN c : \A i \in DOMAIN c[line] :
         c[line][i] # NoPoint => c[line][i] \in S
  BY <1>1 DEF Drawable
<1>4. S \subseteq Nat
  BY <1>2, CurveFacts
<1>5. PICK r \in Nat : \A i \in DOMAIN c["rx"] : c["rx"][i] # NoPoint => c["rx"][i] <= r
  BY <1>1, LineIsBounded
<1>6. PICK t \in Nat : \A i \in DOMAIN c["tx"] : c["tx"][i] # NoPoint => c["tx"][i] <= t
  BY <1>1, LineIsBounded
<1>7. \A v \in S : v <= r + t + 1
  BY <1>1, <1>2, <1>4, <1>5, <1>6
<1> HIDE DEF S
<1>8. PICK m \in S : IsPeak(m)
  <2>1. S \subseteq 0..(r + t + 1) /\ r + t + 1 \in Nat
    BY <1>4, <1>7
  <2>2. S # {}
    BY DEF S
  <2> QED  BY <2>1, <2>2, HasLast
<1>9. PeakValue(c) \in S /\ IsPeak(PeakValue(c))
  <2>1. PeakValue(c) = CHOOSE x \in S : IsPeak(x)
    BY DEF PeakValue, S
  <2> HIDE DEF IsPeak
  <2> QED  BY <1>8, <2>1
<1> QED  BY <1>3, <1>4, <1>9

\* What a row has for a line.
LEMMA RowFacts ==
    ASSUME NEW c \in Curves, NEW max, NEW line \in DOMAIN c
    PROVE  LET rows == LineChart(c, max).rows IN
           /\ DOMAIN rows = DOMAIN c[line]
           /\ \A i \in DOMAIN rows :
                 /\ rows[i][line].raw = c[line][i]
                 /\ rows[i][line].drawn = Clamped(c[line][i], max)
<1>1. PlotSlots(c) = Len(c[line]) /\ DOMAIN c[line] = 1..Len(c[line])
  BY CurveFacts
<1> QED  BY <1>1 DEF LineChart, PlotRows

\* A sample within the axis is drawn as it is, another at the top.
LEMMA PointIsDrawn ==
    ASSUME NEW c \in Curves, NEW max \in Scales \cup {Unscaled},
           NEW line \in DOMAIN c, NEW i \in DOMAIN c[line]
    PROVE  LET v == c[line][i] IN
           /\ v = NoPoint => Clamped(v, max) = NoPoint
           /\ v \in 0..AxisTop(c, max) => Clamped(v, max) = v
           /\ v # NoPoint /\ v \notin 0..AxisTop(c, max) => Clamped(v, max) = AxisTop(c, max)
<1>1. c[line][i] \in Nat \cup {NoPoint}
  BY CurveFacts
<1>2. CASE max = Unscaled
  <2>1. AxisTop(c, max) = PeakValue(c) /\ PeakValue(c) \in Nat
    BY <1>2, PeakIsTop DEF AxisTop
  <2>2. c[line][i] # NoPoint => c[line][i] \in 0..AxisTop(c, max)
    BY <1>1, <2>1, PeakIsTop
  <2> QED  BY <1>2, <2>2 DEF Clamped
<1>3. CASE max \in Scales /\ max # Unscaled
  <2>1. AxisTop(c, max) = max /\ max \in Nat
    BY <1>3, PointFacts DEF AxisTop
  <2> QED  BY <1>1, <1>3, <2>1, PointFacts DEF Clamped
<1> QED  BY <1>2, <1>3

\* The legend has the last sample, if there is one.
LEMMA LegendIsLast ==
    ASSUME NEW c \in Curves, NEW line \in DOMAIN c, NEW i \in DOMAIN c[line],
           c[line][i] # NoPoint, LatestValue(c[line]) # c[line][i]
    PROVE  \E j \in DOMAIN c[line] : j > i /\ c[line][j] # NoPoint
<1> DEFINE known == {j \in DOMAIN c[line] : c[line][j] # NoPoint}
           IsLast(k) == \A j \in known : j <= k
<1>1. DOMAIN c[line] = 1..Len(c[line]) /\ Len(c[line]) \in Nat
  BY CurveFacts
<1>2. known \subseteq 0..Len(c[line]) /\ i \in known
  BY <1>1
<1>3. PICK k \in known : IsLast(k)
  BY <1>1, <1>2, HasLast
<1>4. LatestValue(c[line]) = c[line][CHOOSE x \in known : IsLast(x)]
  BY <1>2 DEF LatestValue
<1>5. PICK last \in known : IsLast(last) /\ LatestValue(c[line]) = c[line][last]
  <2> HIDE DEF known, IsLast
  <2> QED  BY <1>3, <1>4
<1>6. i <= last /\ i # last
  BY <1>2, <1>5
<1> QED  BY <1>1, <1>2, <1>5, <1>6

LEMMA ChartIsInAxis ==
    ASSUME NEW c \in Curves, NEW max \in Scales \cup {Unscaled}, NEW line \in DOMAIN c
    PROVE  LET box   == ChartPanel(c, max)
               chart == box.plot
               Point(i) == chart.rows[i][line]
           IN  /\ \A i \in DOMAIN chart.rows :
                     CASE Point(i).raw = NoPoint -> Point(i).drawn = NoPoint
                       [] Point(i).raw \in 0..chart.top -> Point(i).drawn = Point(i).raw
                       [] OTHER -> Point(i).drawn = chart.top
               /\ \A i \in DOMAIN chart.rows :
                     Point(i).raw # NoPoint /\ chart.legend[line] # Point(i).raw =>
                         \E j \in DOMAIN chart.rows : j > i /\ Point(j).raw # NoPoint
               /\ box.waiting => \A i \in DOMAIN chart.rows : Point(i).drawn = NoPoint
<1> DEFINE box   == ChartPanel(c, max)
           chart == LineChart(c, max)
           rows  == chart.rows
<1>1. box.plot = chart /\ box.waiting = ~HasSamples(c)
  BY DEF ChartPanel
<1>2. chart.top = AxisTop(c, max) /\ chart.legend[line] = LatestValue(c[line])
  BY DEF LineChart
<1>3. /\ DOMAIN rows = DOMAIN c[line]
      /\ \A i \in DOMAIN rows : /\ rows[i][line].raw = c[line][i]
                                /\ rows[i][line].drawn = Clamped(c[line][i], max)
  BY RowFacts
<1>4. NoPoint \notin 0..AxisTop(c, max)
  BY PointFacts
<1> HIDE DEF box, chart
<1>5. ASSUME NEW i \in DOMAIN rows
      PROVE  CASE rows[i][line].raw = NoPoint -> rows[i][line].drawn = NoPoint
               [] rows[i][line].raw \in 0..chart.top -> rows[i][line].drawn = rows[i][line].raw
               [] OTHER -> rows[i][line].drawn = chart.top
  <2>1. /\ c[line][i] = NoPoint => Clamped(c[line][i], max) = NoPoint
        /\ c[line][i] \in 0..AxisTop(c, max) => Clamped(c[line][i], max) = c[line][i]
        /\ c[line][i] # NoPoint /\ c[line][i] \notin 0..AxisTop(c, max) =>
              Clamped(c[line][i], max) = AxisTop(c, max)
    BY <1>3, PointIsDrawn
  <2> QED  BY <1>2, <1>3, <1>4, <2>1
<1>6. ASSUME NEW i \in DOMAIN rows, rows[i][line].raw # NoPoint,
             chart.legend[line] # rows[i][line].raw
      PROVE  \E j \in DOMAIN rows : j > i /\ rows[j][line].raw # NoPoint
  BY <1>2, <1>3, <1>6, LegendIsLast
<1>7. ASSUME ~HasSamples(c), NEW i \in DOMAIN rows PROVE rows[i][line].drawn = NoPoint
  <2>1. c[line][i] = NoPoint
    <3>1. Drawable(c) = {} /\ i \in DOMAIN c[line] /\ line \in {"rx", "tx"}
      BY <1>3, <1>7, CurveFacts DEF HasSamples
    <3>2. CASE line = "rx"
      BY <3>1, <3>2 DEF Drawable
    <3>3. CASE line = "tx"
      BY <3>1, <3>3 DEF Drawable
    <3> QED  BY <3>1, <3>2, <3>3
  <2> QED  BY <1>3, <2>1, PointIsDrawn
<1> QED  BY <1>1, <1>5, <1>6, <1>7 DEF box

LEMMA DrawnWithinAxis == DashTypeOK => DrawnInAxis
<1> SUFFICES ASSUME DashTypeOK PROVE DrawnInAxis
  OBVIOUS
<1>1. lines \in Curves /\ scale \in Scales \cup {Unscaled}
  BY DEF DashTypeOK
<1>2. NetworkChart = ChartPanel(lines, scale) /\ DiskIOChart = ChartPanel(lines, Unscaled)
  BY DEF NetworkChart, DiskIOChart
<1> QED  BY <1>1, <1>2, ChartIsInAxis DEF DrawnInAxis

\* Of any lines and scales: no line leaves its plot, what fits is drawn as it
\* was served, and the legend has the last sample (line-chart.tsx:29-89).
THEOREM LinesStayInAxis == DashSpec => []DrawnInAxis
  BY DashTypeCorrect, DrawnWithinAxis, PTL

-----------------------------------------------------------------------------
(* The frame.                                                               *)

LEMMA FrameInvariant == FrameSpec => []FrameTypeOK
<1>1. FrameInit => FrameTypeOK
  BY DEF FrameInit, FrameTypeOK
<1>2. FrameTypeOK /\ [FrameNext]_frameVars => FrameTypeOK'
  BY DEF FrameTypeOK, FrameNext, frameVars, PressTrigger, PressShortcut,
     ToggleSidebar, DismissSheet, Resize, ReloadFrame
<1> QED  BY <1>1, <1>2, PTL DEF FrameSpec

\* With the usual font size, what useIsMobile and the style sheet each call
\* narrow is the same.
LEMMA BreakpointsAgree ==
    ASSUME FrameTypeOK, FontSize = 16 PROVE Md <=> ~IsMobile
<1>1. winWidth \in Nat
  BY FrameAssumption DEF FrameTypeOK
<1> QED  BY <1>1 DEF Md, IsMobile, MdBreakpoint, MobileBreakpoint

LEMMA FrameInReach == FrameTypeOK => RowsInReach
<1> SUFFICES ASSUME FrameTypeOK, FontSize = 16
             PROVE  /\ ~RowsShown => Triggers # {}
                    /\ Sidebar # "hidden" => (RowsShown <=> ~TooltipsShown)
  BY DEF RowsInReach
<1>1. Md <=> ~IsMobile
  BY BreakpointsAgree
<1>2. ASSUME ~RowsShown PROVE \E t \in {"page", "sidebar"} : t \in Triggers
  <2>1. CASE IsMobile
    <3>1. "page" \in Triggers
      BY <1>1, <1>2, <2>1 DEF Triggers, RowsShown, Sidebar
    <3> QED  BY <3>1
  <2>2. CASE ~IsMobile
    <3>1. "sidebar" \in Triggers
      BY <1>1, <1>2, <2>2 DEF Triggers, RowsShown, Sidebar
    <3> QED  BY <3>1
  <2> QED  BY <2>1, <2>2
<1>3. Sidebar # "hidden" => (RowsShown <=> ~TooltipsShown)
  BY <1>1 DEF Sidebar, RowsShown, TooltipsShown, FrameTypeOK
<1> QED  BY <1>2, <1>3

\* Rows that are not on the screen are one press of a trigger away, and names
\* are there wherever the icons are, in any window, with the usual font size.
THEOREM RowsStayInReach == FrameSpec => [](FrameTypeOK /\ RowsInReach)
  BY FrameInvariant, FrameInReach, PTL

\* A trigger on the screen never toggles what the screen does not show, with
\* the usual font size (use-mobile.ts:3, app-shell.tsx:179-186).
THEOREM TriggersAnswer == FrameSpec => TriggerAnswers
<1>1. FrameTypeOK /\ [FrameNext]_frameVars =>
        [FontSize = 16 /\ (\E t \in Triggers : PressTrigger(t)) =>
            RowsShown' = ~RowsShown]_frameVars
  <2> SUFFICES ASSUME FrameTypeOK, FontSize = 16,
                      NEW t \in Triggers, PressTrigger(t)
               PROVE  RowsShown' = ~RowsShown
    OBVIOUS
  <2>1. Md <=> ~IsMobile
    BY BreakpointsAgree
  <2>2. IsMobile' = IsMobile /\ Md' = Md
    BY DEF PressTrigger, ToggleSidebar, IsMobile, Md
  <2>3. RowsShown <=> IF IsMobile THEN sheet ELSE expanded
    BY <2>1 DEF RowsShown, Sidebar
  <2>4. RowsShown' <=> IF IsMobile' THEN sheet' ELSE expanded'
    BY <2>1, <2>2 DEF RowsShown, Sidebar
  <2>5. RowsShown \in BOOLEAN /\ RowsShown' \in BOOLEAN
    BY DEF RowsShown
  <2> QED  BY <2>2, <2>3, <2>4, <2>5 DEF PressTrigger, ToggleSidebar, FrameTypeOK
<1> QED  BY <1>1, FrameInvariant, PTL DEF FrameSpec, TriggerAnswers

-----------------------------------------------------------------------------
(* The switches of the sidebar.  AskedIsFree carries the argument about the *)
(* lock: between the flip of a switch and the password no other change can  *)
(* be confirmed, so the app asked about still is not the one of the latest  *)
(* change under way.                                                        *)

\* The open dialog is not about the app whose change is the latest under way.
AskedIsFree ==
    asked # NoChange =>
        \A n \in DOMAIN toggles :
            n = Len(toggles) /\ InFlight(n) => toggles[n].app # asked.app

SwitchInv == SwitchTypeOK /\ NoOldList /\ AskedIsFree /\ DoubleNeedsAnother

LEMMA HostIsList ==
    ASSUME SwitchTypeOK PROVE Host \in Lists /\ Host # NoList
  BY SwitchAssumption DEF SwitchTypeOK, Host, Lists, NoList, Catalog

LEMMA ChangeInDialog ==
    ASSUME SwitchTypeOK, asked # NoChange
    PROVE  asked.app \in WithService /\ asked.to \in BOOLEAN
  BY DEF SwitchTypeOK, Changes, NoChange

LEMMA ChangeOf ==
    ASSUME SwitchTypeOK, NEW i \in DOMAIN toggles
    PROVE  toggles[i] \in [app : WithService, to : BOOLEAN, stage : Stages]
<1> DEFINE T == [app : WithService, to : BOOLEAN, stage : Stages]
<1>1. toggles \in Seq(T)
  BY DEF SwitchTypeOK
<1> HIDE DEF T
<1>2. toggles[i] \in T
  BY <1>1
<1> QED  BY <1>2 DEF T

\* Moving a change on leaves the others, and what it is about, alone.
LEMMA Reached ==
    ASSUME SwitchTypeOK, NEW i \in DOMAIN toggles, NEW s \in Stages, Reach(i, s)
    PROVE  /\ toggles' \in Seq([app : WithService, to : BOOLEAN, stage : Stages])
           /\ Len(toggles') = Len(toggles)
           /\ DOMAIN toggles' = DOMAIN toggles
           /\ \A n \in DOMAIN toggles : toggles'[n].app = toggles[n].app
           /\ toggles'[i].stage = s
           /\ \A n \in DOMAIN toggles : n # i => toggles'[n] = toggles[n]
<1> DEFINE T == [app : WithService, to : BOOLEAN, stage : Stages]
<1>0. toggles \in Seq(T)
  BY DEF SwitchTypeOK
<1>1. toggles[i] \in T
  BY ChangeOf
<1>2. toggles' = [toggles EXCEPT ![i] = [toggles[i] EXCEPT !.stage = s]]
  BY DEF Reach
<1>3. [toggles[i] EXCEPT !.stage = s] \in T
  BY <1>1
<1> HIDE DEF T
<1>4. toggles' \in Seq(T) /\ Len(toggles') = Len(toggles)
      /\ DOMAIN toggles' = DOMAIN toggles
  BY <1>0, <1>2, <1>3
<1>5. \A n \in DOMAIN toggles :
        toggles'[n] = IF n = i THEN [toggles[i] EXCEPT !.stage = s] ELSE toggles[n]
  BY <1>0, <1>2
<1>6. [toggles[i] EXCEPT !.stage = s].app = toggles[i].app
      /\ [toggles[i] EXCEPT !.stage = s].stage = s
  BY <1>1 DEF T
<1> QED  BY <1>4, <1>5, <1>6 DEF T

\* A step that only moves a change on keeps what is known of the lock.
LEMMA LockKept ==
    ASSUME SwitchTypeOK, AskedIsFree, DoubleNeedsAnother,
           NEW i \in DOMAIN toggles, InFlight(i),
           NEW s \in Stages, Reach(i, s), UNCHANGED asked
    PROVE  AskedIsFree' /\ DoubleNeedsAnother'
<1>1. /\ Len(toggles') = Len(toggles)
      /\ DOMAIN toggles' = DOMAIN toggles
      /\ \A n \in DOMAIN toggles : toggles'[n].app = toggles[n].app
      /\ \A n \in DOMAIN toggles : n # i => toggles'[n] = toggles[n]
  BY Reached
<1>2. \A n \in DOMAIN toggles : InFlight(n)' => InFlight(n)
  BY <1>1 DEF InFlight
<1>3. AskedIsFree'
  BY <1>1, <1>2 DEF AskedIsFree, NoChange
<1>4. DoubleNeedsAnother'
  <2> SUFFICES ASSUME NEW m \in DOMAIN toggles, NEW n \in DOMAIN toggles,
                      m < n, InFlight(m)', toggles'[m].app = toggles'[n].app
               PROVE  \E k \in m..n : toggles'[k].app # toggles'[m].app
    BY <1>1 DEF DoubleNeedsAnother
  <2>1. PICK k \in m..n : toggles[k].app # toggles[m].app
    BY <1>1, <1>2 DEF DoubleNeedsAnother
  <2>2. k \in DOMAIN toggles
    BY DEF SwitchTypeOK
  <2> QED  BY <1>1, <2>1, <2>2
<1> QED  BY <1>3, <1>4

-----------------------------------------------------------------------------

LEMMA SwitchInitially == SwitchInit => SwitchInv
<1> SUFFICES ASSUME SwitchInit PROVE SwitchInv
  OBVIOUS
<1>1. toggles \in Seq([app : WithService, to : BOOLEAN, stage : Stages])
      /\ Len(toggles) <= MaxToggles
  BY SwitchAssumption DEF SwitchInit
<1>2. Host \in Lists
  BY DEF SwitchInit, Host, Lists
<1>3. SwitchTypeOK
  BY <1>1, <1>2 DEF SwitchInit, SwitchTypeOK
<1> QED
  BY <1>3 DEF SwitchInit, SwitchInv, NoOldList, AskedIsFree, DoubleNeedsAnother

LEMMA FlipStep ==
    ASSUME SwitchInv, NEW x \in WithService, Flip(x) PROVE SwitchInv'
<1> USE DEF SwitchInv
<1>1. asked' = [app |-> x, to |-> x \notin list.on] /\ x \notin Pending
      /\ UNCHANGED <<present, on, list, fetch, listFailed, toggles, calm>>
  BY DEF Flip, Switch, hostState
<1>2. SwitchTypeOK'
  BY <1>1 DEF SwitchTypeOK, Changes
<1>3. AskedIsFree'
  BY <1>1 DEF AskedIsFree, Pending, InFlight, SwitchTypeOK
<1> QED  BY <1>1, <1>2, <1>3 DEF NoOldList, DoubleNeedsAnother, InFlight

LEMMA ConfirmStep == ASSUME SwitchInv, ConfirmToggle PROVE SwitchInv'
<1> USE DEF SwitchInv
<1> DEFINE n == Len(toggles)
           new == [app |-> asked.app, to |-> asked.to, stage |-> "verify"]
<1>1. /\ asked # NoChange /\ n < MaxToggles
      /\ toggles' = Append(toggles, new) /\ asked' = NoChange
      /\ UNCHANGED <<present, on, list, fetch, listFailed, calm>>
  BY DEF ConfirmToggle, hostState
<1>2. new \in [app : WithService, to : BOOLEAN, stage : Stages]
  BY <1>1, ChangeInDialog DEF Stages
<1>3. /\ n \in Nat /\ DOMAIN toggles = 1..n /\ DOMAIN toggles' = 1..(n + 1)
      /\ Len(toggles') = n + 1
      /\ \A k \in 1..n : toggles'[k] = toggles[k]
      /\ toggles'[n + 1] = new
  BY <1>1, <1>2 DEF SwitchTypeOK
<1>4. SwitchTypeOK'
  BY <1>1, <1>2, <1>3, SwitchAssumption DEF SwitchTypeOK
<1>5. DoubleNeedsAnother'
  <2> SUFFICES ASSUME NEW i \in 1..(n + 1), NEW j \in 1..(n + 1), i < j,
                      InFlight(i)', toggles'[i].app = toggles'[j].app
               PROVE  \E k \in i..j : toggles'[k].app # toggles'[i].app
    BY <1>3 DEF DoubleNeedsAnother
  <2>1. i \in 1..n /\ InFlight(i)
    BY <1>3 DEF InFlight
  <2>2. CASE j \in 1..n
    <3>1. PICK k \in i..j : toggles[k].app # toggles[i].app
      BY <1>3, <2>1, <2>2 DEF DoubleNeedsAnother
    <3>2. k \in 1..n
      BY <2>2
    <3> QED  BY <1>3, <2>1, <3>1, <3>2
  <2>3. CASE j = n + 1 /\ toggles[n].app # asked.app
    <3>1. n \in i..j /\ n \in 1..n
      BY <2>1, <2>3, <1>3
    <3> QED  BY <1>3, <2>1, <2>3, <3>1
  <2>4. CASE j = n + 1 /\ toggles[n].app = asked.app
    <3>1. ~InFlight(n) /\ n \in 1..n
      BY <1>1, <1>3, <2>1, <2>4 DEF AskedIsFree
    <3>2. i < n /\ toggles[i].app = toggles[n].app
      BY <1>3, <2>1, <2>4, <3>1
    <3>3. PICK k \in i..n : toggles[k].app # toggles[i].app
      BY <1>3, <2>1, <3>1, <3>2 DEF DoubleNeedsAnother
    <3>4. k \in 1..n /\ k \in i..j
      BY <2>4, <1>3
    <3> QED  BY <1>3, <2>1, <3>3, <3>4
  <2> QED  BY <1>3, <2>2, <2>3, <2>4
<1>6. AskedIsFree' /\ NoOldList'
  BY <1>1 DEF AskedIsFree, NoOldList, NoChange, NoList, Catalog
<1> QED  BY <1>4, <1>5, <1>6

LEMMA CheckStep ==
    ASSUME SwitchInv, NEW i \in DOMAIN toggles, CheckPassword(i) PROVE SwitchInv'
<1> USE DEF SwitchInv
<1>1. PICK s \in {"send", "settled"} : Reach(i, s)
  BY DEF CheckPassword
<1>2. /\ s \in Stages /\ InFlight(i)
      /\ UNCHANGED <<present, on, list, fetch, listFailed, asked, calm>>
  BY DEF CheckPassword, Stages, InFlight, hostState
<1>3. SwitchTypeOK'
  BY <1>1, <1>2, Reached DEF SwitchTypeOK
<1> QED  BY <1>1, <1>2, <1>3, LockKept DEF NoOldList, NoList, Catalog

LEMMA SetStep ==
    ASSUME SwitchInv, NEW i \in DOMAIN toggles, SetService(i) PROVE SwitchInv'
<1> USE DEF SwitchInv
<1> DEFINE x == toggles[i].app
<1>1. PICK s \in {"done", "settled"} : Reach(i, s)
  BY DEF SetService
<1>2. /\ s \in Stages /\ InFlight(i) /\ x \in WithService
      /\ UNCHANGED <<present, list, fetch, listFailed, asked>>
      /\ calm' = calm \ {x}
  BY ChangeOf DEF SetService, Stages, InFlight
<1>3. \/ x \in present /\ (on' = on \cup {x} \/ on' = on \ {x})
      \/ on' = on
  BY DEF SetService
<1>4. SwitchTypeOK'
  <2>1. on' \subseteq WithService \cap present'
    BY <1>2, <1>3 DEF SwitchTypeOK
  <2>2. /\ toggles' \in Seq([app : WithService, to : BOOLEAN, stage : Stages])
        /\ Len(toggles') = Len(toggles)
    BY <1>1, <1>2, Reached
  <2> QED  BY <1>2, <2>1, <2>2 DEF SwitchTypeOK
<1>5. NoOldList'
  BY <1>2, <1>3 DEF NoOldList, NoList, Catalog
<1> QED  BY <1>1, <1>2, <1>4, <1>5, LockKept

LEMMA SettleStep ==
    ASSUME SwitchInv, NEW i \in DOMAIN toggles, SettleToggle(i) PROVE SwitchInv'
<1> USE DEF SwitchInv
<1>1. /\ Reach(i, "settled") /\ "settled" \in Stages /\ InFlight(i)
      /\ fetch' = Host /\ calm' = calm \cup {toggles[i].app}
      /\ UNCHANGED <<present, on, list, listFailed, asked>>
  BY DEF SettleToggle, Stages, InFlight, hostState
<1>2. SwitchTypeOK'
  <2>1. /\ toggles' \in Seq([app : WithService, to : BOOLEAN, stage : Stages])
        /\ Len(toggles') = Len(toggles)
    BY <1>1, Reached
  <2>2. toggles[i].app \in WithService /\ Host \in Lists
    BY ChangeOf, HostIsList
  <2> QED  BY <1>1, <2>1, <2>2 DEF SwitchTypeOK
<1>3. NoOldList'
  BY <1>1 DEF NoOldList, Host
<1> QED  BY <1>1, <1>2, <1>3, LockKept

\* The lists that are asked for, and the host's own changes.
LEMMA ListStep ==
    ASSUME SwitchInv, FetchList \/ ReceiveList \/ FailList PROVE SwitchInv'
<1> USE DEF SwitchInv
<1>1. /\ UNCHANGED <<present, on, asked, toggles, calm>>
      /\ fetch' \in {Host, NoList} /\ list' \in Lists /\ listFailed' \in BOOLEAN
  BY DEF FetchList, ReceiveList, FailList, SwitchTypeOK, hostState
<1>2. SwitchTypeOK'
  BY <1>1, HostIsList DEF SwitchTypeOK
<1>3. NoOldList'
  BY <1>1 DEF NoOldList, Host, NoList, Catalog
<1> QED  BY <1>1, <1>2, <1>3 DEF AskedIsFree, DoubleNeedsAnother, InFlight, NoChange

LEMMA SwitchHostStep ==
    ASSUME SwitchInv, NEW x \in Listable, AppChanges(x) PROVE SwitchInv'
<1> USE DEF SwitchInv
<1>1. /\ UNCHANGED <<list, fetch, listFailed, asked, toggles>>
      /\ calm' = calm \ {x}
      /\ \/ present' = present \ {x} /\ on' = on \ {x}
         \/ present' = present \cup {x} /\ on' = on \cup ({x} \cap WithService)
  BY DEF AppChanges
<1>2. SwitchTypeOK'
  BY <1>1 DEF SwitchTypeOK, Catalog
<1>3. NoOldList'
  BY <1>1 DEF NoOldList, NoList, Catalog
<1> QED  BY <1>1, <1>2, <1>3 DEF AskedIsFree, DoubleNeedsAnother, InFlight, NoChange

LEMMA SwitchStep == SwitchInv /\ [SwitchNext]_switchVars => SwitchInv'
<1> SUFFICES ASSUME SwitchInv, [SwitchNext]_switchVars PROVE SwitchInv'
  OBVIOUS
<1>1. ASSUME NEW x \in WithService, Flip(x) PROVE SwitchInv'
  BY <1>1, FlipStep
<1>2. CASE CancelToggle
  BY <1>2 DEF CancelToggle, hostState, SwitchInv, SwitchTypeOK, NoOldList,
     AskedIsFree, DoubleNeedsAnother, InFlight, NoList
<1>3. CASE ConfirmToggle
  BY <1>3, ConfirmStep
<1>4. CASE ToggleSteps
  BY <1>4, CheckStep, SetStep, SettleStep DEF ToggleSteps
<1>5. CASE FetchList \/ ReceiveList \/ FailList
  BY <1>5, ListStep
<1>6. ASSUME NEW x \in Listable, AppChanges(x) PROVE SwitchInv'
  BY <1>6, SwitchHostStep
<1>7. CASE UNCHANGED switchVars
  BY <1>7 DEF switchVars, hostState, SwitchInv, SwitchTypeOK, NoOldList,
     AskedIsFree, DoubleNeedsAnother, InFlight, NoList, NoChange
<1> QED  BY <1>1, <1>2, <1>3, <1>4, <1>5, <1>6, <1>7 DEF SwitchNext

LEMMA SwitchInvariant == SwitchSpec => []SwitchInv
  BY SwitchInitially, SwitchStep, PTL DEF SwitchSpec

\* Lists, changes and stages are what app-sidebar.tsx and app-shell.tsx take
\* them for, whatever changes fail, overlap or meet an app that has gone.
THEOREM SwitchTypeCorrect == SwitchSpec => []SwitchTypeOK
  BY SwitchInvariant, PTL DEF SwitchInv

\* The refetch after a change drops every list asked for before it
\* (app-shell.tsx:80-82).
THEOREM NoOldListShown == SwitchSpec => []NoOldList
  BY SwitchInvariant, PTL DEF SwitchInv

\* The lock of pendingServiceAppId gives way only when another app was toggled
\* in between (app-shell.tsx:94-96).
THEOREM LockHoldsUntilAnother == SwitchSpec => []DoubleNeedsAnother
  BY SwitchInvariant, PTL DEF SwitchInv

-----------------------------------------------------------------------------
(* The table of traffic.  A report holds the end of what was recorded, as   *)
(* much of it as the range that shows most of this source.                  *)

LEMMA RangeFacts ==
    /\ Len(VnstatRanges) \in Nat /\ DOMAIN VnstatRanges = 1..Len(VnstatRanges)
    /\ \A i \in DOMAIN VnstatRanges :
          /\ VnstatRanges[i].source \in Sources
          /\ VnstatRanges[i].limit \in Nat
<1> DEFINE Options == [source : Sources, limit : Nat \ {0}, sort : {"recent", "total"}]
<1>1. VnstatRanges \in Seq(Options)
  BY VnstatAssumption
<1>2. \A option \in Options : option.source \in Sources /\ option.limit \in Nat
  OBVIOUS
<1> HIDE DEF Options
<1> QED  BY <1>1, <1>2

\* The first k ranges want no more than m.
Within(k, m) == \A i \in 1..k : VnstatRanges[i].limit <= m

LEMMA LimitsAreBounded ==
    \E m \in Nat : \A i \in DOMAIN VnstatRanges : VnstatRanges[i].limit <= m
<1> DEFINE n == Len(VnstatRanges)
           S == {k \in 0..n : \E m \in Nat : Within(k, m)}
<1>1. n \in Nat /\ DOMAIN VnstatRanges = 1..n /\ \A i \in 1..n : VnstatRanges[i].limit \in Nat
  BY RangeFacts
<1> HIDE DEF n
<1>2. 0 \in S /\ S \subseteq 0..n
  BY <1>1 DEF Within
<1>3. PICK k \in S : \A j \in S : j <= k
  <2> HIDE DEF S
  <2> QED  BY <1>1, <1>2, HasLast
<1>4. PICK m \in Nat : Within(k, m)
  OBVIOUS
<1>5. ASSUME k < n PROVE FALSE
  <2>1. k + 1 \in 1..n /\ k + 1 \in 0..n /\ VnstatRanges[k + 1].limit \in Nat
    BY <1>1, <1>5
  <2>2. PICK b \in Nat : m <= b /\ VnstatRanges[k + 1].limit <= b
    <3>1. CASE m <= VnstatRanges[k + 1].limit
      BY <2>1, <3>1
    <3>2. CASE ~(m <= VnstatRanges[k + 1].limit)
      BY <2>1, <3>2
    <3> QED  BY <3>1, <3>2
  <2>3. Within(k + 1, b)
    <3> SUFFICES ASSUME NEW i \in 1..(k + 1) PROVE VnstatRanges[i].limit <= b
      BY DEF Within
    <3>1. CASE i = k + 1
      BY <2>2, <3>1
    <3>2. CASE i \in 1..k
      <4>1. VnstatRanges[i].limit \in Nat /\ VnstatRanges[i].limit <= m
        BY <1>1, <1>4, <1>5, <3>2 DEF Within
      <4> QED  BY <2>2, <4>1
    <3> QED  BY <3>1, <3>2
  <2>4. k + 1 \in S
    BY <2>1, <2>3
  <2> QED  BY <1>2, <1>3, <2>4
<1>6. k = n
  <2>1. k \in 0..n
    BY <1>2
  <2> QED  BY <1>1, <1>5, <2>1
<1> QED  BY <1>1, <1>4, <1>6 DEF Within

\* vnstatReportRequest asks for as much as any range shows.
LEMMA RequestCovers ==
    ASSUME NEW s \in Sources
    PROVE  /\ VnstatReportRequest(s) \in Nat
           /\ \A i \in DOMAIN VnstatRanges : VnstatRanges[i].source = s =>
                 VnstatRanges[i].limit <= VnstatReportRequest(s)
<1> DEFINE L == Limits(s) \cup {0}
<1>1. PICK b \in Nat : \A i \in DOMAIN VnstatRanges : VnstatRanges[i].limit <= b
  BY LimitsAreBounded
<1>2. \A i \in DOMAIN VnstatRanges : VnstatRanges[i].limit \in Nat
  BY RangeFacts
<1>3. L \subseteq 0..b /\ L # {}
  BY <1>1, <1>2 DEF Limits
<1>4. \E m \in L : \A j \in L : j <= m
  <2> HIDE DEF L
  <2> QED  BY <1>3, HasLast
<1>5. VnstatReportRequest(s) \in L /\ \A j \in L : j <= VnstatReportRequest(s)
  <2>1. VnstatReportRequest(s) = CHOOSE m \in L : \A j \in Limits(s) : j <= m
    BY DEF VnstatReportRequest, Longest
  <2>2. \A m \in L : (\A j \in Limits(s) : j <= m) <=> \A j \in L : j <= m
    BY <1>3
  <2>3. \E m \in L : \A j \in Limits(s) : j <= m
    BY <1>4, <2>2
  <2>4. VnstatReportRequest(s) \in L /\ \A j \in Limits(s) : j <= VnstatReportRequest(s)
    <3> HIDE DEF L
    <3> QED  BY <2>1, <2>3
  <2> QED  BY <2>2, <2>4
<1>6. \A i \in DOMAIN VnstatRanges : VnstatRanges[i].source = s => VnstatRanges[i].limit \in L
  BY DEF Limits
<1> QED  BY <1>3, <1>5, <1>6

LEMMA LastOfFew ==
    ASSUME NEW q \in Seq(Nat), NEW n \in Nat, Len(q) <= n
    PROVE  LastOf(q, n) = q
<1>1. ~(Len(q) > n)
  OBVIOUS
<1>2. LastOf(q, n) = SubSeq(q, 1, Len(q))
  BY <1>1 DEF LastOf
<1> QED  BY <1>2, SubSeqFull

LEMMA LastOfMany ==
    ASSUME NEW q \in Seq(Nat), NEW n \in Nat, n < Len(q)
    PROVE  /\ LastOf(q, n) \in Seq(Nat) /\ Len(LastOf(q, n)) = n
           /\ \A i \in 1..n : LastOf(q, n)[i] = q[Len(q) - n + i]
<1> DEFINE first == Len(q) - n + 1
           count == Len(q)
<1>1. LastOf(q, n) = SubSeq(q, first, count)
  BY DEF LastOf
<1>2. /\ count \in Nat /\ first \in 1..count + 1 /\ first \in Int /\ count - first + 1 = n
      /\ (first <= count \/ n = 0)
  OBVIOUS
<1>3. \A i \in first..count : q[i] \in Nat
  BY <1>2
<1>4. \A i \in 1..n : first + i - 1 = count - n + i
  OBVIOUS
<1> HIDE DEF first, count
<1>5. /\ SubSeq(q, first, count) \in Seq(Nat)
      /\ Len(SubSeq(q, first, count)) = IF first <= count THEN count - first + 1 ELSE 0
      /\ \A i \in 1..(count - first + 1) : SubSeq(q, first, count)[i] = q[first + i - 1]
  BY <1>2, <1>3, SubSeqProperties
<1>6. Len(SubSeq(q, first, count)) = n
  BY <1>2, <1>5
<1>7. \A i \in 1..n : SubSeq(q, first, count)[i] = q[count - n + i]
  BY <1>2, <1>4, <1>5
<1> QED  BY <1>1, <1>5, <1>6, <1>7 DEF count

LEMMA LastOfLast ==
    ASSUME NEW q \in Seq(Nat), NEW m \in Nat, NEW n \in Nat, n <= m
    PROVE  LastOf(LastOf(q, m), n) = LastOf(q, n)
<1>1. CASE Len(q) <= m
  BY <1>1, LastOfFew
<1>2. CASE m < Len(q) /\ n = m
  <2>1. LastOf(q, m) \in Seq(Nat) /\ Len(LastOf(q, m)) = m
    BY <1>2, LastOfMany
  <2> QED  BY <1>2, <2>1, LastOfFew
<1>3. CASE m < Len(q) /\ n < m
  <2> DEFINE most == LastOf(q, m)
             mine == LastOf(most, n)
             all  == LastOf(q, n)
  <2>1. /\ most \in Seq(Nat) /\ Len(most) = m
        /\ \A i \in 1..m : most[i] = q[Len(q) - m + i]
    BY <1>3, LastOfMany
  <2>2. /\ all \in Seq(Nat) /\ Len(all) = n
        /\ \A i \in 1..n : all[i] = q[Len(q) - n + i]
    <3>1. n < Len(q)
      BY <1>3
    <3> QED  BY <3>1, LastOfMany
  <2> HIDE DEF most
  <2>3. /\ mine \in Seq(Nat) /\ Len(mine) = n
        /\ \A i \in 1..n : mine[i] = most[m - n + i]
    BY <1>3, <2>1, LastOfMany
  <2> HIDE DEF mine, all
  <2>4. ASSUME NEW i \in 1..n PROVE mine[i] = all[i]
    <3>1. m - n + i \in 1..m /\ Len(q) - m + (m - n + i) = Len(q) - n + i
      BY <1>3
    <3> QED  BY <2>1, <2>2, <2>3, <3>1
  <2>5. mine \in [1..n -> Nat] /\ all \in [1..n -> Nat]
    BY <2>2, <2>3
  <2>6. mine = all
    BY <2>4, <2>5
  <2> QED  BY <2>6 DEF mine, all, most
<1>4. Len(q) \in Nat
  OBVIOUS
<1> QED  BY <1>1, <1>2, <1>3, <1>4

\* What is in a report of an installed vnstat is the end of what there was.
ReportIsLatest ==
    vnReport.installed =>
        \A s \in Sources :
            vnReport.periods[s] = LastOf(vnSeen[s], VnstatReportRequest(s))

VnstatInv == VnstatTypeOK /\ ReportIsLatest

LEMMA NoPeriodsYet == NoPeriods \in Histories
  BY DEF NoPeriods, Histories

LEMMA NotInstalledFacts ==
    /\ NotInstalled \in [installed : BOOLEAN, periods : Histories]
    /\ NotInstalled.installed = FALSE
  BY NoPeriodsYet DEF NotInstalled

LEMMA VnstatInitially == VnstatInit => VnstatInv
<1> SUFFICES ASSUME VnstatInit PROVE VnstatInv
  OBVIOUS
<1>1. VnstatTypeOK
  BY VnstatAssumption, NoPeriodsYet, NotInstalledFacts
  DEF VnstatInit, VnstatTypeOK, Histories
<1>2. ReportIsLatest
  BY NotInstalledFacts DEF VnstatInit, ReportIsLatest
<1> QED  BY <1>1, <1>2 DEF VnstatInv

LEMMA PeriodStep ==
    ASSUME VnstatInv, NEW s \in Sources, NEW n \in Totals, PeriodBegins(s, n)
    PROVE  VnstatInv'
<1>1. recorded[s] \in Seq(Nat) /\ n \in Nat
  BY VnstatAssumption DEF VnstatInv, VnstatTypeOK, Histories
<1>2. Append(recorded[s], n) \in Seq(Nat)
  BY <1>1
<1>3. recorded' \in Histories
  BY <1>2 DEF PeriodBegins, VnstatInv, VnstatTypeOK, Histories
<1>4. UNCHANGED <<vnstat, stored, vnPanel, vnReport, vnRange, vnSeen>>
  BY DEF PeriodBegins
<1> QED  BY <1>3, <1>4 DEF VnstatInv, VnstatTypeOK, ReportIsLatest

LEMMA ReportStep == ASSUME VnstatInv, ReceiveReport PROVE VnstatInv'
<1> DEFINE latest == [s \in Sources |-> LastOf(recorded[s], VnstatReportRequest(s))]
<1>1. ASSUME NEW s \in Sources
      PROVE  LastOf(recorded[s], VnstatReportRequest(s)) \in Seq(Nat)
  <2>1. recorded[s] \in Seq(Nat) /\ VnstatReportRequest(s) \in Nat
    BY RequestCovers DEF VnstatInv, VnstatTypeOK, Histories
  <2>2. CASE Len(recorded[s]) <= VnstatReportRequest(s)
    BY <2>1, <2>2, LastOfFew
  <2>3. CASE VnstatReportRequest(s) < Len(recorded[s])
    BY <2>1, <2>3, LastOfMany
  <2> QED  BY <2>1, <2>2, <2>3
<1>2. latest \in Histories
  BY <1>1 DEF Histories
<1>3. /\ vnReport' = IF vnstat THEN [installed |-> TRUE, periods |-> latest] ELSE NotInstalled
      /\ vnSeen' = IF vnstat THEN recorded ELSE NoPeriods
      /\ vnPanel' = "ready" /\ UNCHANGED <<recorded, vnstat, stored, vnRange>>
  BY DEF ReceiveReport
<1>4. \A s \in Sources : latest[s] = LastOf(recorded[s], VnstatReportRequest(s))
  OBVIOUS
<1> HIDE DEF latest
<1>5. vnReport' \in [installed : BOOLEAN, periods : Histories]
  BY <1>2, <1>3, NotInstalledFacts
<1>6. VnstatTypeOK'
  BY <1>3, <1>5, NoPeriodsYet DEF VnstatInv, VnstatTypeOK
<1>7. ReportIsLatest'
  <2>1. CASE vnstat
    BY <1>3, <1>4, <2>1 DEF ReportIsLatest
  <2>2. CASE ~vnstat
    BY <1>3, <2>2, NotInstalledFacts DEF ReportIsLatest
  <2> QED  BY <2>1, <2>2
<1> QED  BY <1>6, <1>7 DEF VnstatInv

LEMMA VnstatStep == ASSUME VnstatInv, [VnstatNext]_vnstatVars PROVE VnstatInv'
<1>1. CASE ShowVnstat
  BY <1>1, VnstatAssumption, NoPeriodsYet, NotInstalledFacts
  DEF ShowVnstat, VnstatInv, VnstatTypeOK, ReportIsLatest
<1>2. CASE HideVnstat
  BY <1>2 DEF HideVnstat, VnstatInv, VnstatTypeOK, ReportIsLatest
<1>3. CASE ReportFails
  BY <1>3 DEF ReportFails, VnstatInv, VnstatTypeOK, ReportIsLatest
<1>4. ASSUME NEW i \in DOMAIN VnstatRanges, ChooseRange(i) PROVE VnstatInv'
  BY <1>4 DEF ChooseRange, VnstatInv, VnstatTypeOK, ReportIsLatest
<1>5. CASE UNCHANGED vnstatVars
  BY <1>5 DEF vnstatVars, VnstatInv, VnstatTypeOK, ReportIsLatest
<1> QED  BY <1>1, <1>2, <1>3, <1>4, <1>5, PeriodStep, ReportStep DEF VnstatNext

LEMMA VnstatInvariant == VnstatSpec => []VnstatInv
  BY VnstatInitially, VnstatStep, PTL DEF VnstatSpec

\* The panel and what it knows of the host are well formed.
THEOREM VnstatTypeCorrect == VnstatSpec => []VnstatTypeOK
  BY VnstatInvariant, PTL DEF VnstatInv

\* A table of the latest periods is the one that all of the record would give.
LatestAreWhole ==
    PanelShows = "tables" /\ VnstatRanges[vnRange].sort = "recent" =>
        TrafficTable(TableConfig(vnReport.periods, vnRange)) =
            TrafficTable(TableConfig(vnSeen, vnRange))

\* Of the ranges that are "sliced client-side from a single fetch"
\* (vnstat-range.ts:16-18), those that show the latest periods miss nothing,
\* for any list of ranges; TopDaysAreOverall says what the others miss.
THEOREM LatestAreShown == VnstatSpec => []LatestAreWhole
<1>1. ASSUME VnstatInv, PanelShows = "tables", VnstatRanges[vnRange].sort = "recent"
      PROVE  TrafficTable(TableConfig(vnReport.periods, vnRange)) =
                 TrafficTable(TableConfig(vnSeen, vnRange))
  <2> DEFINE option == VnstatRanges[vnRange]
             s == option.source
             n == option.limit
             m == VnstatReportRequest(s)
  <2>1. /\ vnRange \in DOMAIN VnstatRanges /\ vnReport.installed /\ vnSeen \in Histories
    BY <1>1 DEF VnstatInv, VnstatTypeOK, PanelShows
  <2>2. s \in Sources /\ n \in Nat /\ m \in Nat /\ n <= m
    BY <2>1, RangeFacts, RequestCovers
  <2>3. vnReport.periods[s] = LastOf(vnSeen[s], m) /\ vnSeen[s] \in Seq(Nat)
    BY <1>1, <2>1, <2>2 DEF VnstatInv, ReportIsLatest, Histories
  <2>4. LastOf(vnReport.periods[s], n) = LastOf(vnSeen[s], n)
    BY <2>2, <2>3, LastOfLast
  <2>5. /\ TableConfig(vnReport.periods, vnRange) =
             [periods |-> LastOf(vnReport.periods[s], n), reverse |-> TRUE]
        /\ TableConfig(vnSeen, vnRange) =
             [periods |-> LastOf(vnSeen[s], n), reverse |-> TRUE]
    BY <1>1 DEF TableConfig
  <2> QED  BY <2>4, <2>5
<1>2. VnstatInv => LatestAreWhole
  BY <1>1 DEF LatestAreWhole
<1> QED  BY <1>2, VnstatInvariant, PTL

-----------------------------------------------------------------------------
(* The parts side by side.                                                  *)

\* A step of the composition is, of each part, a step or none.
LEMMA PartsStep ==
    ASSUME [Next]_partsVars
    PROVE  /\ [ManageNext]_manageVars
           /\ [SwitchNext]_switchVars
           /\ [OptionsNext]_optionVars
           /\ [SysctlNext]_sysctlVars
           /\ [VnstatNext]_vnstatVars
           /\ [HistoryNext]_historyVars
           /\ [ChartNext]_chartVars
           /\ [DashNext]_dashVars
           /\ [FrameNext]_frameVars
           /\ [RunnerNext]_runnerVars
  BY DEF Next, FlowPart, SwitchPart, OptionsPart, SysctlPart, VnstatPart,
     HistoryPart, ChartPart, DashboardPart, FramePart, RunnerPart, partsVars

LEMMA PartsBegin ==
    ASSUME Init
    PROVE  /\ ManageInit /\ SwitchInit /\ OptionsInit /\ SysctlInit /\ VnstatInit
           /\ HistoryInit /\ ChartInit /\ DashInit /\ FrameInit /\ RunnerInit
  BY DEF Init

\* What the parts do in the composition is what each does by itself: every
\* behaviour of WebParts is one of each part.
THEOREM PartsAreThemselves ==
    Spec => /\ ManageSpec /\ SwitchSpec /\ OptionsSpec /\ SysctlSpec /\ VnstatSpec
            /\ HistorySpec /\ ChartSpec /\ DashSpec /\ FrameSpec /\ RunnerSpec
<1>1. Spec => ManageSpec
  BY PartsBegin, PartsStep, PTL DEF Spec, ManageSpec
<1>2. Spec => SwitchSpec
  BY PartsBegin, PartsStep, PTL DEF Spec, SwitchSpec
<1>3. Spec => OptionsSpec
  BY PartsBegin, PartsStep, PTL DEF Spec, OptionsSpec
<1>4. Spec => SysctlSpec
  BY PartsBegin, PartsStep, PTL DEF Spec, SysctlSpec
<1>5. Spec => VnstatSpec
  BY PartsBegin, PartsStep, PTL DEF Spec, VnstatSpec
<1>6. Spec => HistorySpec
  BY PartsBegin, PartsStep, PTL DEF Spec, HistorySpec
<1>7. Spec => ChartSpec
  BY PartsBegin, PartsStep, PTL DEF Spec, ChartSpec
<1>8. Spec => DashSpec
  BY PartsBegin, PartsStep, PTL DEF Spec, DashSpec
<1>9. Spec => FrameSpec
  BY PartsBegin, PartsStep, PTL DEF Spec, FrameSpec
<1>10. Spec => RunnerSpec
  BY PartsBegin, PartsStep, PTL DEF Spec, RunnerSpec
<1> QED  BY <1>1, <1>2, <1>3, <1>4, <1>5, <1>6, <1>7, <1>8, <1>9, <1>10

\* No chart asks for what is refused or draws what it was not served, in any
\* behaviour of the composition (chart-interval.ts:24-46, line-chart.tsx:29-89).
THEOREM ChartsAreAlwaysRight == Spec => []ChartsAreRight
<1>1. ChartIsServed /\ DrawnInAxis => ChartsAreRight
  BY DEF ChartsAreRight
<1> QED  BY <1>1, PartsAreThemselves, ChartsAreServed, LinesStayInAxis, PTL

\* The safety properties that the run of WebParts checks, of all its parts, and
\* what is proved of the two parts of which it checks none: the runner hands on
\* what it is told, and a table of the latest periods is whole.
THEOREM PartsAreSafe ==
    Spec => /\ [](/\ StartedAsConfirmed /\ ShowsItsOwnJob
                  /\ NoOldList /\ SubmittedFits /\ KernelIsDropIn
                  /\ QueryIsReference /\ ChartsAreRight
                  /\ ToldInOrder /\ ToldAll /\ LatestAreWhole)
            /\ GaugesStay
  BY PartsAreThemselves, ConfirmedBeforeStarted, DialogOwnsItsJob, NoOldListShown,
     OptionsFit, KernelFollowsDropIn, QueriesAreAnswered, ChartsAreAlwaysRight,
     RunnerHandsOn, LatestAreShown, GaugesAreKept, PTL
=============================================================================
