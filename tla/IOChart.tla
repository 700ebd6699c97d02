------------------------------- MODULE IOChart -------------------------------
(***************************************************************************)
(* A throughput chart of the dashboard (network-throughput-chart.tsx and   *)
(* disk-io-chart.tsx): the range chosen, kept in the browser's storage;    *)
(* the width it is drawn in; and the answers of /api/system/io-history it  *)
(* has (hooks/use-io-history.ts).  The two sides each bound what may be    *)
(* asked for: lib/chart-interval.ts what it asks, handlers/io_history.go   *)
(* what it answers.  react-query keeps the answers by range and points,    *)
(* and shows the ones before until those of a new key are there.           *)
(***************************************************************************)
EXTENDS Integers, FiniteSets

CONSTANTS
    ChartIntervals,   \* CHART_INTERVAL_OPTIONS, in seconds
    DefaultInterval,  \* DEFAULT_CHART_INTERVAL
    OldIntervals,     \* bound: what else storage may hold for the setting
    PlotWidths,       \* bound: what the plot may measure
    MaxAsked          \* bound: requests of a chart under way at a time

HistoryWindow  == 86400
MaxQueryPoints == 4000    \* the daemon's
MaxChartPoints == 4000    \* the chart's
SampleSeconds  == 1
WidthStep      == 32
FallbackWidth  == 480

ASSUME ChartAssumption ==
    /\ ChartIntervals \subseteq 1..HistoryWindow
    /\ DefaultInterval \in ChartIntervals
    /\ OldIntervals \cap ChartIntervals = {}
    /\ PlotWidths \subseteq Nat
    /\ MaxAsked \in Nat

VARIABLES
    chartOn,       \* the chart is on the page
    savedInterval, \* the browser: the setting (0: none)
    interval,      \* the range chosen
    chartWidth,    \* the width as the chart counts it
    underway,      \* the requests under way
    answers,       \* the answers there are, by key
    unanswered,    \* the keys whose request failed, with no answer before
    lastShown      \* the key whose answer the chart showed last, or NoKey

chartVars == <<chartOn, savedInterval, interval, chartWidth, underway, answers,
               unanswered, lastShown>>

NoKey     == [seconds |-> 0, points |-> 0]
ChartKeys == [seconds : 0..HistoryWindow, points : 0..MaxChartPoints]

ChartTypeOK ==
    /\ chartOn \in BOOLEAN
    /\ savedInterval \in ChartIntervals \cup OldIntervals \cup {0}
    /\ interval \in ChartIntervals
    /\ chartWidth \in Nat
    /\ underway \subseteq ChartKeys
    /\ DOMAIN answers \subseteq ChartKeys
    /\ unanswered \subseteq ChartKeys
    /\ lastShown \in ChartKeys

ChartInit ==
    /\ chartOn = FALSE
    /\ savedInterval \in OldIntervals \cup {0}
    /\ interval = DefaultInterval
    /\ chartWidth = FallbackWidth
    /\ underway = {} /\ unanswered = {}
    /\ answers = [k \in {} |-> 0]
    /\ lastShown = NoKey

-----------------------------------------------------------------------------
(* Functions of the code.                                                   *)

Lower(x, y)  == IF x <= y THEN x ELSE y
Higher(x, y) == IF x >= y THEN x ELSE y

\* chartPointBudget.
Budget(seconds, width) ==
    Higher(1, Lower(Lower(width, seconds \div SampleSeconds), MaxChartPoints))

\* The queryKey of the chart as it is.
ChartKey == [seconds |-> interval, points |-> Budget(interval, chartWidth)]

\* useChartWidth rounds what it measures.
Quantized(w) == Higher(WidthStep, (w \div WidthStep) * WidthStep)

\* readSetting, with isChartIntervalId.
ReadInterval_Unchecked(saved) == IF saved = 0 THEN DefaultInterval ELSE saved

ReadInterval(saved) ==
    IF saved \in ChartIntervals THEN saved ELSE DefaultInterval

\* historyRangeParam and historyPointsParam.
Accepted(key) ==
    /\ key.seconds \in SampleSeconds..HistoryWindow
    /\ key.points \in 1..MaxQueryPoints

\* resolveBucketWindow: how many buckets the answer has.
Buckets(key) == Higher(1, Lower(key.points, key.seconds \div SampleSeconds))

\* What useQuery gives the chart to plot: its own answer; none when that
\* cannot be had; and meanwhile what was there before.
Plotted ==
    CASE ChartKey \in DOMAIN answers -> ChartKey
      [] ChartKey \in unanswered \ DOMAIN answers -> NoKey
      [] OTHER -> lastShown

-----------------------------------------------------------------------------

\* The chart as it is now, with a range, a width and answers.
Draw(seconds, width, have) ==
    LET key == [seconds |-> seconds, points |-> Budget(seconds, width)] IN
    /\ interval' = seconds /\ chartWidth' = width
    /\ answers' = have
    /\ lastShown' = IF key \in DOMAIN have THEN key ELSE lastShown

ShowChart ==
    /\ ~chartOn
    /\ chartOn' = TRUE
    /\ interval' = ReadInterval(savedInterval) /\ chartWidth' = FallbackWidth
    /\ lastShown' = NoKey
    /\ UNCHANGED <<savedInterval, underway, answers, unanswered>>

\* Away from the page, its answers are forgotten after a while, or are not.
HideChart ==
    /\ chartOn
    /\ chartOn' = FALSE
    /\ \/ UNCHANGED answers
       \/ answers' = [k \in {} |-> 0]
    /\ unanswered' = {}
    /\ UNCHANGED <<savedInterval, interval, chartWidth, underway, lastShown>>

\* The choice is stored, unless storage is full or closed to the page.
ChooseInterval(seconds) ==
    /\ chartOn /\ seconds # interval
    /\ Draw(seconds, chartWidth, answers)
    /\ savedInterval' \in {savedInterval, seconds}
    /\ UNCHANGED <<chartOn, underway, unanswered>>

\* The observer of the plot's element; an element without a width is not
\* laid out yet.
Measure(w) ==
    /\ chartOn /\ w > 0
    /\ Draw(interval, Quantized(w), answers)
    /\ UNCHANGED <<chartOn, savedInterval, underway, unanswered>>

\* A new key is asked for at once, and the current one every second.
AskForHistory ==
    /\ chartOn /\ ChartKey \notin underway
    /\ Cardinality(underway) < MaxAsked
    /\ underway' = underway \cup {ChartKey}
    /\ unanswered' = unanswered \ {ChartKey}
    /\ UNCHANGED <<chartOn, savedInterval, interval, chartWidth, answers,
                   lastShown>>

ReceiveHistory(key) ==
    /\ key \in underway /\ Accepted(key)
    /\ underway' = underway \ {key}
    /\ Draw(interval, chartWidth,
            [k \in DOMAIN answers \cup {key} |->
               IF k = key THEN Buckets(key) ELSE answers[k]])
    /\ UNCHANGED <<chartOn, savedInterval, unanswered>>

\* The request is refused, or cannot be answered.
HistoryFails(key) ==
    /\ key \in underway
    /\ underway' = underway \ {key}
    /\ unanswered' = unanswered \cup ({key} \ DOMAIN answers)
    /\ UNCHANGED <<chartOn, savedInterval, interval, chartWidth, answers,
                   lastShown>>

ChartNext ==
    \/ ShowChart \/ HideChart \/ AskForHistory
    \/ (\E seconds \in ChartIntervals : ChooseInterval(seconds))
    \/ (\E w \in PlotWidths : Measure(w))
    \/ (\E key \in underway : ReceiveHistory(key) \/ HistoryFails(key))

ChartSpec == ChartInit /\ [][ChartNext]_chartVars

-----------------------------------------------------------------------------

\* The two sides' bounds agree: whatever storage holds, however wide the
\* plot is and whichever range is chosen, no chart asks for what the daemon
\* refuses (chart-interval.ts:42-46, io_history.go:43-63), and what it plots
\* has a point for each it asked for.
ChartIsServed ==
    /\ \A key \in underway : Accepted(key)
    /\ chartOn /\ Plotted # NoKey =>
          Plotted \in DOMAIN answers /\ answers[Plotted] = Plotted.points
=============================================================================
