----------------------------- MODULE VnstatPanel -----------------------------
(***************************************************************************)
(* The panel of historic traffic (components/vnstat-panel.tsx, with the    *)
(* ranges of lib/vnstat-range.ts).  One request, sent every minute, asks   *)
(* for as many periods as any range may need; the range chosen decides     *)
(* which of them are shown.  The choice is kept in the browser's storage   *)
(* (lib/settings.ts, hooks/use-setting.ts), which may hold anything.       *)
(* A period is what went through in it; the newest is last.                *)
(***************************************************************************)
EXTENDS Naturals, Sequences, TLC

CONSTANTS
    VnstatRanges,  \* VNSTAT_RANGE_OPTIONS: source, limit and sort of each
    DefaultRange,  \* DEFAULT_VNSTAT_RANGE
    StaleRange,    \* bound: what else storage may hold for the setting
    Earlier,       \* what vnstat has recorded when the panel is first looked at
    Totals,        \* bound: the traffic of a period
    MaxPeriods     \* bound: how many periods there are in the end

Sources == {"days", "months"}

Longest(S) == CHOOSE n \in S \cup {0} : \A m \in S : m <= n

ASSUME VnstatAssumption ==
    /\ VnstatRanges \in Seq([source : Sources, limit : Nat \ {0},
                            sort : {"recent", "total"}])
    /\ DefaultRange \in DOMAIN VnstatRanges
    /\ StaleRange \notin DOMAIN VnstatRanges
    /\ Totals \subseteq Nat
    /\ Earlier \in [Sources -> Seq(Nat)]

VARIABLES
    recorded,  \* the host: the periods vnstat has recorded
    vnstat,    \* the host: vnstat is installed
    stored,    \* the browser: the setting, StaleRange for none or nonsense
    vnPanel,   \* the panel: not there, loading, failed, or with a report
    vnReport,  \* the panel: the last report (NotInstalled: one without periods)
    vnRange,   \* the panel: the range chosen
    vnSeen     \* history: what was recorded when the report was made

vnstatVars == <<recorded, vnstat, stored, vnPanel, vnReport, vnRange, vnSeen>>

NoPeriods    == [s \in Sources |-> <<>>]
NotInstalled == [installed |-> FALSE, periods |-> NoPeriods]
Histories    == [Sources -> Seq(Nat)]

VnstatTypeOK ==
    /\ recorded \in Histories /\ vnSeen \in Histories
    /\ vnstat \in BOOLEAN
    /\ stored \in DOMAIN VnstatRanges \cup {StaleRange}
    /\ vnPanel \in {"absent", "loading", "failed", "ready"}
    /\ vnReport \in [installed : BOOLEAN, periods : Histories]
    /\ vnRange \in DOMAIN VnstatRanges

VnstatInit ==
    /\ recorded = Earlier
    /\ vnstat \in BOOLEAN
    /\ stored = StaleRange
    /\ vnPanel = "absent"
    /\ vnReport = NotInstalled
    /\ vnRange = DefaultRange
    /\ vnSeen = NoPeriods

-----------------------------------------------------------------------------
(* Functions of the code.                                                   *)

Limits(source) ==
    {VnstatRanges[i].limit : i \in {j \in DOMAIN VnstatRanges :
                                        VnstatRanges[j].source = source}}

\* vnstatReportRequest: the largest limit of any range with this source.
VnstatReportRequest(source) == Longest(Limits(source))

\* The last n; for a range, and what `vnstat --json d n` prints.
LastOf(s, n) == SubSeq(s, IF Len(s) > n THEN Len(s) - n + 1 ELSE 1, Len(s))

\* The n largest, the largest first.
TopOf(s, n) == SubSeq(SortSeq(s, LAMBDA x, y : x > y), 1, IF Len(s) < n THEN Len(s) ELSE n)

TableConfig(periods, i) ==
    LET option == VnstatRanges[i] IN
    IF option.sort = "total"
    THEN [periods |-> TopOf(periods[option.source], option.limit), reverse |-> FALSE]
    ELSE [periods |-> LastOf(periods[option.source], option.limit), reverse |-> TRUE]

\* The rows of the table, from the top.
TrafficTable(config) ==
    LET s == config.periods IN
    IF config.reverse THEN [i \in DOMAIN s |-> s[Len(s) + 1 - i]] ELSE s

\* What the panel shows: tables only of a report of an installed vnstat.
PanelShows ==
    IF vnPanel = "ready" THEN IF vnReport.installed THEN "tables" ELSE "missing"
    ELSE vnPanel

-----------------------------------------------------------------------------

\* A day or month begins.
PeriodBegins(source, total) ==
    /\ Len(recorded[source]) < MaxPeriods
    /\ recorded' = [recorded EXCEPT ![source] = Append(@, total)]
    /\ UNCHANGED <<vnstat, stored, vnPanel, vnReport, vnRange, vnSeen>>

\* useSetting reads storage once, when the panel appears; a value that is
\* not the id of a range gives way to the default.
ShowVnstat ==
    /\ vnPanel = "absent"
    /\ vnPanel' = "loading"
    /\ vnRange' = IF stored = StaleRange THEN DefaultRange ELSE stored
    /\ vnReport' = NotInstalled /\ vnSeen' = NoPeriods
    /\ UNCHANGED <<recorded, vnstat, stored>>

HideVnstat ==
    /\ vnPanel # "absent"
    /\ vnPanel' = "absent"
    /\ UNCHANGED <<recorded, vnstat, stored, vnReport, vnRange, vnSeen>>

\* Storage may be full or closed to the page: the choice is then for now.
ChooseRange(i) ==
    /\ PanelShows = "tables" /\ i # vnRange
    /\ vnRange' = i
    /\ stored' \in {stored, i}
    /\ UNCHANGED <<recorded, vnstat, vnPanel, vnReport, vnSeen>>

\* Collect, as vnstat answers it.
ReceiveReport ==
    /\ vnPanel # "absent"
    /\ vnPanel' = "ready"
    /\ vnReport' =
          IF vnstat
          THEN [installed |-> TRUE,
                periods |-> [s \in Sources |->
                               LastOf(recorded[s], VnstatReportRequest(s))]]
          ELSE NotInstalled
    /\ vnSeen' = IF vnstat THEN recorded ELSE NoPeriods
    /\ UNCHANGED <<recorded, vnstat, stored, vnRange>>

\* The panel shows the error, whatever it had to show before.
ReportFails ==
    /\ vnPanel # "absent"
    /\ vnPanel' = "failed"
    /\ UNCHANGED <<recorded, vnstat, stored, vnReport, vnRange, vnSeen>>

VnstatNext ==
    \/ (\E s \in Sources, n \in Totals : PeriodBegins(s, n))
    \/ ShowVnstat \/ HideVnstat \/ ReceiveReport \/ ReportFails
    \/ (\E i \in DOMAIN VnstatRanges : ChooseRange(i))

VnstatSpec == VnstatInit /\ [][VnstatNext]_vnstatVars

-----------------------------------------------------------------------------

\* vnstat-range.ts:5, 16-18: the "Top 10 days overall" are the top days of
\* all that vnstat has recorded, and "every option can be sliced client-side
\* from a single fetch".
TopDaysAreOverall ==
    PanelShows = "tables" =>
        TrafficTable(TableConfig(vnReport.periods, vnRange)) =
            TrafficTable(TableConfig(vnSeen, vnRange))
=============================================================================
