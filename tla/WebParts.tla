------------------------------- MODULE WebParts ------------------------------
(***************************************************************************)
(* The parts of the web UI, and of the server behind them, that share no   *)
(* state with each other, put together so that one run of TLC checks them  *)
(* all.  A behaviour is one of a single part, `part`; the others stay in   *)
(* one of their initial states.  What holds of all the behaviours here     *)
(* holds of the parts side by side, for every property is of one part.     *)
(***************************************************************************)
EXTENDS ManageApps, ServiceSwitch, InstallOptions, SysctlPanel, VnstatPanel,
        IOHistory, IOChart, Dashboard, SidebarFrame, PlaybookRunner

CONSTANT Parts   \* the parts to check

AllParts == {"flow", "switch", "options", "sysctl", "vnstat", "history", "chart",
             "dashboard", "frame", "runner"}

ASSUME PartsAssumption == Parts \subseteq AllParts

VARIABLE part

\* The one initial state of the dashboard's data beside another part.
AMetrics == CHOOSE m \in Metrics : TRUE
ACurve   == CHOOSE c \in Curves : TRUE

partsVars == <<part, manageVars, switchVars, optionVars, sysctlVars, vnstatVars,
               historyVars, chartVars, dashVars, frameVars, runnerVars>>

Init ==
    /\ part \in Parts
    /\ ManageInit  /\ (part # "flow" => installed = {})
    /\ SwitchInit
    /\ OptionsInit
    /\ SysctlInit  /\ (part # "sysctl" => kernel = Recommended)
    /\ VnstatInit  /\ (part # "vnstat" => vnstat)
    /\ HistoryInit
    /\ ChartInit   /\ (part # "chart" => savedInterval = 0)
    /\ DashInit    /\ (part # "dashboard" => /\ meters = AMetrics
                                             /\ lines = ACurve)
    /\ FrameInit   /\ (part # "frame" => winWidth = MobileBreakpoint)
    /\ RunnerInit

\* A step of this part; the other parts stay as they are.
FlowPart ==
    /\ part = "flow" /\ ManageNext
    /\ UNCHANGED <<part, switchVars, optionVars, sysctlVars, vnstatVars,
                   historyVars, chartVars, dashVars, frameVars, runnerVars>>

SwitchPart ==
    /\ part = "switch" /\ SwitchNext
    /\ UNCHANGED <<part, manageVars, optionVars, sysctlVars, vnstatVars,
                   historyVars, chartVars, dashVars, frameVars, runnerVars>>

OptionsPart ==
    /\ part = "options" /\ OptionsNext
    /\ UNCHANGED <<part, manageVars, switchVars, sysctlVars, vnstatVars,
                   historyVars, chartVars, dashVars, frameVars, runnerVars>>

SysctlPart ==
    /\ part = "sysctl" /\ SysctlNext
    /\ UNCHANGED <<part, manageVars, switchVars, optionVars, vnstatVars,
                   historyVars, chartVars, dashVars, frameVars, runnerVars>>

VnstatPart ==
    /\ part = "vnstat" /\ VnstatNext
    /\ UNCHANGED <<part, manageVars, switchVars, optionVars, sysctlVars,
                   historyVars, chartVars, dashVars, frameVars, runnerVars>>

HistoryPart ==
    /\ part = "history" /\ HistoryNext
    /\ UNCHANGED <<part, manageVars, switchVars, optionVars, sysctlVars,
                   vnstatVars, chartVars, dashVars, frameVars, runnerVars>>

ChartPart ==
    /\ part = "chart" /\ ChartNext
    /\ UNCHANGED <<part, manageVars, switchVars, optionVars, sysctlVars,
                   vnstatVars, historyVars, dashVars, frameVars, runnerVars>>

DashboardPart ==
    /\ part = "dashboard" /\ DashNext
    /\ UNCHANGED <<part, manageVars, switchVars, optionVars, sysctlVars,
                   vnstatVars, historyVars, chartVars, frameVars, runnerVars>>

FramePart ==
    /\ part = "frame" /\ FrameNext
    /\ UNCHANGED <<part, manageVars, switchVars, optionVars, sysctlVars,
                   vnstatVars, historyVars, chartVars, dashVars, runnerVars>>

RunnerPart ==
    /\ part = "runner" /\ RunnerNext
    /\ UNCHANGED <<part, manageVars, switchVars, optionVars, sysctlVars,
                   vnstatVars, historyVars, chartVars, dashVars, frameVars>>

Next ==
    \/ FlowPart \/ SwitchPart \/ OptionsPart \/ SysctlPart \/ VnstatPart
    \/ HistoryPart \/ ChartPart \/ DashboardPart \/ FramePart \/ RunnerPart

Spec == Init /\ [][Next]_partsVars

\* The fairness of the part that runs.  (What is fair of the flow, the
\* dashboard and the runner is not enabled in the initial states that the
\* others stay in.)
Fairness ==
    /\ ManageFairness
    /\ (part = "switch") => SwitchFairness
    /\ DashFairness
    /\ RunnerFairness

FairSpec == Spec /\ Fairness

-----------------------------------------------------------------------------

\* A chart asks for nothing the server refuses and draws what it is served:
\* the request is within the server's bounds whatever the browser stored and
\* however wide the plot is, and no line leaves its plot (IOChart, Dashboard;
\* chart-interval.ts:24-46, line-chart.tsx:29-89).
ChartsAreRight == ChartIsServed /\ DrawnInAxis
=============================================================================
