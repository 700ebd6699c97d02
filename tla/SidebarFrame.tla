---------------------------- MODULE SidebarFrame ----------------------------
(***************************************************************************)
(* The frame of the sidebar (components/ui/sidebar.tsx under app-shell.tsx *)
(* and app-sidebar.tsx): a full column or a rail of icons in a wide        *)
(* window, a sheet over the page in a narrow one.  Two parties tell wide   *)
(* from narrow: useIsMobile counts pixels (hooks/use-mobile.ts), and the   *)
(* style sheet's "md" counts in the font size of the browser.              *)
(***************************************************************************)
EXTENDS Naturals

CONSTANTS
    Widths,    \* bound: how wide the window may be, in pixels
    FontSize   \* the browser's font size, in pixels

MobileBreakpoint == 768
MdBreakpoint     == 48 * FontSize

ASSUME FrameAssumption == Widths \subseteq Nat /\ FontSize \in Nat

VARIABLES
    winWidth,  \* the window
    expanded,  \* open: the column is not collapsed to the rail
    sheet      \* openMobile: the sheet is open

frameVars == <<winWidth, expanded, sheet>>

FrameTypeOK == winWidth \in Widths /\ expanded \in BOOLEAN /\ sheet \in BOOLEAN

\* What the cookie remembers is never read: each page begins with the column.
FrameInit ==
    /\ winWidth \in Widths
    /\ expanded = TRUE
    /\ sheet = FALSE

-----------------------------------------------------------------------------

IsMobile == winWidth < MobileBreakpoint
Md       == winWidth >= MdBreakpoint

\* How the sidebar is on the screen.
Sidebar ==
    CASE IsMobile -> IF sheet THEN "sheet" ELSE "hidden"
      [] ~IsMobile /\ ~Md -> "hidden"
      [] OTHER -> IF expanded THEN "column" ELSE "rail"

\* The rail has no room for the rows' names, switches and status.
RowsShown == Sidebar \in {"column", "sheet"}

\* The names as tooltips.
TooltipsShown == ~expanded /\ ~IsMobile

\* The triggers within reach: that of the page below md, unless the sheet
\* covers it, and that of the sidebar itself.
Triggers ==
    {t \in {"page", "sidebar"} :
        IF t = "page" THEN ~Md /\ Sidebar # "sheet" ELSE Sidebar # "hidden"}

-----------------------------------------------------------------------------

ToggleSidebar ==
    /\ IF IsMobile
       THEN sheet' = ~sheet /\ UNCHANGED expanded
       ELSE expanded' = ~expanded /\ UNCHANGED sheet
    /\ UNCHANGED winWidth

PressTrigger(t) == t \in Triggers /\ ToggleSidebar

\* Ctrl-B, whatever is on the screen.
PressShortcut == ToggleSidebar

\* Escape, or a click beside the sheet.
DismissSheet ==
    /\ Sidebar = "sheet"
    /\ sheet' = FALSE
    /\ UNCHANGED <<winWidth, expanded>>

\* An open sheet is there again when the window is narrow again.
Resize(w) == winWidth' = w /\ UNCHANGED <<expanded, sheet>>

ReloadFrame == expanded' = TRUE /\ sheet' = FALSE /\ UNCHANGED winWidth

FrameNext ==
    \/ (\E t \in Triggers : PressTrigger(t)) \/ PressShortcut \/ DismissSheet
    \/ (\E w \in Widths : Resize(w)) \/ ReloadFrame

FrameSpec == FrameInit /\ [][FrameNext]_frameVars

-----------------------------------------------------------------------------

\* With the usual font size the two breakpoints are one, and however the
\* window was resized and the sidebar toggled before, rows that are not on
\* the screen are one press of a trigger away, and their names are there, as
\* text or as tooltips, wherever the icons are.
RowsInReach ==
    FontSize = 16 =>
        /\ ~RowsShown => Triggers # {}
        /\ Sidebar # "hidden" => (RowsShown <=> ~TooltipsShown)

\* A trigger shows the rows or takes them away (app-shell.tsx:179-186).
TriggerAnswers ==
    [][FontSize = 16 /\ (\E t \in Triggers : PressTrigger(t)) =>
            RowsShown' = ~RowsShown]_frameVars
=============================================================================
