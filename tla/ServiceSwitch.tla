---------------------------- MODULE ServiceSwitch ---------------------------
(***************************************************************************)
(* The switches of the sidebar, which start and stop the services of       *)
(* installed apps: components/app-sidebar.tsx shows them, service-toggle-  *)
(* modal asks for the password, and serviceMutation of app-shell.tsx sends *)
(* the change in the background (the server: SetServiceEnabled).  The list *)
(* of apps is polled, and asked for anew after each change.                *)
(* react-query knows the state of the latest call of a mutation only.      *)
(***************************************************************************)
EXTENDS Naturals, Sequences

CONSTANTS
    Listable,     \* the catalog, without the two apps of the combined row
    Client,       \* rtorrent: a service and no page
    WebUI,        \* rutorrent: a page and no service
    WithService,  \* the apps with a service
    MaxToggles    \* bound: how many changes the user confirms

Catalog == Listable \cup {Client, WebUI}

ASSUME SwitchAssumption ==
    /\ WithService \subseteq Catalog \ {WebUI}
    /\ MaxToggles \in Nat

VARIABLES
    present,    \* the host: the apps installed
    on,         \* the host: the services that run and are enabled
    list,       \* the tab: the list of apps it shows
    fetch,      \* the tab: the list that is on its way, or NoList
    listFailed, \* the tab: the last request for the list failed
    asked,      \* the tab: the change the open dialog is about, or NoChange
    toggles,    \* the changes confirmed, in order, with how far they are
    calm        \* history: services untouched since a change of them settled

hostState  == <<present, on>>
switchVars == <<hostState, list, fetch, listFailed, asked, toggles, calm>>

NoList   == [present |-> {}, on |-> Catalog]   \* nothing is on but not there
Host     == [present |-> present, on |-> on]
Lists    == [present : SUBSET Catalog, on : SUBSET WithService]
Changes  == [app : WithService, to : BOOLEAN]
NoChange == [app |-> WebUI, to |-> FALSE]
Stages   == {"verify", "send", "done", "settled"}

SwitchTypeOK ==
    /\ present \subseteq Catalog
    /\ on \subseteq WithService \cap present
    /\ list \in Lists
    /\ fetch \in Lists \cup {NoList}
    /\ listFailed \in BOOLEAN
    /\ asked \in Changes \cup {NoChange}
    /\ toggles \in Seq([app : WithService, to : BOOLEAN, stage : Stages])
    /\ Len(toggles) <= MaxToggles
    /\ calm \subseteq WithService

SwitchInit ==
    /\ present = Catalog
    /\ on = {}
    /\ list = Host
    /\ fetch = NoList /\ listFailed = FALSE
    /\ asked = NoChange
    /\ toggles = <<>>
    /\ calm = {}

-----------------------------------------------------------------------------
(* What the sidebar shows of a list.                                        *)

\* The page that a row of the app links to; a row without one is inert.
AppUrl(x) == {x} \ {Client}

\* sidebarEntries: a row per installed app, but one for the client and its
\* web UI, which links to the one and switches the other.
Entries(l) ==
    LET Row(shows, link) ==
            [shows |-> shows, link |-> link,
             service |-> shows \cap WithService]
        Pair == {Client, WebUI}
    IN  IF Pair \subseteq l.present
        THEN {Row({x}, AppUrl(x)) : x \in l.present \ Pair} \cup {Row(Pair, AppUrl(WebUI))}
        ELSE {Row({x}, AppUrl(x)) : x \in l.present}

\* The rows of the menu: an error takes the place of all of them.
Rows == IF listFailed THEN {} ELSE Entries(list)

InFlight(i) == toggles[i].stage # "settled"

\* pendingServiceAppId: the app of the latest change, while it is under way.
Pending == IF toggles # <<>> /\ InFlight(Len(toggles))
           THEN {toggles[Len(toggles)].app} ELSE {}

\* A switch, and no spinner in its place.
Switch(x) == (\E row \in Rows : x \in row.service) /\ x \notin Pending

-----------------------------------------------------------------------------
(* The switch and its dialog.                                               *)

Flip(x) ==
    /\ asked = NoChange
    /\ Switch(x)
    /\ asked' = [app |-> x, to |-> x \notin list.on]
    /\ UNCHANGED <<hostState, list, fetch, listFailed, toggles, calm>>

CancelToggle ==
    /\ asked # NoChange
    /\ asked' = NoChange
    /\ UNCHANGED <<hostState, list, fetch, listFailed, toggles, calm>>

ConfirmToggle ==
    /\ asked # NoChange /\ Len(toggles) < MaxToggles
    /\ toggles' = Append(toggles, [app |-> asked.app, to |-> asked.to,
                                   stage |-> "verify"])
    /\ asked' = NoChange
    /\ UNCHANGED <<hostState, list, fetch, listFailed, calm>>

-----------------------------------------------------------------------------
(* mutationFn: check the password, then send the change.  An error of       *)
(* either settles the call and shows a toast.                               *)

Reach(i, s) == toggles' = [toggles EXCEPT ![i].stage = s]

CheckPassword(i) ==
    /\ toggles[i].stage = "verify"
    /\ \E s \in {"send", "settled"} : Reach(i, s)
    /\ UNCHANGED <<hostState, list, fetch, listFailed, asked, calm>>

\* SetServiceEnabled.  systemctl may fail before it did anything or after; an
\* app that is gone is refused; the answer may be lost.
SetService(i) ==
    LET x == toggles[i].app IN
    /\ toggles[i].stage = "send"
    /\ \/ /\ x \in present
          /\ on' = IF toggles[i].to THEN on \cup {x} ELSE on \ {x}
          /\ \E s \in {"done", "settled"} : Reach(i, s)
       \/ /\ UNCHANGED on
          /\ Reach(i, "settled")
    /\ calm' = calm \ {x}
    /\ UNCHANGED <<present, list, fetch, listFailed, asked>>

SettleToggle_JoinsFetch(i) ==
    /\ toggles[i].stage = "done"
    /\ Reach(i, "settled")
    /\ fetch' = IF fetch = NoList THEN Host ELSE fetch
    /\ calm' = calm \cup {toggles[i].app}
    /\ UNCHANGED <<hostState, list, listFailed, asked>>

\* onSuccess asks for the list anew and drops the answer to an earlier
\* question; it does not wait for the new one.
SettleToggle(i) ==
    /\ toggles[i].stage = "done"
    /\ Reach(i, "settled")
    /\ fetch' = Host
    /\ calm' = calm \cup {toggles[i].app}
    /\ UNCHANGED <<hostState, list, listFailed, asked>>

-----------------------------------------------------------------------------
(* The list.                                                                *)

FetchList ==
    /\ fetch = NoList
    /\ fetch' = Host
    /\ UNCHANGED <<hostState, list, listFailed, asked, toggles, calm>>

ReceiveList_Drops ==
    /\ fetch # NoList
    /\ fetch' = NoList /\ listFailed' = FALSE
    /\ UNCHANGED <<hostState, list, asked, toggles, calm>>

ReceiveList ==
    /\ fetch # NoList
    /\ list' = fetch
    /\ fetch' = NoList /\ listFailed' = FALSE
    /\ UNCHANGED <<hostState, asked, toggles, calm>>

\* A request that fails is repeated, or given up; the old list is kept.
FailList ==
    /\ fetch # NoList
    /\ \/ fetch' = Host /\ UNCHANGED listFailed
       \/ fetch' = NoList /\ listFailed' = TRUE
    /\ UNCHANGED <<hostState, list, asked, toggles, calm>>

\* An app of the host is removed (with its service), or installed and on.
AppChanges(x) ==
    /\ x # WebUI
    /\ \/ x \in present /\ present' = present \ {x} /\ on' = on \ {x}
       \/ /\ x \notin present
          /\ present' = present \cup {x}
          /\ on' = on \cup ({x} \cap WithService)
    /\ calm' = calm \ {x}
    /\ UNCHANGED <<list, fetch, listFailed, asked, toggles>>

ToggleSteps == 
    \E i \in DOMAIN toggles : CheckPassword(i) \/ SetService(i) \/ SettleToggle(i)

SwitchNext ==
    \/ (\E x \in WithService : Flip(x)) \/ CancelToggle \/ ConfirmToggle
    \/ ToggleSteps
    \/ FetchList \/ ReceiveList \/ FailList \/ (\E x \in Listable : AppChanges(x))

SwitchSpec == SwitchInit /\ [][SwitchNext]_switchVars

\* The list is polled; requests are answered, for the list again and again.
SwitchFairness ==
    /\ WF_switchVars(FetchList) /\ SF_switchVars(ReceiveList)
    /\ WF_switchVars(ToggleSteps)

-----------------------------------------------------------------------------

\* While the change that was confirmed last is under way its app cannot be
\* toggled again; only a change of another app in between makes the lock
\* forget it (app-shell.tsx:94-96).
DoubleNeedsAnother ==
    \A i, j \in DOMAIN toggles :
        i < j /\ InFlight(i) /\ toggles[i].app = toggles[j].app =>
            \E k \in i..j : toggles[k].app # toggles[i].app

\* A list asked for before a change is not taken for news after it: once a
\* change has settled and nothing else touched the service, no list on its way
\* has it in another position (app-shell.tsx:80-82; the cached list stays on
\* the screen until the new one is there).
NoOldList ==
    \A x \in calm : fetch = NoList \/ (x \in fetch.on <=> x \in on)

\* The sidebar ends up with the host's state: whatever fails, when changes
\* cease its rows, as far as it has any, come to be those of the host, and
\* their switches in the host's positions (app-shell.tsx:55-82).
SidebarCatchesUp ==
    <>[][UNCHANGED hostState]_hostState =>
        <>[](/\ listFailed \/ Rows = Entries(Host)
             /\ \A x \in WithService : Switch(x) => (x \in list.on <=> x \in on))

\* app-sidebar.tsx:48-50: "its switch is locked until the action resolves so
\* it can't be double-fired".
NotDoubleFired ==
    \A i, j \in DOMAIN toggles :
        i < j /\ InFlight(i) /\ InFlight(j) => toggles[i].app # toggles[j].app
=============================================================================
