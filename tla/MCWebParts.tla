------------------------------ MODULE MCWebParts -----------------------------
EXTENDS WebParts

CONSTANTS a, b, d1, d2

\* Two apps: b needs a, a has options; installing a asks for a token, too.
MCNeeds   == (a :> {}) @@ (b :> {a})
MCSecrets == (a :> {"password", "token"}) @@ (b :> {"password"})
MCAsks    == {[action |-> "install", app |-> a], [action |-> "upgrade", app |-> a],
              [action |-> "remove", app |-> b]}

\* qBittorrent's form in small: the last version has no branches.
MCVersions     == <<"5.2", "5.3", "6">>
MCBranches     == <<"1.2", "2.0", "2.1">>
MCOffersBranch == ("5.2" :> {"1.2", "2.0"}) @@ ("5.3" :> {"2.0", "2.1"}) @@ ("6" :> {})

MCRecommended == [k \in Keys |-> 1]
\* Files with a comment, with a key twice, and with no key of this kernel.
MCPatches     ==
    {<<[key |-> k, value |-> 1], [key |-> NoName, value |-> 3], [key |-> k, value |-> 2]>> :
        k \in Keys}
    \cup {<<[key |-> "other", value |-> 2]>>}

\* The ranges of lib/vnstat-range.ts.
MCVnstatRanges ==
    <<[source |-> "days", limit |-> 7, sort |-> "recent"],
      [source |-> "days", limit |-> 14, sort |-> "recent"],
      [source |-> "months", limit |-> 12, sort |-> "recent"],
      [source |-> "days", limit |-> 10, sort |-> "total"]>>
MCEarlier == [days |-> <<3>> \o [i \in 1..12 |-> 2], months |-> [i \in 1..11 |-> 2]]

\* A host with one busy disk, or a strange one with two; charts with holes,
\* a value beyond the axis, and nothing but holes.
MCMetrics ==
    {[cpu |-> 0, memory |-> 91, load |-> 250, cpus |-> 2, uptime |-> 90061,
      disks |-> (d1 :> [used |-> 120, busy |-> NoPoint])],
     [cpu |-> 85, memory |-> 50, load |-> 10, cpus |-> 0, uptime |-> 3599,
      disks |-> (d1 :> [used |-> 120, busy |-> 1]) @@ (d2 :> [used |-> -1, busy |-> 7])]}
MCCurves ==
    {[rx |-> <<NoPoint, 15>>, tx |-> <<0, 4>>],
     [rx |-> <<12, NoPoint>>, tx |-> <<NoPoint, NoPoint>>]}
=============================================================================
