--------------------------- MODULE AppJobsProofs ----------------------------
(***************************************************************************)
(* Proofs about AppJobs, for any requests, catalog, dependencies and       *)
(* artifacts.  Recorded ties what the store says of a job to where its     *)
(* goroutine stands.  Latest says what the last look at an app is worth:   *)
(* either a playbook is at work on the app whose job is yet to look, or    *)
(* nothing has changed since.                                              *)
(***************************************************************************)
EXTENDS AppJobs, TLAPS

Recorded ==
    \A r \in Requests :
        /\ pc[r] \in {"idle", "asking", "accepted"} => status[r] = "none"
        /\ pc[r] \in {"created", "spawned"} => status[r] = "queued"
        /\ pc[r] \in {"playing", "exited", "looking", "right", "wrong"}
              => status[r] = "running"
        /\ pc[r] = "done" => ~Unfinished(r)

\* A job that is yet to look, after changing the app or being about to.
Pending(a) == \E r \in Requests : app[r] = a /\ pc[r] \in {"playing", "exited"}

\* What r asked for is how a is.
Holds(r, a) == Installed(a) <=> action[r] # "remove"

True(r, a) ==
    /\ pc[r] = "looking" => seen[r] \subseteq host[a]
    /\ pc[r] = "right"   => Holds(r, a)
    /\ pc[r] = "wrong"   => ~Holds(r, a)
    /\ pc[r] = "done"    => (status[r] = "succeeded" <=> Holds(r, a))

Latest ==
    \A a \in Apps : latest[a] # None =>
        /\ app[latest[a]] = a
        /\ pc[latest[a]] \in {"looking", "right", "wrong", "done"}
        /\ Pending(a) \/ True(latest[a], a)

Inv == TypeOK /\ Recorded /\ Latest

-----------------------------------------------------------------------------

THEOREM TypeCorrect == Spec => []TypeOK
<1>1. Init => TypeOK
  BY ConstantsAssumption DEF Init, TypeOK, Stages
<1>2. ASSUME TypeOK, [Next]_vars PROVE TypeOK'
  <2> USE <1>2 DEF TypeOK
  <2>1. ASSUME NEW r \in Requests, Request(r) PROVE TypeOK'
    BY <2>1 DEF Request, Ask, Accept, Refuse, Create, Spawn, FailToEnrich, Goto, Stages
  <2>2. ASSUME NEW r \in Requests, Goroutine(r) PROVE TypeOK'
    <3>1. CASE Begin(r) \/ Look(r)
      BY <3>1 DEF Begin, Look, Goto, Stages
    <3>2. CASE Judge(r) \/ Report(r)
      BY <3>2 DEF Judge, Report, Goto, Stages
    <3> QED  BY <2>2, <3>1, <3>2 DEF Goroutine
  <2>3. ASSUME NEW r \in Requests, Playbook(r) PROVE TypeOK'
    <3>1. CASE Exit(r) \/ Abort(r)
      BY <3>1 DEF Exit, Abort, Goto, Stages
    <3>2. ASSUME NEW p \in Pieces, Task(r, p) PROVE TypeOK'
      BY <3>2 DEF Task
    <3> QED  BY <2>3, <3>1, <3>2 DEF Playbook
  <2>4. ASSUME NEW r \in Requests, Looking(r) PROVE TypeOK'
    BY <2>4 DEF Looking, Find
  <2>5. CASE Restart
    BY <2>5, ConstantsAssumption DEF Restart, Stages
  <2>6. CASE UNCHANGED vars
    BY <2>6 DEF vars
  <2> QED  BY <1>2, <2>1, <2>2, <2>3, <2>4, <2>5, <2>6 DEF Next
<1> QED  BY <1>1, <1>2, PTL DEF Spec

-----------------------------------------------------------------------------

LEMMA InitInv == Init => Recorded /\ Latest
  BY DEF Init, Recorded, Latest

\* Recorded is kept: a step moves one request and writes its status, or ends
\* them all at once.
LEMMA RecordedStep ==
    ASSUME TypeOK, Recorded, [Next]_vars
    PROVE  Recorded'
<1> USE DEF TypeOK, Recorded, Unfinished
<1>1. ASSUME NEW r \in Requests, Request(r) PROVE Recorded'
  <2>1. CASE Ask(r) \/ Accept(r) \/ Refuse(r) \/ Spawn(r)
    BY <2>1 DEF Ask, Accept, Refuse, Spawn, Goto, At
  <2>2. CASE Create(r) \/ FailToEnrich(r)
    BY <2>2 DEF Create, FailToEnrich, Goto, At
  <2> QED  BY <1>1, <2>1, <2>2 DEF Request
<1>2. ASSUME NEW r \in Requests, Goroutine(r) PROVE Recorded'
  <2>1. CASE Begin(r)
    BY <2>1 DEF Begin, Goto, At
  <2>2. CASE Look(r) \/ Judge(r)
    BY <2>2 DEF Look, Judge, Goto, At
  <2>3. CASE Report(r)
    BY <2>3 DEF Report, Goto, At
  <2> QED  BY <1>2, <2>1, <2>2, <2>3 DEF Goroutine
<1>3. ASSUME NEW r \in Requests, Playbook(r) PROVE Recorded'
  BY <1>3 DEF Playbook, Exit, Abort, Task, Goto, At
<1>4. ASSUME NEW r \in Requests, Looking(r) PROVE Recorded'
  BY <1>4 DEF Looking, Find
<1>5. CASE Restart
  BY <1>5 DEF Restart, Active
<1>6. CASE UNCHANGED vars
  BY <1>6 DEF vars
<1> QED  BY <1>1, <1>2, <1>3, <1>4, <1>5, <1>6 DEF Next

\* A step that leaves the host and what is latest alone, and moves r between
\* stages that say nothing of the host, keeps Latest.
LEMMA LatestFrame ==
    ASSUME TypeOK, Latest, NEW r \in Requests,
           UNCHANGED <<app, action, host, latest>>,
           pc' = [pc EXCEPT ![r] = pc'[r]],
           seen' = [seen EXCEPT ![r] = seen'[r]],
           status' = [status EXCEPT ![r] = status'[r]],
           pc[r] \notin {"looking", "right", "wrong", "done"},
           pc[r] \in {"playing", "exited"} => pc'[r] \in {"playing", "exited"}
    PROVE  Latest'
<1> SUFFICES ASSUME NEW a \in Apps, latest[a] # None
             PROVE  /\ app[latest[a]] = a
                    /\ pc'[latest[a]] \in {"looking", "right", "wrong", "done"}
                    /\ Pending(a)' \/ True(latest[a], a)'
  BY DEF Latest
<1>1. latest[a] \in Requests
  BY DEF TypeOK
<1>2. /\ app[latest[a]] = a
      /\ pc[latest[a]] \in {"looking", "right", "wrong", "done"}
      /\ Pending(a) \/ True(latest[a], a)
  BY DEF Latest
<1>3. /\ latest[a] # r
      /\ pc'[latest[a]] = pc[latest[a]]
      /\ seen'[latest[a]] = seen[latest[a]]
      /\ status'[latest[a]] = status[latest[a]]
  BY <1>1, <1>2 DEF TypeOK
<1>4. True(latest[a], a) => True(latest[a], a)'
  BY <1>3 DEF True, Holds, Installed
<1>5. Pending(a) => Pending(a)'
  BY DEF Pending, TypeOK
<1> QED  BY <1>2, <1>3, <1>4, <1>5

LEMMA LatestStep ==
    ASSUME TypeOK, Recorded, Latest, [Next]_vars
    PROVE  Latest'
<1>1. ASSUME NEW r \in Requests, Request(r) PROVE Latest'
  <2>1. /\ UNCHANGED <<app, action, host, latest>>
        /\ pc' = [pc EXCEPT ![r] = pc'[r]]
        /\ seen' = [seen EXCEPT ![r] = seen'[r]]
        /\ status' = [status EXCEPT ![r] = status'[r]]
        /\ pc[r] \in {"idle", "asking", "accepted", "created"}
    BY <1>1 DEF Request, Ask, Accept, Refuse, Create, Spawn, FailToEnrich, Goto, At, TypeOK
  <2> QED  BY <2>1, LatestFrame
<1>2. ASSUME NEW r \in Requests, Begin(r) \/ Exit(r) PROVE Latest'
  <2>1. /\ UNCHANGED <<app, action, host, latest>>
        /\ pc' = [pc EXCEPT ![r] = pc'[r]]
        /\ seen' = [seen EXCEPT ![r] = seen'[r]]
        /\ status' = [status EXCEPT ![r] = status'[r]]
        /\ pc[r] \in {"spawned", "playing"}
        /\ pc'[r] \in {"playing", "exited"}
    BY <1>2 DEF Begin, Exit, Goto, At, TypeOK
  <2> QED  BY <2>1, LatestFrame
<1>3. ASSUME NEW r \in Requests, NEW p \in Pieces, Task(r, p) PROVE Latest'
  <2>1. /\ UNCHANGED <<pc, app, action, seen, status, latest>>
        /\ pc[r] = "playing"
        /\ \A a \in Apps \ {app[r]} : host'[a] = host[a]
    BY <1>3 DEF Task, At, TypeOK
  <2> SUFFICES ASSUME NEW a \in Apps, latest[a] # None
               PROVE  Pending(a)' \/ True(latest[a], a)'
    BY <2>1 DEF Latest
  <2>2. CASE a = app[r]
    BY <2>1, <2>2 DEF Pending
  <2>3. CASE a # app[r]
    BY <2>1, <2>3 DEF Latest, Pending, True, Holds, Installed
  <2> QED  BY <2>2, <2>3
<1>4. ASSUME NEW r \in Requests, Abort(r) PROVE Latest'
  <2>1. /\ UNCHANGED <<app, action, seen, status, host>>
        /\ pc[r] = "playing" /\ pc' = [pc EXCEPT ![r] = "wrong"]
        /\ latest' = [latest EXCEPT ![app[r]] = None]
    BY <1>4 DEF Abort, Goto, At
  <2> SUFFICES ASSUME NEW a \in Apps, latest'[a] # None
               PROVE  /\ app[latest'[a]] = a
                      /\ pc'[latest'[a]] \in {"looking", "right", "wrong", "done"}
                      /\ Pending(a)' \/ True(latest[a], a)'
    BY <2>1 DEF Latest
  <2>2. a # app[r] /\ latest'[a] = latest[a]
    BY <2>1 DEF TypeOK
  <2>3. /\ latest[a] \in Requests /\ app[latest[a]] = a
        /\ pc[latest[a]] \in {"looking", "right", "wrong", "done"}
        /\ Pending(a) \/ True(latest[a], a)
    BY <2>2 DEF Latest, TypeOK
  <2>4. latest[a] # r /\ pc'[latest[a]] = pc[latest[a]]
    BY <2>1, <2>2, <2>3 DEF TypeOK
  <2>5. Pending(a) => Pending(a)'
    BY <2>1, <2>2 DEF Pending, TypeOK
  <2>6. True(latest[a], a) => True(latest[a], a)'
    BY <2>1, <2>2, <2>4 DEF True, Holds, Installed
  <2> QED  BY <2>2, <2>3, <2>4, <2>5, <2>6
<1>5. ASSUME NEW r \in Requests, Look(r) PROVE Latest'
  <2>1. /\ UNCHANGED <<app, action, status, host>>
        /\ pc[r] = "exited" /\ pc' = [pc EXCEPT ![r] = "looking"]
        /\ seen' = [seen EXCEPT ![r] = {}]
        /\ latest' = [latest EXCEPT ![app[r]] = r]
    BY <1>5 DEF Look, Goto, At
  <2> SUFFICES ASSUME NEW a \in Apps, latest'[a] # None
               PROVE  /\ app[latest'[a]] = a
                      /\ pc'[latest'[a]] \in {"looking", "right", "wrong", "done"}
                      /\ Pending(a)' \/ True(latest[a], a)'
    BY <2>1 DEF Latest
  <2>2. CASE a = app[r]
    <3>1. latest'[a] = r /\ pc'[r] = "looking" /\ seen'[r] = {}
      BY <2>1, <2>2 DEF TypeOK
    <3>2. True(r, a)'
      BY <3>1 DEF True
    <3> QED  BY <2>2, <3>1, <3>2
  <2>3. CASE a # app[r]
    <3>1. latest'[a] = latest[a]
      BY <2>1, <2>3 DEF TypeOK
    <3>2. /\ latest[a] \in Requests /\ app[latest[a]] = a
          /\ pc[latest[a]] \in {"looking", "right", "wrong", "done"}
          /\ Pending(a) \/ True(latest[a], a)
      BY <3>1 DEF Latest, TypeOK
    <3>3. /\ latest[a] # r /\ pc'[latest[a]] = pc[latest[a]]
          /\ seen'[latest[a]] = seen[latest[a]]
      BY <2>1, <2>3, <3>2 DEF TypeOK
    <3>4. Pending(a) => Pending(a)'
      BY <2>1, <2>3 DEF Pending, TypeOK
    <3>5. True(latest[a], a) => True(latest[a], a)'
      BY <2>1, <3>1, <3>3 DEF True, Holds, Installed
    <3> QED  BY <3>1, <3>2, <3>3, <3>4, <3>5
  <2> QED  BY <2>2, <2>3
<1>6. ASSUME NEW r \in Requests, Judge(r) \/ Report(r) \/ Looking(r) PROVE Latest'
  \* r may be the latest of its app: its verdict and its report follow from
  \* what it has seen.
  <2>1. /\ UNCHANGED <<app, action, host, latest>>
        /\ \A s \in Requests \ {r} :
              pc'[s] = pc[s] /\ seen'[s] = seen[s] /\ status'[s] = status[s]
        /\ pc[r] \in {"asking", "looking", "right", "wrong"}
        /\ pc[r] = "asking" => pc'[r] = "asking"
        /\ pc[r] # "asking" => pc'[r] \in {"looking", "right", "wrong", "done"}
    BY <1>6 DEF Judge, Report, Looking, Find, Goto, At, TypeOK
  <2>2. ASSUME NEW a \in Apps, latest[a] = r, True(r, a), app[r] = a
        PROVE  True(r, a)'
    <3>1. pc[r] \in {"looking", "right", "wrong", "done"}
      BY <2>2, ConstantsAssumption DEF Latest
    <3>2. CASE Judge(r)
      <4>1. /\ pc[r] = "looking" /\ UNCHANGED <<app, action, seen, status, host>>
            /\ \/ FoundAll(r) /\ pc'[r] = IF action[r] = "remove" THEN "wrong" ELSE "right"
               \/ FoundAbsent(r) /\ pc'[r] = IF action[r] = "remove" THEN "right" ELSE "wrong"
        BY <3>2 DEF Judge, Goto, At, TypeOK
      <4>2. seen[r] \subseteq host[a] /\ host[a] \subseteq Pieces
        BY <2>2, <4>1 DEF True, TypeOK
      <4>3. CASE FoundAll(r) /\ pc'[r] = IF action[r] = "remove" THEN "wrong" ELSE "right"
        <5>1. Installed(a)
          BY <4>2, <4>3 DEF FoundAll, Installed
        <5> QED  BY <4>1, <4>3, <5>1 DEF True, Holds, Installed
      <4>4. CASE FoundAbsent(r) /\ pc'[r] = IF action[r] = "remove" THEN "right" ELSE "wrong"
        <5>1. ~Installed(a)
          BY <2>2, <4>4 DEF FoundAbsent, Installed
        <5> QED  BY <4>1, <4>4, <5>1 DEF True, Holds, Installed
      <4> QED  BY <4>1, <4>3, <4>4
    <3>3. CASE Report(r)
      <4>1. /\ pc[r] \in {"right", "wrong"} /\ pc'[r] = "done"
            /\ status'[r] = IF pc[r] = "right" THEN "succeeded" ELSE "failed"
            /\ UNCHANGED <<action, host>>
        BY <3>3 DEF Report, Goto, At, TypeOK
      <4> QED  BY <2>2, <4>1 DEF True, Holds, Installed
    <3>4. CASE Looking(r)
      <4>1. PICK p \in Pieces : Find(r, p)
        BY <3>4 DEF Looking
      <4>2. /\ pc'[r] = pc[r] /\ pc[r] = "looking"
            /\ p \in host[a] /\ seen'[r] = seen[r] \cup {p}
            /\ UNCHANGED host
        BY <2>2, <3>1, <4>1 DEF Find, TypeOK
      <4> QED  BY <2>2, <4>2 DEF True
    <3> QED  BY <1>6, <3>2, <3>3, <3>4
  <2> SUFFICES ASSUME NEW a \in Apps, latest[a] # None
               PROVE  /\ app[latest[a]] = a
                      /\ pc'[latest[a]] \in {"looking", "right", "wrong", "done"}
                      /\ Pending(a)' \/ True(latest[a], a)'
    BY <2>1 DEF Latest
  <2>3. /\ latest[a] \in Requests /\ app[latest[a]] = a
        /\ pc[latest[a]] \in {"looking", "right", "wrong", "done"}
        /\ Pending(a) \/ True(latest[a], a)
    BY DEF Latest, TypeOK
  <2>4. pc'[latest[a]] \in {"looking", "right", "wrong", "done"}
    BY <2>1, <2>3
  <2>5. Pending(a) => Pending(a)'
    BY <2>1 DEF Pending
  <2>6. True(latest[a], a) => True(latest[a], a)'
    BY <2>1, <2>2, <2>3 DEF True, Holds, Installed
  <2> QED  BY <2>3, <2>4, <2>5, <2>6
<1>7. CASE Restart
  <2>1. /\ UNCHANGED <<app, action, seen, status, host>>
        /\ \A r \in Requests : pc'[r] = IF Active(r) THEN "lost" ELSE pc[r]
        /\ \A a \in Apps : latest'[a] = IF Quiet(a) THEN latest[a] ELSE None
    BY <1>7 DEF Restart
  <2> SUFFICES ASSUME NEW a \in Apps, latest'[a] # None
               PROVE  /\ app[latest'[a]] = a
                      /\ pc'[latest'[a]] \in {"looking", "right", "wrong", "done"}
                      /\ True(latest[a], a)'
    BY <2>1 DEF Latest
  <2>2. Quiet(a) /\ latest'[a] = latest[a] /\ latest[a] \in Requests
    BY <2>1 DEF TypeOK
  <2>3. /\ app[latest[a]] = a /\ ~Pending(a)
        /\ pc[latest[a]] = "done" /\ True(latest[a], a)
    BY <2>2 DEF Latest, Quiet, Active, Pending
  <2>4. pc'[latest[a]] = "done"
    BY <2>1, <2>2, <2>3 DEF Active
  <2> QED  BY <2>1, <2>2, <2>3, <2>4 DEF True, Holds, Installed
<1>8. CASE UNCHANGED vars
  BY <1>8 DEF vars, Latest, Pending, True, Holds, Installed
<1> QED
  BY <1>1, <1>2, <1>3, <1>4, <1>5, <1>6, <1>7, <1>8 DEF Next, Goroutine, Playbook

THEOREM Invariant == Spec => []Inv
<1>1. Init => Recorded /\ Latest
  BY InitInv
<1>2. TypeOK /\ Recorded /\ Latest /\ [Next]_vars => Recorded' /\ Latest'
  BY RecordedStep, LatestStep
<1> QED  BY <1>1, <1>2, TypeCorrect, PTL DEF Spec, Inv

-----------------------------------------------------------------------------

\* No path through startJob and runJob forgets to report.
THEOREM JobsAreReported == Spec => []UnfinishedHasOwner
<1>1. Inv => UnfinishedHasOwner
  BY DEF Inv, TypeOK, Recorded, UnfinishedHasOwner, Unfinished, Active, At, Stages
<1> QED  BY <1>1, Invariant, PTL

\* Whatever jobs overlapped on an app, the one that looked last is right.
THEOREM LastLookTold == Spec => []LastLookIsTrue
<1>1. Inv => LastLookIsTrue
  <2> SUFFICES ASSUME Inv, NEW a \in Apps, Quiet(a), latest[a] # None
               PROVE  status[latest[a]] = "succeeded" <=> Holds(latest[a], a)
    BY DEF LastLookIsTrue, Holds
  <2>1. /\ latest[a] \in Requests /\ app[latest[a]] = a
        /\ pc[latest[a]] \in {"looking", "right", "wrong", "done"}
        /\ Pending(a) \/ True(latest[a], a)
    BY DEF Inv, Latest, TypeOK
  <2>2. ~Pending(a) /\ pc[latest[a]] = "done"
    BY <2>1 DEF Quiet, Active, Pending
  <2> QED  BY <2>1, <2>2 DEF True
<1> QED  BY <1>1, Invariant, PTL

\* App jobs implement the abstract lifecycle.
THEOREM LifecycleImplemented == Spec => ImplementsLifecycle
<1>1. Init => Lifecycle!Init
  BY DEF Init, Lifecycle!Init
<1>2. ASSUME Inv, [Next]_vars PROVE [Lifecycle!Next]_status
  <2> USE DEF Lifecycle!Next, Lifecycle!Create, Lifecycle!Begin, Lifecycle!Succeed,
              Lifecycle!Fail, Lifecycle!Move
  <2>1. ASSUME NEW r \in Requests, Create(r) PROVE Lifecycle!Create(r)
    BY <1>2, <2>1 DEF Create, At, Inv, Recorded
  <2>2. ASSUME NEW r \in Requests, FailToEnrich(r) PROVE Lifecycle!Fail(r)
    BY <1>2, <2>2 DEF FailToEnrich, At, Inv, Recorded
  <2>3. ASSUME NEW r \in Requests, Begin(r) PROVE Lifecycle!Begin(r)
    BY <1>2, <2>3 DEF Begin, At, Inv, Recorded
  <2>4. ASSUME NEW r \in Requests, Report(r) PROVE Lifecycle!Succeed(r) \/ Lifecycle!Fail(r)
    BY <1>2, <2>4 DEF Report, At, Inv, Recorded
  <2>5. CASE UNCHANGED status
    BY <2>5
  <2> QED  BY <1>2, <2>1, <2>2, <2>3, <2>4, <2>5 DEF Next, Request, Goroutine,
              Playbook, Looking, Ask, Accept, Refuse, Spawn, Look, Judge, Exit,
              Abort, Task, Find, Restart, vars
<1> QED  BY <1>1, <1>2, Invariant, PTL DEF Spec, ImplementsLifecycle, Lifecycle!Spec
=============================================================================
