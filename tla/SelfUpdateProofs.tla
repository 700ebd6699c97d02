-------------------------- MODULE SelfUpdateProofs --------------------------
(***************************************************************************)
(* Proofs about SelfUpdate, for any requests, jobs, releases and crashes.  *)
(***************************************************************************)
EXTENDS SelfUpdate, TLAPS

(* The stages in which install runs, and those in which run() owns a job.  *)
Busy == Stages \ {"idle", "check", "queued", "fetch", "clean", "release", "succeed"}

Owning(r) == pc[r] \in Stages \ {"idle", "check", "clean", "release"}

\* What every step of install has in common: it moves the goroutine on within
\* install, or to its outcome, keeps its release and its job, and touches
\* nothing but the disk.
Frame(r) ==
    /\ pc[r] \in Busy \ {"fail"}
    /\ pc' \in [Requests -> Stages]
    /\ pc'[r] \in Busy \cup {"succeed"}
    /\ \A s \in Requests \ {r} : pc'[s] = pc[s]
    /\ work' \in [Requests -> [tag : Versions, job : Jobs \cup {None},
                               named : BOOLEAN, err : Errors]]
    /\ \A s \in Requests : work'[s].tag = work[s].tag /\ work'[s].job = work[s].job
    /\ disk' \in Disks
    /\ UNCHANGED <<daemon, store, world>>

LEMMA AdvanceFrame ==
    ASSUME TypeOK, NEW r \in Requests, NEW from \in Busy \ {"fail"},
           NEW to \in Busy \cup {"succeed"}, NEW d \in Disks, Advance(r, from, to, d)
    PROVE  Frame(r)
  BY DEF Frame, TypeOK, Advance, At, Goto, Busy, Stages

LEMMA AbortFrame ==
    ASSUME TypeOK, NEW r \in Requests, NEW from \in Busy \ {"fail"},
           NEW d \in Disks, NEW e \in Errors, Abort(r, from, d, e)
    PROVE  Frame(r)
  BY DEF Frame, TypeOK, Abort, At, Goto, Busy, Stages

LEMMA OverwriteFrame ==
    ASSUME TypeOK, NEW r \in Requests, NEW from \in Busy \ {"fail"},
           NEW writing \in Busy \ {"fail"}, NEW to \in Busy \cup {"succeed"},
           NEW d \in Disks, NEW c \in Disks, NEW e \in Errors,
           Overwrite(r, from, writing, to, d, c, e)
    PROVE  Frame(r)
  <1>1. disk \in Disks
    BY DEF TypeOK
  <1>2. QED
    BY <1>1, AdvanceFrame, AbortFrame DEF Overwrite, Busy

\* The disks install leaves behind are disks.
LEMMA NewDisks ==
    ASSUME TypeOK, NEW v \in Versions \cup {None}, NEW w \in Versions \cup {None},
           NEW c \in Contents, NEW h \in Vhosts, NEW m \in Markers
    PROVE  /\ disk \in Disks
           /\ [disk EXCEPT !.oldPlaybooks = v] \in Disks
           /\ [disk EXCEPT !.playbooks = v, !.oldPlaybooks = w] \in Disks
           /\ [disk EXCEPT !.oldPlaybooks = v, !.playbooks = w] \in Disks
           /\ [disk EXCEPT !.confBackup = c, !.vhostBackup = h] \in Disks
           /\ [disk EXCEPT !.conf = c] \in Disks
           /\ [disk EXCEPT !.vhost = h] \in Disks
           /\ [disk EXCEPT !.backupBinary = v] \in Disks
           /\ [disk EXCEPT !.backupBinary = v, !.binary = w] \in Disks
           /\ [disk EXCEPT !.binary = v] \in Disks
           /\ [disk EXCEPT !.binary = v, !.backupBinary = w] \in Disks
           /\ [disk EXCEPT !.unit = c] \in Disks
           /\ [disk EXCEPT !.marker = m] \in Disks
  BY DEF TypeOK, Disks

\* What the files, and the locals of a goroutine, can be written to.
LEMMA Parts ==
    ASSUME TypeOK, NEW r \in Requests
    PROVE  /\ work[r].tag \in Versions /\ work[r].named \in BOOLEAN
           /\ work[r].tag \in Versions \cup {None} /\ work[r].tag \in Contents
           /\ None \in Versions \cup {None} /\ Torn \in Contents
           /\ Torn \in Markers
           /\ disk.binary \in Versions \cup {None}
           /\ disk.backupBinary \in Versions \cup {None}
           /\ disk.playbooks \in Versions \cup {None}
           /\ disk.oldPlaybooks \in Versions \cup {None}
           /\ disk.conf \in Contents /\ disk.confBackup \in Contents
           /\ disk.vhost \in Vhosts /\ disk.vhostBackup \in Vhosts
           /\ [release |-> Torn, named |-> FALSE] \in Vhosts
           /\ [release |-> work[r].tag, named |-> FALSE] \in Vhosts
           /\ [release |-> work[r].tag, named |-> TRUE] \in Vhosts
           /\ work[r].job \in Jobs =>
                 [job |-> work[r].job, release |-> work[r].tag] \in Markers
  BY DEF TypeOK, Disks, Contents, Vhosts, Markers

\* A step that writes one local of the goroutine, or none.
LEMMA LocalFrame ==
    ASSUME TypeOK, NEW r \in Requests, NEW from \in Busy \ {"fail"}, NEW to \in Busy,
           pc[r] = from, pc' = [pc EXCEPT ![r] = to], disk' \in Disks,
           NEW n \in BOOLEAN, NEW e \in Errors,
           \/ work' = work
           \/ work' = [work EXCEPT ![r].named = n]
           \/ work' = [work EXCEPT ![r].err = e],
           UNCHANGED <<daemon, store, world>>
    PROVE  Frame(r)
  <1>1. /\ pc' \in [Requests -> Stages]
        /\ pc'[r] = to
        /\ \A s \in Requests \ {r} : pc'[s] = pc[s]
    <2>1. pc \in [Requests -> Stages] /\ to \in Stages
      BY DEF TypeOK, Busy
    <2>2. QED
      BY <2>1
  <1>2. /\ work' \in [Requests -> [tag : Versions, job : Jobs \cup {None},
                                  named : BOOLEAN, err : Errors]]
        /\ \A s \in Requests : work'[s].tag = work[s].tag /\ work'[s].job = work[s].job
    <2>1. work \in [Requests -> [tag : Versions, job : Jobs \cup {None},
                                named : BOOLEAN, err : Errors]]
      BY DEF TypeOK
    <2>2. CASE work' = work
      BY <2>1, <2>2
    <2>3. CASE work' = [work EXCEPT ![r].named = n]
      BY <2>1, <2>3
    <2>4. CASE work' = [work EXCEPT ![r].err = e]
      BY <2>1, <2>4
    <2>5. QED
      BY <2>2, <2>3, <2>4
  <1>3. QED
    BY <1>1, <1>2 DEF Frame

LEMMA RestoreFrame ==
    ASSUME TypeOK, NEW r \in Requests, NEW from \in Busy \ {"fail"}, NEW to \in Busy,
           NEW d \in Disks, NEW failed \in SUBSET Disks, Restore(r, from, to, d, failed)
    PROVE  Frame(r)
  <1>1. /\ pc[r] = from /\ pc' = [pc EXCEPT ![r] = to]
        /\ disk' \in Disks
        /\ UNCHANGED <<daemon, store, world>>
    BY DEF Restore, At, Goto
  <1>2. work' = work \/ work' = [work EXCEPT ![r].err = "nginx-restore"]
    BY DEF Restore
  <1>3. "nginx-restore" \in Errors /\ TRUE \in BOOLEAN
    BY DEF Errors
  <1>4. QED
    BY <1>1, <1>2, <1>3, LocalFrame

LEMMA InstallFrame ==
    ASSUME TypeOK, NEW r \in Requests, Install(r), work[r].job \in Jobs
    PROVE  Frame(r)
  <1> USE Parts, NewDisks
  <1>1. CASE StagePlaybooks(r)
    BY <1>1, AdvanceFrame, AbortFrame DEF StagePlaybooks, Busy, Stages, Errors
  <1>2. CASE MovePlaybooksAside(r)
    BY <1>2, AdvanceFrame, AbortFrame DEF MovePlaybooksAside, Busy, Stages, Errors
  <1>3. CASE SwapPlaybooks(r)
    BY <1>3, AdvanceFrame, AbortFrame DEF SwapPlaybooks, Busy, Stages, Errors
  <1>4. CASE BackUpNginx(r)
    <2>1. CASE Abort(r, "backup", disk, "nginx")
      BY <2>1, AbortFrame DEF Busy, Stages, Errors
    <2>2. CASE ~Abort(r, "backup", disk, "nginx")
      <3>1. /\ pc[r] = "backup" /\ pc' = [pc EXCEPT ![r] = "conf"]
            /\ disk' = [disk EXCEPT !.confBackup = disk.conf, !.vhostBackup = disk.vhost]
            /\ work' = [work EXCEPT ![r].named = disk.vhost.named]
            /\ UNCHANGED <<daemon, store, world>>
        BY <1>4, <2>2 DEF BackUpNginx, At, Goto
      <3>2. disk' \in Disks
        BY <3>1
      <3>3. disk.vhost.named \in BOOLEAN
        BY DEF Vhosts
      <3>4. "" \in Errors /\ "backup" \in Busy \ {"fail"} /\ "conf" \in Busy
        BY DEF Errors, Busy, Stages
      <3>5. QED
        BY <3>1, <3>2, <3>3, <3>4, LocalFrame
    <2>3. QED
      BY <2>1, <2>2
  <1>5. CASE CopyConf(r)
    BY <1>5, OverwriteFrame DEF CopyConf, Busy, Stages, Errors
  <1>6. CASE CopyVhost(r)
    <2> DEFINE to == IF work[r].named THEN "name" ELSE "test"
    <2>1. to \in Busy \cup {"succeed"}
      BY DEF Busy, Stages
    <2>2. [disk EXCEPT !.vhost = [release |-> Torn, named |-> FALSE]] \in Disks
      OBVIOUS
    <2>3. [disk EXCEPT !.vhost = [release |-> work[r].tag, named |-> FALSE]] \in Disks
      <3> DEFINE h == [release |-> work[r].tag, named |-> FALSE]
      <3>1. h \in Vhosts
        BY Parts
      <3> HIDE DEF h
      <3>2. [disk EXCEPT !.vhost = h] \in Disks
        BY <3>1 DEF TypeOK, Disks
      <3>3. QED
        BY <3>2 DEF h
    <2> DEFINE d == [disk EXCEPT !.vhost = [release |-> Torn, named |-> FALSE]]
               c == [disk EXCEPT !.vhost = [release |-> work[r].tag, named |-> FALSE]]
    <2>4. Overwrite(r, "vhost", "vhostWrite", to, d, c, "nginx")
      BY <1>6 DEF CopyVhost
    <2>5. /\ "vhost" \in Busy \ {"fail"} /\ "vhostWrite" \in Busy \ {"fail"}
          /\ "nginx" \in Errors
      BY DEF Busy, Stages, Errors
    <2>6. d \in Disks /\ c \in Disks
      BY <2>2, <2>3
    <2> HIDE DEF to, d, c
    <2>7. QED
      BY <2>1, <2>4, <2>5, <2>6, OverwriteFrame
  <1>7. CASE ApplyServerName(r)
    <2> DEFINE d == [disk EXCEPT !.vhost = [release |-> Torn, named |-> FALSE]]
               c == [disk EXCEPT !.vhost = [release |-> work[r].tag, named |-> TRUE]]
    <2>1. Overwrite(r, "name", "nameWrite", "test", d, c, "nginx")
      BY <1>7 DEF ApplyServerName
    <2>2. /\ "name" \in Busy \ {"fail"} /\ "nameWrite" \in Busy \ {"fail"}
          /\ "test" \in Busy \cup {"succeed"} /\ "nginx" \in Errors
      BY DEF Busy, Stages, Errors
    <2>3. d \in Disks /\ c \in Disks
      OBVIOUS
    <2> HIDE DEF d, c
    <2>4. QED
      BY <2>1, <2>2, <2>3, OverwriteFrame
  <1>8. CASE TestNginx(r)
    <2>1. CASE Advance(r, "test", "reload", disk) \/ Abort(r, "test", disk, "nginx")
      BY <2>1, AdvanceFrame, AbortFrame DEF Busy, Stages, Errors
    <2>2. CASE ~(Advance(r, "test", "reload", disk) \/ Abort(r, "test", disk, "nginx"))
      <3>1. /\ pc[r] = "test" /\ pc' = [pc EXCEPT ![r] = "undoConf"]
            /\ work' = [work EXCEPT ![r].err = "nginx-test"]
            /\ UNCHANGED <<daemon, store, disk, world>>
        BY <1>8, <2>2 DEF TestNginx, At, Goto
      <3>2. /\ "test" \in Busy \ {"fail"} /\ "undoConf" \in Busy
            /\ "nginx-test" \in Errors /\ TRUE \in BOOLEAN
        BY DEF Busy, Stages, Errors
      <3>3. disk' \in Disks
        BY <3>1
      <3>4. QED
        BY <3>1, <3>2, <3>3, LocalFrame
    <2>3. QED
      BY <2>1, <2>2
  <1>9. CASE RestoreConf(r)
    <2>1. /\ [disk EXCEPT !.conf = disk.confBackup] \in Disks
          /\ {disk, [disk EXCEPT !.conf = Torn]} \in SUBSET Disks
      OBVIOUS
    <2>2. QED
      BY <1>9, <2>1, RestoreFrame DEF RestoreConf, Busy, Stages
  <1>10. CASE RestoreVhost(r)
    <2>1. [disk EXCEPT !.vhost = [release |-> Torn, named |-> FALSE]] \in Disks
      OBVIOUS
    <2>2. /\ [disk EXCEPT !.vhost = disk.vhostBackup] \in Disks
          /\ {disk, [disk EXCEPT !.vhost = [release |-> Torn, named |-> FALSE]]}
                \in SUBSET Disks
      BY <2>1
    <2>3. QED
      BY <1>10, <2>2, RestoreFrame DEF RestoreVhost, Busy, Stages
  <1>11. CASE ReloadNginx(r)
    BY <1>11, AdvanceFrame, AbortFrame DEF ReloadNginx, Busy, Stages, Errors
  <1>12. CASE CopyBinary(r)
    BY <1>12, AdvanceFrame, AbortFrame DEF CopyBinary, Busy, Stages, Errors
  <1>13. CASE MoveBinary(r)
    BY <1>13, AdvanceFrame, AbortFrame DEF MoveBinary, Busy, Stages, Errors
  <1>14. CASE ActivateBinary(r)
    BY <1>14, AdvanceFrame, AbortFrame DEF ActivateBinary, Busy, Stages, Errors
  <1>15. CASE CopyUnit(r)
    BY <1>15, OverwriteFrame DEF CopyUnit, Busy, Stages, Errors
  <1>16. CASE DaemonReload(r)
    BY <1>16, AdvanceFrame, AbortFrame DEF DaemonReload, Busy, Stages, Errors
  <1>17. CASE WriteMarker(r)
    BY <1>17, OverwriteFrame DEF WriteMarker, Busy, Stages, Errors
  <1>18. QED
    BY <1>1, <1>2, <1>3, <1>4, <1>5, <1>6, <1>7, <1>8, <1>9, <1>10, <1>11, <1>12,
       <1>13, <1>14, <1>15, <1>16, <1>17 DEF Install

-----------------------------------------------------------------------------
(* Who holds the updater, and which jobs are owed an outcome.               *)

\* Only a serving process has requests at work.
Lock == OneInstaller /\ \A r \in Requests : Active(r) => proc = "up"

\* Each goroutine owns a job in the state its stage implies, and a serving
\* process has no other unfinished job.
Ownership ==
    /\ \A r \in Requests : Owning(r) =>
          /\ work[r].job \in Jobs
          /\ status[work[r].job] = IF pc[r] = "queued" THEN "queued" ELSE "running"
    /\ proc = "up" => \A j \in Jobs : Unfinished(j) =>
          \E r \in Requests : Owning(r) /\ work[r].job = j

Safe == TypeOK /\ Lock /\ Ownership

LEMMA NoWorkType ==
    /\ NoWork \in [tag : Versions, job : Jobs \cup {None}, named : BOOLEAN, err : Errors]
    /\ NoVhost \in Vhosts
    /\ 0 \in Versions
  <1>1. 0 \in Versions
    BY BoundsAssumption DEF Versions
  <1>2. QED
    BY <1>1 DEF NoWork, NoVhost, Vhosts, Contents, Errors

LEMMA SafeInit == Init => Safe
  <1> SUFFICES ASSUME Init PROVE Safe
    OBVIOUS
  <1>1. TypeOK
    <2>1. disk \in Disks
      <3>1. [release |-> 0, named |-> TRUE] \in Vhosts
        BY NoWorkType DEF Vhosts, Contents
      <3>2. QED
        BY <3>1, NoWorkType DEF Init, Disks, Contents, Markers
    <2>2. crashes \in 0..MaxCrashes
      <3>1. 0 \in 0..MaxCrashes
        BY BoundsAssumption
      <3>2. QED
        BY <3>1 DEF Init
    <2>3. QED
      BY <2>1, <2>2, NoWorkType DEF Init, TypeOK, Stages, Errors
  <1>2. Lock
    BY DEF Init, Lock, OneInstaller, Active
  <1>3. Ownership
    BY DEF Init, Ownership, Owning, Unfinished, Stages
  <1>4. QED
    BY <1>1, <1>2, <1>3 DEF Safe

LEMMA SafeInstall ==
    ASSUME Safe, NEW r \in Requests, Frame(r)
    PROVE  Safe'
  <1>1. TypeOK'
    BY DEF Safe, TypeOK, Frame, daemon, store, world
  <1>2. Lock'
    BY DEF Safe, TypeOK, Lock, OneInstaller, Active, Frame, daemon, Busy, Stages
  <1>3. Ownership'
    BY DEF Safe, TypeOK, Lock, OneInstaller, Active, Ownership, Owning, Unfinished,
        Frame, daemon, store, Busy, Stages
  <1>4. QED
    BY <1>1, <1>2, <1>3 DEF Safe

LEMMA InstallIsFrame ==
    ASSUME Safe, NEW r \in Requests, Install(r)
    PROVE  Frame(r)
  <1>1. pc[r] \in Busy
    BY DEF Install, StagePlaybooks, MovePlaybooksAside, SwapPlaybooks, BackUpNginx,
        CopyConf, CopyVhost, ApplyServerName, TestNginx, RestoreConf, RestoreVhost,
        ReloadNginx, CopyBinary, MoveBinary, ActivateBinary, CopyUnit, DaemonReload,
        WriteMarker, Overwrite, Advance, Abort, Restore, At, Busy, Stages
  <1>2. work[r].job \in Jobs
    BY <1>1 DEF Safe, Ownership, Owning, Busy, Stages
  <1>3. QED
    BY <1>2, InstallFrame DEF Safe

LEMMA SafeUpdate ==
    ASSUME Safe, NEW r \in Requests, Update(r)
    PROVE  Safe'
  <1> USE DEF Safe, At, Goto, daemon, store, world
  <1>1. CASE Start(r)
    <2>1. TypeOK'
      BY <1>1 DEF Start, TypeOK, Stages
    <2>2. Lock'
      BY <1>1 DEF Start, TypeOK, Lock, OneInstaller, Active
    <2>3. Ownership'
      BY <1>1 DEF Start, TypeOK, Lock, OneInstaller, Active, Ownership, Owning,
          Unfinished, Stages
    <2>4. QED
      BY <2>1, <2>2, <2>3
  <1>2. CASE Refuse(r)
    <2>1. TypeOK'
      BY <1>2 DEF Refuse, TypeOK, Stages
    <2>2. Lock'
      BY <1>2 DEF Refuse, TypeOK, Lock, OneInstaller, Active
    <2>3. Ownership'
      BY <1>2 DEF Refuse, TypeOK, Ownership, Owning, Unfinished, Stages
    <2>4. QED
      BY <2>1, <2>2, <2>3
  <1>3. CASE Accept(r)
    <2> PICK j \in Jobs :
          /\ status[j] = "none"
          /\ status' = [status EXCEPT ![j] = "queued"]
          /\ work' = [work EXCEPT ![r].tag = latest, ![r].job = j]
      BY <1>3 DEF Accept
    <2>0. work'[r].job = j /\ \A s \in Requests \ {r} : work'[s] = work[s]
      BY DEF TypeOK
    <2>1. TypeOK'
      <3>1. work' \in [Requests -> [tag : Versions, job : Jobs \cup {None},
                                    named : BOOLEAN, err : Errors]]
        BY DEF TypeOK
      <3>2. QED
        BY <1>3, <3>1 DEF Accept, TypeOK, Stages
    <2>2. Lock'
      BY <1>3 DEF Accept, TypeOK, Lock, OneInstaller, Active
    <2>3. Ownership'
      BY <1>3, <2>0 DEF Accept, TypeOK, Lock, OneInstaller, Active, Ownership, Owning,
          Unfinished, Stages
    <2>4. QED
      BY <2>1, <2>2, <2>3
  <1>4. CASE Begin(r)
    <2>0. pc[r] = "queued" /\ work[r].job \in Jobs /\ status[work[r].job] = "queued"
      BY <1>4 DEF Begin, Ownership, Owning, Stages
    <2>1. TypeOK'
      BY <1>4 DEF Begin, TypeOK, Stages
    <2>2. Lock'
      BY <1>4 DEF Begin, TypeOK, Lock, OneInstaller, Active
    <2>3. Ownership'
      BY <1>4, <2>0 DEF Begin, TypeOK, Lock, OneInstaller, Active, Ownership, Owning,
          Unfinished, Stages
    <2>4. QED
      BY <2>1, <2>2, <2>3
  <1>5. CASE FetchRelease(r)
    <2>1. /\ disk' \in Disks
          /\ pc[r] = "fetch" /\ pc' \in [Requests -> Stages]
          /\ pc'[r] \in {"stage", "fail"} /\ \A s \in Requests \ {r} : pc'[s] = pc[s]
          /\ work' = work \/ work' = [work EXCEPT ![r].err = "fetch"]
          /\ UNCHANGED <<daemon, store, world>>
      <3>1. /\ [disk EXCEPT !.staging = work[r].tag, !.confBackup = None,
                            !.vhostBackup = NoVhost] \in Disks
            /\ [disk EXCEPT !.staging = Torn, !.confBackup = None,
                            !.vhostBackup = NoVhost] \in Disks
        <4>1. \A c \in Contents : [disk EXCEPT !.staging = c, !.confBackup = None,
                                        !.vhostBackup = NoVhost] \in Disks
          BY NoWorkType DEF TypeOK, Disks, Contents
        <4>2. QED
          BY <4>1, Parts
      <3>2. QED
        BY <1>5, <3>1 DEF FetchRelease, Advance, Abort, TypeOK, Stages
    <2>2. /\ work' \in [Requests -> [tag : Versions, job : Jobs \cup {None},
                                     named : BOOLEAN, err : Errors]]
          /\ \A s \in Requests : work'[s].job = work[s].job
      <3>1. CASE work' = work
        BY <3>1 DEF TypeOK
      <3>2. CASE work' = [work EXCEPT ![r].err = "fetch"]
        BY <3>2 DEF TypeOK, Errors
      <3>3. QED
        BY <2>1, <3>1, <3>2
    <2>3. TypeOK'
      BY <2>1, <2>2 DEF TypeOK
    <2>4. Lock'
      BY <2>1 DEF TypeOK, Lock, OneInstaller, Active
    <2>5. Ownership'
      BY <2>1, <2>2 DEF TypeOK, Lock, OneInstaller, Active, Ownership, Owning,
          Unfinished, Stages
    <2>6. QED
      BY <2>3, <2>4, <2>5
  <1>6. CASE Install(r)
    BY <1>6, InstallIsFrame, SafeInstall
  <1>7. CASE Succeed(r)
    <2>0. pc[r] = "succeed" /\ work[r].job \in Jobs
      BY <1>7 DEF Succeed, Ownership, Owning, Stages
    <2>1. TypeOK'
      BY <1>7 DEF Succeed, TypeOK, Stages, Errors
    <2>2. Lock'
      BY <1>7 DEF Succeed, TypeOK, Lock, OneInstaller, Active
    <2>3. Ownership'
      <3>1. \A s \in Requests : ~Owning(s)'
        BY <1>7 DEF Succeed, TypeOK, Lock, OneInstaller, Active, Owning, Stages
      <3>2. \A j \in Jobs : Unfinished(j) => j = work[r].job
        BY <1>7, <2>0 DEF Succeed, Lock, OneInstaller, Active, Ownership, Owning
      <3>3. \A j \in Jobs : ~Unfinished(j)'
        BY <1>7, <2>0, <3>2 DEF Succeed, TypeOK, Unfinished
      <3>4. QED
        BY <3>1, <3>3 DEF Ownership
    <2>4. QED
      BY <2>1, <2>2, <2>3
  <1>8. CASE FailJob(r)
    <2>0. pc[r] = "fail" /\ work[r].job \in Jobs
      BY <1>8 DEF FailJob, Ownership, Owning, Stages
    <2>1. TypeOK'
      BY <1>8 DEF FailJob, TypeOK, Stages
    <2>2. Lock'
      BY <1>8 DEF FailJob, TypeOK, Lock, OneInstaller, Active
    <2>3. Ownership'
      BY <1>8, <2>0 DEF FailJob, TypeOK, Lock, OneInstaller, Active, Ownership, Owning,
          Unfinished, Stages
    <2>4. QED
      BY <2>1, <2>2, <2>3
  <1>9. CASE Clean(r)
    <2>0. disk' \in Disks
      BY <1>9 DEF Clean, Advance, EmptyStaging, TypeOK, Disks, Contents, Vhosts, NoVhost
    <2>1. TypeOK'
      BY <1>9, <2>0 DEF Clean, Advance, TypeOK, Stages
    <2>2. Lock'
      BY <1>9 DEF Clean, Advance, TypeOK, Lock, OneInstaller, Active
    <2>3. Ownership'
      BY <1>9 DEF Clean, Advance, TypeOK, Ownership, Owning, Unfinished, Stages
    <2>4. QED
      BY <2>1, <2>2, <2>3
  <1>10. CASE Release(r)
    <2>1. TypeOK'
      BY <1>10, NoWorkType DEF Release, TypeOK, Stages
    <2>2. Lock'
      BY <1>10 DEF Release, TypeOK, Lock, OneInstaller, Active
    <2>3. Ownership'
      BY <1>10 DEF Release, TypeOK, Ownership, Owning, Unfinished, Stages
    <2>4. QED
      BY <2>1, <2>2, <2>3
  <1>11. QED
    BY <1>1, <1>2, <1>3, <1>4, <1>5, <1>6, <1>7, <1>8, <1>9, <1>10 DEF Update, Report

LEMMA SafeDie ==
    ASSUME Safe, Die, crashes' \in 0..MaxCrashes
    PROVE  Safe'
  <1> USE DEF Safe, Die
  <1>1. TypeOK'
    BY NoWorkType DEF TypeOK, store, Stages
  <1>2. Lock'
    BY DEF TypeOK, Lock, OneInstaller, Active
  <1>3. Ownership'
    BY DEF Ownership, Owning, Stages
  <1>4. QED
    BY <1>1, <1>2, <1>3

\* While the process starts up no request is at work.
LEMMA SafeReconcile ==
    ASSUME Safe, Reconcile
    PROVE  Safe'
  <1> USE DEF Safe, daemon, store, world
  <1>0. \A r \in Requests : ~Active(r) /\ ~Owning(r)
    BY DEF Reconcile, ResolveMarker, RemoveMarker, Sweep, Serve, Lock, Active, Owning
  <1>1. CASE ResolveMarker
    <2>1. TypeOK'
      <3>1. Armed => disk.marker.job \in Jobs
        BY DEF TypeOK, Armed, Disks, Markers
      <3>2. QED
        BY <1>1, <3>1 DEF ResolveMarker, TypeOK, Errors
    <2>2. Lock' /\ Ownership'
      BY <1>0, <1>1 DEF ResolveMarker, Lock, OneInstaller, Active, Ownership, Owning
    <2>3. QED
      BY <2>1, <2>2
  <1>2. CASE RemoveMarker
    <2>1. TypeOK'
      <3>1. [EmptyStaging EXCEPT !.marker = None] \in Disks
        BY NoWorkType DEF EmptyStaging, TypeOK, Disks, Contents, Markers
      <3>2. QED
        BY <1>2, <3>1 DEF RemoveMarker, TypeOK
    <2>2. Lock' /\ Ownership'
      BY <1>0, <1>2 DEF RemoveMarker, Lock, OneInstaller, Active, Ownership, Owning
    <2>3. QED
      BY <2>1, <2>2
  <1>3. CASE Sweep
    <2>1. TypeOK'
      BY <1>3 DEF Sweep, TypeOK, Errors
    <2>2. Lock' /\ Ownership'
      BY <1>0, <1>3 DEF Sweep, Lock, OneInstaller, Active, Ownership, Owning
    <2>3. QED
      BY <2>1, <2>2
  <1>4. CASE Serve
    <2>1. TypeOK'
      BY <1>4 DEF Serve, TypeOK
    <2>2. Lock' /\ Ownership'
      BY <1>0, <1>4 DEF Serve, Swept, Lock, OneInstaller, Active, Ownership, Owning,
          Unfinished
    <2>3. QED
      BY <2>1, <2>2
  <1>5. QED
    BY <1>1, <1>2, <1>3, <1>4 DEF Reconcile

LEMMA SafeNext == Safe /\ [Next]_vars => Safe'
  <1> SUFFICES ASSUME Safe, [Next]_vars PROVE Safe'
    OBVIOUS
  <1> USE DEF daemon, store, world
  <1>1. ASSUME NEW r \in Requests, Update(r) PROVE Safe'
    BY <1>1, SafeUpdate
  <1>2. CASE RestartHandler
    <2>1. TypeOK'
      BY <1>2 DEF RestartHandler, RestartCheck, RestartRead, RestartIssue, Safe, TypeOK
    <2>2. UNCHANGED <<proc, running, pc, work, status>>
      BY <1>2 DEF RestartHandler, RestartCheck, RestartRead, RestartIssue
    <2>3. Lock' /\ Ownership'
      BY <2>2 DEF Safe, Lock, OneInstaller, Active, Ownership, Owning, Unfinished
    <2>4. QED
      BY <2>1, <2>3 DEF Safe
  <1>3. CASE SystemdRestart
    BY <1>3, SafeDie DEF SystemdRestart, Safe, TypeOK
  <1>4. CASE Crash
    <2>1. crashes' \in 0..MaxCrashes
      BY <1>4, BoundsAssumption DEF Crash, Safe, TypeOK
    <2>2. QED
      BY <1>4, <2>1, SafeDie DEF Crash
  <1>5. CASE Boot
    <2>1. TypeOK'
      BY <1>5 DEF Boot, Safe, TypeOK, Disks
    <2>2. Lock' /\ Ownership'
      BY <1>5 DEF Boot, Safe, Lock, OneInstaller, Active, Ownership, Owning
    <2>3. QED
      BY <2>1, <2>2 DEF Safe
  <1>6. CASE Reconcile
    BY <1>6, SafeReconcile
  <1>7. CASE Publish
    <2>1. latest' \in Versions
      BY <1>7, BoundsAssumption DEF Publish, Safe, TypeOK, Versions
    <2>2. TypeOK'
      BY <1>7, <2>1 DEF Publish, Safe, TypeOK
    <2>3. Lock' /\ Ownership'
      BY <1>7 DEF Publish, Safe, Lock, OneInstaller, Active, Ownership, Owning, Unfinished
    <2>4. QED
      BY <2>2, <2>3 DEF Safe
  <1>8. CASE UNCHANGED vars
    <2>1. TypeOK'
      BY <1>8 DEF vars, Safe, TypeOK
    <2>2. Lock' /\ Ownership'
      BY <1>8 DEF vars, Safe, Lock, OneInstaller, Active, Ownership, Owning, Unfinished
    <2>3. QED
      BY <2>1, <2>2 DEF Safe
  <1>9. QED
    BY <1>1, <1>2, <1>3, <1>4, <1>5, <1>6, <1>7, <1>8 DEF Next

LEMMA AlwaysSafe == Spec => []Safe
  BY SafeInit, SafeNext, PTL DEF Spec

\* The variables keep their types, whatever is published, fails or dies.
THEOREM TypeCorrect == Spec => []TypeOK
  <1>1. Safe => TypeOK
    BY DEF Safe
  <1>2. QED
    BY <1>1, AlwaysSafe, PTL

\* Start's compare-and-swap and run's release keep installs apart.
THEOREM InstallsAreExclusive == Spec => []OneInstaller
  <1>1. Safe => OneInstaller
    BY DEF Safe, Lock
  <1>2. QED
    BY <1>1, AlwaysSafe, PTL

\* A serving process never reports a job that nobody will finish.
THEOREM JobsHaveOwners == Spec => []NoOrphanJob
  <1>1. Safe => NoOrphanJob
    BY DEF Safe, Ownership, NoOrphanJob, Owning, Active
  <1>2. QED
    BY <1>1, AlwaysSafe, PTL

-----------------------------------------------------------------------------
(* What an install has done by the stage it is in.                          *)

Tail0 == {"daemonReload", "marker", "markerWrite", "succeed"}
Tail1 == Tail0 \cup {"unit", "unitWrite"}
Tail2 == Tail1 \cup {"reload", "copyBinary", "moveBinary", "newBinary"}
Tail3 == Tail2 \cup {"test", "name"}
Tail4 == Tail3 \cup {"vhost", "vhostWrite", "nameWrite"}
Tail5 == Tail4 \cup {"backup", "conf", "confWrite", "undoConf", "undoVhost"}

\* From the end of each copy to the end of install, the file is of the release
\* being installed; in the last stage the marker says so.
Progress(r) ==
    /\ pc[r] \in Installing => disk.staging = work[r].tag
    /\ pc[r] \in Tail5 => disk.playbooks = work[r].tag
    /\ pc[r] \in Tail4 => disk.conf = work[r].tag
    /\ pc[r] \in Tail3 => disk.vhost.release = work[r].tag
    /\ pc[r] \in Tail1 => disk.binary = work[r].tag
    /\ pc[r] \in Tail0 => disk.unit = work[r].tag
    /\ pc[r] = "succeed" =>
          disk.marker = [job |-> work[r].job, release |-> work[r].tag]

LEMMA ProgressInstall ==
    ASSUME Safe, NEW r \in Requests, Progress(r), Install(r)
    PROVE  Progress(r)'
  <1> USE DEF Progress, Installing, Tail0, Tail1, Tail2, Tail3, Tail4, Tail5,
              Advance, Abort, Restore, Overwrite, At, Goto
  <1>0. /\ disk \in Disks
        /\ DOMAIN pc = Requests /\ pc = [s \in Requests |-> pc[s]]
        /\ work \in [Requests -> [tag : Versions, job : Jobs \cup {None},
                                  named : BOOLEAN, err : Errors]]
    BY DEF Safe, TypeOK
  <1>1. CASE StagePlaybooks(r)
    BY <1>0, <1>1 DEF StagePlaybooks, Disks
  <1>2. CASE MovePlaybooksAside(r)
    BY <1>0, <1>2 DEF MovePlaybooksAside, Disks
  <1>3. CASE SwapPlaybooks(r)
    BY <1>0, <1>3 DEF SwapPlaybooks, Disks
  <1>4. CASE BackUpNginx(r)
    <2>1. CASE Abort(r, "backup", disk, "nginx")
      BY <1>0, <2>1
    <2>2. CASE ~Abort(r, "backup", disk, "nginx")
      <3>1. /\ pc[r] = "backup" /\ pc' = [pc EXCEPT ![r] = "conf"]
            /\ disk' = [disk EXCEPT !.confBackup = disk.conf, !.vhostBackup = disk.vhost]
            /\ work' = [work EXCEPT ![r].named = disk.vhost.named]
        BY <1>4, <2>2 DEF BackUpNginx
      <3>2. pc'[r] = "conf" /\ work'[r].tag = work[r].tag
        BY <1>0, <3>1
      <3>3. disk'.staging = disk.staging /\ disk'.playbooks = disk.playbooks
        BY <1>0, <3>1 DEF Disks
      <3>4. QED
        BY <3>1, <3>2, <3>3
    <2>3. QED
      BY <2>1, <2>2
  <1>5. CASE CopyConf(r)
    BY <1>0, <1>5 DEF CopyConf, Disks
  <1>6. CASE CopyVhost(r)
    BY <1>0, <1>6 DEF CopyVhost, Disks
  <1>7. CASE ApplyServerName(r)
    BY <1>0, <1>7 DEF ApplyServerName, Disks
  <1>8. CASE TestNginx(r)
    BY <1>0, <1>8 DEF TestNginx, Disks
  <1>9. CASE RestoreConf(r)
    BY <1>0, <1>9 DEF RestoreConf, Disks
  <1>10. CASE RestoreVhost(r)
    BY <1>0, <1>10 DEF RestoreVhost, Disks
  <1>11. CASE ReloadNginx(r)
    BY <1>0, <1>11 DEF ReloadNginx, Disks
  <1>12. CASE CopyBinary(r)
    BY <1>0, <1>12 DEF CopyBinary, Disks
  <1>13. CASE MoveBinary(r)
    BY <1>0, <1>13 DEF MoveBinary, Disks
  <1>14. CASE ActivateBinary(r)
    BY <1>0, <1>14 DEF ActivateBinary, Disks
  <1>15. CASE CopyUnit(r)
    BY <1>0, <1>15 DEF CopyUnit, Disks
  <1>16. CASE DaemonReload(r)
    BY <1>0, <1>16 DEF DaemonReload, Disks
  <1>17. CASE WriteMarker(r)
    BY <1>0, <1>17 DEF WriteMarker, Disks
  <1>18. QED
    BY <1>1, <1>2, <1>3, <1>4, <1>5, <1>6, <1>7, <1>8, <1>9, <1>10, <1>11, <1>12,
       <1>13, <1>14, <1>15, <1>16, <1>17 DEF Install

Working == Safe /\ \A r \in Requests : Progress(r)

LEMMA ProgressOthers ==
    ASSUME Safe, NEW r \in Requests, Update(r), NEW s \in Requests \ {r}
    PROVE  pc'[s] = "idle"
  <1>1. pc[s] = "idle"
    <2>1. CASE Active(r)
      BY <2>1 DEF Safe, Lock, OneInstaller, Active
    <2>2. CASE ~Active(r)
      <3>1. ~running
        <4>1. CASE Start(r)
          BY <4>1 DEF Start
        <4>2. CASE Install(r)
          BY <2>2, <4>2, InstallIsFrame DEF Frame, Active, Busy
        <4>3. QED
          BY <2>2, <4>1, <4>2 DEF Update, Refuse, Accept, Begin, FetchRelease, Report,
              Succeed, FailJob, Clean, Release, Advance, Abort, At, Active
      <3>2. QED
        BY <3>1 DEF Safe, Lock, OneInstaller, Active
    <2>3. QED
      BY <2>1, <2>2
  <1>2. pc'[s] = pc[s]
    <2>1. CASE Install(r)
      BY <2>1, InstallIsFrame DEF Frame
    <2>2. CASE ~Install(r)
      BY <2>2 DEF Update, Start, Refuse, Accept, Begin, FetchRelease, Report, Succeed,
          FailJob, Clean, Release, Advance, Abort, Goto, Safe, TypeOK
    <2>3. QED
      BY <2>1, <2>2
  <1>3. QED
    BY <1>1, <1>2

LEMMA ProgressUpdate ==
    ASSUME Safe, NEW r \in Requests, Progress(r), Update(r)
    PROVE  Progress(r)'
  <1> USE DEF Progress, Installing, Tail0, Tail1, Tail2, Tail3, Tail4, Tail5,
              Advance, Abort, At, Goto
  <1>0. /\ disk \in Disks
        /\ DOMAIN pc = Requests /\ pc = [s \in Requests |-> pc[s]]
        /\ work \in [Requests -> [tag : Versions, job : Jobs \cup {None},
                                  named : BOOLEAN, err : Errors]]
    BY DEF Safe, TypeOK
  <1>1. CASE Start(r) \/ Refuse(r) \/ Accept(r) \/ Begin(r)
    BY <1>0, <1>1 DEF Start, Refuse, Accept, Begin
  <1>2. CASE FetchRelease(r)
    <2>1. CASE pc'[r] = "fail"
      BY <2>1
    <2>2. CASE pc'[r] # "fail"
      <3>1. /\ disk' = [disk EXCEPT !.staging = work[r].tag, !.confBackup = None,
                                    !.vhostBackup = NoVhost]
            /\ pc' = [pc EXCEPT ![r] = "stage"] /\ work' = work
        BY <1>0, <1>2, <2>2 DEF FetchRelease
      <3>2. disk'.staging = work[r].tag /\ pc'[r] = "stage"
        BY <1>0, <3>1 DEF Disks
      <3>3. QED
        BY <3>1, <3>2
    <2>3. QED
      BY <2>1, <2>2
  <1>3. CASE Install(r)
    BY <1>3, ProgressInstall
  <1>4. CASE Report(r)
    BY <1>0, <1>4 DEF Report, Succeed, FailJob, Clean, Release
  <1>5. QED
    BY <1>1, <1>2, <1>3, <1>4 DEF Update

LEMMA WorkingNext == Working /\ [Next]_vars => Working'
  <1> SUFFICES ASSUME Working, [Next]_vars PROVE Working'
    OBVIOUS
  <1>1. Safe'
    BY SafeNext DEF Working
  <1>2. ASSUME NEW s \in Requests PROVE Progress(s)'
    <2>1. ASSUME NEW r \in Requests, Update(r) PROVE Progress(s)'
      <3>1. CASE s = r
        BY <2>1, <3>1, ProgressUpdate DEF Working
      <3>2. CASE s # r
        BY <2>1, <3>2, ProgressOthers DEF Working, Progress, Installing, Tail0, Tail1,
            Tail2, Tail3, Tail4, Tail5
      <3>3. QED
        BY <3>1, <3>2
    <2>2. CASE UNCHANGED <<disk, pc, work>>
      BY <2>2 DEF Working, Progress
    <2>3. CASE Die \/ (proc # "up" /\ UNCHANGED pc)
      <3>1. pc'[s] = "idle"
        BY <2>3 DEF Die, Working, Safe, Lock, Active
      <3>2. QED
        BY <3>1 DEF Progress, Installing, Tail0, Tail1, Tail2, Tail3, Tail4, Tail5
    <2>4. QED
      BY <2>1, <2>2, <2>3 DEF Next, vars, RestartHandler, RestartCheck, RestartRead,
          RestartIssue, SystemdRestart, Crash, Boot, Reconcile, ResolveMarker,
          RemoveMarker, Sweep, Serve, Publish
  <1>3. QED
    BY <1>1, <1>2 DEF Working

LEMMA AlwaysWorking == Spec => []Working
  <1>1. Init => Working
    BY SafeInit DEF Init, Working, Progress, Installing, Tail0, Tail1, Tail2, Tail3,
        Tail4, Tail5
  <1>2. QED
    BY <1>1, WorkingNext, PTL DEF Spec

\* Nothing empties or refills the staging directory under an install.
THEOREM StagingIsExclusive == Spec => []StagingIsMine
  <1>1. Working => StagingIsMine
    BY DEF Working, Progress, StagingIsMine
  <1>2. QED
    BY <1>1, AlwaysWorking, PTL

\* A job is reported succeeded only when every file is of its release.
THEOREM ReportedSuccessIsComplete == Spec => SuccessIsComplete
  <1> DEFINE Complete(j) ==
        /\ Armed
        /\ disk.marker.job = j
        /\ {disk.playbooks, disk.conf, disk.vhost.release, disk.binary,
            disk.unit} = {disk.marker.release}
  <1>1. ASSUME Working, Next, NEW j \in Jobs, status[j] # "succeeded",
               status'[j] = "succeeded"
        PROVE  Complete(j)
    <2>1. PICK r \in Requests : Succeed(r) /\ work[r].job = j
      <3>1. ASSUME NEW r \in Requests, Update(r)
            PROVE  Succeed(r) /\ work[r].job = j
        <4>1. CASE Install(r)
          BY <1>1, <4>1, InstallIsFrame DEF Working, Frame, store
        <4>2. CASE ~Install(r)
          BY <1>1, <3>1, <4>2 DEF Update, Start, Refuse, Accept, Begin, FetchRelease,
              Report, Succeed, FailJob, Clean, Release, Advance, Abort, store, Working,
              Safe, TypeOK
        <4>3. QED
          BY <4>1, <4>2
      <3>2. \E r \in Requests : Update(r)
        BY <1>1 DEF Next, RestartHandler, RestartCheck, RestartRead, RestartIssue,
            SystemdRestart, Crash, Die, Boot, Reconcile, ResolveMarker, RemoveMarker,
            Sweep, Serve, Publish, store, Working, Safe, TypeOK
      <3>3. QED
        BY <3>1, <3>2
    <2>2. pc[r] = "succeed"
      BY <2>1 DEF Succeed, At
    <2>3. /\ disk.playbooks = work[r].tag /\ disk.conf = work[r].tag
          /\ disk.vhost.release = work[r].tag /\ disk.binary = work[r].tag
          /\ disk.unit = work[r].tag
          /\ disk.marker = [job |-> j, release |-> work[r].tag]
      BY <1>1, <2>1, <2>2 DEF Working, Progress, Tail0, Tail1, Tail2, Tail3, Tail4, Tail5
    <2>4. disk.marker.job = j /\ disk.marker.release = work[r].tag
      BY <2>3
    <2>5. Armed
      BY <1>1, <2>3, ValuesAssumption DEF Armed, Working, Safe, TypeOK, Versions
    <2>6. QED
      BY <2>3, <2>4, <2>5
  <1>2. Working /\ [Next]_vars => [\A j \in Jobs : status[j] # "succeeded" /\
            status'[j] = "succeeded" => Complete(j)]_vars
    BY <1>1
  <1>3. QED
    BY <1>2, AlwaysWorking, PTL DEF Spec, SuccessIsComplete

-----------------------------------------------------------------------------
(* The binary, and the marker's job.                                        *)

\* No step of install but these touches a binary, and only the last the marker.
LEMMA BinaryInstall ==
    ASSUME Safe, NEW r \in Requests, Install(r), BinarySurvives
    PROVE  BinarySurvives'
  <1> USE DEF BinarySurvives, Advance, Abort, Restore, Overwrite
  <1>0. disk \in Disks /\ work[r].tag # None
    BY ValuesAssumption DEF Safe, TypeOK, Versions
  <1>1. CASE CopyBinary(r) \/ MoveBinary(r) \/ ActivateBinary(r)
    BY <1>0, <1>1 DEF CopyBinary, MoveBinary, ActivateBinary, Disks
  <1>2. CASE StagePlaybooks(r) \/ MovePlaybooksAside(r) \/ SwapPlaybooks(r)
    BY <1>0, <1>2 DEF StagePlaybooks, MovePlaybooksAside, SwapPlaybooks, Disks
  <1>3. CASE BackUpNginx(r) \/ CopyConf(r) \/ CopyVhost(r) \/ ApplyServerName(r)
    BY <1>0, <1>3 DEF BackUpNginx, CopyConf, CopyVhost, ApplyServerName, Disks
  <1>4. CASE TestNginx(r) \/ RestoreConf(r) \/ RestoreVhost(r) \/ ReloadNginx(r)
    BY <1>0, <1>4 DEF TestNginx, RestoreConf, RestoreVhost, ReloadNginx, Disks
  <1>5. CASE CopyUnit(r) \/ DaemonReload(r) \/ WriteMarker(r)
    BY <1>0, <1>5 DEF CopyUnit, DaemonReload, WriteMarker, Disks
  <1>6. QED
    BY <1>1, <1>2, <1>3, <1>4, <1>5 DEF Install

\* At every moment, deaths included, the host has a binary to go back to.
THEOREM ABinarySurvives == Spec => []BinarySurvives
  <1>1. Init => BinarySurvives
    <2>1. 0 # None
      BY ValuesAssumption
    <2>2. Init => disk.binary = 0
      <3> SUFFICES ASSUME Init PROVE disk.binary = 0
        OBVIOUS
      <3> QED
        BY DEF Init, NoVhost
    <2>3. QED
      BY <2>1, <2>2 DEF BinarySurvives
  <1>2. Safe /\ BinarySurvives /\ [Next]_vars => BinarySurvives'
    <2> SUFFICES ASSUME Safe, BinarySurvives, [Next]_vars PROVE BinarySurvives'
      OBVIOUS
    <2>0. disk \in Disks
      BY DEF Safe, TypeOK
    <2>1. ASSUME NEW r \in Requests, Update(r) PROVE BinarySurvives'
      <3>1. CASE Install(r)
        BY <3>1, BinaryInstall
      <3>2. CASE FetchRelease(r) \/ Clean(r)
        BY <2>0, <3>2 DEF FetchRelease, Clean, EmptyStaging, Advance, Abort,
            BinarySurvives, Disks
      <3>3. CASE UNCHANGED disk
        BY <3>3 DEF BinarySurvives
      <3>4. QED
        BY <2>1, <3>1, <3>2, <3>3 DEF Update, Report, Start, Refuse, Accept, Begin,
            Succeed, FailJob, Release
    <2>2. CASE RemoveMarker
      BY <2>0, <2>2 DEF RemoveMarker, EmptyStaging, BinarySurvives, Disks
    <2>3. CASE UNCHANGED disk
      BY <2>3 DEF BinarySurvives
    <2>4. QED
      BY <2>1, <2>2, <2>3 DEF Next, vars, RestartHandler, RestartCheck, RestartRead,
          RestartIssue, SystemdRestart, Crash, Die, Boot, Reconcile, ResolveMarker,
          Sweep, Serve, Publish
  <1>3. QED
    BY <1>1, <1>2, AlwaysSafe, PTL DEF Spec

\* The marker names a job the store has handed out.
MarkerKnown == Armed => status[disk.marker.job] # "none"

LEMMA MarkerInstall ==
    ASSUME Safe, NEW r \in Requests, Install(r), MarkerKnown
    PROVE  MarkerKnown'
  <1> USE DEF MarkerKnown, Armed, Advance, Abort, Restore, Overwrite, store
  <1>0. disk \in Disks /\ status' = status
    BY InstallIsFrame DEF Safe, TypeOK, Frame
  <1>1. CASE WriteMarker(r)
    <2>1. status[work[r].job] = "running"
      BY <1>1 DEF WriteMarker, At, Safe, Ownership, Owning, Stages
    <2>2. CASE disk' = [disk EXCEPT !.marker = [job |-> work[r].job, release |-> work[r].tag]]
      BY <1>0, <2>1, <2>2 DEF Disks
    <2>3. CASE disk' = [disk EXCEPT !.marker = Torn] \/ disk' = disk
      BY <1>0, <2>3 DEF Disks
    <2>4. QED
      BY <1>1, <2>2, <2>3 DEF WriteMarker
  <1>2. CASE StagePlaybooks(r) \/ MovePlaybooksAside(r) \/ SwapPlaybooks(r)
    BY <1>0, <1>2 DEF StagePlaybooks, MovePlaybooksAside, SwapPlaybooks, Disks
  <1>3. CASE BackUpNginx(r) \/ CopyConf(r) \/ CopyVhost(r) \/ ApplyServerName(r)
    BY <1>0, <1>3 DEF BackUpNginx, CopyConf, CopyVhost, ApplyServerName, Disks
  <1>4. CASE TestNginx(r) \/ RestoreConf(r) \/ RestoreVhost(r) \/ ReloadNginx(r)
    BY <1>0, <1>4 DEF TestNginx, RestoreConf, RestoreVhost, ReloadNginx, Disks
  <1>5. CASE CopyBinary(r) \/ MoveBinary(r) \/ ActivateBinary(r)
    BY <1>0, <1>5 DEF CopyBinary, MoveBinary, ActivateBinary, Disks
  <1>6. CASE CopyUnit(r) \/ DaemonReload(r)
    BY <1>0, <1>6 DEF CopyUnit, DaemonReload, Disks
  <1>7. QED
    BY <1>1, <1>2, <1>3, <1>4, <1>5, <1>6 DEF Install

LEMMA MarkerNext == Safe /\ MarkerKnown /\ [Next]_vars => MarkerKnown'
  <1> SUFFICES ASSUME Safe, MarkerKnown, [Next]_vars PROVE MarkerKnown'
    OBVIOUS
  <1> USE DEF store, world, daemon
  <1>0. /\ disk \in Disks
        /\ status \in [Jobs -> {"none", "queued", "running", "succeeded", "failed"}]
        /\ Armed => disk.marker.job \in Jobs
    BY DEF Safe, TypeOK, Armed, Disks, Markers
  <1>1. CASE UNCHANGED disk /\ (\A j \in Jobs : status[j] # "none" => status'[j] # "none")
    BY <1>0, <1>1 DEF MarkerKnown, Armed
  <1>2. ASSUME NEW r \in Requests, Update(r) PROVE MarkerKnown'
    <2>1. CASE Install(r)
      BY <2>1, MarkerInstall
    <2>2. CASE FetchRelease(r) \/ Clean(r)
      BY <1>0, <2>2 DEF FetchRelease, Clean, EmptyStaging, Advance, Abort, MarkerKnown,
          Armed, Disks
    <2>3. CASE Start(r) \/ Refuse(r) \/ Accept(r) \/ Begin(r) \/ Succeed(r) \/ FailJob(r)
               \/ Release(r)
      BY <1>0, <1>1, <2>3 DEF Start, Refuse, Accept, Begin, Succeed, FailJob, Release
    <2>4. QED
      BY <1>2, <2>1, <2>2, <2>3 DEF Update, Report
  <1>3. CASE RemoveMarker
    BY <1>0, <1>3 DEF RemoveMarker, EmptyStaging, MarkerKnown, Armed, Disks
  <1>4. CASE ResolveMarker \/ Sweep \/ Serve
    BY <1>0, <1>1, <1>4 DEF ResolveMarker, Sweep, Serve
  <1>5. QED
    BY <1>1, <1>2, <1>3, <1>4 DEF Next, vars, RestartHandler, RestartCheck, RestartRead,
        RestartIssue, SystemdRestart, Crash, Die, Boot, Reconcile, Publish

\* What pollers see of the jobs is what JobLifecycle allows.
THEOREM LifecycleImplemented == Spec => ImplementsLifecycle
  <1>1. Init => Lifecycle!Init /\ MarkerKnown
    <2>1. Init => disk.marker = None
      <3> SUFFICES ASSUME Init, disk \in Disks PROVE disk.marker = None
        BY SafeInit DEF Safe, TypeOK
      <3> QED
        BY DEF Init, NoVhost, Disks
    <2>2. Init => Lifecycle!Init
      BY DEF Init, Lifecycle!Init
    <2>3. QED
      BY <2>1, <2>2 DEF MarkerKnown, Armed
  <1>2. Safe /\ MarkerKnown /\ [Next]_vars => [Lifecycle!Next]_status
    <2> SUFFICES ASSUME Safe, MarkerKnown, [Next]_vars
                 PROVE  Lifecycle!Next \/ status' = status
      OBVIOUS
    <2> USE DEF Lifecycle!Next, Lifecycle!Create, Lifecycle!Begin, Lifecycle!Succeed,
                Lifecycle!Fail, Lifecycle!Move, store
    <2>0. status \in [Jobs -> {"none", "queued", "running", "succeeded", "failed"}]
      BY DEF Safe, TypeOK
    <2>1. ASSUME NEW r \in Requests, Update(r)
          PROVE  Lifecycle!Next \/ status' = status
      <3>1. CASE Install(r)
        BY <3>1, InstallIsFrame DEF Frame
      <3>2. CASE Accept(r)
        BY <3>2 DEF Accept
      <3>3. CASE Begin(r) \/ Succeed(r) \/ FailJob(r)
        <4>1. Owning(r) /\ (Begin(r) => pc[r] = "queued")
                        /\ (Succeed(r) => pc[r] = "succeed")
                        /\ (FailJob(r) => pc[r] = "fail")
          BY <3>3 DEF Begin, Succeed, FailJob, At, Owning, Stages
        <4>2. /\ work[r].job \in Jobs
              /\ Begin(r) => status[work[r].job] = "queued"
              /\ Succeed(r) \/ FailJob(r) => status[work[r].job] = "running"
          BY <4>1 DEF Safe, Ownership
        <4>3. QED
          BY <3>3, <4>2 DEF Begin, Succeed, FailJob
      <3>4. QED
        BY <2>1, <3>1, <3>2, <3>3 DEF Update, Start, Refuse, FetchRelease, Report,
            Clean, Release, Advance, Abort
    <2>2. CASE ResolveMarker
      <3>1. Armed => disk.marker.job \in Jobs
        BY DEF Safe, TypeOK, Armed, Disks, Markers
      <3>2. CASE Armed /\ disk.marker.release # version
        <4>1. status' = [status EXCEPT ![disk.marker.job] = "failed"]
          BY <2>2, <3>2 DEF ResolveMarker
        <4>2. CASE status[disk.marker.job] = "failed"
          BY <2>0, <4>1, <4>2
        <4>3. CASE status[disk.marker.job] # "failed"
          BY <2>0, <3>1, <3>2, <4>1, <4>3 DEF MarkerKnown
        <4>4. QED
          BY <4>2, <4>3
      <3>3. CASE ~(Armed /\ disk.marker.release # version)
        BY <2>2, <3>3 DEF ResolveMarker
      <3>4. QED
        BY <3>2, <3>3
    <2>3. CASE Sweep
      BY <2>3 DEF Sweep, Unfinished
    <2>4. QED
      BY <2>1, <2>2, <2>3 DEF Next, vars, RestartHandler, RestartCheck, RestartRead,
          RestartIssue, SystemdRestart, Crash, Die, Boot, Reconcile, RemoveMarker, Serve,
          Publish
  <1>3. QED
    BY <1>1, <1>2, MarkerNext, AlwaysSafe, PTL DEF Spec, ImplementsLifecycle, Lifecycle!Spec

-----------------------------------------------------------------------------
(* Whom the marker names, and why a restart demotes no unfinished job.      *)

Named ==
    /\ proc \in {"resolve", "remove"} => version = disk.binary
    /\ proc = "sweep" => disk.marker = None
    /\ \A r \in Requests : Owning(r) /\ Armed /\ disk.marker.job = work[r].job =>
          pc[r] = "succeed"
    /\ proc # "up" /\ Armed /\ Unfinished(disk.marker.job) =>
          disk.binary = disk.marker.release
    /\ Armed /\ status[disk.marker.job] = "failed" => error[disk.marker.job] = "version"

Marked == Working /\ MarkerKnown /\ Named

LEMMA MarkerFacts ==
    ASSUME TypeOK
    PROVE  /\ disk \in Disks
           /\ status \in [Jobs -> {"none", "queued", "running", "succeeded", "failed"}]
           /\ error \in [Jobs -> Errors]
           /\ Armed => disk.marker.job \in Jobs
BY DEF TypeOK, Armed, Disks, Markers

\* A step of install names its own job, at the end, or no other than before.
LEMMA InstallNames ==
    ASSUME Safe, NEW r \in Requests, Install(r)
    PROVE  \/ disk'.marker = disk.marker
           \/ disk'.marker = Torn
           \/ /\ disk'.marker = [job |-> work[r].job, release |-> work[r].tag]
              /\ pc'[r] = "succeed"
<1> USE DEF Advance, Abort, Restore, Overwrite, At, Goto
<1>0. disk \in Disks /\ pc \in [Requests -> Stages]
  BY DEF Safe, TypeOK
<1>1. CASE WriteMarker(r)
  BY <1>0, <1>1 DEF WriteMarker, Disks
<1>2. CASE StagePlaybooks(r) \/ MovePlaybooksAside(r) \/ SwapPlaybooks(r)
  BY <1>0, <1>2 DEF StagePlaybooks, MovePlaybooksAside, SwapPlaybooks, Disks
<1>3. CASE BackUpNginx(r) \/ CopyConf(r) \/ CopyVhost(r) \/ ApplyServerName(r)
  BY <1>0, <1>3 DEF BackUpNginx, CopyConf, CopyVhost, ApplyServerName, Disks
<1>4. CASE TestNginx(r) \/ RestoreConf(r) \/ RestoreVhost(r) \/ ReloadNginx(r)
  BY <1>0, <1>4 DEF TestNginx, RestoreConf, RestoreVhost, ReloadNginx, Disks
<1>5. CASE CopyBinary(r) \/ MoveBinary(r) \/ ActivateBinary(r)
  BY <1>0, <1>5 DEF CopyBinary, MoveBinary, ActivateBinary, Disks
<1>6. CASE CopyUnit(r) \/ DaemonReload(r)
  BY <1>0, <1>6 DEF CopyUnit, DaemonReload, Disks
<1> QED  BY <1>1, <1>2, <1>3, <1>4, <1>5, <1>6 DEF Install

LEMMA NamedInstall ==
    ASSUME Marked, NEW r \in Requests, Install(r)
    PROVE  Named'
<1>0. Frame(r) /\ Safe /\ Safe'
  BY InstallIsFrame, SafeInstall DEF Marked, Working
<1>1. /\ UNCHANGED <<proc, status, error>> /\ proc = "up"
      /\ pc[r] \in Busy \ {"fail"} /\ pc'[r] \in Busy \cup {"succeed"}
      /\ \A s \in Requests \ {r} : pc[s] = "idle" /\ pc'[s] = "idle"
      /\ work'[r].job = work[r].job /\ work[r].job \in Jobs
      /\ status[work[r].job] = "running"
  BY <1>0 DEF Frame, daemon, store, Safe, Lock, OneInstaller, Active, Ownership, Owning,
     Busy, Stages
<1>2. Armed' /\ disk'.marker = disk.marker => Armed
  BY DEF Armed
<1>3. ~(disk'.marker = Torn /\ Armed')
  BY DEF Armed
<1>4. CASE disk'.marker = disk.marker \/ disk'.marker = Torn
  <2>1. Owning(r) /\ pc[r] # "succeed"
    BY <1>1 DEF Owning, Busy, Stages
  <2>2. ~(Armed' /\ disk'.marker.job = work'[r].job)
    BY <1>1, <1>2, <1>3, <1>4, <2>1 DEF Marked, Named
  <2> QED  BY <1>1, <1>2, <1>3, <1>4, <2>2 DEF Marked, Named, Owning, Stages
<1>5. CASE /\ disk'.marker = [job |-> work[r].job, release |-> work[r].tag]
           /\ pc'[r] = "succeed"
  BY <1>1, <1>5 DEF Named, Owning, Stages
<1> QED  BY <1>0, <1>4, <1>5, InstallNames

LEMMA NamedUpdate ==
    ASSUME Marked, NEW r \in Requests, Update(r)
    PROVE  Named'
<1> USE DEF daemon, store, world, At, Goto, Advance, Abort
<1>0. /\ disk \in Disks /\ pc \in [Requests -> Stages]
      /\ status \in [Jobs -> {"none", "queued", "running", "succeeded", "failed"}]
      /\ error \in [Jobs -> Errors]
      /\ Armed => disk.marker.job \in Jobs
      /\ work \in [Requests -> [tag : Versions, job : Jobs \cup {None},
                                named : BOOLEAN, err : Errors]]
      /\ \A s \in Requests \ {r} : pc'[s] = "idle"
      /\ Safe /\ Named
  BY MarkerFacts, ProgressOthers DEF Marked, Working, Safe, TypeOK
<1>00. proc = "up" /\ proc' = "up"
  BY <1>0 DEF Update, Install, Start, Refuse, Accept, Begin, FetchRelease, Report,
     Succeed, FailJob, Clean, Release, Safe, Lock, Active, StagePlaybooks,
     MovePlaybooksAside, SwapPlaybooks, BackUpNginx, CopyConf, CopyVhost,
     ApplyServerName, TestNginx, RestoreConf, RestoreVhost, ReloadNginx, CopyBinary,
     MoveBinary, ActivateBinary, CopyUnit, DaemonReload, WriteMarker, Overwrite, Restore
<1>1. CASE Install(r)
  BY <1>1, NamedInstall
<1>2. CASE Start(r) \/ Refuse(r)
  <2>1. pc'[r] \in {"check", "idle"} /\ UNCHANGED <<disk, status, error, work>>
    BY <1>0, <1>2 DEF Start, Refuse
  <2> QED  BY <1>0, <1>00, <2>1 DEF Named, Owning, Armed
<1>3. CASE Accept(r)
  <2>1. PICK j \in Jobs : status[j] = "none" /\ status' = [status EXCEPT ![j] = "queued"]
                          /\ work' = [work EXCEPT ![r].tag = latest, ![r].job = j]
    BY <1>3 DEF Accept
  <2>2. work'[r].job = j /\ UNCHANGED <<disk, error>>
    BY <1>0, <1>3, <2>1 DEF Accept
  <2>3. Armed => disk.marker.job # j
    BY <2>1 DEF Marked, MarkerKnown
  <2> QED  BY <1>0, <1>00, <2>1, <2>2, <2>3 DEF Named, Owning, Armed
<1>4. CASE Begin(r) \/ FetchRelease(r)
  <2>1. /\ pc[r] \in {"queued", "fetch"} /\ work'[r].job = work[r].job
        /\ disk'.marker = disk.marker /\ error' = error
        /\ status' \in {status, [status EXCEPT ![work[r].job] = "running"]}
    <3>1. CASE Begin(r)
      BY <1>0, <3>1 DEF Begin
    <3>2. CASE FetchRelease(r)
      <4>1. disk'.marker = disk.marker
        BY <1>0, <3>2 DEF FetchRelease, Disks
      <4>2. work'[r].job = work[r].job
        BY <1>0, <3>2 DEF FetchRelease
      <4> QED  BY <3>2, <4>1, <4>2 DEF FetchRelease
    <3> QED  BY <1>4, <3>1, <3>2
  <2>2. Armed => disk.marker.job # work[r].job
    BY <1>0, <2>1 DEF Named, Owning, Stages
  <2> QED  BY <1>0, <1>00, <2>1, <2>2 DEF Named, Owning, Armed
<1>5. CASE Succeed(r)
  <2>1. pc'[r] = "clean" /\ UNCHANGED disk /\ work[r].job \in Jobs
        /\ status' = [status EXCEPT ![work[r].job] = "succeeded"]
        /\ error' = [error EXCEPT ![work[r].job] = ""]
    <3>1. pc[r] = "succeed"
      BY <1>5 DEF Succeed
    <3>2. work[r].job \in Jobs
      BY <1>0, <3>1 DEF Safe, Ownership, Owning, Stages
    <3> QED  BY <1>0, <1>5, <3>2 DEF Succeed
  <2> QED  BY <1>0, <1>00, <2>1 DEF Named, Owning, Armed
<1>6. CASE FailJob(r)
  <2>1. pc[r] = "fail" /\ pc'[r] = "clean" /\ UNCHANGED disk /\ work[r].job \in Jobs
        /\ status' = [status EXCEPT ![work[r].job] = "failed"]
        /\ error' = [error EXCEPT ![work[r].job] = work[r].err]
    BY <1>0, <1>6 DEF FailJob, Safe, Ownership, Owning, Stages
  <2>2. Armed => disk.marker.job # work[r].job
    BY <1>0, <2>1 DEF Named, Owning, Stages
  <2> QED  BY <1>0, <1>00, <2>1, <2>2 DEF Named, Owning, Armed
<1>7. CASE Clean(r) \/ Release(r)
  <2>1. pc'[r] \in {"release", "idle"} /\ disk'.marker = disk.marker
        /\ UNCHANGED <<status, error>>
    BY <1>0, <1>7 DEF Clean, EmptyStaging, Release, Disks
  <2> QED  BY <1>0, <1>00, <2>1 DEF Named, Owning, Armed
<1> QED
  BY <1>1, <1>2, <1>3, <1>4, <1>5, <1>6, <1>7 DEF Update, Report

LEMMA NamedNext == Marked /\ [Next]_vars => Named'
<1> SUFFICES ASSUME Marked, [Next]_vars PROVE Named'
  OBVIOUS
<1> USE DEF daemon, store, world
<1>0. /\ disk \in Disks /\ Safe /\ Named /\ TypeOK
      /\ status \in [Jobs -> {"none", "queued", "running", "succeeded", "failed"}]
      /\ error \in [Jobs -> Errors]
      /\ Armed => disk.marker.job \in Jobs
  BY MarkerFacts DEF Marked, Working, Safe
<1>1. ASSUME NEW r \in Requests, Update(r) PROVE Named'
  BY <1>1, NamedUpdate
<1>2. CASE Die /\ UNCHANGED disk
  <2>1. ASSUME Armed, Unfinished(disk.marker.job)
        PROVE  disk.binary = disk.marker.release
    <3>1. CASE proc = "up"
      <4>1. PICK r \in Requests : Owning(r) /\ work[r].job = disk.marker.job
        BY <1>0, <2>1, <3>1 DEF Safe, Ownership
      <4>2. pc[r] = "succeed"
        BY <1>0, <2>1, <4>1 DEF Named
      <4>3. disk.binary = work[r].tag
            /\ disk.marker = [job |-> work[r].job, release |-> work[r].tag]
        BY <4>2 DEF Marked, Working, Progress, Tail1, Tail0
      <4> QED  BY <4>3
    <3>2. CASE proc # "up"
      BY <1>0, <2>1, <3>2 DEF Named
    <3> QED  BY <3>1, <3>2
  <2>2. /\ proc' = "down" /\ UNCHANGED <<status, error>>
        /\ \A r \in Requests : ~Owning(r)'
    BY <1>2 DEF Die, Owning
  <2> QED  BY <1>0, <1>2, <2>1, <2>2 DEF Named, Armed, Unfinished
<1>3. CASE Boot
  BY <1>0, <1>3 DEF Boot, Named, Armed, Unfinished, Owning
<1>4. \A r \in Requests : proc # "up" => ~Owning(r)
  BY <1>0 DEF Safe, Lock, Active, Owning
<1>5. CASE ResolveMarker
  <2>1. CASE Armed /\ disk.marker.release # version
    <3>1. /\ status' = [status EXCEPT ![disk.marker.job] = "failed"]
          /\ error' = [error EXCEPT ![disk.marker.job] = "version"]
          /\ proc = "resolve" /\ proc' = "remove" /\ UNCHANGED <<disk, version, pc, work>>
      BY <1>5, <2>1 DEF ResolveMarker
    <3>2. ~Unfinished(disk.marker.job)'
      BY <1>0, <2>1, <3>1 DEF Unfinished
    <3> QED  BY <1>0, <1>4, <2>1, <3>1, <3>2 DEF Named, Armed, Owning
  <2>2. CASE ~(Armed /\ disk.marker.release # version)
    <3>1. UNCHANGED <<status, error, disk, version, pc, work>>
          /\ proc = "resolve" /\ proc' = "remove"
      BY <1>5, <2>2 DEF ResolveMarker
    <3> QED  BY <1>0, <3>1 DEF Named, Armed, Unfinished, Owning
  <2> QED  BY <2>1, <2>2
<1>6. CASE RemoveMarker
  <2>1. disk'.marker = None /\ proc' = "sweep" /\ UNCHANGED <<pc, work>> /\ proc # "up"
    BY <1>0, <1>6 DEF RemoveMarker, EmptyStaging, Disks
  <2> QED  BY <1>4, <2>1 DEF Named, Armed, Owning
<1>7. CASE Sweep
  <2>1. disk.marker = None /\ UNCHANGED <<disk, proc, pc, work>> /\ proc = "sweep"
    BY <1>0, <1>7 DEF Sweep, Named
  <2> QED  BY <1>4, <2>1 DEF Named, Armed, Owning
<1>8. CASE Serve
  <2>1. disk.marker = None /\ UNCHANGED <<disk, pc, work>> /\ proc' = "up" /\ proc # "up"
    BY <1>0, <1>8 DEF Serve, Named
  <2> QED  BY <1>4, <2>1 DEF Named, Armed, Owning
<1>9. CASE UNCHANGED <<proc, version, disk, status, error, pc, work>>
  BY <1>0, <1>9 DEF Named, Armed, Unfinished, Owning
<1> QED
  BY <1>1, <1>2, <1>3, <1>5, <1>6, <1>7, <1>8, <1>9 DEF Next, vars, RestartHandler,
     RestartCheck, RestartRead, RestartIssue, SystemdRestart, Crash, Die, Reconcile,
     Publish

LEMMA AlwaysMarked == Spec => []Marked
<1>1. Init => Working /\ MarkerKnown /\ Named
  <2> SUFFICES ASSUME Init PROVE Working /\ MarkerKnown /\ Named
    OBVIOUS
  <2>1. Working
    BY SafeInit DEF Init, Working, Progress, Installing, Tail0, Tail1, Tail2, Tail3,
       Tail4, Tail5
  <2>2. disk \in Disks
    BY SafeInit DEF Safe, TypeOK
  <2>3. disk.marker = None /\ proc = "up"
    BY <2>2 DEF Init, NoVhost, Disks
  <2>4. ~Armed
    BY <2>3 DEF Armed
  <2> QED  BY <2>1, <2>3, <2>4 DEF MarkerKnown, Named
<1>2. Marked /\ [Next]_vars => Working' /\ MarkerKnown' /\ Named'
  BY WorkingNext, MarkerNext, NamedNext DEF Marked, Working
<1> QED  BY <1>1, <1>2, PTL DEF Spec, Marked

-----------------------------------------------------------------------------
(* The files of nginx, as long as no failure but those that spare them.     *)

Sparing == {"fetch", "playbooks", "nginx-test", "binary", "unit", "version"}

NoDamage == \A j \in Jobs : status[j] = "failed" => error[j] \in Sparing

Intact == disk.conf = disk.vhost.release /\ disk.conf # Torn /\ disk.vhost.named = TRUE

BackedUp ==
    /\ disk.confBackup = disk.vhostBackup.release
    /\ disk.confBackup # Torn /\ disk.vhostBackup.named = TRUE

\* Outside of these stages the live files are whole.
Copying == {"conf", "confWrite", "vhost", "vhostWrite", "name", "nameWrite"}
Undoing == {"undoConf", "undoVhost"}

Nginx(r) ==
    /\ pc[r] \notin Copying \cup Undoing \cup {"fail"} => Intact
    /\ pc[r] \in Copying \cup Undoing \cup {"test"} => BackedUp
    /\ pc[r] \in Copying => work[r].named = TRUE
    /\ pc[r] = "undoConf" => work[r].err = "nginx-test"
    /\ pc[r] = "undoVhost" =>
          \/ work[r].err = "nginx-test" /\ disk.conf = disk.confBackup
          \/ work[r].err = "nginx-restore"
    /\ pc[r] = "fail" /\ work[r].err \in Sparing => Intact

LEMMA NginxInstall ==
    ASSUME Safe, NEW r \in Requests, Progress(r), Nginx(r), Install(r)
    PROVE  Nginx(r)'
<1> USE DEF Nginx, Copying, Undoing, Sparing, Advance, Abort, Restore, Overwrite, At,
            Goto, Intact, BackedUp
<1>0. /\ disk \in Disks
      /\ DOMAIN pc = Requests /\ pc = [s \in Requests |-> pc[s]]
      /\ work \in [Requests -> [tag : Versions, job : Jobs \cup {None},
                                named : BOOLEAN, err : Errors]]
      /\ work[r].tag # Torn
  BY ValuesAssumption DEF Safe, TypeOK, Versions
<1>1. CASE StagePlaybooks(r) \/ MovePlaybooksAside(r) \/ SwapPlaybooks(r)
  BY <1>0, <1>1 DEF StagePlaybooks, MovePlaybooksAside, SwapPlaybooks, Disks
<1>2. CASE BackUpNginx(r)
  <2>1. CASE Abort(r, "backup", disk, "nginx")
    BY <1>0, <2>1
  <2>2. CASE ~Abort(r, "backup", disk, "nginx")
    <3>1. /\ pc[r] = "backup" /\ pc' = [pc EXCEPT ![r] = "conf"]
          /\ disk' = [disk EXCEPT !.confBackup = disk.conf, !.vhostBackup = disk.vhost]
          /\ work' = [work EXCEPT ![r].named = disk.vhost.named]
      BY <1>2, <2>2 DEF BackUpNginx
    <3>2. pc'[r] = "conf" /\ work'[r].named = disk.vhost.named
      BY <1>0, <3>1
    <3>3. disk'.confBackup = disk.conf /\ disk'.vhostBackup = disk.vhost
      BY <1>0, <3>1 DEF Disks
    <3> QED  BY <3>1, <3>2, <3>3
  <2> QED  BY <2>1, <2>2
<1>3. CASE CopyConf(r)
  BY <1>0, <1>3 DEF CopyConf, Disks
<1>4. CASE CopyVhost(r)
  BY <1>0, <1>4 DEF CopyVhost, Disks
<1>5. CASE ApplyServerName(r)
  <2>1. pc[r] \in {"name", "nameWrite"}
    BY <1>5 DEF ApplyServerName
  <2>2. disk.conf = work[r].tag
    BY <2>1 DEF Progress, Tail4, Tail3, Tail2, Tail1, Tail0
  <2> QED  BY <1>0, <1>5, <2>2 DEF ApplyServerName, Disks
<1>6. CASE TestNginx(r)
  BY <1>0, <1>6 DEF TestNginx, Disks
<1>7. CASE RestoreConf(r)
  BY <1>0, <1>7 DEF RestoreConf, Disks
<1>8. CASE RestoreVhost(r)
  BY <1>0, <1>8 DEF RestoreVhost, Disks
<1>9. CASE ReloadNginx(r)
  BY <1>0, <1>9 DEF ReloadNginx, Disks
<1>10. CASE CopyBinary(r) \/ MoveBinary(r) \/ ActivateBinary(r)
  BY <1>0, <1>10 DEF CopyBinary, MoveBinary, ActivateBinary, Disks
<1>11. CASE CopyUnit(r) \/ DaemonReload(r) \/ WriteMarker(r)
  BY <1>0, <1>11 DEF CopyUnit, DaemonReload, WriteMarker, Disks
<1> QED
  BY <1>1, <1>2, <1>3, <1>4, <1>5, <1>6, <1>7, <1>8, <1>9, <1>10, <1>11 DEF Install

\* Nothing is owed and nobody is at work.
Quiet == (\A j \in Jobs : ~Unfinished(j)) /\ (\A r \in Requests : ~Active(r))

Sound == NoDamage => (Quiet => Intact) /\ (\A r \in Requests : Active(r) => Nginx(r))

LEMMA IdleIsQuiet ==
    ASSUME Safe, proc = "up", \A r \in Requests : ~Active(r)
    PROVE  Quiet
BY DEF Safe, Ownership, Owning, Active, Quiet

\* Who dies with nothing owed was before or after its install.
LEMMA OwedUnlessAside ==
    ASSUME Safe, NEW r \in Requests, Active(r), \A j \in Jobs : ~Unfinished(j)
    PROVE  pc[r] \in {"check", "clean", "release"}
<1>1. Owning(r) => Unfinished(work[r].job) /\ work[r].job \in Jobs
  BY DEF Safe, Ownership, Unfinished
<1>2. pc[r] \in Stages
  BY DEF Safe, TypeOK
<1> QED  BY <1>1, <1>2 DEF Owning, Active

LEMMA SoundUpdate ==
    ASSUME Marked, Sound, NEW r \in Requests, Update(r)
    PROVE  Sound'
<1> USE DEF daemon, store, world, At, Goto, Advance, Abort
<1>0. /\ disk \in Disks /\ pc \in [Requests -> Stages] /\ Safe /\ Progress(r)
      /\ status \in [Jobs -> {"none", "queued", "running", "succeeded", "failed"}]
      /\ error \in [Jobs -> Errors]
      /\ work \in [Requests -> [tag : Versions, job : Jobs \cup {None},
                                named : BOOLEAN, err : Errors]]
      /\ \A s \in Requests \ {r} : pc'[s] = "idle"
  BY MarkerFacts, ProgressOthers DEF Marked, Working, Safe, TypeOK
<1>1. ASSUME NoDamage => (pc'[r] # "idle" => Nginx(r)') /\ (pc'[r] = "idle" => Intact'),
             NoDamage' => NoDamage
      PROVE  Sound'
  BY <1>0, <1>1 DEF Sound, Quiet, Active
<1>2. ASSUME status' = status, error' = error PROVE NoDamage' => NoDamage
  BY <1>2 DEF NoDamage
<1>3. CASE Start(r)
  <2>1. pc[r] = "idle" /\ ~running /\ pc'[r] = "check"
        /\ UNCHANGED <<disk, status, error, work>> /\ proc = "up"
    BY <1>0, <1>3 DEF Start
  <2>2. Quiet
    BY <1>0, <2>1, IdleIsQuiet DEF Safe, Lock, OneInstaller
  <2>3. NoDamage => Nginx(r)'
    BY <2>1, <2>2 DEF Sound, Nginx, Copying, Undoing, Intact
  <2> QED  BY <1>1, <1>2, <2>1, <2>3
<1>4. CASE Refuse(r) \/ Clean(r) \/ Release(r)
  <2>1. /\ pc[r] \in {"check", "clean", "release"} /\ pc'[r] \in {"idle", "release"}
        /\ UNCHANGED <<status, error>>
        /\ disk'.conf = disk.conf /\ disk'.vhost = disk.vhost
    BY <1>0, <1>4 DEF Refuse, Clean, EmptyStaging, Release, Disks
  <2>2. NoDamage => Intact
    BY <2>1 DEF Sound, Active, Nginx, Copying, Undoing
  <2>3. NoDamage => Intact'
    BY <2>1, <2>2 DEF Intact
  <2> QED  BY <1>1, <1>2, <2>1, <2>3 DEF Nginx, Copying, Undoing
<1>5. CASE Accept(r) \/ Begin(r)
  <2>1. /\ pc[r] \in {"check", "queued"} /\ pc'[r] \in {"queued", "fetch"}
        /\ UNCHANGED <<disk, error>>
        /\ \A j \in Jobs : status'[j] \in {status[j], "queued", "running"}
    BY <1>0, <1>5 DEF Accept, Begin
  <2>2. NoDamage' => NoDamage
    <3>1. \A j \in Jobs : status[j] = "failed" => status'[j] = "failed"
      <4>1. CASE Accept(r)
        BY <1>0, <4>1 DEF Accept
      <4>2. CASE Begin(r)
        <5>1. status[work[r].job] = "queued"
          BY <1>0, <4>2 DEF Begin, Safe, Ownership, Owning, Stages
        <5> QED  BY <1>0, <4>2, <5>1 DEF Begin
      <4> QED  BY <1>5, <4>1, <4>2
    <3> QED  BY <2>1, <3>1 DEF NoDamage
  <2>3. NoDamage => Intact
    BY <2>1 DEF Sound, Active, Nginx, Copying, Undoing
  <2>4. NoDamage => Intact'
    BY <2>1, <2>3 DEF Intact
  <2> QED  BY <1>1, <2>1, <2>2, <2>4 DEF Nginx, Copying, Undoing
<1>6. CASE FetchRelease(r)
  <2>1. /\ pc[r] = "fetch" /\ pc'[r] \in {"stage", "fail"} /\ UNCHANGED <<status, error>>
    BY <1>0, <1>6 DEF FetchRelease
  <2>2. disk'.conf = disk.conf /\ disk'.vhost = disk.vhost
    BY <1>0, <1>6 DEF FetchRelease, Disks
  <2>3. NoDamage => Intact
    BY <2>1 DEF Sound, Active, Nginx, Copying, Undoing
  <2>4. NoDamage => Intact'
    BY <2>2, <2>3 DEF Intact
  <2> QED  BY <1>1, <1>2, <2>1, <2>4 DEF Nginx, Copying, Undoing
<1>7. CASE Install(r)
  <2>1. Frame(r)
    BY <1>0, <1>7, InstallIsFrame
  <2>2. pc[r] # "idle" /\ pc'[r] # "idle" /\ UNCHANGED <<status, error>>
    BY <2>1 DEF Frame, Busy, Stages
  <2>3. NoDamage => Nginx(r)'
    BY <1>0, <1>7, <2>2, NginxInstall DEF Sound, Active
  <2> QED  BY <1>1, <1>2, <2>2, <2>3
<1>8. CASE Succeed(r)
  <2>1. /\ pc[r] = "succeed" /\ pc'[r] = "clean" /\ UNCHANGED disk
        /\ status' = [status EXCEPT ![work[r].job] = "succeeded"]
        /\ error' = [error EXCEPT ![work[r].job] = ""]
    BY <1>0, <1>8 DEF Succeed
  <2>2. work[r].job \in Jobs /\ status[work[r].job] = "running"
    BY <1>0, <2>1 DEF Safe, Ownership, Owning, Stages
  <2>3. NoDamage' => NoDamage
    BY <1>0, <2>1, <2>2 DEF NoDamage
  <2>4. NoDamage => Intact
    BY <2>1 DEF Sound, Active, Nginx, Copying, Undoing
  <2>5. NoDamage => Intact'
    BY <2>1, <2>4 DEF Intact
  <2> QED  BY <1>1, <2>1, <2>3, <2>5 DEF Nginx, Copying, Undoing
<1>9. CASE FailJob(r)
  <2>1. /\ pc[r] = "fail" /\ pc'[r] = "clean" /\ UNCHANGED disk
        /\ status' = [status EXCEPT ![work[r].job] = "failed"]
        /\ error' = [error EXCEPT ![work[r].job] = work[r].err]
    BY <1>0, <1>9 DEF FailJob
  <2>2. work[r].job \in Jobs /\ status[work[r].job] = "running"
    BY <1>0, <2>1 DEF Safe, Ownership, Owning, Stages
  <2>3. NoDamage' => NoDamage /\ work[r].err \in Sparing
    BY <1>0, <2>1, <2>2 DEF NoDamage
  <2>4. NoDamage /\ work[r].err \in Sparing => Intact
    BY <2>1 DEF Sound, Active, Nginx
  <2>5. NoDamage' => Nginx(r)'
    BY <2>1, <2>3, <2>4 DEF Nginx, Copying, Undoing, Intact
  <2> QED  BY <1>0, <2>1, <2>5 DEF Sound, Quiet, Active
<1> QED
  BY <1>3, <1>4, <1>5, <1>6, <1>7, <1>8, <1>9 DEF Update, Report

LEMMA SoundNext == Marked /\ Sound /\ [Next]_vars => Sound'
<1> SUFFICES ASSUME Marked, Sound, [Next]_vars PROVE Sound'
  OBVIOUS
<1> USE DEF daemon, store, world
<1>0. /\ disk \in Disks /\ Safe /\ Named /\ TypeOK
      /\ status \in [Jobs -> {"none", "queued", "running", "succeeded", "failed"}]
      /\ error \in [Jobs -> Errors]
      /\ Armed => disk.marker.job \in Jobs
      /\ proc # "up" => \A r \in Requests : ~Active(r)
  BY MarkerFacts DEF Marked, Working, Safe, Lock
<1>1. ASSUME NEW r \in Requests, Update(r) PROVE Sound'
  BY <1>1, SoundUpdate
<1>2. CASE Die /\ UNCHANGED disk
  <2>1. UNCHANGED <<status, error>> /\ \A r \in Requests : ~Active(r)'
    BY <1>2 DEF Die, Active
  <2>2. NoDamage /\ (\A j \in Jobs : ~Unfinished(j)) => Intact
    <3> SUFFICES ASSUME NoDamage, \A j \in Jobs : ~Unfinished(j) PROVE Intact
      OBVIOUS
    <3>1. CASE \E r \in Requests : Active(r)
      <4>1. PICK r \in Requests : Active(r)
        BY <3>1
      <4>2. pc[r] \in {"check", "clean", "release"}
        BY <1>0, <4>1, OwedUnlessAside
      <4> QED  BY <4>1, <4>2 DEF Sound, Nginx, Copying, Undoing
    <3>2. CASE ~\E r \in Requests : Active(r)
      BY <3>2 DEF Sound, Quiet
    <3> QED  BY <3>1, <3>2
  <2> QED  BY <1>2, <2>1, <2>2 DEF Sound, Quiet, Unfinished, NoDamage, Intact
<1>3. CASE ResolveMarker
  <2>1. CASE Armed /\ disk.marker.release # version
    <3>1. /\ status' = [status EXCEPT ![disk.marker.job] = "failed"]
          /\ error' = [error EXCEPT ![disk.marker.job] = "version"]
          /\ proc = "resolve" /\ UNCHANGED <<disk, pc, work>>
      BY <1>3, <2>1 DEF ResolveMarker
    <3>2. ~Unfinished(disk.marker.job)
      BY <1>0, <2>1, <3>1 DEF Named
    <3>3. NoDamage' => NoDamage
      BY <1>0, <2>1, <3>1 DEF NoDamage, Named, Sparing
    <3>4. Quiet' => Quiet
      BY <1>0, <2>1, <3>1, <3>2 DEF Quiet, Unfinished, Active
    <3> QED  BY <1>0, <3>1, <3>3, <3>4 DEF Sound, Intact, Active
  <2>2. CASE ~(Armed /\ disk.marker.release # version)
    <3>1. UNCHANGED <<status, error, disk, pc, work>>
      BY <1>3, <2>2 DEF ResolveMarker
    <3> QED  BY <3>1 DEF Sound, Quiet, Unfinished, Active, NoDamage, Intact, Nginx, BackedUp
  <2> QED  BY <2>1, <2>2
<1>4. CASE RemoveMarker
  <2>1. /\ disk'.conf = disk.conf /\ disk'.vhost = disk.vhost /\ proc # "up"
        /\ UNCHANGED <<status, error, pc, work>>
    BY <1>0, <1>4 DEF RemoveMarker, EmptyStaging, Disks
  <2> QED  BY <1>0, <2>1 DEF Sound, Quiet, Unfinished, Active, NoDamage, Intact
<1>5. CASE Sweep
  <2>1. PICK j \in Jobs : /\ Unfinished(j)
                          /\ status' = [status EXCEPT ![j] = "failed"]
                          /\ error' = [error EXCEPT ![j] = "interrupted"]
    BY <1>5 DEF Sweep
  <2>2. ~NoDamage'
    BY <1>0, <2>1 DEF NoDamage, Sparing
  <2> QED  BY <2>2 DEF Sound
<1>6. CASE UNCHANGED <<disk, status, error, pc, work>>
  BY <1>6 DEF Sound, Quiet, Unfinished, Active, NoDamage, Intact, Nginx, BackedUp
<1> QED
  BY <1>1, <1>2, <1>3, <1>4, <1>5, <1>6 DEF Next, vars, RestartHandler,
     RestartCheck, RestartRead, RestartIssue, SystemdRestart, Crash, Die, Reconcile,
     Boot, Serve, Publish

LEMMA AlwaysSound == Spec => [](Marked /\ Sound)
<1>1. Init => Sound
  <2> SUFFICES ASSUME Init PROVE Sound
    OBVIOUS
  <2>1. disk \in Disks /\ 0 # Torn
    BY SafeInit, ValuesAssumption DEF Safe, TypeOK
  <2>2. disk.conf = 0 /\ disk.vhost = [release |-> 0, named |-> TRUE]
    BY <2>1 DEF Init, NoVhost, Disks
  <2> QED  BY <2>1, <2>2 DEF Init, Sound, Intact, Active
<1> QED  BY <1>1, SoundNext, AlwaysMarked, PTL DEF Spec

\* Failures before installNginx, of nginx -t, and after the reload leave nginx
\* with whole files of one release under the operator's name.
THEOREM NginxIsIntact == Spec => []NginxIntact
<1>1. ASSUME Marked, Sound PROVE NginxIntact
  <2> SUFFICES ASSUME proc = "up", ~running, NoDamage
               PROVE  disk.conf = disk.vhost.release /\ disk.conf # Torn /\ disk.vhost.named
    BY DEF NginxIntact, NoDamage, Sparing
  <2>1. Quiet
    BY <1>1, IdleIsQuiet DEF Marked, Working, Safe, Lock, OneInstaller
  <2> QED  BY <1>1, <2>1 DEF Sound, Intact
<1> QED  BY <1>1, AlwaysSound, PTL

-----------------------------------------------------------------------------
(* The host holds one release throughout, as long as no update fails.       *)

NoFailure == \A j \in Jobs : status[j] # "failed"

Uniform ==
    /\ {disk.playbooks, disk.conf, disk.vhost.release, disk.unit} = {disk.binary}
    /\ disk.vhost.named = TRUE
    /\ disk.marker # None => Armed /\ disk.marker.release = disk.binary

\* Before and after an install; within it the host is on its way.
Aside == {"check", "queued", "fetch", "clean", "release"}

Even == NoFailure => /\ Quiet => Uniform
                     /\ \A r \in Requests : pc[r] \in Aside => Uniform

LEMMA EvenUpdate ==
    ASSUME Marked, Sound, Even, NEW r \in Requests, Update(r)
    PROVE  Even'
<1> USE DEF daemon, store, world, At, Goto, Advance, Abort
<1>0. /\ disk \in Disks /\ pc \in [Requests -> Stages] /\ Safe /\ Progress(r)
      /\ status \in [Jobs -> {"none", "queued", "running", "succeeded", "failed"}]
      /\ work \in [Requests -> [tag : Versions, job : Jobs \cup {None},
                                named : BOOLEAN, err : Errors]]
      /\ \A s \in Requests \ {r} : pc'[s] = "idle"
  BY MarkerFacts, ProgressOthers DEF Marked, Working, Safe, TypeOK
<1>1. ASSUME NoFailure' => (pc'[r] \in Aside \cup {"idle"} => Uniform')
      PROVE  Even'
  BY <1>0, <1>1 DEF Even, Quiet, Active, Aside
<1>2. CASE Start(r)
  <2>1. pc[r] = "idle" /\ ~running /\ UNCHANGED <<disk, status>> /\ proc = "up"
    BY <1>0, <1>2 DEF Start
  <2>2. Quiet
    BY <1>0, <2>1, IdleIsQuiet DEF Safe, Lock, OneInstaller
  <2> QED  BY <1>1, <2>1, <2>2 DEF Even, NoFailure, Uniform, Armed
<1>3. CASE Refuse(r) \/ Clean(r) \/ Release(r)
             \/ (FetchRelease(r) /\ pc'[r] # "fail")
  <2>1. /\ pc[r] \in Aside /\ UNCHANGED status
        /\ disk'.playbooks = disk.playbooks /\ disk'.conf = disk.conf
        /\ disk'.vhost = disk.vhost /\ disk'.unit = disk.unit
        /\ disk'.binary = disk.binary /\ disk'.marker = disk.marker
    BY <1>0, <1>3 DEF Refuse, Clean, EmptyStaging, Release, FetchRelease, Disks, Aside
  <2> QED  BY <1>1, <2>1 DEF Even, NoFailure, Uniform, Armed
<1>4. CASE FetchRelease(r) /\ pc'[r] = "fail"
  BY <1>1, <1>4 DEF Aside
<1>5. CASE Accept(r) \/ Begin(r)
  <2>1. pc[r] \in Aside /\ UNCHANGED disk
    BY <1>5 DEF Accept, Begin, Aside
  <2>2. NoFailure' => NoFailure
    <3>1. CASE Accept(r)
      BY <1>0, <3>1 DEF Accept, NoFailure
    <3>2. CASE Begin(r)
      <4>1. status[work[r].job] = "queued"
        BY <1>0, <3>2 DEF Begin, Safe, Ownership, Owning, Stages
      <4> QED  BY <1>0, <3>2, <4>1 DEF Begin, NoFailure
    <3> QED  BY <1>5, <3>1, <3>2
  <2> QED  BY <1>1, <2>1, <2>2 DEF Even, Uniform, Armed
<1>6. CASE Install(r)
  <2>1. pc'[r] \in Busy \cup {"succeed"}
    BY <1>0, <1>6, InstallIsFrame DEF Frame
  <2> QED  BY <1>1, <2>1 DEF Busy, Stages, Aside
<1>7. CASE Succeed(r)
  <2>1. /\ pc[r] = "succeed" /\ UNCHANGED disk
        /\ status' = [status EXCEPT ![work[r].job] = "succeeded"]
    BY <1>7 DEF Succeed
  <2>2. status[work[r].job] = "running"
    BY <1>0, <2>1 DEF Safe, Ownership, Owning, Stages
  <2>3. NoFailure' => NoDamage
    BY <1>0, <2>1, <2>2 DEF NoFailure, NoDamage
  <2>4. NoFailure' => disk.vhost.named = TRUE
    BY <2>1, <2>3 DEF Sound, Active, Nginx, Copying, Undoing, Intact
  <2>5. /\ disk.playbooks = work[r].tag /\ disk.conf = work[r].tag
        /\ disk.vhost.release = work[r].tag /\ disk.binary = work[r].tag
        /\ disk.unit = work[r].tag
        /\ disk.marker = [job |-> work[r].job, release |-> work[r].tag]
    BY <1>0, <2>1 DEF Progress, Tail0, Tail1, Tail2, Tail3, Tail4, Tail5
  <2>6. Armed
    <3>1. work[r].job \in Jobs /\ work[r].tag \in 0..MaxVersion
      BY <1>0, <2>1 DEF Safe, Ownership, Owning, Stages, Versions
    <3> QED  BY <2>5, <3>1, ValuesAssumption DEF Armed
  <2>7. NoFailure' => Uniform
    BY <2>4, <2>5, <2>6 DEF Uniform
  <2> QED  BY <1>1, <2>1, <2>7 DEF Uniform, Armed
<1>8. CASE FailJob(r)
  <2>1. /\ work[r].job \in Jobs
        /\ status' = [status EXCEPT ![work[r].job] = "failed"]
    BY <1>0, <1>8 DEF FailJob, Safe, Ownership, Owning, Stages
  <2>2. ~NoFailure'
    BY <1>0, <2>1 DEF NoFailure
  <2> QED  BY <2>2 DEF Even
<1> QED
  BY <1>2, <1>3, <1>4, <1>5, <1>6, <1>7, <1>8 DEF Update, Report

LEMMA EvenNext == Marked /\ Sound /\ Even /\ [Next]_vars => Even'
<1> SUFFICES ASSUME Marked, Sound, Even, [Next]_vars PROVE Even'
  OBVIOUS
<1> USE DEF daemon, store, world
<1>0. /\ disk \in Disks /\ Safe
      /\ status \in [Jobs -> {"none", "queued", "running", "succeeded", "failed"}]
      /\ Armed => disk.marker.job \in Jobs
      /\ proc # "up" => \A r \in Requests : ~Active(r)
  BY MarkerFacts DEF Marked, Working, Safe, Lock
<1>1. ASSUME NEW r \in Requests, Update(r) PROVE Even'
  BY <1>1, EvenUpdate
<1>2. CASE Die /\ UNCHANGED disk
  <2>1. UNCHANGED status /\ \A r \in Requests : pc'[r] = "idle"
    BY <1>2 DEF Die
  <2>2. NoFailure /\ (\A j \in Jobs : ~Unfinished(j)) => Uniform
    <3> SUFFICES ASSUME NoFailure, \A j \in Jobs : ~Unfinished(j) PROVE Uniform
      OBVIOUS
    <3>1. CASE \E r \in Requests : Active(r)
      <4>1. PICK r \in Requests : Active(r)
        BY <3>1
      <4>2. pc[r] \in {"check", "clean", "release"}
        BY <1>0, <4>1, OwedUnlessAside
      <4> QED  BY <4>2 DEF Even, Aside
    <3>2. CASE ~\E r \in Requests : Active(r)
      BY <3>2 DEF Even, Quiet
    <3> QED  BY <3>1, <3>2
  <2> QED
    BY <1>2, <2>1, <2>2 DEF Even, Aside, Quiet, Unfinished, NoFailure, Uniform, Armed
<1>3. CASE ResolveMarker
  <2>1. CASE Armed /\ disk.marker.release # version
    <3>1. status' = [status EXCEPT ![disk.marker.job] = "failed"]
      BY <1>3, <2>1 DEF ResolveMarker
    <3>2. ~NoFailure'
      BY <1>0, <2>1, <3>1 DEF NoFailure
    <3> QED  BY <3>2 DEF Even
  <2>2. CASE ~(Armed /\ disk.marker.release # version)
    <3>1. UNCHANGED <<status, disk, pc>>
      BY <1>3, <2>2 DEF ResolveMarker
    <3> QED  BY <3>1 DEF Even, Quiet, Unfinished, Active, NoFailure, Uniform, Armed
  <2> QED  BY <2>1, <2>2
<1>4. CASE RemoveMarker
  <2>1. /\ disk'.playbooks = disk.playbooks /\ disk'.conf = disk.conf
        /\ disk'.vhost = disk.vhost /\ disk'.unit = disk.unit
        /\ disk'.binary = disk.binary /\ disk'.marker = None
        /\ proc # "up" /\ UNCHANGED <<status, pc>>
    BY <1>0, <1>4 DEF RemoveMarker, EmptyStaging, Disks
  <2> QED  BY <2>1 DEF Even, Quiet, Unfinished, Active, NoFailure, Uniform
<1>5. CASE Sweep
  <2>1. PICK j \in Jobs : status' = [status EXCEPT ![j] = "failed"]
    BY <1>5 DEF Sweep
  <2>2. ~NoFailure'
    BY <1>0, <2>1 DEF NoFailure
  <2> QED  BY <2>2 DEF Even
<1>6. CASE UNCHANGED <<disk, status, pc>>
  BY <1>6 DEF Even, Quiet, Unfinished, Active, NoFailure, Uniform, Armed
<1> QED
  BY <1>1, <1>2, <1>3, <1>4, <1>5, <1>6 DEF Next, vars, RestartHandler,
     RestartCheck, RestartRead, RestartIssue, SystemdRestart, Crash, Die, Reconcile,
     Boot, Serve, Publish

LEMMA AlwaysEven == Spec => [](Marked /\ Even)
<1>1. Init => Even
  <2> SUFFICES ASSUME Init PROVE Uniform
    BY DEF Even
  <2>1. disk \in Disks
    BY SafeInit DEF Safe, TypeOK
  <2>2. /\ disk.binary = 0 /\ disk.playbooks = 0 /\ disk.conf = 0 /\ disk.unit = 0
        /\ disk.vhost = [release |-> 0, named |-> TRUE] /\ disk.marker = None
    BY <2>1 DEF Init, NoVhost, Disks
  <2> QED  BY <2>2 DEF Uniform
<1> QED  BY <1>1, EvenNext, AlwaysSound, PTL DEF Spec

\* Updates that all succeed leave one release in every place install writes
\* to, and a marker, if there is one, for the binary on disk.
THEOREM HostIsUniform == Spec => []UniformUnlessFailed
<1>1. ASSUME Marked, Even PROVE UniformUnlessFailed
  <2> SUFFICES ASSUME proc = "up", ~running,
                      \A j \in Jobs : status[j] \in {"none", "succeeded"}
               PROVE  Uniform
    BY DEF UniformUnlessFailed, Uniform
  <2>1. Quiet
    BY <1>1, IdleIsQuiet DEF Marked, Working, Safe, Lock, OneInstaller
  <2>2. NoFailure
    BY DEF NoFailure
  <2> QED  BY <1>1, <2>1, <2>2 DEF Even
<1> QED  BY <1>1, AlwaysEven, PTL

LEMMA OnlyResolveDemotes ==
    ASSUME Safe, Next, NEW j \in Jobs, status[j] = "succeeded", status'[j] = "failed"
    PROVE  ResolveMarker
<1> USE DEF store, Safe, TypeOK
<1>1. ASSUME NEW r \in Requests, Update(r) PROVE FALSE
  <2>1. CASE Install(r)
    BY <2>1, InstallIsFrame DEF Frame
  <2>2. CASE FailJob(r)
    <3>1. pc[r] = "fail" /\ status' = [status EXCEPT ![work[r].job] = "failed"]
      BY <2>2 DEF FailJob, At
    <3>2. work[r].job \in Jobs /\ status[work[r].job] = "running"
      BY <3>1 DEF Ownership, Owning, Stages
    <3> QED  BY <3>1, <3>2
  <2>3. CASE Start(r) \/ Refuse(r) \/ Accept(r) \/ Begin(r) \/ Succeed(r)
    BY <2>3 DEF Start, Refuse, Accept, Begin, Succeed
  <2>4. CASE FetchRelease(r) \/ Clean(r) \/ Release(r)
    BY <2>4 DEF FetchRelease, Clean, Release, Advance, Abort
  <2> QED  BY <1>1, <2>1, <2>2, <2>3, <2>4 DEF Update, Report
<1>2. CASE Sweep
  BY <1>2 DEF Sweep, Unfinished
<1> QED
  BY <1>1, <1>2 DEF Next, RestartHandler, RestartCheck, RestartRead, RestartIssue,
     SystemdRestart, Crash, Die, Boot, Reconcile, RemoveMarker, Serve, Publish

\* A success is taken back only beside an update that did not succeed: with
\* none, the host is uniform and the marker is of the binary that started.
THEOREM DemotionHasCause == Spec => DemotedOnlyAfterFailure
<1>1. ASSUME Marked, Even, Next, NEW j \in Jobs,
             status[j] = "succeeded", status'[j] = "failed"
      PROVE  \E k \in Jobs \ {j} : status[k] \notin {"none", "succeeded"}
  <2> SUFFICES ASSUME \A k \in Jobs : status[k] \in {"none", "succeeded"} PROVE FALSE
    BY <1>1
  <2>1. Safe /\ Named
    BY <1>1 DEF Marked, Working
  <2>2. ResolveMarker
    BY <1>1, <2>1, OnlyResolveDemotes
  <2>3. /\ proc = "resolve" /\ Armed /\ disk.marker.release # version
        /\ version = disk.binary
    BY <1>1, <2>1, <2>2 DEF ResolveMarker, store, Named
  <2>4. Quiet /\ NoFailure
    BY <2>1, <2>3 DEF Quiet, NoFailure, Unfinished, Safe, Lock
  <2>5. Uniform
    BY <1>1, <2>4 DEF Even
  <2> QED  BY <2>3, <2>5 DEF Uniform, Armed
<1>2. Marked /\ Even /\ [Next]_vars =>
        [\A j \in Jobs : status[j] = "succeeded" /\ status'[j] = "failed" =>
            \E k \in Jobs \ {j} : status[k] \notin {"none", "succeeded"}]_vars
  BY <1>1
<1> QED  BY <1>2, AlwaysEven, PTL DEF Spec, DemotedOnlyAfterFailure
=============================================================================
