-------------------------- MODULE UnpackTree_proofs --------------------------
(***************************************************************************)
(* Proofs about UnpackTree, for any artifacts, layers, patterns and paths, *)
(* any limit of the group and any number of attempts.                      *)
(***************************************************************************)
EXTENDS UnpackTree, TLAPS

USE UnpackAssumption

-----------------------------------------------------------------------------
(***************************************************************************)
(* Files.                                                                  *)
(***************************************************************************)

States == {"none", "empty", "part", "whole", "wrong"}

LEMMA MissingFile ==
  /\ Missing \in File
  /\ Missing.of = None /\ ~Missing.packed /\ ~Missing.locked /\ Missing.state = "none"
BY DEF File, Missing

\* The files that the actions write, field by field.
LEMMA FileFields ==
  ASSUME NEW f \in File, NEW s \in States
  PROVE  /\ f.of \in Layers \cup {None} /\ f.packed \in BOOLEAN
         /\ f.locked \in BOOLEAN /\ f.state \in States
         /\ [f EXCEPT !.state = s] \in File
         /\ [f EXCEPT !.state = s].of = f.of /\ [f EXCEPT !.state = s].packed = f.packed
         /\ [f EXCEPT !.state = s].locked = f.locked /\ [f EXCEPT !.state = s].state = s
BY DEF File, States

LEMMA ArchiveOf ==
  ASSUME NEW f \in File, f.packed
  PROVE  f.of \in Layers
BY DEF File

LEMMA LockFields ==
  ASSUME NEW f \in File, NEW b \in BOOLEAN
  PROVE  /\ [f EXCEPT !.locked = b] \in File
         /\ [f EXCEPT !.locked = b].of = f.of /\ [f EXCEPT !.locked = b].packed = f.packed
         /\ [f EXCEPT !.locked = b].locked = b /\ [f EXCEPT !.locked = b].state = f.state
BY DEF File

LEMMA NewFiles ==
  ASSUME NEW l \in Layers, NEW s \in States
  PROVE  /\ Packed(l) \in File /\ Packed(l).of = l /\ Packed(l).packed /\ ~Packed(l).locked
         /\ Packed(l).state \in {"part", "whole"}
         /\ Packed(l).state = "part" <=> archive[l] = "short"
         /\ Downloaded(l, s) \in File /\ Downloaded(l, s).of = l
         /\ Downloaded(l, s).packed = (l \in TarLayers) /\ ~Downloaded(l, s).locked
         /\ Downloaded(l, s).state = s
BY DEF File, States, Packed, Downloaded

-----------------------------------------------------------------------------
(***************************************************************************)
(* Type correctness.                                                       *)
(***************************************************************************)

LEMMA NoJobs ==
  ASSUME NEW S
  PROVE  DOMAIN <<>> = {} /\ <<>> \in [{} -> S]
OBVIOUS

LEMMA PathsOfLayers ==
  ASSUME NEW l \in Layers
  PROVE  Target(l) \in Paths /\ Temp(l) \in Paths /\ Download(l) \in Paths
BY DEF Target, Temp, Download

\* What a goroutine that gives up or starts over leaves.
LEMMA FailsType ==
  ASSUME TypeOK, NEW j \in Jobs, Fails(j)
  PROVE  /\ at' \in [Jobs -> Steps] /\ tries' \in [Jobs -> 0..Attempts]
         /\ held' \in [Jobs -> File]
<1>1. Retries(way) \in Nat /\ Retries(way) <= Attempts
  BY DEF Retries
<1>2. \E s \in {"get", "failed"} : Goes(j, s)
  BY DEF Fails
<1>3. at' \in [Jobs -> Steps] /\ held' \in [Jobs -> File]
  BY <1>2, MissingFile DEF TypeOK, Fails, Goes, Holds, Steps
<1>4. CASE tries[j] < Retries(way) /\ ~Cancelled
  <2>1. tries \in [Jobs -> 0..Attempts] /\ tries[j] + 1 \in 0..Attempts
    BY <1>1, <1>4 DEF TypeOK
  <2>2. tries' = [tries EXCEPT ![j] = tries[j] + 1]
    BY <1>4 DEF Fails
  <2> QED
    BY <1>3, <2>1, <2>2
<1>5. CASE ~(tries[j] < Retries(way) /\ ~Cancelled)
  BY <1>3, <1>5 DEF TypeOK, Fails
<1> QED
  BY <1>4, <1>5

LEMMA SelectedJobs ==
  ASSUME TypeOK, NEW w, NEW patterns, patterns \in Seq(SUBSET Layers)
  PROVE  LET js == Decoded(w, Selected(patterns))
         IN  /\ js \subseteq Nat \X Nat
             /\ \A j \in js : manifest[j[1]] \in Layers
BY DEF TypeOK, Decoded, Selected

LEMMA StartType ==
  ASSUME TypeOK, NEW w \in Ways, NEW patterns \in Seq(SUBSET Layers), Start(w, patterns)
  PROVE  TypeOK'
<1> DEFINE js == Decoded(w, Selected(patterns))
<1>1. js \subseteq Nat \X Nat /\ \A j \in js : manifest[j[1]] \in Layers
  BY SelectedJobs
<1>2. /\ jobs' = [j \in js |-> manifest[j[1]]] /\ at' = [j \in js |-> "wait"]
      /\ tries' = [j \in js |-> 0] /\ held' = [j \in js |-> Missing]
      /\ faults' = [j \in js |-> 0]
  BY DEF Start
<1>3. Jobs' = js
  BY <1>2 DEF Jobs
<1> HIDE DEF js
<1>4. /\ Jobs' \subseteq Nat \X Nat /\ jobs' \in [Jobs' -> Layers] /\ at' \in [Jobs' -> Steps]
      /\ tries' \in [Jobs' -> 0..Attempts] /\ held' \in [Jobs' -> File]
      /\ faults' \in [Jobs' -> 0..MaxFaults]
  BY <1>1, <1>2, <1>3, MissingFile DEF Steps
<1>5. /\ manifest' \in Artifacts /\ archive' \in [TarLayers -> Archives]
      /\ file' \in [Paths -> File] /\ result' \in {"none", "running", "ok", "failed", "killed"}
      /\ way' \in Ways /\ expired' \in BOOLEAN
      /\ lockedBefore' \subseteq Paths /\ barredBefore' \subseteq Paths /\ dirs' \subseteq Paths
  BY DEF TypeOK, Start
<1> QED
  BY <1>4, <1>5 DEF TypeOK

LEMMA CommandType ==
  ASSUME TypeOK, Command
  PROVE  TypeOK'
<1>1. ASSUME NEW w \in Ways \ {"fetch"}, StartAll(w)
      PROVE  TypeOK'
  <2>1. w \in Ways /\ Layers \in SUBSET Layers
    OBVIOUS
  <2>2. <<Layers>> \in Seq(SUBSET Layers)
    BY <2>1
  <2> QED
    BY <1>1, <2>1, <2>2, StartType DEF StartAll
<1>2. ASSUME NEW w \in {"fetch", "dragonfly"}, NEW patterns \in PatternLists,
             StartFetch(w, patterns)
      PROVE  TypeOK'
  <2>1. w \in Ways /\ patterns \in Seq(SUBSET Layers)
    BY DEF Ways
  <2> QED
    BY <1>2, <2>1, StartType DEF StartFetch
<1> QED
  BY <1>1, <1>2 DEF Command

\* The part of the type invariant that a goroutine can disturb.
LEMMA JobType ==
  ASSUME TypeOK, NEW j \in Jobs, Advance(j)
  PROVE  TypeOK'
<1> USE DEF TypeOK, Jobs
<1>u. ASSUME UNCHANGED <<manifest, archive, result, expired, commandVars>>,
             dirs' \subseteq Paths, file' \in [Paths -> File], at' \in [Jobs -> Steps],
             tries' \in [Jobs -> 0..Attempts], held' \in [Jobs -> File],
             faults' \in [Jobs -> 0..MaxFaults]
      PROVE  TypeOK'
  BY <1>u DEF commandVars
<1>s. ASSUME Strikes(j)
      PROVE  faults' \in [Jobs -> 0..MaxFaults]
  BY <1>s DEF Strikes
<1>p. ASSUME NEW p, NEW f, p \in Paths => f \in File, Puts(p, f)
      PROVE  file' \in [Paths -> File]
  BY <1>p DEF Puts
<1>g. ASSUME NEW s \in Steps, Goes(j, s)
      PROVE  at' \in [Jobs -> Steps]
  BY <1>g DEF Goes
<1>h. ASSUME NEW f \in File, Holds(j, f)
      PROVE  held' \in [Jobs -> File]
  BY <1>h DEF Holds
<1>j. jobs[j] \in Layers /\ held[j] \in File
  OBVIOUS
<1> HIDE DEF TypeOK, Jobs
<1>1. CASE Dispatch(j)
  <2>1. at' \in [Jobs -> Steps] /\ tries' \in [Jobs -> 0..Attempts]
    <3>1. CASE Cancelled
      BY <1>1, <1>g, <3>1 DEF Dispatch, Steps, TypeOK
    <3>2. CASE ~Cancelled
      <4>1. tries' = [tries EXCEPT ![j] = 1] /\ at' \in [Jobs -> Steps]
        BY <1>1, <1>g, <3>2 DEF Dispatch, Steps
      <4> QED
        BY <4>1 DEF TypeOK
    <3> QED
      BY <3>1, <3>2
  <2> QED
    BY <1>1, <1>u, <2>1 DEF Dispatch, TypeOK, Jobs
<1>2. CASE OpenStream(j)
  <2>1. jobs[j] \in Layers /\ "wrong" \in States /\ Packed(jobs[j]) \in File
    BY <1>j, NewFiles DEF States
  <2>2. [Packed(jobs[j]) EXCEPT !.state = "wrong"] \in File
    BY <2>1, FileFields
  <2>3. held' \in [Jobs -> File] /\ faults' \in [Jobs -> 0..MaxFaults]
    BY <1>2, <1>s, <1>h, <2>1, <2>2 DEF OpenStream, TypeOK
  <2>4. at' \in [Jobs -> Steps]
    BY <1>2, <1>g DEF OpenStream, Steps
  <2> QED
    BY <1>2, <1>u, <2>3, <2>4 DEF OpenStream, TypeOK
<1>3. CASE Refused(j)
  BY <1>3, <1>u, <1>g DEF Refused, Steps, TypeOK
<1>4. CASE Accept(j)
  BY <1>4, <1>u, <1>g, <1>h, MissingFile DEF Accept, Steps, TypeOK
<1>5. CASE Reject(j)
  BY <1>5, <1>u, FailsType DEF Reject, TypeOK
<1>m. ASSUME NEW p, p \in Paths, MakesRoom(p)
      PROVE  dirs' \subseteq Paths
  BY <1>m DEF MakesRoom, TypeOK
<1>6. CASE Request(j)
  <2>0. dirs' \subseteq Paths
    BY <1>6, <1>j, <1>m, PathsOfLayers DEF Request
  <2>1. CASE expired
    BY <1>6, <1>u, <2>0, <2>1, FailsType DEF Request, TypeOK
  <2>2. CASE ~expired
    BY <1>6, <1>u, <1>g, <2>0, <2>2 DEF Request, Steps, TypeOK
  <2> QED
    BY <2>1, <2>2
<1>6o. CASE Obstructed(j)
  BY <1>6o, <1>u, FailsType DEF Obstructed, TypeOK
<1>7. CASE DaemonWrites(j)
  <2>1. PICK state \in {"empty", "part"} : Puts(Download(jobs[j]), Downloaded(jobs[j], state))
    BY <1>7 DEF DaemonWrites
  <2>2. Downloaded(jobs[j], state) \in File /\ Download(jobs[j]) \in Paths
    BY <1>j, NewFiles, PathsOfLayers DEF States
  <2>3. file' \in [Paths -> File]
    BY <1>p, <2>1, <2>2
  <2> QED
    BY <1>7, <1>u, <1>g, <2>3 DEF DaemonWrites, Steps, TypeOK
<1>8. CASE Delivers(j)
  <2> DEFINE f == IF jobs[j] \in TarLayers THEN Packed(jobs[j]) ELSE Downloaded(jobs[j], "whole")
  <2>1. f \in File /\ [f EXCEPT !.state = "wrong"] \in File /\ Download(jobs[j]) \in Paths
    BY <1>j, NewFiles, FileFields, PathsOfLayers DEF States
  <2>2. \E g \in File : Puts(Download(jobs[j]), g)
    BY <1>8, <2>1 DEF Delivers
  <2>3. file' \in [Paths -> File]
    BY <1>p, <2>1, <2>2
  <2>4. faults' \in [Jobs -> 0..MaxFaults]
    BY <1>8, <1>s DEF Delivers, TypeOK
  <2> QED
    BY <1>8, <1>u, <1>g, <2>3, <2>4 DEF Delivers, Steps, TypeOK
<1>9. CASE OpenTemp(j)
  <2>1. Temp(jobs[j]) \in Paths
    BY <1>j, PathsOfLayers
  <2>2. CASE file[Temp(jobs[j])] = Missing
    BY <1>9, <1>u, <2>2, FailsType DEF OpenTemp, TypeOK
  <2>3. CASE file[Temp(jobs[j])] # Missing
    <3>1. file[Temp(jobs[j])] \in File
      BY <2>1 DEF TypeOK
    <3> QED
      BY <1>9, <1>u, <1>g, <1>h, <2>3, <3>1 DEF OpenTemp, Steps, TypeOK
  <2> QED
    BY <2>2, <2>3
<1>10. CASE RemoveTemp(j)
  <2>1. Temp(jobs[j]) \in Paths
    BY <1>j, PathsOfLayers
  <2>2. CASE file[Temp(jobs[j])] = Missing
    BY <1>10, <1>u, <2>2, FailsType DEF RemoveTemp, TypeOK
  <2>3. CASE file[Temp(jobs[j])] # Missing
    BY <1>10, <1>u, <1>g, <1>p, <2>1, <2>3, MissingFile DEF RemoveTemp, Steps, TypeOK
  <2> QED
    BY <2>2, <2>3
<1>11. CASE NoEntry(j)
  <2>1. AfterUntar \in Steps
    BY DEF AfterUntar, Steps
  <2> QED
    BY <1>11, <1>u, <1>g, <1>h, <2>1, MissingFile DEF NoEntry, TypeOK
<1>12. CASE BadHeader(j)
  BY <1>12, <1>u, FailsType DEF BadHeader, TypeOK
<1>d. ASSUME MakesRoom(Dest(j)), held[j].packed
      PROVE  dirs' \subseteq Paths
  <2>1. Entry(j) \in Layers
    BY <1>j, <1>d, ArchiveOf DEF Entry
  <2> QED
    BY <1>m, <1>d, <2>1, PathsOfLayers DEF Dest
<1>12n. CASE NoRoom(j)
  BY <1>12n, <1>u, FailsType DEF NoRoom, TypeOK
<1>13. CASE Create(j)
  <2>1. CASE file[Dest(j)].locked
    BY <1>13, <1>u, <1>d, <2>1, FailsType DEF Create, Readable, TypeOK
  <2>2. CASE ~file[Dest(j)].locked
    <3>1. Entry(j) \in Layers \cup {None}
      BY <1>j, FileFields DEF Entry, States
    <3>2. Writing(j, "part", file[Dest(j)] = Missing /\ Entry(j) \in ReadOnly) \in File
      BY <3>1 DEF Writing, File
    <3>3. file' \in [Paths -> File]
      BY <1>13, <1>p, <2>2, <3>2 DEF Create
    <3>4. dirs' \subseteq Paths
      BY <1>13, <1>d DEF Create, Readable
    <3> QED
      BY <1>13, <1>u, <1>g, <2>2, <3>3, <3>4 DEF Create, Steps, TypeOK
  <2> QED
    BY <2>1, <2>2
<1>14. CASE Copy(j)
  <2>1. CASE held[j].state = "part"
    BY <1>14, <1>u, <2>1, FailsType DEF Copy, TypeOK
  <2>2. CASE held[j].state # "part"
    <3> DEFINE s == IF Shared(j) THEN "part" ELSE held[j].state
    <3>1. s \in States
      BY <1>j, FileFields DEF States
    <3>2. Dest(j) \in Paths => [file[Dest(j)] EXCEPT !.state = s] \in File
      <4>1. Dest(j) \in Paths => file[Dest(j)] \in File
        BY DEF TypeOK
      <4> HIDE DEF s
      <4> QED
        BY <3>1, <4>1, FileFields
    <3>3. file' \in [Paths -> File]
      BY <1>14, <1>p, <2>2, <3>2 DEF Copy, TypeOK
    <3> QED
      BY <1>14, <1>u, <1>g, <2>2, <3>3 DEF Copy, Steps, TypeOK
  <2> QED
    BY <2>1, <2>2
<1>15. CASE Seal(j)
  <2>1. CASE file[Dest(j)] = Missing
    BY <1>15, <1>u, <2>1, FailsType DEF Seal, TypeOK
  <2>2. CASE file[Dest(j)] # Missing
    <3> DEFINE b == Entry(j) \in ReadOnly
    <3>1. Dest(j) \in Paths => [file[Dest(j)] EXCEPT !.locked = b] \in File
      <4>1. b \in BOOLEAN /\ (Dest(j) \in Paths => file[Dest(j)] \in File)
        BY DEF TypeOK
      <4> HIDE DEF b
      <4> QED
        BY <4>1, LockFields
    <3>2. file' \in [Paths -> File]
      BY <1>15, <1>p, <2>2, <3>1 DEF Seal
    <3>3. AfterUntar \in Steps
      BY DEF AfterUntar, Steps
    <3>4. held' \in [Jobs -> File]
      BY <1>15, <1>h, <2>2, MissingFile DEF Seal, TypeOK
    <3> QED
      BY <1>15, <1>u, <1>g, <2>2, <3>2, <3>3, <3>4 DEF Seal, TypeOK
  <2> QED
    BY <2>1, <2>2
<1>16. CASE Fault(j)
  <2>1. dirs' \subseteq Paths
    BY <1>16, <1>d, <1>j, <1>m, PathsOfLayers DEF Fault, Readable, TypeOK
  <2> QED
    BY <1>16, <1>u, <1>s, <2>1, FailsType DEF Fault, TypeOK
<1>17. CASE Abandon(j)
  BY <1>17, <1>u, <1>g, <1>h, MissingFile DEF Abandon, Steps, TypeOK
<1> QED
  BY <1>1, <1>2, <1>3, <1>4, <1>5, <1>6, <1>7, <1>8, <1>9, <1>10, <1>11, <1>12, <1>13,
     <1>14, <1>15, <1>16, <1>17, <1>6o, <1>12n DEF Advance, Untar

LEMMA InitType ==
  ASSUME Init
  PROVE  TypeOK
<1>1. Jobs = {}
  BY NoJobs DEF Init, Jobs
<1>2. /\ Jobs \subseteq Nat \X Nat /\ jobs \in [Jobs -> Layers] /\ at \in [Jobs -> Steps]
      /\ tries \in [Jobs -> 0..Attempts] /\ held \in [Jobs -> File]
      /\ faults \in [Jobs -> 0..MaxFaults]
  BY <1>1, NoJobs DEF Init
<1> QED
  BY <1>2, MissingFile DEF Init, TypeOK, Ways

LEMMA NextType ==
  ASSUME TypeOK, [Next]_vars
  PROVE  TypeOK'
<1>1. CASE Command
  BY <1>1, CommandType
<1>2. ASSUME NEW j \in Jobs, Advance(j)
      PROVE  TypeOK'
  BY <1>2, JobType
<1>3. CASE Return
  <2>1. /\ tries' \in [Jobs -> 0..Attempts] /\ held' \in [Jobs -> File]
    BY <1>3, MissingFile DEF Return
  <2> QED
    BY <1>3, <2>1 DEF Return, TypeOK, commandVars, Jobs
<1>4. CASE Kill
  <2>1. Jobs' = {}
    BY <1>4, NoJobs DEF Kill, Jobs
  <2>2. /\ Jobs' \subseteq Nat \X Nat /\ jobs' \in [Jobs' -> Layers] /\ at' \in [Jobs' -> Steps]
        /\ tries' \in [Jobs' -> 0..Attempts] /\ held' \in [Jobs' -> File]
        /\ faults' \in [Jobs' -> 0..MaxFaults]
    BY <1>4, <2>1, NoJobs DEF Kill
  <2> QED
    BY <1>4, <2>2 DEF Kill, TypeOK
<1>5. CASE Expire
  BY <1>5 DEF Expire, TypeOK, Jobs, commandVars, jobVars
<1>6. CASE UNCHANGED vars
  BY <1>6 DEF vars, commandVars, jobVars, TypeOK, Jobs
<1> QED
  BY <1>1, <1>2, <1>3, <1>4, <1>5, <1>6 DEF Next, Work

\* Every file, job and goroutine has its type, whatever the steps of the
\* commands and of the daemon.
THEOREM UnpackTypeCorrect == Spec => []TypeOK
<1>1. Init => TypeOK
  BY InitType
<1>2. TypeOK /\ [Next]_vars => TypeOK'
  BY NextType
<1> QED
  BY <1>1, <1>2, PTL DEF Spec

-----------------------------------------------------------------------------
(***************************************************************************)
(* What goroutines hold, and what they find in the directory.              *)
(***************************************************************************)

Running == result \in {"running", "ok"}

\* A command is at the steps of its own kind, and success is that of all.
StepInv ==
  /\ \A j \in Jobs :
       /\ way # "dragonfly" =>
            jobs[j] \in TarLayers /\ at[j] \notin {"recv", "fill", "open", "remove"}
       /\ way = "dragonfly" => at[j] # "check"
       /\ at[j] \in {"open", "entry", "copy", "seal", "remove"} => jobs[j] \in TarLayers
       /\ at[j] = "cancelled" => Cancelled
  /\ result = "ok" => \A j \in Jobs : at[j] = "done"

\* File f, found at path p, is the work of a job that writes to that path.
Owned(p, f) == \E k \in Jobs : f.of = jobs[k] /\ p \in Outputs(jobs[k])

\* A download is removed or replaced by the jobs of this command only, so what
\* is opened belongs to one of them; streams bring the layer itself.
HeldInv ==
  /\ \A p \in Paths : file[p].state = "none" => file[p] = Missing
  /\ \A j \in Jobs :
       /\ at[j] \in {"fill", "open"} =>
            LET d == Download(jobs[j]) IN file[d] = Missing \/ Owned(d, file[d])
       /\ at[j] \in {"entry", "copy", "seal", "check"} =>
            /\ held[j].state # "none"
            /\ way = "dragonfly" => Owned(Temp(jobs[j]), held[j])
            /\ way # "dragonfly" => /\ held[j].of = jobs[j] /\ held[j].packed
                                    /\ held[j].state # "empty"
       /\ at[j] \in {"copy", "seal", "check"} => held[j].state # "empty"

Twins(j) == {k \in Jobs : jobs[k] = jobs[j]}

\* As long as the archive of a layer is there, one of its goroutines has yet to
\* remove it.
TempInv ==
  Running /\ way = "dragonfly" =>
    \A j \in Jobs : jobs[j] \in TarLayers /\ Clashes(j) = {} =>
      \/ file[Temp(jobs[j])] = Missing
      \/ \E k \in Twins(j) : at[k] # "done"

\* The file of layer l is as the command should leave it.
Delivered(l) ==
  LET f == file[Target(l)]
  IN  /\ f.of = l /\ ~f.packed
      /\ \/ f.state = "whole"
         \/ way = "dragonfly" /\ f.state = "wrong"

\* The goroutine of k has yet to put its layer's file in order, or to fail.
Unsettled(k) ==
  \/ at[k] \in {"wait", "get", "recv", "fill", "copy", "failed", "cancelled"}
  \/ at[k] = "open" /\ file[Temp(jobs[k])].state # "empty"
  \/ at[k] = "entry" /\ held[k].state # "empty"
  \/ at[k] \in {"seal", "check"} /\ way # "dragonfly" /\ held[k].state = "wrong"

\* The file that a goroutine has created stays in place, and a layer whose file
\* is not right has a goroutine that is not finished with it.
FileInv ==
  /\ \A j \in Jobs : Clashes(j) = {} /\ at[j] \in {"copy", "seal"} =>
       LET f == file[Target(jobs[j])] IN f.of = jobs[j] /\ ~f.packed
  /\ Running =>
       \A j \in Jobs : Clashes(j) = {} =>
         Delivered(jobs[j]) \/ \E k \in Twins(j) : Unsettled(k)
-----------------------------------------------------------------------------
(***************************************************************************)
(* The steps of a goroutine.                                               *)
(***************************************************************************)

\* It writes nothing, and is before its download again, or has ended without
\* success.
Yields(j) ==
  /\ \E s \in {"get", "recv", "failed", "cancelled"} :
       /\ Goes(j, s)
       /\ s = "recv" => way = "dragonfly"
       /\ s = "cancelled" => Cancelled
  /\ held' = held \/ Holds(j, Missing)
  /\ file' = file

\* The other steps, where they succeed.
Proceeds(j) ==
  \/ OpenStream(j) \/ Accept(j) \/ DaemonWrites(j) \/ Delivers(j) \/ NoEntry(j)
  \/ OpenTemp(j) /\ file[Temp(jobs[j])] # Missing
  \/ RemoveTemp(j) /\ file[Temp(jobs[j])] # Missing
  \/ Create(j) /\ ~file[Dest(j)].locked
  \/ Copy(j) /\ held[j].state # "part"
  \/ Seal(j) /\ file[Dest(j)] # Missing

LEMMA FailsYields ==
  ASSUME NEW j, Fails(j), file' = file
  PROVE  Yields(j)
BY DEF Fails, Yields

LEMMA AdvanceCases ==
  ASSUME NEW j \in Jobs, Advance(j)
  PROVE  /\ result = "running" /\ UNCHANGED <<manifest, archive, result, commandVars>>
         /\ Yields(j) \/ Proceeds(j)
<1>1. result = "running" /\ UNCHANGED <<manifest, archive, result, commandVars>>
  BY DEF Advance, Dispatch, OpenStream, Refused, Accept, Reject, Request, Obstructed, DaemonWrites,
         Delivers, OpenTemp, RemoveTemp, Untar, NoEntry, BadHeader, NoRoom, Readable, Create, Copy,
         Seal, Fault, Abandon, AtStep
<1> SUFFICES Yields(j) \/ Proceeds(j)
  BY <1>1
<1>2. CASE Dispatch(j)
  BY <1>2 DEF Dispatch, Yields, Goes, Holds
<1>3. CASE Refused(j)
  BY <1>3 DEF Refused, Yields, Goes, Holds
<1>4. CASE Reject(j)
  BY <1>4, FailsYields DEF Reject
<1>4o. CASE Obstructed(j) \/ NoRoom(j)
  BY <1>4o, FailsYields DEF Obstructed, NoRoom
<1>5. CASE Request(j)
  <2>1. CASE expired
    BY <1>5, <2>1, FailsYields DEF Request
  <2>2. CASE ~expired
    BY <1>5, <2>2 DEF Request, Yields, Goes, Holds
  <2> QED
    BY <2>1, <2>2
<1>6. CASE OpenTemp(j)
  BY <1>6, FailsYields DEF OpenTemp, Proceeds
<1>7. CASE RemoveTemp(j)
  BY <1>7, FailsYields DEF RemoveTemp, Proceeds
<1>8. CASE BadHeader(j)
  BY <1>8, FailsYields DEF BadHeader
<1>9. CASE Create(j)
  BY <1>9, FailsYields DEF Create, Proceeds
<1>10. CASE Copy(j)
  BY <1>10, FailsYields DEF Copy, Proceeds
<1>11. CASE Seal(j)
  BY <1>11, FailsYields DEF Seal, Proceeds
<1>12. CASE Fault(j)
  BY <1>12, FailsYields DEF Fault
<1>13. CASE Abandon(j)
  BY <1>13 DEF Abandon, Yields, Goes, Holds
<1>14. CASE OpenStream(j) \/ Accept(j) \/ DaemonWrites(j) \/ Delivers(j) \/ NoEntry(j)
  BY <1>14 DEF Proceeds
<1> QED
  BY <1>1, <1>2, <1>3, <1>4, <1>4o, <1>5, <1>6, <1>7, <1>8, <1>9, <1>10, <1>11, <1>12, <1>13,
     <1>14 DEF Advance, Untar

\* What a goroutine does leaves the others, the jobs and the failures there are.
LEMMA OthersStay ==
  ASSUME TypeOK, NEW j \in Jobs, Advance(j)
  PROVE  /\ at[j] \notin {"done", "failed", "cancelled"}
         /\ at'[j] \in Steps
         /\ \A k \in Jobs : k # j => at'[k] = at[k] /\ held'[k] = held[k]
         /\ Cancelled => Cancelled'
<1>1. (\E s : Goes(j, s)) /\ (held' = held \/ \E f : Holds(j, f))
  <2>1. CASE Yields(j)
    BY <2>1 DEF Yields
  <2>2. CASE Proceeds(j)
    BY <2>2 DEF Proceeds, OpenStream, Accept, DaemonWrites, Delivers, NoEntry, OpenTemp,
                RemoveTemp, Create, Copy, Seal
  <2> QED
    BY <2>1, <2>2, AdvanceCases
<1>2. at[j] \notin {"done", "failed", "cancelled"}
  BY DEF Advance, Dispatch, OpenStream, Refused, Accept, Reject, Request, Obstructed, DaemonWrites,
         Delivers, OpenTemp, RemoveTemp, Untar, NoEntry, BadHeader, NoRoom, Readable, Create, Copy,
         Seal, Fault, Abandon, AtStep, Cancellable
<1>3. \A k \in Jobs : k # j => at'[k] = at[k] /\ held'[k] = held[k]
  <2>1. at \in [Jobs -> Steps] /\ held \in [Jobs -> File]
    BY DEF TypeOK
  <2>2. \A k \in Jobs : k # j => at'[k] = at[k]
    BY <1>1, <2>1 DEF Goes
  <2>3. \A k \in Jobs : k # j => held'[k] = held[k]
    BY <1>1, <2>1 DEF Holds
  <2> QED
    BY <2>2, <2>3
<1>4. Jobs' = Jobs
  BY AdvanceCases DEF Jobs, commandVars
<1>5. at'[j] \in Steps
  BY <1>4, JobType DEF TypeOK
<1>6. ASSUME Cancelled
      PROVE  Cancelled'
  BY <1>2, <1>3, <1>4, <1>6 DEF Cancelled
<1> QED
  BY <1>2, <1>3, <1>5, <1>6

\* The files of jobs are those of the layers and of the kind of command.
LEMMA SameOutputs ==
  ASSUME UNCHANGED commandVars
  PROVE  /\ Jobs' = Jobs
         /\ \A l : Outputs(l)' = Outputs(l)
         /\ \A j \in Jobs : Clashes(j)' = Clashes(j) /\ Twins(j)' = Twins(j)
         /\ \A p, f : Owned(p, f)' = Owned(p, f)
BY DEF Jobs, commandVars, Outputs, Target, Download, Temp, Clashes, Rivals, Twins, Owned

\* A command that has not done anything yet, or none.
Begins ==
  /\ \A j \in Jobs : at[j] = "wait" /\ (way # "dragonfly" => jobs[j] \in TarLayers)
  /\ result \in {"running", "none", "killed"}

LEMMA StartBegins ==
  ASSUME NEW w, NEW patterns, Start(w, patterns)
  PROVE  Begins' /\ file' = file
<1> DEFINE js == Decoded(w, Selected(patterns))
<1>1. jobs' = [j \in js |-> manifest[j[1]]] /\ at' = [j \in js |-> "wait"] /\ way' = w
  BY DEF Start
<1>2. \A j \in js : w # "dragonfly" => manifest[j[1]] \in TarLayers
  BY DEF Decoded
<1> HIDE DEF js
<1>3. Jobs' = js
  BY <1>1 DEF Jobs
<1>4. result' = "running" /\ file' = file
  BY DEF Start
<1> QED
  BY <1>1, <1>2, <1>3, <1>4 DEF Begins

LEMMA NextCases ==
  ASSUME [Next]_vars
  PROVE  \/ \E j \in Jobs : Advance(j)
         \/ Begins' /\ file' = file
         \/ Return
         \/ UNCHANGED <<file, result, commandVars, at, held>>
<1>1. CASE Command
  <2>1. \E w, patterns : Start(w, patterns)
    BY <1>1 DEF Command, StartAll, StartFetch
  <2> QED
    BY <2>1, StartBegins
<1>2. CASE Kill
  <2>1. Jobs' = {}
    BY <1>2, NoJobs DEF Kill, Jobs
  <2> QED
    BY <1>2, <2>1 DEF Kill, Begins
<1>3. CASE Expire \/ UNCHANGED vars
  BY <1>3 DEF Expire, vars, commandVars, jobVars
<1> QED
  BY <1>1, <1>2, <1>3 DEF Next, Work

-----------------------------------------------------------------------------
(***************************************************************************)
(* StepInv.                                                                *)
(***************************************************************************)

LEMMA StepStart == Begins => StepInv
BY DEF Begins, StepInv

LEMMA StepJob ==
  ASSUME TypeOK, StepInv, NEW j \in Jobs, Advance(j)
  PROVE  StepInv'
<1>1. UNCHANGED <<result, commandVars>> /\ result = "running" /\ Jobs' = Jobs
  BY AdvanceCases, SameOutputs
<1>2. \A k \in Jobs : k # j => at'[k] = at[k]
  BY OthersStay
<1>3. Cancelled => Cancelled'
  BY OthersStay
<1> SUFFICES /\ way # "dragonfly" => at'[j] \notin {"recv", "fill", "open", "remove"}
             /\ way = "dragonfly" => at'[j] # "check"
             /\ at'[j] \in {"open", "entry", "copy", "seal", "remove"} => jobs[j] \in TarLayers
             /\ at'[j] = "cancelled" => Cancelled
  BY <1>1, <1>2, <1>3 DEF StepInv, commandVars
<1>t. at \in [Jobs -> Steps]
  BY DEF TypeOK
<1> USE <1>t DEF Goes
<1>4. CASE Yields(j)
  BY <1>4 DEF Yields
<1>5. CASE OpenStream(j)
  BY <1>5 DEF OpenStream, StepInv
<1>6. CASE Accept(j)
  BY <1>6 DEF Accept
<1>7. CASE DaemonWrites(j)
  BY <1>7 DEF DaemonWrites, AtStep, StepInv
<1>8. CASE Delivers(j)
  BY <1>8 DEF Delivers, AtStep, StepInv
<1>9. CASE NoEntry(j)
  BY <1>9 DEF NoEntry, AtStep, AfterUntar, StepInv
<1>10. CASE OpenTemp(j) /\ file[Temp(jobs[j])] # Missing
  BY <1>10 DEF OpenTemp, AtStep, StepInv
<1>11. CASE RemoveTemp(j) /\ file[Temp(jobs[j])] # Missing
  BY <1>11 DEF RemoveTemp
<1>12. CASE Create(j) /\ ~file[Dest(j)].locked
  BY <1>12 DEF Create, Readable, AtStep, StepInv
<1>13. CASE Copy(j) /\ held[j].state # "part"
  BY <1>13 DEF Copy, AtStep, StepInv
<1>14. CASE Seal(j) /\ file[Dest(j)] # Missing
  BY <1>14 DEF Seal, AtStep, AfterUntar, StepInv
<1> QED
  BY <1>4, <1>5, <1>6, <1>7, <1>8, <1>9, <1>10, <1>11, <1>12, <1>13, <1>14, AdvanceCases
     DEF Proceeds

LEMMA StepStep ==
  ASSUME TypeOK, StepInv, [Next]_vars
  PROVE  StepInv'
<1>1. CASE \E j \in Jobs : Advance(j)
  BY <1>1, StepJob
<1>2. CASE Begins'
  BY <1>2 DEF Begins, StepInv
<1>3. CASE Return
  <2>1. UNCHANGED <<commandVars, at>> /\ Jobs' = Jobs
    BY <1>3, SameOutputs DEF Return
  <2>2. Cancelled' = Cancelled
    BY <2>1 DEF Cancelled
  <2>3. ~Cancelled => \A j \in Jobs : at[j] = "done"
    BY <1>3 DEF Return, Cancelled, StepInv
  <2>4. result' = "ok" => ~Cancelled
    BY <1>3 DEF Return
  <2> QED
    BY <2>1, <2>2, <2>3, <2>4 DEF StepInv, commandVars
<1>4. CASE UNCHANGED <<file, result, commandVars, at, held>>
  BY <1>4 DEF StepInv, Cancelled, Jobs, commandVars
<1> QED
  BY <1>1, <1>2, <1>3, <1>4, NextCases

-----------------------------------------------------------------------------
(***************************************************************************)
(* HeldInv.                                                                *)
(***************************************************************************)

LEMMA OutputsOf ==
  ASSUME NEW l \in Layers
  PROVE  /\ Target(l) \in Outputs(l)
         /\ way = "dragonfly" => Download(l) \in Outputs(l)
         /\ l \in TarLayers => Download(l) = Temp(l) /\ Temp(l) # Target(l)
         /\ l \notin TarLayers => Download(l) = Target(l)
         /\ \A p \in Outputs(l) : p = Target(l) \/ (way = "dragonfly" /\ p = Download(l))
<1>1. l \in TarLayers => Download(l) = Temp(l) /\ Temp(l) # Target(l)
  BY DEF Target, Download, Temp
<1>2. l \notin TarLayers => Download(l) = Target(l)
  BY DEF Target, Download
<1>3. Outputs(l) = IF way = "dragonfly" THEN {Target(l), Download(l)} ELSE {Target(l)}
  BY DEF Outputs
<1> QED
  BY <1>1, <1>2, <1>3

LEMMA JobsAndHeld ==
  ASSUME TypeOK, NEW j \in Jobs
  PROVE  jobs[j] \in Layers /\ held[j] \in File /\ at[j] \in Steps
BY DEF TypeOK

LEMMA PutsAt ==
  ASSUME TypeOK, NEW q, NEW f, Puts(q, f), NEW p \in Paths
  PROVE  /\ p = q => file'[p] = f
         /\ p # q => file'[p] = file[p]
BY DEF TypeOK, Puts

\* Whoever unpacks an archive writes the file of a job of this command.
LEMMA WriterIsOurs ==
  ASSUME TypeOK, StepInv, HeldInv, NEW m \in Jobs, at[m] \in {"entry", "copy", "seal", "check"}
  PROVE  \E k \in Jobs :
           /\ held[m].of = jobs[k] /\ Dest(m) = Target(jobs[k])
           /\ way = "dragonfly" => Temp(jobs[m]) \in Outputs(jobs[k])
           /\ way # "dragonfly" => k = m
<1>1. CASE way = "dragonfly"
  BY <1>1 DEF HeldInv, Owned, Dest, Entry
<1>2. CASE way # "dragonfly"
  BY <1>2 DEF HeldInv, Dest, Entry
<1> QED
  BY <1>1, <1>2

LEMMA WriterOwns ==
  ASSUME TypeOK, StepInv, HeldInv, NEW m \in Jobs, at[m] \in {"entry", "copy", "seal", "check"}
  PROVE  /\ held[m].of \in Layers /\ Dest(m) \in Paths
         /\ \E k \in Jobs : held[m].of = jobs[k] /\ Dest(m) \in Outputs(jobs[k])
<1>1. PICK k \in Jobs : held[m].of = jobs[k] /\ Dest(m) = Target(jobs[k])
  BY WriterIsOurs
<1> QED
  BY <1>1, JobsAndHeld, OutputsOf, PathsOfLayers

\* What a goroutine changes in the directory.
LEMMA Writes ==
  ASSUME TypeOK, StepInv, HeldInv, NEW j \in Jobs, Advance(j), NEW p \in Paths
  PROVE  /\ \/ file'[p] = Missing
            \/ Owned(p, file'[p])
            \/ file'[p].of = file[p].of /\ (file[p] = Missing => file'[p] = Missing)
         /\ file'[p].state = "none" => file'[p] = Missing
<1> DEFINE l == jobs[j]
           Goal == /\ \/ file'[p] = Missing
                      \/ Owned(p, file'[p])
                      \/ file'[p].of = file[p].of /\ (file[p] = Missing => file'[p] = Missing)
                   /\ file'[p].state = "none" => file'[p] = Missing
<1>j. l \in Layers /\ held[j] \in File
  BY JobsAndHeld
<1>f. file[p] \in File /\ (file[p].state = "none" => file[p] = Missing)
  BY DEF TypeOK, HeldInv
<1>u. ASSUME file'[p] = file[p] PROVE Goal
  BY <1>u, <1>f
<1>d. ASSUME NEW f, Puts(Download(l), f), f.of = l, f.state # "none", way = "dragonfly"
      PROVE  Goal
  <2>1. p = Download(l) => Owned(p, f)
    BY <1>d, <1>j, OutputsOf DEF Owned
  <2> QED
    BY <1>d, <1>u, <2>1, PutsAt
<1>1. CASE Yields(j)
  BY <1>1, <1>u DEF Yields
<1>2. CASE OpenStream(j) \/ Accept(j) \/ NoEntry(j)
  BY <1>2, <1>u DEF OpenStream, Accept, NoEntry
<1>3. CASE DaemonWrites(j)
  <2>1. way = "dragonfly"
    BY <1>3 DEF DaemonWrites, AtStep, StepInv
  <2>2. PICK state \in {"empty", "part"} : Puts(Download(l), Downloaded(l, state))
    BY <1>3 DEF DaemonWrites
  <2> QED
    BY <1>d, <1>j, <2>1, <2>2, NewFiles DEF States
<1>4. CASE Delivers(j)
  <2> DEFINE f == IF l \in TarLayers THEN Packed(l) ELSE Downloaded(l, "whole")
  <2>1. way = "dragonfly"
    BY <1>4 DEF Delivers, AtStep, StepInv
  <2>2. f \in File /\ f.of = l /\ f.state # "none"
    BY <1>j, NewFiles DEF States
  <2>3. [f EXCEPT !.state = "wrong"].of = l /\ [f EXCEPT !.state = "wrong"].state # "none"
    BY <2>2, FileFields DEF States
  <2>4. Puts(Download(l), f) \/ Puts(Download(l), [f EXCEPT !.state = "wrong"])
    BY <1>4 DEF Delivers
  <2> QED
    BY <1>d, <2>1, <2>2, <2>3, <2>4
<1>5. CASE OpenTemp(j) /\ file[Temp(jobs[j])] # Missing
  BY <1>5, <1>u DEF OpenTemp
<1>6. CASE RemoveTemp(j) /\ file[Temp(jobs[j])] # Missing
  <2>1. Puts(Temp(l), Missing)
    BY <1>6 DEF RemoveTemp
  <2> QED
    BY <1>u, <2>1, PutsAt
<1>7. CASE Create(j) /\ ~file[Dest(j)].locked
  <2>1. at[j] = "entry"
    BY <1>7 DEF Create, Readable, AtStep
  <2>2. PICK k \in Jobs : held[j].of = jobs[k] /\ Dest(j) \in Outputs(jobs[k])
    BY <2>1, WriterOwns
  <2> DEFINE f == Writing(j, "part", file[Dest(j)] = Missing /\ Entry(j) \in ReadOnly)
  <2>3. Puts(Dest(j), f) /\ f.of = jobs[k] /\ f.state # "none"
    BY <1>7, <2>2 DEF Create, Writing, Entry
  <2> QED
    BY <1>u, <2>2, <2>3, PutsAt DEF Owned
<1>8. CASE Copy(j) /\ held[j].state # "part"
  <2> DEFINE s == IF Shared(j) THEN "part" ELSE held[j].state
  <2>1. s \in States /\ s # "none"
    BY <1>8, <1>j, FileFields DEF Copy, AtStep, HeldInv, States
  <2> HIDE DEF s
  <2>2. file' = file \/ Puts(Dest(j), [file[Dest(j)] EXCEPT !.state = s])
    BY <1>8 DEF Copy, s
  <2>3. Opened(j) \/ file' = file
    BY <1>8 DEF Copy
  <2>4. CASE p = Dest(j) /\ file' # file
    <3>1. file'[p] = [file[p] EXCEPT !.state = s]
      BY <2>2, <2>4, PutsAt
    <3>2. file'[p].of = file[p].of /\ file'[p].state = s
      BY <3>1, <1>f, <2>1, FileFields
    <3>3. at[j] = "copy" /\ file[p].of = held[j].of
      BY <1>8, <2>3, <2>4 DEF Copy, AtStep, Opened, Entry
    <3>4. Owned(p, file'[p])
      BY <2>4, <3>2, <3>3, WriterOwns DEF Owned
    <3> QED
      BY <2>1, <3>2, <3>4
  <2> QED
    BY <1>u, <2>2, <2>4, PutsAt
<1>9. CASE Seal(j) /\ file[Dest(j)] # Missing
  <2> DEFINE b == Entry(j) \in ReadOnly
  <2>1. Puts(Dest(j), [file[Dest(j)] EXCEPT !.locked = b]) /\ b \in BOOLEAN
    BY <1>9 DEF Seal
  <2> HIDE DEF b
  <2>2. CASE p = Dest(j)
    <3>1. file'[p] = [file[p] EXCEPT !.locked = b]
      BY <2>1, <2>2, PutsAt
    <3>2. file'[p].of = file[p].of /\ file'[p].state = file[p].state
      BY <2>1, <3>1, <1>f, LockFields
    <3> QED
      BY <1>9, <1>f, <2>2, <3>2
  <2> QED
    BY <1>u, <2>1, <2>2, PutsAt
<1> QED
  BY <1>1, <1>2, <1>3, <1>4, <1>5, <1>6, <1>7, <1>8, <1>9, AdvanceCases DEF Proceeds

LEMMA HeldJob ==
  ASSUME TypeOK, StepInv, HeldInv, NEW j \in Jobs, Advance(j)
  PROVE  HeldInv'
<1> DEFINE Found(k) == at[k] \in {"fill", "open"} =>
                         LET d == Download(jobs[k]) IN file[d] = Missing \/ Owned(d, file[d])
           Has(k) == /\ at[k] \in {"entry", "copy", "seal", "check"} =>
                          /\ held[k].state # "none"
                          /\ way = "dragonfly" => Owned(Temp(jobs[k]), held[k])
                          /\ way # "dragonfly" => /\ held[k].of = jobs[k] /\ held[k].packed
                                                  /\ held[k].state # "empty"
                     /\ at[k] \in {"copy", "seal", "check"} => held[k].state # "empty"
<1>1. UNCHANGED commandVars /\ Jobs' = Jobs /\ way' = way /\ jobs' = jobs
  BY AdvanceCases, SameOutputs DEF commandVars
<1>2. \A p, f : Owned(p, f)' = Owned(p, f)
  BY <1>1, SameOutputs
<1>j. jobs[j] \in Layers /\ held[j] \in File /\ at \in [Jobs -> Steps] /\ held \in [Jobs -> File]
  BY JobsAndHeld DEF TypeOK
<1>3. \A p \in Paths : file'[p].state = "none" => file'[p] = Missing
  BY Writes
<1>4. ASSUME NEW k \in Jobs, Found(k), at'[k] = at[k]
      PROVE  Found(k)'
  <2> SUFFICES ASSUME at[k] \in {"fill", "open"}
               PROVE  LET d == Download(jobs[k]) IN file'[d] = Missing \/ Owned(d, file'[d])
    BY <1>1, <1>2, <1>4 DEF Download, Temp
  <2> DEFINE d == Download(jobs[k])
  <2>1. file[d] = Missing \/ Owned(d, file[d])
    BY <1>4
  <2>2. d \in Paths
    BY JobsAndHeld, PathsOfLayers
  <2> HIDE DEF d
  <2>3. \/ file'[d] = Missing
        \/ Owned(d, file'[d])
        \/ file'[d].of = file[d].of /\ (file[d] = Missing => file'[d] = Missing)
    BY <2>2, Writes
  <2> QED
    BY <2>1, <2>3 DEF Owned, d
<1>5. ASSUME NEW k \in Jobs, k # j
      PROVE  Found(k)' /\ Has(k)'
  <2>1. at'[k] = at[k] /\ held'[k] = held[k]
    BY <1>5, OthersStay
  <2>2. Found(k) /\ Has(k)
    BY DEF HeldInv
  <2>3. Found(k)'
    BY <1>4, <2>1, <2>2
  <2>4. Has(k)'
    BY <1>1, <1>2, <2>1, <2>2 DEF Temp
  <2> QED
    BY <2>3, <2>4
<1>6. Found(j)' /\ Has(j)'
  <2>1. ASSUME at'[j] \notin {"fill", "open", "entry", "copy", "seal", "check"}
        PROVE  Found(j)' /\ Has(j)'
    BY <2>1
  <2>2. CASE Yields(j)
    BY <1>j, <2>1, <2>2 DEF Yields, Goes
  <2>3. CASE OpenStream(j)
    <3>1. /\ at'[j] = "entry" /\ way # "dragonfly"
          /\ \/ held'[j] = Packed(jobs[j])
             \/ held'[j] = [Packed(jobs[j]) EXCEPT !.state = "wrong"]
      BY <1>j, <2>3 DEF OpenStream, Goes, Holds
    <3>2. Packed(jobs[j]) \in File /\ Packed(jobs[j]).of = jobs[j] /\ Packed(jobs[j]).packed
          /\ Packed(jobs[j]).state \notin {"none", "empty"}
      BY <1>j, NewFiles DEF States
    <3>3. held'[j].of = jobs[j] /\ held'[j].packed /\ held'[j].state \notin {"none", "empty"}
      <4> DEFINE f == Packed(jobs[j])
      <4>1. f \in File /\ "wrong" \in States
        BY <3>2 DEF States
      <4> HIDE DEF f
      <4>2. /\ [f EXCEPT !.state = "wrong"].of = f.of
            /\ [f EXCEPT !.state = "wrong"].packed = f.packed
            /\ [f EXCEPT !.state = "wrong"].state = "wrong"
        BY <4>1, FileFields
      <4> QED
        BY <3>1, <3>2, <4>2 DEF f
    <3> QED
      BY <1>1, <3>1, <3>3
  <2>4. CASE Accept(j)
    BY <1>j, <2>1, <2>4 DEF Accept, Goes
  <2>5. CASE DaemonWrites(j)
    <3>1. at'[j] = "fill" /\ at[j] = "recv"
      BY <1>j, <2>5 DEF DaemonWrites, Goes, AtStep
    <3>2. PICK state \in {"empty", "part"} :
            Puts(Download(jobs[j]), Downloaded(jobs[j], state))
      BY <2>5 DEF DaemonWrites
    <3>3. file'[Download(jobs[j])].of = jobs[j]
      BY <1>j, <3>2, NewFiles, PathsOfLayers, PutsAt DEF States
    <3>4. Download(jobs[j]) \in Outputs(jobs[j])
      BY <1>j, <3>1, OutputsOf DEF StepInv
    <3>5. Owned(Download(jobs[j]), file'[Download(jobs[j])])
      BY <3>3, <3>4 DEF Owned
    <3> QED
      BY <1>1, <1>2, <3>1, <3>5 DEF Download, Temp
  <2>6. CASE Delivers(j)
    <3> DEFINE f == IF jobs[j] \in TarLayers THEN Packed(jobs[j])
                                             ELSE Downloaded(jobs[j], "whole")
    <3>1. at'[j] \in {"open", "done"} /\ at[j] = "fill"
      BY <1>j, <2>6 DEF Delivers, Goes, AtStep
    <3>2. f \in File /\ f.of = jobs[j] /\ [f EXCEPT !.state = "wrong"].of = jobs[j]
      BY <1>j, NewFiles, FileFields, SMTT(30) DEF States
    <3>3. Puts(Download(jobs[j]), f) \/ Puts(Download(jobs[j]), [f EXCEPT !.state = "wrong"])
      BY <2>6 DEF Delivers
    <3> HIDE DEF f
    <3>4. file'[Download(jobs[j])].of = jobs[j]
      <4>1. Download(jobs[j]) \in Paths
        BY <1>j, PathsOfLayers
      <4>2. \/ file'[Download(jobs[j])] = f
            \/ file'[Download(jobs[j])] = [f EXCEPT !.state = "wrong"]
        BY <3>3, <4>1, PutsAt
      <4> QED
        BY <3>2, <4>2
    <3>5. Download(jobs[j]) \in Outputs(jobs[j])
      BY <1>j, <3>1, OutputsOf DEF StepInv
    <3>6. Owned(Download(jobs[j]), file'[Download(jobs[j])])
      BY <3>4, <3>5 DEF Owned
    <3> QED
      BY <1>1, <1>2, <3>1, <3>6 DEF Download, Temp
  <2>7. CASE NoEntry(j)
    <3>1. at[j] = "entry" /\ held[j].state = "empty"
      BY <2>7 DEF NoEntry, AtStep
    <3>2. way = "dragonfly" => at'[j] = "remove"
      BY <1>j, <2>7 DEF NoEntry, Goes, AfterUntar
    <3>3. way = "dragonfly"
      BY <3>1 DEF HeldInv
    <3> QED
      BY <2>1, <3>2, <3>3
  <2>8. CASE OpenTemp(j) /\ file[Temp(jobs[j])] # Missing
    <3> DEFINE d == Temp(jobs[j])
    <3>1. at[j] = "open" /\ at'[j] = "entry" /\ held'[j] = file[d]
      BY <1>j, <2>8 DEF OpenTemp, Goes, Holds, AtStep
    <3>2. jobs[j] \in TarLayers /\ way = "dragonfly"
      BY <3>1 DEF StepInv
    <3>3. Download(jobs[j]) = d /\ d \in Paths
      BY <1>j, <3>2, OutputsOf, PathsOfLayers
    <3>4. Owned(d, file[d]) /\ file[d].state # "none"
      BY <2>8, <3>1, <3>3 DEF HeldInv
    <3> QED
      BY <1>1, <1>2, <3>1, <3>2, <3>4 DEF Temp
  <2>9. CASE RemoveTemp(j) /\ file[Temp(jobs[j])] # Missing
    BY <1>j, <2>1, <2>9 DEF RemoveTemp, Goes
  <2>10. CASE Create(j) /\ ~file[Dest(j)].locked
    <3>1. at[j] = "entry" /\ at'[j] = "copy" /\ held' = held /\ held[j].state # "empty"
      BY <1>j, <2>10 DEF Create, Readable, Goes, AtStep
    <3> QED
      BY <1>1, <1>2, <3>1 DEF HeldInv, Temp
  <2>11. CASE Copy(j) /\ held[j].state # "part"
    <3>1. at[j] = "copy" /\ at'[j] = "seal" /\ held' = held
      BY <1>j, <2>11 DEF Copy, Goes, AtStep
    <3> QED
      BY <1>1, <1>2, <3>1 DEF HeldInv, Temp
  <2>12. CASE Seal(j) /\ file[Dest(j)] # Missing
    <3>1. CASE way = "dragonfly"
      BY <1>j, <2>1, <2>12, <3>1 DEF Seal, Goes, AfterUntar
    <3>2. CASE way # "dragonfly"
      <4>1. at[j] = "seal" /\ at'[j] = "check" /\ held' = held
        BY <1>j, <2>12, <3>2 DEF Seal, Goes, AtStep, AfterUntar
      <4> QED
        BY <1>1, <3>2, <4>1 DEF HeldInv
    <3> QED
      BY <3>1, <3>2
  <2> QED
    BY <2>2, <2>3, <2>4, <2>5, <2>6, <2>7, <2>8, <2>9, <2>10, <2>11, <2>12, AdvanceCases
       DEF Proceeds
<1> QED
  BY <1>1, <1>3, <1>5, <1>6 DEF HeldInv

LEMMA HeldStep ==
  ASSUME TypeOK, StepInv, HeldInv, [Next]_vars
  PROVE  HeldInv'
<1>f. \A p \in Paths : file[p].state = "none" => file[p] = Missing
  BY DEF HeldInv
<1>1. CASE \E j \in Jobs : Advance(j)
  BY <1>1, HeldJob
<1>2. CASE Begins' /\ file' = file
  BY <1>f, <1>2 DEF Begins, HeldInv
<1>3. CASE Return
  <2>1. UNCHANGED <<commandVars, at, file>> /\ Jobs' = Jobs
    BY <1>3, SameOutputs DEF Return
  <2>2. \A j \in Jobs : at'[j] \in {"done", "failed", "cancelled"}
    BY <1>3 DEF Return
  <2> QED
    BY <1>f, <2>1, <2>2 DEF HeldInv
<1>4. CASE UNCHANGED <<file, result, commandVars, at, held>>
  <2>1. /\ UNCHANGED <<file, at, held, way, jobs>> /\ Jobs' = Jobs
        /\ \A p, f : Owned(p, f)' = Owned(p, f)
    BY <1>4, SameOutputs DEF commandVars
  <2> QED
    BY <2>1 DEF HeldInv, Download, Temp
<1> QED
  BY <1>1, <1>2, <1>3, <1>4, NextCases

-----------------------------------------------------------------------------
(***************************************************************************)
(* Layers that share no file with another layer.                           *)
(***************************************************************************)

LEMMA Apart ==
  ASSUME NEW j \in Jobs, Clashes(j) = {}, NEW k \in Jobs,
         NEW p, p \in Outputs(jobs[j]), p \in Outputs(jobs[k])
  PROVE  jobs[k] = jobs[j]
BY DEF Clashes, Rivals

\* Only the goroutines of such a layer write to its files, and nothing else.
LEMMA WriterIsTwin ==
  ASSUME TypeOK, StepInv, HeldInv, NEW j \in Jobs, Clashes(j) = {},
         NEW m \in Jobs, at[m] \in {"entry", "copy", "seal", "check"},
         Dest(m) \in Outputs(jobs[j]) \/ jobs[m] = jobs[j]
  PROVE  jobs[m] = jobs[j] /\ held[m].of = jobs[j] /\ Dest(m) = Target(jobs[j])
<1>1. PICK k \in Jobs : /\ held[m].of = jobs[k] /\ Dest(m) = Target(jobs[k])
                        /\ way = "dragonfly" => Temp(jobs[m]) \in Outputs(jobs[k])
                        /\ way # "dragonfly" => k = m
  BY WriterIsOurs
<1>2. jobs[k] \in Layers /\ jobs[m] \in Layers
  BY JobsAndHeld
<1>3. Dest(m) \in Outputs(jobs[k])
  BY <1>1, <1>2, OutputsOf
<1>4. CASE way # "dragonfly"
  BY <1>1, <1>3, <1>4, Apart
<1>5. CASE way = "dragonfly"
  <2>1. jobs[m] \in TarLayers
    BY <1>5 DEF StepInv
  <2>2. Temp(jobs[m]) \in Outputs(jobs[m])
    BY <1>2, <1>5, <2>1, OutputsOf
  <2>3. CASE jobs[m] = jobs[j]
    BY <1>1, <1>5, <2>2, <2>3, Apart
  <2>4. CASE Dest(m) \in Outputs(jobs[j])
    <3>1. jobs[k] = jobs[j]
      BY <1>3, <2>4, Apart
    <3>2. jobs[m] = jobs[j]
      BY <1>1, <1>5, <2>2, <3>1, Apart
    <3> QED
      BY <1>1, <3>1, <3>2
  <2> QED
    BY <2>3, <2>4
<1> QED
  BY <1>4, <1>5

LEMMA OthersKeepOff ==
  ASSUME TypeOK, StepInv, HeldInv, NEW j \in Jobs, Clashes(j) = {},
         NEW m \in Jobs, Advance(m), jobs[m] # jobs[j], NEW p \in Outputs(jobs[j])
  PROVE  file'[p] = file[p]
<1>1. jobs[j] \in Layers /\ jobs[m] \in Layers
  BY JobsAndHeld
<1>2. p \in Paths
  BY <1>1, OutputsOf, PathsOfLayers
<1>3. ASSUME way = "dragonfly", NEW f, Puts(Download(jobs[m]), f)
      PROVE  file'[p] = file[p]
  <2>1. p # Download(jobs[m])
    BY <1>1, <1>3, OutputsOf, Apart
  <2> QED
    BY <1>2, <1>3, <2>1, PutsAt
<1>4. ASSUME at[m] \in {"entry", "copy", "seal", "check"},
             file' = file \/ \E f : Puts(Dest(m), f)
      PROVE  file'[p] = file[p]
  <2>1. p # Dest(m)
    BY <1>4, WriterIsTwin
  <2> QED
    BY <1>2, <1>4, <2>1, PutsAt
<1>5. CASE Yields(m)
  BY <1>5 DEF Yields
<1>6. CASE OpenStream(m) \/ Accept(m) \/ NoEntry(m)
  BY <1>6 DEF OpenStream, Accept, NoEntry
<1>7. CASE DaemonWrites(m)
  BY <1>3, <1>7 DEF DaemonWrites, AtStep, StepInv
<1>8. CASE Delivers(m)
  BY <1>3, <1>8 DEF Delivers, AtStep, StepInv
<1>9. CASE OpenTemp(m) /\ file[Temp(jobs[m])] # Missing
  BY <1>9 DEF OpenTemp
<1>10. CASE RemoveTemp(m) /\ file[Temp(jobs[m])] # Missing
  <2>1. way = "dragonfly" /\ jobs[m] \in TarLayers
    BY <1>10 DEF RemoveTemp, AtStep, StepInv
  <2>2. Download(jobs[m]) = Temp(jobs[m])
    BY <1>1, <2>1, OutputsOf
  <2> QED
    BY <1>3, <1>10, <2>1, <2>2 DEF RemoveTemp
<1>11. CASE Create(m) /\ ~file[Dest(m)].locked
  BY <1>4, <1>11 DEF Create, Readable, AtStep
<1>12. CASE Copy(m) /\ held[m].state # "part"
  BY <1>4, <1>12 DEF Copy, AtStep
<1>13. CASE Seal(m) /\ file[Dest(m)] # Missing
  BY <1>4, <1>13 DEF Seal, AtStep
<1> QED
  BY <1>5, <1>6, <1>7, <1>8, <1>9, <1>10, <1>11, <1>12, <1>13, AdvanceCases DEF Proceeds

-----------------------------------------------------------------------------
(***************************************************************************)
(* TempInv.                                                                *)
(***************************************************************************)

\* A goroutine that unpacks an archive left by a daemon ends with its removal.
LEMMA DoneMeansRemoved ==
  ASSUME TypeOK, StepInv, NEW m \in Jobs, Advance(m), way = "dragonfly",
         jobs[m] \in TarLayers, at'[m] = "done"
  PROVE  file'[Temp(jobs[m])] = Missing
<1>1. at \in [Jobs -> Steps] /\ jobs[m] \in Layers /\ Temp(jobs[m]) \in Paths
  BY JobsAndHeld, PathsOfLayers DEF TypeOK
<1>2. ~Yields(m)
  BY <1>1 DEF Yields, Goes
<1>3. ~Accept(m) /\ ~(Seal(m) /\ file[Dest(m)] # Missing) /\ ~NoEntry(m)
  BY <1>1 DEF Accept, AtStep, StepInv, NoEntry, Seal, Goes, AfterUntar
<1>4. /\ ~OpenStream(m) /\ ~DaemonWrites(m) /\ ~Delivers(m)
      /\ ~(OpenTemp(m) /\ file[Temp(jobs[m])] # Missing)
      /\ ~(Create(m) /\ ~file[Dest(m)].locked) /\ ~(Copy(m) /\ held[m].state # "part")
  BY <1>1 DEF OpenStream, DaemonWrites, Delivers, OpenTemp, Create, Copy, Goes
<1>5. RemoveTemp(m) /\ file[Temp(jobs[m])] # Missing
  BY <1>2, <1>3, <1>4, AdvanceCases DEF Proceeds
<1> QED
  BY <1>1, <1>5, PutsAt DEF RemoveTemp

LEMMA TempJob ==
  ASSUME TypeOK, StepInv, HeldInv, TempInv, NEW m \in Jobs, Advance(m)
  PROVE  TempInv'
<1>1. /\ UNCHANGED <<way, jobs>> /\ Jobs' = Jobs /\ result = "running" /\ result' = result
      /\ \A j \in Jobs : Clashes(j)' = Clashes(j) /\ Twins(j)' = Twins(j)
  BY AdvanceCases, SameOutputs DEF commandVars
<1> SUFFICES ASSUME way = "dragonfly", NEW j \in Jobs, jobs[j] \in TarLayers, Clashes(j) = {}
             PROVE  \/ file'[Temp(jobs[j])] = Missing
                    \/ \E k \in Twins(j) : at'[k] # "done"
  BY <1>1 DEF TempInv, Temp
<1>2. CASE jobs[m] = jobs[j]
  <2>1. m \in Twins(j)
    BY <1>2 DEF Twins
  <2> QED
    BY <1>2, <2>1, DoneMeansRemoved
<1>3. CASE jobs[m] # jobs[j]
  <2>1. file'[Temp(jobs[j])] = file[Temp(jobs[j])]
    BY <1>3, OthersKeepOff, OutputsOf, JobsAndHeld
  <2>2. \A k \in Twins(j) : at'[k] = at[k]
    BY <1>3, OthersStay DEF Twins
  <2> QED
    BY <1>1, <2>1, <2>2 DEF TempInv, Running
<1> QED
  BY <1>2, <1>3

LEMMA TempStep ==
  ASSUME TypeOK, StepInv, HeldInv, TempInv, [Next]_vars
  PROVE  TempInv'
<1>1. CASE \E j \in Jobs : Advance(j)
  BY <1>1, TempJob
<1>2. CASE Begins' /\ file' = file
  BY <1>2 DEF Begins, TempInv, Twins
<1>3. CASE Return \/ UNCHANGED <<file, result, commandVars, at, held>>
  <2>1. /\ UNCHANGED <<file, at, way, jobs>> /\ Jobs' = Jobs /\ (Running' => Running)
        /\ \A j \in Jobs : Clashes(j)' = Clashes(j) /\ Twins(j)' = Twins(j)
    BY <1>3, SameOutputs DEF Return, commandVars, Running
  <2> QED
    BY <2>1 DEF TempInv, Temp
<1> QED
  BY <1>1, <1>2, <1>3, NextCases

-----------------------------------------------------------------------------
(***************************************************************************)
(* FileInv.                                                                *)
(***************************************************************************)

Created(j) ==
  at[j] \in {"copy", "seal"} =>
    LET f == file[Target(jobs[j])] IN f.of = jobs[j] /\ ~f.packed

\* A created file stays, since its name is nobody's archive.
LEMMA CreatedStays ==
  ASSUME TypeOK, StepInv, HeldInv, NEW j \in Jobs, Clashes(j) = {}, Created(j),
         NEW m \in Jobs, Advance(m)
  PROVE  Created(j)'
<1> DEFINE t == Target(jobs[j])
<1>1. UNCHANGED <<way, jobs>>
  BY AdvanceCases DEF commandVars
<1>2. /\ jobs[j] \in Layers /\ jobs[m] \in Layers /\ t \in Paths /\ file[t] \in File
      /\ at \in [Jobs -> Steps] /\ t \in Outputs(jobs[j]) /\ held[m] \in File
  BY JobsAndHeld, PathsOfLayers, OutputsOf DEF TypeOK
<1> SUFFICES ASSUME at'[j] \in {"copy", "seal"}
             PROVE  file'[t].of = jobs[j] /\ ~file'[t].packed
  BY <1>1 DEF Created, Target
<1>3. ASSUME file'[t] = file[t], at'[j] = at[j]
      PROVE  file'[t].of = jobs[j] /\ ~file'[t].packed
  BY <1>3 DEF Created
<1>4. CASE jobs[m] # jobs[j]
  BY <1>2, <1>3, <1>4, OthersKeepOff, OthersStay
<1>5. CASE jobs[m] = jobs[j]
  <2>0. jobs[j] \in TarLayers /\ t # Temp(jobs[j]) /\ Download(jobs[j]) = Temp(jobs[j])
    <3>1. at[j] \in {"open", "entry", "copy", "seal", "remove"}
      <4>1. CASE m # j
        BY <4>1, OthersStay
      <4>2. CASE m = j
        <5>1. ~Yields(j) /\ ~DaemonWrites(j) /\ ~Accept(j) /\ ~OpenStream(j) /\ ~Delivers(j)
          BY <1>2 DEF Yields, DaemonWrites, Accept, OpenStream, Delivers, Goes
        <5> QED
          BY <4>2, <5>1, AdvanceCases DEF Proceeds, NoEntry, OpenTemp, RemoveTemp, Create, Copy,
                                          Readable, Seal, AtStep
      <4> QED
        BY <4>1, <4>2
    <3> QED
      BY <1>2, <3>1, OutputsOf DEF StepInv
  <2>a. ASSUME NEW f, Puts(Temp(jobs[j]), f), at'[j] = at[j]
        PROVE  file'[t].of = jobs[j] /\ ~file'[t].packed
    BY <1>2, <1>3, <2>0, <2>a, PutsAt
  <2>b. at'[j] # at[j] => m = j
    BY OthersStay
  <2>c. ASSUME at[m] \in {"entry", "copy", "seal", "check"}
        PROVE  Dest(m) = t /\ held[m].of = jobs[j]
    BY <1>5, <2>c, WriterIsTwin
  <2>1. CASE Yields(m)
    <3>1. m # j
      BY <1>2, <2>1 DEF Yields, Goes
    <3> QED
      BY <1>3, <2>1, <2>b, <3>1 DEF Yields
  <2>2. CASE OpenStream(m) \/ Accept(m) \/ NoEntry(m)
    <3>1. m # j
      BY <1>2, <2>2 DEF OpenStream, Accept, NoEntry, Goes, AfterUntar
    <3> QED
      BY <1>3, <2>2, <2>b, <3>1 DEF OpenStream, Accept, NoEntry
  <2>3. CASE DaemonWrites(m) \/ Delivers(m)
    <3>1. m # j
      BY <1>2, <2>3 DEF DaemonWrites, Delivers, Goes
    <3> QED
      BY <1>5, <2>0, <2>a, <2>3, <2>b, <3>1 DEF DaemonWrites, Delivers
  <2>4. CASE OpenTemp(m) /\ file[Temp(jobs[m])] # Missing
    <3>1. m # j
      BY <1>2, <2>4 DEF OpenTemp, Goes
    <3> QED
      BY <1>3, <2>4, <2>b, <3>1 DEF OpenTemp
  <2>5. CASE RemoveTemp(m) /\ file[Temp(jobs[m])] # Missing
    <3>1. m # j
      BY <1>2, <2>5 DEF RemoveTemp, Goes
    <3> QED
      BY <1>5, <2>a, <2>5, <2>b, <3>1 DEF RemoveTemp
  <2>6. CASE Create(m) /\ ~file[Dest(m)].locked
    <3> DEFINE f == Writing(m, "part", file[Dest(m)] = Missing /\ Entry(m) \in ReadOnly)
    <3>1. Puts(Dest(m), f) /\ at[m] = "entry"
      BY <2>6 DEF Create, Readable, AtStep
    <3>2. f.of = held[m].of /\ ~f.packed
      BY DEF Writing, Entry
    <3> HIDE DEF f
    <3>3. file'[t] = f
      BY <1>2, <2>c, <3>1, PutsAt
    <3> QED
      BY <2>c, <3>1, <3>2, <3>3
  <2>7. CASE Copy(m) /\ held[m].state # "part"
    <3> DEFINE s == IF Shared(m) THEN "part" ELSE held[m].state
    <3>1. at[m] = "copy" /\ s \in States
      BY <1>2, <2>7, FileFields DEF Copy, AtStep, States
    <3> HIDE DEF s
    <3>2. file' = file \/ Puts(Dest(m), [file[Dest(m)] EXCEPT !.state = s])
      BY <2>7 DEF Copy, s
    <3>3. file'[t] = file[t] \/ file'[t] = [file[t] EXCEPT !.state = s]
      BY <1>2, <2>c, <3>1, <3>2, PutsAt
    <3>4. file'[t].of = file[t].of /\ file'[t].packed = file[t].packed
      <4> DEFINE g == file[t]
      <4>1. g \in File
        BY <1>2
      <4> HIDE DEF g
      <4>2. [g EXCEPT !.state = s].of = g.of /\ [g EXCEPT !.state = s].packed = g.packed
        BY <3>1, <4>1, FileFields
      <4> QED
        BY <3>3, <4>2 DEF g
    <3>5. at[j] \in {"copy", "seal"}
      BY <2>b, <3>1
    <3> QED
      BY <3>4, <3>5 DEF Created
  <2>8. CASE Seal(m) /\ file[Dest(m)] # Missing
    <3> DEFINE b == Entry(m) \in ReadOnly
    <3>1. /\ at[m] = "seal" /\ b \in BOOLEAN
          /\ Puts(Dest(m), [file[Dest(m)] EXCEPT !.locked = b])
      BY <2>8 DEF Seal, AtStep
    <3> HIDE DEF b
    <3>2. file'[t] = [file[t] EXCEPT !.locked = b]
      BY <1>2, <2>c, <3>1, PutsAt
    <3>3. file'[t].of = file[t].of /\ file'[t].packed = file[t].packed
      BY <1>2, <3>1, <3>2, LockFields
    <3>4. at[j] \in {"copy", "seal"}
      BY <2>b, <3>1
    <3> QED
      BY <3>3, <3>4 DEF Created
  <2> QED
    BY <2>1, <2>2, <2>3, <2>4, <2>5, <2>6, <2>7, <2>8, AdvanceCases DEF Proceeds
<1> QED
  BY <1>4, <1>5

Settled(j) == Delivered(jobs[j]) \/ \E k \in Twins(j) : Unsettled(k)

\* A step of another layer's goroutine.
LEMMA SettledByOthers ==
  ASSUME TypeOK, StepInv, HeldInv, NEW j \in Jobs, Clashes(j) = {}, Settled(j),
         NEW m \in Jobs, Advance(m), jobs[m] # jobs[j]
  PROVE  Settled(j)'
<1>1. UNCHANGED <<way, jobs>> /\ Jobs' = Jobs /\ Twins(j)' = Twins(j)
  BY AdvanceCases, SameOutputs DEF commandVars
<1>2. jobs[j] \in Layers /\ Target(jobs[j]) \in Outputs(jobs[j])
  BY JobsAndHeld, OutputsOf
<1>3. CASE Delivered(jobs[j])
  <2>1. file'[Target(jobs[j])] = file[Target(jobs[j])]
    BY <1>2, OthersKeepOff
  <2> QED
    BY <1>1, <1>3, <2>1 DEF Settled, Delivered, Target
<1>4. ASSUME NEW k \in Twins(j), Unsettled(k)
      PROVE  Unsettled(k)'
  <2>1. k \in Jobs /\ k # m /\ jobs[k] = jobs[j]
    BY DEF Twins
  <2>2. at'[k] = at[k] /\ held'[k] = held[k]
    BY <2>1, OthersStay
  <2>3. at[k] = "open" => file'[Temp(jobs[k])] = file[Temp(jobs[k])]
    <3> SUFFICES ASSUME at[k] = "open"
                 PROVE  file'[Temp(jobs[k])] = file[Temp(jobs[k])]
      OBVIOUS
    <3>1. way = "dragonfly" /\ jobs[j] \in TarLayers
      BY <2>1 DEF StepInv
    <3>2. Temp(jobs[j]) \in Outputs(jobs[j])
      BY <1>2, <3>1, OutputsOf
    <3> QED
      BY <2>1, <3>2, OthersKeepOff
  <2> QED
    BY <1>1, <1>4, <2>2, <2>3 DEF Unsettled, Temp
<1> QED
  BY <1>1, <1>3, <1>4 DEF Settled

\* A step of one of its own goroutines.
LEMMA SettledByTwin ==
  ASSUME TypeOK, StepInv, HeldInv, NEW j \in Jobs, Clashes(j) = {}, Settled(j),
         NEW m \in Jobs, Advance(m), jobs[m] = jobs[j], Created(m)
  PROVE  Settled(j)'
<1> DEFINE l == jobs[j]
           t == Target(l)
           d == Temp(l)
<1>1. /\ UNCHANGED <<way, jobs, archive>> /\ Jobs' = Jobs /\ Twins(j)' = Twins(j)
      /\ l' = l /\ t' = t /\ d' = d
  BY AdvanceCases, SameOutputs DEF commandVars, Target, Temp
<1>2. /\ l \in Layers /\ t \in Paths /\ d \in Paths /\ file[t] \in File /\ file[d] \in File
      /\ at \in [Jobs -> Steps] /\ held[m] \in File /\ held \in [Jobs -> File] /\ m \in Twins(j)
  BY JobsAndHeld, PathsOfLayers DEF TypeOK, Twins
<1>t. l \in TarLayers => d # t /\ Download(l) = d
  BY <1>2, OutputsOf
<1>w. ASSUME Unsettled(m)' PROVE Settled(j)'
  BY <1>1, <1>2, <1>w DEF Settled
\* Nothing is lost if m was not the reason, the file stays, and so does what
\* the others will open.
<1>k. ASSUME Unsettled(m) => Unsettled(m)',
             Delivered(l) => Delivered(l)',
             file'[d] = file[d] \/ file'[d].state # "empty"
      PROVE  Settled(j)'
  <2>1. ASSUME NEW k \in Twins(j), Unsettled(k), k # m
        PROVE  Unsettled(k)'
    <3>1. k \in Jobs /\ jobs[k] = l
      BY DEF Twins
    <3>2. at'[k] = at[k] /\ held'[k] = held[k]
      BY <2>1, <3>1, OthersStay
    <3>3. /\ Temp(jobs[k]) = d /\ Temp(jobs[k])' = d
          /\ file[d].state # "empty" => file'[d].state # "empty"
      BY <1>1, <1>k, <3>1 DEF Temp
    <3> QED
      BY <1>1, <2>1, <3>2, <3>3 DEF Unsettled
  <2> QED
    BY <1>1, <1>k, <1>w, <2>1 DEF Settled
<1>f. ASSUME file'[t] = file[t] PROVE Delivered(l) => Delivered(l)'
  BY <1>1, <1>f DEF Delivered
<1>c. ASSUME at[m] \in {"entry", "copy", "seal", "check"}
      PROVE  held[m].of = l /\ Dest(m) = t /\ l \in TarLayers
  BY <1>c, WriterIsTwin DEF StepInv
<1>3. CASE Yields(m)
  <2>1. at'[m] \in {"get", "recv", "failed", "cancelled"}
    BY <1>2, <1>3 DEF Yields, Goes
  <2> QED
    BY <1>w, <2>1 DEF Unsettled
<1>4. CASE OpenStream(m)
  <2>1. at'[m] = "entry" /\ way' # "dragonfly"
    BY <1>1, <1>2, <1>4 DEF OpenStream, Goes
  <2>2. held'[m].state # "empty"
    BY <1>1, <2>1, HeldJob DEF HeldInv
  <2> QED
    BY <1>w, <2>1, <2>2 DEF Unsettled
<1>5. CASE Accept(m) \/ NoEntry(m)
  <2>1. file' = file /\ ~Unsettled(m)
    BY <1>5 DEF Accept, NoEntry, AtStep, Unsettled
  <2> QED
    BY <1>f, <1>k, <2>1
<1>6. CASE DaemonWrites(m)
  <2>1. at'[m] = "fill"
    BY <1>2, <1>6 DEF DaemonWrites, Goes
  <2> QED
    BY <1>w, <2>1 DEF Unsettled
<1>7. CASE Delivers(m)
  <2> DEFINE f == IF l \in TarLayers THEN Packed(l) ELSE Downloaded(l, "whole")
             g == [f EXCEPT !.state = "wrong"]
  <2>1. way = "dragonfly" /\ (Puts(Download(l), f) \/ Puts(Download(l), g))
    BY <1>7 DEF Delivers, AtStep, StepInv
  <2>2. CASE l \in TarLayers
    <3>1. f \in File /\ f.state \notin {"none", "empty"}
      BY <1>2, <2>2, NewFiles DEF States
    <3> HIDE DEF f
    <3>2. g.state = "wrong"
      BY <3>1, FileFields DEF States
    <3> HIDE DEF g
    <3>3. file'[d].state # "empty"
      BY <1>2, <1>t, <2>1, <2>2, <3>1, <3>2, PutsAt
    <3>4. at'[m] = "open" /\ Temp(jobs[m])' = d
      BY <1>1, <1>2, <1>7, <2>2 DEF Delivers, Goes, Temp
    <3> QED
      BY <1>w, <3>3, <3>4 DEF Unsettled
  <2>3. CASE l \notin TarLayers
    <3>1. f \in File /\ f.of = l /\ ~f.packed /\ f.state = "whole"
      <4>1. f = Downloaded(l, "whole") /\ "whole" \in States
        BY <2>3 DEF States
      <4> HIDE DEF f
      <4>2. f \in File /\ f.of = l /\ f.packed = (l \in TarLayers) /\ f.state = "whole"
        BY <1>2, <4>1, NewFiles
      <4> QED
        BY <2>3, <4>2
    <3> HIDE DEF f
    <3>2. g.of = l /\ ~g.packed /\ g.state = "wrong"
      BY <3>1, FileFields DEF States
    <3> HIDE DEF g
    <3>3. Download(l) = t
      BY <1>2, <2>3, OutputsOf
    <3>4. file'[t] = f \/ file'[t] = g
      BY <1>2, <2>1, <3>3, PutsAt
    <3>5. Delivered(l)'
      BY <1>1, <2>1, <3>1, <3>2, <3>4 DEF Delivered
    <3> QED
      BY <1>1, <3>5 DEF Settled
  <2> QED
    BY <2>2, <2>3
<1>8. CASE OpenTemp(m) /\ file[Temp(jobs[m])] # Missing
  <2>1. at[m] = "open" /\ at'[m] = "entry" /\ held'[m] = file[Temp(jobs[m])] /\ file' = file
    BY <1>2, <1>8 DEF OpenTemp, AtStep, Goes, Holds
  <2>2. Unsettled(m) => Unsettled(m)'
    BY <2>1 DEF Unsettled
  <2> QED
    BY <1>f, <1>k, <2>1, <2>2
<1>9. CASE RemoveTemp(m) /\ file[Temp(jobs[m])] # Missing
  <2>1. at[m] = "remove" /\ Puts(d, Missing) /\ l \in TarLayers
    BY <1>9 DEF RemoveTemp, AtStep, StepInv
  <2>2. file'[t] = file[t] /\ file'[d].state # "empty"
    BY <1>2, <1>t, <2>1, PutsAt, MissingFile
  <2> QED
    BY <1>f, <1>k, <2>1, <2>2 DEF Unsettled
<1>10. CASE Create(m) /\ ~file[Dest(m)].locked
  <2>1. at'[m] = "copy"
    BY <1>2, <1>10 DEF Create, Goes
  <2> QED
    BY <1>w, <2>1 DEF Unsettled
<1>11. CASE Copy(m) /\ held[m].state # "part"
  <2>1. at[m] = "copy" /\ at'[m] = "seal" /\ held' = held
    BY <1>2, <1>11 DEF Copy, AtStep, Goes
  <2>2. CASE Shared(m)
    <3>1. PICK k \in Jobs \ {m} : at[k] = "copy" /\ Dest(k) = Dest(m)
      BY <2>2 DEF Shared
    <3>2. Dest(k) \in Outputs(l)
      BY <1>2, <1>c, <2>1, <3>1, OutputsOf
    <3>3. k \in Twins(j)
      BY <3>1, <3>2, WriterIsTwin DEF Twins
    <3>4. at'[k] = "copy"
      BY <3>1, OthersStay
    <3> QED
      BY <1>1, <3>3, <3>4 DEF Settled, Unsettled
  <2>3. CASE ~Shared(m)
    <3> DEFINE s == held[m].state
    <3>1. s \in {"whole", "wrong"}
      <4>1. s \in States /\ s # "part"
        BY <1>2, <1>11, FileFields DEF States
      <4>2. s \notin {"none", "empty"}
        BY <2>1 DEF HeldInv
      <4> QED
        BY <4>1, <4>2 DEF States
    <3>2. Opened(m) /\ file[t].of = l /\ ~file[t].packed
      BY <1>c, <2>1 DEF Created, Opened, Entry
    <3>3. Puts(t, [file[t] EXCEPT !.state = s])
      BY <1>11, <1>c, <2>1, <2>3, <3>2 DEF Copy
    <3>4. file'[t] = [file[t] EXCEPT !.state = s]
      BY <1>2, <3>3, PutsAt
    <3>5. file'[t].of = l /\ ~file'[t].packed /\ file'[t].state = s
      <4> DEFINE g == file[t]
      <4>1. g \in File /\ s \in States
        BY <1>2, <3>1 DEF States
      <4> HIDE DEF g, s
      <4>2. /\ [g EXCEPT !.state = s].of = g.of /\ [g EXCEPT !.state = s].packed = g.packed
            /\ [g EXCEPT !.state = s].state = s
        BY <4>1, FileFields
      <4> QED
        BY <3>2, <3>4, <4>2 DEF g
    <3>6. CASE s = "wrong" /\ way # "dragonfly"
      BY <1>1, <1>w, <2>1, <3>6 DEF Unsettled
    <3>7. CASE ~(s = "wrong" /\ way # "dragonfly")
      <4>1. Delivered(l)'
        BY <1>1, <3>1, <3>5, <3>7 DEF Delivered
      <4> QED
        BY <1>1, <4>1 DEF Settled
    <3> QED
      BY <3>6, <3>7
  <2> QED
    BY <2>2, <2>3
<1>12. CASE Seal(m) /\ file[Dest(m)] # Missing
  <2> DEFINE b == Entry(m) \in ReadOnly
             g == file[t]
  <2>1. /\ at[m] = "seal" /\ b \in BOOLEAN /\ g \in File
        /\ Puts(Dest(m), [file[Dest(m)] EXCEPT !.locked = b])
    BY <1>2, <1>12 DEF Seal, AtStep
  <2> HIDE DEF b
  <2>2. Puts(t, [g EXCEPT !.locked = b]) /\ l \in TarLayers
    BY <1>c, <2>1
  <2>3. file'[t] = [g EXCEPT !.locked = b] /\ file'[d] = file[d]
    BY <1>2, <1>t, <2>2, PutsAt
  <2> HIDE DEF g
  <2>4. /\ [g EXCEPT !.locked = b].of = g.of /\ [g EXCEPT !.locked = b].packed = g.packed
        /\ [g EXCEPT !.locked = b].state = g.state
    BY <2>1, LockFields
  <2>5. Delivered(l) => Delivered(l)'
    BY <1>1, <2>3, <2>4 DEF Delivered, g
  <2>6. Unsettled(m) => Unsettled(m)'
    <3>1. CASE way = "dragonfly"
      BY <2>1, <3>1 DEF Unsettled
    <3>2. CASE way # "dragonfly"
      <4>1. at'[m] = "check" /\ held' = held
        BY <1>2, <1>12, <3>2 DEF Seal, Goes, AfterUntar
      <4> QED
        BY <1>1, <2>1, <4>1 DEF Unsettled
    <3> QED
      BY <3>1, <3>2
  <2> QED
    BY <1>k, <2>3, <2>5, <2>6
<1> QED
  BY <1>3, <1>4, <1>5, <1>6, <1>7, <1>8, <1>9, <1>10, <1>11, <1>12, AdvanceCases DEF Proceeds

\* Two goroutines of one layer have the same rivals among the others.
LEMMA TwinsAlike ==
  ASSUME NEW j \in Jobs, NEW k \in Jobs, jobs[k] = jobs[j], Clashes(j) = {}
  PROVE  Clashes(k) = {}
BY DEF Clashes, Rivals

LEMMA FileStep ==
  ASSUME TypeOK, StepInv, HeldInv, FileInv, [Next]_vars
  PROVE  FileInv'
<1>1. CASE \E m \in Jobs : Advance(m)
  <2>1. PICK m \in Jobs : Advance(m)
    BY <1>1
  <2>2. /\ Jobs' = Jobs /\ result = "running" /\ \A j \in Jobs : Clashes(j)' = Clashes(j)
    BY <2>1, AdvanceCases, SameOutputs
  <2>3. ASSUME NEW j \in Jobs, Clashes(j) = {}
        PROVE  Created(j)' /\ Settled(j)'
    <3>1. Created(j) /\ Settled(j)
      BY <2>2, <2>3 DEF FileInv, Created, Settled, Running
    <3>2. CASE jobs[m] = jobs[j]
      <4>1. Created(m)
        BY <2>3, <3>2, TwinsAlike DEF FileInv, Created
      <4> QED
        BY <2>1, <2>3, <3>1, <3>2, <4>1, CreatedStays, SettledByTwin
    <3>3. CASE jobs[m] # jobs[j]
      BY <2>1, <2>3, <3>1, <3>3, CreatedStays, SettledByOthers
    <3> QED
      BY <3>2, <3>3
  <2> QED
    BY <2>2, <2>3 DEF FileInv, Created, Settled
<1>2. CASE Begins' /\ file' = file
  BY <1>2 DEF Begins, FileInv, Unsettled, Twins
<1>3. CASE Return \/ UNCHANGED <<file, result, commandVars, at, held>>
  <2>1. /\ UNCHANGED <<file, at, way, jobs>> /\ Jobs' = Jobs /\ (Running' => Running)
        /\ \A j \in Jobs : Clashes(j)' = Clashes(j) /\ Twins(j)' = Twins(j)
    BY <1>3, SameOutputs DEF Return, commandVars, Running
  <2>2. \A k \in Jobs : at[k] \in {"done", "failed", "cancelled"} \/ held'[k] = held[k]
    BY <1>3 DEF Return
  <2>3. \A j \in Jobs : Delivered(jobs[j])' = Delivered(jobs[j])
    BY <2>1 DEF Delivered, Target
  <2>4. \A k \in Jobs : Unsettled(k) => Unsettled(k)'
    BY <2>1, <2>2 DEF Unsettled, Temp
  <2>5. \A j \in Jobs : Settled(j) => Settled(j)'
    BY <2>1, <2>3, <2>4 DEF Settled, Twins
  <2> QED
    BY <2>1, <2>5 DEF FileInv, Settled, Target
<1> QED
  BY <1>1, <1>2, <1>3, NextCases

-----------------------------------------------------------------------------
(***************************************************************************)
(* The theorems.                                                           *)
(***************************************************************************)

UnpackInv == TypeOK /\ StepInv /\ HeldInv /\ TempInv /\ FileInv

LEMMA UnpackInvariant == Spec => []UnpackInv
<1>1. Init => UnpackInv
  <2> SUFFICES ASSUME Init PROVE UnpackInv
    OBVIOUS
  <2>1. Jobs = {}
    BY NoJobs DEF Init, Jobs
  <2>2. TypeOK
    BY InitType
  <2>3. \A p \in Paths : file[p] = Missing
    BY DEF Init
  <2> QED
    BY <2>1, <2>2, <2>3 DEF Init, UnpackInv, StepInv, HeldInv, TempInv, FileInv
<1>2. UnpackInv /\ [Next]_vars => UnpackInv'
  BY NextType, StepStep, HeldStep, TempStep, FileStep DEF UnpackInv
<1> QED
  BY <1>1, <1>2, PTL DEF Spec

\* A command that reports success has left the whole file of each layer, two
\* goroutines of one layer, kills and earlier commands notwithstanding.
THEOREM UnpackedFilesAreWhole == Spec => []Unpacked
<1>1. UnpackInv => Unpacked
  <2> SUFFICES ASSUME UnpackInv, result = "ok", NEW j \in Jobs, Clashes(j) = {}
               PROVE  Delivered(jobs[j])
    BY DEF Unpacked, Delivered
  <2>1. \A k \in Jobs : at[k] = "done"
    BY DEF UnpackInv, StepInv
  <2>2. \A k \in Twins(j) : ~Unsettled(k)
    BY <2>1 DEF Unsettled, Twins
  <2> QED
    BY <2>2 DEF UnpackInv, FileInv, Running
<1> QED
  BY <1>1, UnpackInvariant, PTL

\* It has left no archive of a daemon beside the files.
THEOREM NoArchiveStays == Spec => []TempsGone
<1>1. UnpackInv => TempsGone
  <2> SUFFICES ASSUME UnpackInv, result = "ok", way = "dragonfly",
                      NEW j \in Jobs, jobs[j] \in TarLayers, Clashes(j) = {}
               PROVE  file[Temp(jobs[j])] = Missing
    BY DEF TempsGone
  <2>1. \A k \in Twins(j) : at[k] = "done"
    BY DEF UnpackInv, StepInv, Twins
  <2> QED
    BY <2>1 DEF UnpackInv, TempInv, Running
<1> QED
  BY <1>1, UnpackInvariant, PTL

-----------------------------------------------------------------------------
(***************************************************************************)
(* Why a command fails.                                                    *)
(***************************************************************************)

Between == {"entry", "copy", "seal", "check"}

\* Bytes that are not the layer's are on their way to goroutine j.
Bad(j) ==
  \/ at[j] = "open" /\ file[Temp(jobs[j])].state = "wrong"
  \/ at[j] \in Between /\ held[j].state = "wrong"

\* Nothing stands where j has its files, or where their directories go.
Room(j) == \A p \in Outputs(jobs[j]) : ~Barred(p)

\* Nothing but faults has come in the way of j: each attempt but the last was
\* ended by one, and so will the last be if it has the wrong bytes; the archive
\* and the file are its own, and the file is read-only only if j made it so.
Smooth(j) ==
  LET l == jobs[j]
      t == file[Target(l)]
      d == file[Temp(l)]
  IN  /\ Room(j)
      /\ tries[j] <= faults[j] + 1
      /\ Bad(j) => tries[j] <= faults[j]
      /\ at[j] # "wait" => tries[j] >= 1 \/ at[j] = "cancelled"
      /\ way = "dragonfly" /\ at[j] \in {"open", "entry", "copy", "seal", "remove"} =>
           d.of = l /\ d.packed /\ d.state \in {"whole", "wrong"}
      /\ at[j] \in Between =>
           held[j].of = l /\ held[j].packed /\ held[j].state \in {"whole", "wrong"}
      /\ at[j] \in {"copy", "seal"} => t.of = l
      /\ t.locked => /\ l \in ReadOnly
                     /\ \/ faults[j] > 0
                        \/ at[j] \in {"copy", "seal", "check", "remove", "done", "failed"}

Accounted == \E j \in Jobs : at[j] = "failed" /\ Explained(j)

CauseInv ==
  /\ result \in {"running", "failed"} /\ Cancelled => Accounted
  /\ result = "running" => \A j \in Jobs : Explained(j) \/ Smooth(j)
  /\ result = "failed" => Cancelled

LEMMA Counts ==
  ASSUME TypeOK, NEW m \in Jobs, Advance(m)
  PROVE  /\ expired' = expired
         /\ \A k \in Jobs : faults'[k] >= faults[k] /\ faults'[k] \in Nat
         /\ \A k \in Jobs : k # m => faults'[k] = faults[k] /\ tries'[k] = tries[k]
<1>1. expired' = expired
  BY DEF Advance, Dispatch, OpenStream, Refused, Accept, Reject, Request, Obstructed, DaemonWrites,
         Delivers, OpenTemp, RemoveTemp, Untar, NoEntry, BadHeader, NoRoom, Readable, Create, Copy,
         Seal, Fault, Abandon
<1>2. faults' = faults \/ Strikes(m)
  BY DEF Advance, Dispatch, OpenStream, Refused, Accept, Reject, Request, Obstructed, DaemonWrites,
         Delivers, OpenTemp, RemoveTemp, Untar, NoEntry, BadHeader, NoRoom, Readable, Create, Copy,
         Seal, Fault, Abandon, jobVars
<1>3. tries' = tries \/ \E x : tries' = [tries EXCEPT ![m] = x]
  <2>1. Fails(m) => tries' = tries \/ \E x : tries' = [tries EXCEPT ![m] = x]
    BY DEF Fails
  <2> QED
    BY <2>1
       DEF Advance, Dispatch, OpenStream, Refused, Accept, Reject, Request, Obstructed,
           DaemonWrites, Delivers, OpenTemp, RemoveTemp, Untar, NoEntry, BadHeader, NoRoom,
           Readable, Create, Copy, Seal, Fault, Abandon
<1>4. tries \in [Jobs -> 0..Attempts] /\ faults \in [Jobs -> 0..MaxFaults]
  BY DEF TypeOK
<1>5. \A k \in Jobs : /\ faults'[k] >= faults[k] /\ faults'[k] \in Nat
                      /\ k # m => faults'[k] = faults[k]
  <2>1. CASE faults' = faults
    BY <1>4, <2>1
  <2>2. CASE Strikes(m)
    <3>1. faults' = [faults EXCEPT ![m] = faults[m] + 1]
      BY <2>2 DEF Strikes
    <3>2. \A k \in Jobs : faults'[k] = IF k = m THEN faults[k] + 1 ELSE faults[k]
      BY <1>4, <3>1
    <3> QED
      BY <1>4, <3>2
  <2> QED
    BY <1>2, <2>1, <2>2
<1>7. \A k \in Jobs : k # m => tries'[k] = tries[k]
  BY <1>3, <1>4
<1> QED
  BY <1>1, <1>5, <1>7

\* What explains a failure goes on to explain it.
LEMMA ExplainedStays ==
  ASSUME TypeOK, NEW m \in Jobs, Advance(m), NEW j \in Jobs, Explained(j)
  PROVE  Explained(j)'
<1>1. /\ UNCHANGED <<way, jobs, archive, lockedBefore, barredBefore>> /\ Jobs' = Jobs
      /\ \A l : Outputs(l)' = Outputs(l)
  BY AdvanceCases, SameOutputs DEF commandVars
<1>2. Rivals(j)' = Rivals(j) /\ Blocks(j)' = Blocks(j)
  BY <1>1 DEF Rivals, Blocks
<1>3. /\ expired' = expired /\ faults'[j] >= faults[j] /\ faults'[j] \in Nat
      /\ faults[j] \in Nat /\ Retries(way) \in Nat /\ Retries(way)' = Retries(way)
  BY <1>1, Counts, SMTT(30) DEF TypeOK, Retries
<1>4. faults[j] >= Retries(way) => faults'[j] >= Retries(way)
  BY <1>3
<1>5. faults[j] > 0 => faults'[j] > 0
  BY <1>3
<1> QED
  BY <1>1, <1>2, <1>3, <1>4, <1>5 DEF Explained, Target

\* A goroutine without rivals has its files to itself.
LEMMA NoRivals ==
  ASSUME TypeOK, StepInv, HeldInv, NEW j \in Jobs, Rivals(j) = {},
         NEW m \in Jobs \ {j}, Advance(m), NEW p \in Outputs(jobs[j])
  PROVE  file'[p] = file[p]
<1>1. Clashes(j) = {}
  BY DEF Clashes
<1>2. jobs[m] # jobs[j]
  BY DEF Rivals
<1> QED
  BY <1>1, <1>2, OthersKeepOff

\* The directories that are made are above files of jobs of this command.
LEMMA DirsGrow ==
  ASSUME TypeOK, StepInv, HeldInv, NEW m \in Jobs, Advance(m), NEW q \in dirs', q \notin dirs
  PROVE  \E k \in Jobs : \E p \in Outputs(jobs[k]) : q \in Above[p]
<1>1. ASSUME NEW p, MakesRoom(p), \E k \in Jobs : p \in Outputs(jobs[k])
      PROVE  \E k \in Jobs : \E r \in Outputs(jobs[k]) : q \in Above[r]
  BY <1>1 DEF MakesRoom
<1>2. ASSUME way = "dragonfly", MakesRoom(Download(jobs[m]))
      PROVE  \E k \in Jobs : \E r \in Outputs(jobs[k]) : q \in Above[r]
  BY <1>1, <1>2, JobsAndHeld, OutputsOf
<1>3. ASSUME at[m] = "entry", MakesRoom(Dest(m))
      PROVE  \E k \in Jobs : \E r \in Outputs(jobs[k]) : q \in Above[r]
  BY <1>1, <1>3, WriterOwns
<1>4. CASE Request(m)
  BY <1>2, <1>4 DEF Request
<1>5. CASE Create(m)
  BY <1>3, <1>5 DEF Create, Readable, AtStep
<1>6. CASE Fault(m)
  BY <1>2, <1>3, <1>6 DEF Fault, Readable, AtStep
<1>7. ~Request(m) /\ ~Create(m) /\ ~Fault(m) => dirs' = dirs
  BY DEF Advance, Dispatch, OpenStream, Refused, Accept, Reject, Obstructed, DaemonWrites,
         Delivers, OpenTemp, RemoveTemp, Untar, NoEntry, BadHeader, NoRoom, Copy, Seal, Abandon
<1> QED
  BY <1>4, <1>5, <1>6, <1>7

\* Room stays, unless a job needs a directory for a file, or the reverse.
LEMMA RoomStays ==
  ASSUME TypeOK, StepInv, HeldInv, NEW m \in Jobs, Advance(m), NEW j \in Jobs,
         Blocks(j) = {}, Room(j)
  PROVE  Room(j)'
<1>1. UNCHANGED jobs /\ \A l : Outputs(l)' = Outputs(l)
  BY AdvanceCases, SameOutputs DEF commandVars
<1> SUFFICES ASSUME NEW p \in Outputs(jobs[j])
             PROVE  ~Barred(p)'
  BY <1>1 DEF Room
<1>2. p \in Paths /\ ~Barred(p)
  BY JobsAndHeld, OutputsOf, PathsOfLayers DEF Room
<1>3. ASSUME p \in dirs'
      PROVE  FALSE
  <2>1. p \notin dirs
    BY <1>2 DEF Barred
  <2> QED
    BY <1>3, <2>1, DirsGrow DEF Blocks
<1>4. ASSUME NEW q \in Above[p], file'[q] # Missing
      PROVE  FALSE
  <2>1. file[q] = Missing /\ q \in Paths
    BY <1>2 DEF Barred, FileAbove
  <2>2. Owned(q, file'[q])
    BY <1>4, <2>1, Writes
  <2> QED
    BY <2>2 DEF Owned, Blocks
<1> QED
  BY <1>3, <1>4 DEF Barred, FileAbove

LEMMA SmoothByOthers ==
  ASSUME TypeOK, StepInv, HeldInv, NEW j \in Jobs, Rivals(j) = {}, Blocks(j) = {}, Smooth(j),
         NEW m \in Jobs \ {j}, Advance(m)
  PROVE  Smooth(j)'
<1> DEFINE l == jobs[j]
<1>1. UNCHANGED <<way, jobs>> /\ l \in Layers
  BY AdvanceCases, JobsAndHeld DEF commandVars
<1>2. UNCHANGED <<at[j], held[j], tries[j], faults[j]>>
  BY OthersStay, Counts
<1>3. file'[Target(l)] = file[Target(l)]
  BY <1>1, OutputsOf, NoRivals
<1>4. way = "dragonfly" /\ l \in TarLayers => file'[Temp(l)] = file[Temp(l)]
  BY <1>1, OutputsOf, NoRivals
<1>5. at[j] = "open" => way = "dragonfly" /\ l \in TarLayers
  BY DEF StepInv
<1>6. at[j] \in {"open", "entry", "copy", "seal", "remove"} => l \in TarLayers
  BY DEF StepInv
<1>7. Bad(j)' = Bad(j)
  BY <1>1, <1>2, <1>4, <1>5 DEF Bad, Temp
<1>8. Room(j)'
  BY RoomStays DEF Smooth
<1> QED
  BY <1>1, <1>2, <1>3, <1>4, <1>6, <1>7, <1>8 DEF Smooth, Target, Temp

\* A failed attempt of j that a fault accounts for.
LEMMA FailsSmooth ==
  ASSUME TypeOK, NEW j \in Jobs, Advance(j), Fails(j), file' = file, Smooth(j),
         at[j] # "wait", tries[j] <= faults'[j], Room(j)', ~Explained(j)'
  PROVE  Smooth(j)' /\ (at'[j] = "failed" => Cancelled)
<1> DEFINE l == jobs[j]
<1>1. /\ UNCHANGED <<way, jobs>> /\ Retries(way)' = Retries(way) /\ Retries(way) \in Nat
      /\ at \in [Jobs -> Steps] /\ tries \in [Jobs -> 0..Attempts] /\ faults'[j] \in Nat
      /\ tries[j] \in Nat
  <2>1. UNCHANGED <<way, jobs>> /\ faults'[j] \in Nat
    BY AdvanceCases, Counts DEF commandVars
  <2>2. /\ at \in [Jobs -> Steps] /\ tries \in [Jobs -> 0..Attempts] /\ tries[j] \in Nat
    BY DEF TypeOK
  <2>3. Retries(way)' = Retries(way) /\ Retries(way) \in Nat
    BY <2>1 DEF Retries
  <2> QED
    BY <2>1, <2>2, <2>3
<1>2. tries[j] >= 1
  <2>1. at[j] # "cancelled"
    BY OthersStay
  <2> QED
    BY <2>1 DEF Smooth
<1>3. faults'[j] > 0
  BY <1>1, <1>2
<1>4. ~(faults'[j] >= Retries(way))
  BY <1>1 DEF Explained
<1>5. \/ at'[j] = "get" /\ tries'[j] = tries[j] + 1
      \/ at'[j] = "failed" /\ tries'[j] = tries[j] /\ Cancelled
  BY <1>1, <1>4 DEF Fails, Goes
<1>6. tries'[j] <= faults'[j] + 1 /\ tries'[j] >= 1
  BY <1>1, <1>2, <1>5
<1>7. file[Target(l)].locked => l \in ReadOnly
  BY DEF Smooth
<1> QED
  BY <1>1, <1>3, <1>5, <1>6, <1>7 DEF Smooth, Bad, Between, Target

LEMMA SmoothByItself ==
  ASSUME TypeOK, StepInv, HeldInv, NEW j \in Jobs, Smooth(j), Advance(j), ~Explained(j)'
  PROVE  Smooth(j)' /\ (at'[j] = "failed" => Cancelled)
<1> DEFINE l == jobs[j]
           t == Target(l)
           d == Temp(l)
           Goal == Smooth(j)' /\ (at'[j] = "failed" => Cancelled)
<1>1. /\ UNCHANGED <<way, jobs, archive>> /\ Jobs' = Jobs /\ l' = l /\ t' = t /\ d' = d
  BY AdvanceCases, SameOutputs DEF commandVars, Target, Temp
<1>2. /\ l \in Layers /\ t \in Paths /\ d \in Paths /\ file[t] \in File /\ file[d] \in File
      /\ at \in [Jobs -> Steps] /\ held[j] \in File /\ held \in [Jobs -> File]
  BY JobsAndHeld, PathsOfLayers DEF TypeOK
<1>3. /\ l \in TarLayers => d # t /\ Download(l) = d
      /\ l \notin TarLayers => Download(l) = t
  BY <1>2, OutputsOf
<1>4. /\ tries[j] \in Nat /\ faults[j] \in Nat /\ faults'[j] \in Nat /\ faults'[j] >= faults[j]
      /\ tries \in [Jobs -> 0..Attempts] /\ faults \in [Jobs -> 0..MaxFaults]
  <2>1. /\ tries \in [Jobs -> 0..Attempts] /\ faults \in [Jobs -> 0..MaxFaults]
        /\ tries[j] \in Nat /\ faults[j] \in Nat
    BY DEF TypeOK
  <2>2. faults'[j] \in Nat /\ faults'[j] >= faults[j]
    BY Counts
  <2> QED
    BY <2>1, <2>2
<1>5. ~Explained(j)
  BY ExplainedStays
<1>6. /\ ~expired /\ Rivals(j) = {} /\ Blocks(j) = {} /\ ~(l \in ReadOnly /\ faults[j] > 0)
      /\ l \notin Dotted
      /\ l \in TarLayers => archive[l] # "short"
  BY <1>5 DEF Explained
<1>r. Room(j) /\ Room(j)'
  BY <1>6, RoomStays DEF Smooth
<1>7. at[j] \in Between => held[j].of = l /\ Dest(j) = t /\ l \in TarLayers
  <2>1. Clashes(j) = {}
    BY <1>6 DEF Clashes
  <2>2. at[j] = "check" => l \in TarLayers
    BY DEF StepInv
  <2> QED
    BY <2>1, <2>2, WriterIsTwin DEF StepInv, Between
<1>f. ASSUME Fails(j), file' = file, at[j] # "wait", tries[j] <= faults'[j] PROVE Goal
  BY <1>f, <1>r, FailsSmooth
<1>b. Bad(j) => tries[j] <= faults'[j]
  BY <1>4 DEF Smooth
\* A step that does not fail, seen from its effect.
<1>s. ASSUME at'[j] \notin {"wait", "get", "failed", "cancelled"},
             tries'[j] = tries[j], tries[j] >= 1, tries[j] <= faults'[j] + 1,
             Bad(j)' => tries[j] <= faults'[j],
             way = "dragonfly" /\ at'[j] \in {"open", "entry", "copy", "seal", "remove"} =>
               file'[d].of = l /\ file'[d].packed /\ file'[d].state \in {"whole", "wrong"},
             at'[j] \in Between =>
               held'[j].of = l /\ held'[j].packed /\ held'[j].state \in {"whole", "wrong"},
             at'[j] \in {"copy", "seal"} => file'[t].of = l,
             file'[t].locked =>
               /\ l \in ReadOnly
               /\ \/ faults'[j] > 0
                  \/ at'[j] \in {"copy", "seal", "check", "remove", "done", "failed"}
      PROVE  Goal
  BY <1>1, <1>r, <1>s DEF Smooth
<1>t. at[j] \notin {"wait", "cancelled"} => tries[j] >= 1
  BY DEF Smooth
<1>c. at[j] # "cancelled"
  BY OthersStay
\* A file without a lock, until j creates it.
<1>l. at[j] \notin {"copy", "seal", "check", "remove", "done", "failed"} => ~file[t].locked
  BY <1>6 DEF Smooth
<1>10. CASE Dispatch(j)
  <2>1. /\ at[j] = "wait" /\ file' = file /\ faults' = faults
        /\ \/ Cancelled /\ at'[j] = "cancelled" /\ tries' = tries
           \/ at'[j] = "get" /\ tries'[j] = 1
    BY <1>2, <1>4, <1>10 DEF Dispatch, AtStep, Goes
  <2>2. ~file[t].locked /\ tries[j] <= faults[j] + 1
    BY <1>l, <2>1 DEF Smooth
  <2> QED
    BY <1>1, <1>4, <1>r, <2>1, <2>2 DEF Smooth, Bad, Between
<1>11. CASE OpenStream(j)
  <2>1. /\ at[j] = "get" /\ at'[j] = "entry" /\ file' = file /\ tries' = tries
        /\ way # "dragonfly" /\ l \in TarLayers
        /\ \/ held'[j] = Packed(l) /\ faults' = faults
           \/ held'[j] = [Packed(l) EXCEPT !.state = "wrong"] /\ faults'[j] = faults[j] + 1
    BY <1>2, <1>4, <1>11 DEF OpenStream, AtStep, Goes, Holds, Strikes, StepInv
  <2> DEFINE f == Packed(l)
  <2>2. f \in File /\ f.of = l /\ f.packed /\ f.state = "whole" /\ "wrong" \in States
    BY <1>2, <1>6, <2>1, NewFiles DEF States
  <2> HIDE DEF f
  <2>3. /\ [f EXCEPT !.state = "wrong"].of = l /\ [f EXCEPT !.state = "wrong"].packed
        /\ [f EXCEPT !.state = "wrong"].state = "wrong"
    BY <2>2, FileFields
  <2>4. /\ held'[j].of = l /\ held'[j].packed /\ held'[j].state \in {"whole", "wrong"}
        /\ held'[j].state = "wrong" => faults'[j] = faults[j] + 1
    BY <2>1, <2>2, <2>3 DEF f
  <2>5. tries[j] >= 1 /\ tries[j] <= faults[j] + 1 /\ ~file[t].locked
    BY <1>l, <2>1 DEF Smooth
  <2> QED
    BY <1>1, <1>4, <1>s, <2>1, <2>4, <2>5 DEF Bad
<1>12. CASE Refused(j)
  BY <1>6, <1>12 DEF Refused
<1>13. CASE Accept(j)
  <2>1. at[j] = "check" /\ at'[j] = "done" /\ UNCHANGED <<file, tries, faults>>
    BY <1>2, <1>13 DEF Accept, AtStep, Goes
  <2> QED
    BY <1>1, <1>s, <1>t, <1>4, <2>1 DEF Smooth, Bad, Between
<1>14. CASE Reject(j)
  <2>1. at[j] = "check" /\ Bad(j) /\ file' = file
    BY <1>14 DEF Reject, AtStep, Bad, Between
  <2> QED
    BY <1>b, <1>f, <1>14, <2>1 DEF Reject
<1>15. CASE Request(j)
  <2>1. at[j] = "get" /\ at'[j] = "recv" /\ UNCHANGED <<file, tries, faults>>
    BY <1>2, <1>6, <1>15 DEF Request, AtStep, Goes
  <2> QED
    BY <1>1, <1>l, <1>s, <1>t, <1>4, <2>1 DEF Smooth, Bad, Between
<1>15o. CASE Obstructed(j)
  <2>1. way = "dragonfly" /\ Barred(Download(l))
    BY <1>15o DEF Obstructed, Barred
  <2>2. Download(l) \in Outputs(l)
    BY <1>2, <2>1, OutputsOf
  <2> QED
    BY <1>r, <2>1, <2>2 DEF Room
<1>16. CASE DaemonWrites(j)
  <2>1. /\ at[j] = "recv" /\ at'[j] = "fill" /\ UNCHANGED <<tries, faults>>
        /\ \E state \in {"empty", "part"} : Puts(Download(l), Downloaded(l, state))
    BY <1>2, <1>16 DEF DaemonWrites, AtStep, Goes
  <2>2. PICK state \in {"empty", "part"} : Puts(Download(l), Downloaded(l, state))
    BY <2>1
  <2>3. ~Downloaded(l, state).locked
    BY <1>2, NewFiles DEF States
  <2>4. ~file'[t].locked
    BY <1>2, <1>l, <2>1, <2>2, <2>3, PutsAt
  <2> QED
    BY <1>1, <1>s, <1>t, <1>4, <2>1, <2>4 DEF Smooth, Bad, Between
<1>17. CASE Delivers(j)
  <2> DEFINE f == IF l \in TarLayers THEN Packed(l) ELSE Downloaded(l, "whole")
             g == [f EXCEPT !.state = "wrong"]
  <2>1. /\ at[j] = "fill" /\ tries' = tries
        /\ at'[j] = IF l \in TarLayers THEN "open" ELSE "done"
        /\ \/ Puts(Download(l), f) /\ faults' = faults
           \/ Puts(Download(l), g) /\ faults'[j] = faults[j] + 1
    BY <1>2, <1>4, <1>17 DEF Delivers, AtStep, Goes, Strikes
  <2>2. f \in File /\ f.of = l /\ ~f.locked /\ f.state = "whole" /\ (l \in TarLayers => f.packed)
    <3>1. "whole" \in States
      BY DEF States
    <3>2. l \in TarLayers => Packed(l).state = "whole"
      BY <1>2, <1>6, <3>1, NewFiles
    <3> QED
      BY <1>2, <3>1, <3>2, NewFiles
  <2> HIDE DEF f
  <2>3. g.of = l /\ ~g.locked /\ g.state = "wrong" /\ (l \in TarLayers => g.packed)
    <3>1. "wrong" \in States
      BY DEF States
    <3>2. /\ g.of = f.of /\ g.packed = f.packed /\ g.locked = f.locked /\ g.state = "wrong"
      BY <2>2, <3>1, FileFields
    <3> QED
      BY <2>2, <3>2
  <2> HIDE DEF g
  <2>4. \/ file'[Download(l)] = f /\ faults' = faults
        \/ file'[Download(l)] = g /\ faults'[j] = faults[j] + 1
    BY <1>2, <1>3, <2>1, PutsAt
  <2>5. l \in TarLayers => file'[t] = file[t]
    BY <1>2, <1>3, <2>1, PutsAt
  <2>6. ~file[t].locked /\ tries[j] >= 1 /\ tries[j] <= faults[j] + 1
    BY <1>l, <2>1 DEF Smooth
  <2>7. ~file'[t].locked
    BY <1>3, <2>2, <2>3, <2>4, <2>5, <2>6
  <2>8. CASE l \in TarLayers
    <3>1. /\ file'[d].of = l /\ file'[d].packed /\ file'[d].state \in {"whole", "wrong"}
          /\ file'[d].state = "wrong" => faults'[j] = faults[j] + 1
      BY <1>3, <2>2, <2>3, <2>4, <2>8
    <3>2. Bad(j)' => faults'[j] = faults[j] + 1
      BY <1>1, <2>1, <2>8, <3>1 DEF Bad, Between
    <3> QED
      BY <1>s, <1>4, <2>1, <2>6, <2>7, <2>8, <3>1, <3>2 DEF Between
  <2>9. CASE l \notin TarLayers
    BY <1>1, <1>s, <1>4, <2>1, <2>6, <2>7, <2>9 DEF Bad, Between
  <2> QED
    BY <2>8, <2>9
<1>18. CASE OpenTemp(j)
  <2>1. at[j] = "open" /\ way = "dragonfly"
    BY <1>18 DEF OpenTemp, AtStep, StepInv
  <2>2. file[d].of = l /\ file[d].packed /\ file[d].state \in {"whole", "wrong"}
    BY <2>1 DEF Smooth
  <2>3. file[d] # Missing
    BY <2>2, MissingFile
  <2>4. /\ at'[j] = "entry" /\ held'[j] = file[d] /\ UNCHANGED <<file, tries, faults>>
    BY <1>2, <1>18, <2>3 DEF OpenTemp, Goes, Holds
  <2>5. Bad(j)' => Bad(j)
    BY <1>1, <2>1, <2>4 DEF Bad, Between
  <2> QED
    BY <1>1, <1>b, <1>l, <1>s, <1>t, <1>4, <2>1, <2>2, <2>4, <2>5 DEF Smooth
<1>19. CASE RemoveTemp(j)
  <2>1. at[j] = "remove" /\ way = "dragonfly" /\ l \in TarLayers
    BY <1>19 DEF RemoveTemp, AtStep, StepInv
  <2>2. file[d].state \in {"whole", "wrong"}
    BY <2>1 DEF Smooth
  <2>3. file[d] # Missing
    BY <2>2, MissingFile
  <2>4. at'[j] = "done" /\ Puts(d, Missing) /\ UNCHANGED <<tries, faults>>
    BY <1>2, <1>19, <2>3 DEF RemoveTemp, Goes
  <2>5. file'[t] = file[t]
    BY <1>2, <1>3, <2>1, <2>4, PutsAt
  <2> QED
    BY <1>1, <1>s, <1>t, <1>4, <2>1, <2>4, <2>5 DEF Smooth, Bad, Between
<1>20. CASE NoEntry(j)
  BY <1>20 DEF NoEntry, AtStep, Smooth, Between
<1>21. CASE BadHeader(j)
  <2>1. at[j] = "entry" /\ held[j].state = "wrong" /\ file' = file
    BY <1>6, <1>7, <1>21 DEF BadHeader, AtStep, Smooth, Between, Entry
  <2>2. Bad(j)
    BY <2>1 DEF Bad, Between
  <2> QED
    BY <1>b, <1>f, <1>21, <2>1, <2>2 DEF BadHeader
<1>21n. CASE NoRoom(j)
  <2>1. Dest(j) = t /\ Barred(t)
    BY <1>7, <1>21n DEF NoRoom, Readable, AtStep, Between
  <2>2. t \in Outputs(l)
    BY <1>2, OutputsOf
  <2> QED
    BY <1>r, <2>1, <2>2 DEF Room
<1>22. CASE Create(j)
  <2>1. at[j] = "entry" /\ held[j].of = l /\ Dest(j) = t /\ l \in TarLayers
    BY <1>7, <1>22 DEF Create, Readable, AtStep, Between
  <2> DEFINE f == Writing(j, "part", file[t] = Missing /\ l \in ReadOnly)
  <2>2. ~file[t].locked
    BY <1>l, <2>1
  <2>3. Puts(t, f) /\ at'[j] = "copy" /\ UNCHANGED <<tries, held, faults>>
    BY <1>2, <1>22, <2>1, <2>2 DEF Create, Goes, Entry
  <2>4. f.of = l /\ (f.locked => l \in ReadOnly)
    BY <2>1 DEF Writing, Entry
  <2> HIDE DEF f
  <2>5. file'[t] = f /\ file'[d] = file[d]
    BY <1>2, <1>3, <2>1, <2>3, PutsAt
  <2>6. Bad(j)' => Bad(j)
    BY <1>1, <2>1, <2>3 DEF Bad, Between
  <2>7. /\ held[j].of = l /\ held[j].packed /\ held[j].state \in {"whole", "wrong"}
        /\ way = "dragonfly" =>
             file[d].of = l /\ file[d].packed /\ file[d].state \in {"whole", "wrong"}
    BY <2>1 DEF Smooth, Between
  <2> QED
    BY <1>1, <1>b, <1>s, <1>t, <1>4, <2>1, <2>3, <2>4, <2>5, <2>6, <2>7 DEF Smooth
<1>23. CASE Copy(j)
  <2>1. at[j] = "copy" /\ Dest(j) = t /\ l \in TarLayers
    BY <1>7, <1>23 DEF Copy, AtStep, Between
  <2>2. /\ held[j].of = l /\ held[j].packed /\ held[j].state \in {"whole", "wrong"}
        /\ file[t].of = l /\ (file[t].locked => l \in ReadOnly)
        /\ way = "dragonfly" =>
             file[d].of = l /\ file[d].packed /\ file[d].state \in {"whole", "wrong"}
    BY <2>1 DEF Smooth, Between
  <2> DEFINE s == IF Shared(j) THEN "part" ELSE held[j].state
             g == file[t]
  <2>3. s \in States /\ g \in File
    BY <1>2, <2>2 DEF States
  <2>4. /\ at'[j] = "seal" /\ UNCHANGED <<tries, held, faults>>
        /\ file' = file \/ Puts(t, [g EXCEPT !.state = s])
    BY <1>2, <1>23, <2>1, <2>2 DEF Copy, Goes
  <2> HIDE DEF s
  <2>5. file'[d] = file[d] /\ (file'[t] = g \/ file'[t] = [g EXCEPT !.state = s])
    BY <1>2, <1>3, <2>1, <2>4, PutsAt
  <2> HIDE DEF g
  <2>6. [g EXCEPT !.state = s].of = g.of /\ [g EXCEPT !.state = s].locked = g.locked
    BY <2>3, FileFields
  <2>7. file'[t].of = l /\ (file'[t].locked => l \in ReadOnly)
    BY <2>2, <2>5, <2>6 DEF g
  <2>8. Bad(j)' => Bad(j)
    BY <1>1, <2>1, <2>4 DEF Bad, Between
  <2> QED
    BY <1>1, <1>b, <1>s, <1>t, <1>4, <2>1, <2>2, <2>4, <2>5, <2>7, <2>8 DEF Smooth
<1>24. CASE Seal(j)
  <2>1. at[j] = "seal" /\ Dest(j) = t /\ l \in TarLayers /\ held[j].of = l
    BY <1>7, <1>24 DEF Seal, AtStep, Between
  <2>2. /\ held[j].packed /\ held[j].state \in {"whole", "wrong"} /\ file[t].of = l
        /\ way = "dragonfly" =>
             file[d].of = l /\ file[d].packed /\ file[d].state \in {"whole", "wrong"}
    BY <2>1 DEF Smooth, Between
  <2>3. file[t] # Missing
    BY <1>2, <2>2, MissingFile
  <2> DEFINE b == l \in ReadOnly
             g == file[t]
  <2>4. /\ at'[j] = AfterUntar /\ UNCHANGED <<tries, faults>>
        /\ way # "dragonfly" => held' = held
        /\ Puts(t, [g EXCEPT !.locked = b])
    BY <1>2, <1>24, <2>1, <2>3 DEF Seal, Goes, Entry
  <2>5. file'[d] = file[d] /\ file'[t] = [g EXCEPT !.locked = b]
    BY <1>2, <1>3, <2>1, <2>4, PutsAt
  <2>6. file'[t].locked => l \in ReadOnly
    <3>1. g \in File /\ b \in BOOLEAN
      BY <1>2
    <3> HIDE DEF g, b
    <3>2. [g EXCEPT !.locked = b].locked = b
      BY <3>1, LockFields
    <3> QED
      BY <2>5, <3>2 DEF b
  <2>7. CASE way = "dragonfly"
    <3>1. at'[j] = "remove"
      BY <2>4, <2>7 DEF AfterUntar
    <3> QED
      BY <1>1, <1>s, <1>t, <1>4, <2>1, <2>2, <2>4, <2>5, <2>6, <3>1 DEF Smooth, Bad, Between
  <2>8. CASE way # "dragonfly"
    <3>1. at'[j] = "check" /\ held' = held
      BY <2>4, <2>8 DEF AfterUntar
    <3>2. Bad(j)' => Bad(j)
      BY <1>1, <2>1, <3>1 DEF Bad, Between
    <3> QED
      BY <1>1, <1>b, <1>s, <1>t, <1>4, <2>1, <2>2, <2>4, <2>6, <2>8, <3>1, <3>2 DEF Smooth
  <2> QED
    BY <2>7, <2>8
<1>25. CASE Fault(j)
  <2>1. file' = file /\ at[j] # "wait" /\ faults'[j] = faults[j] + 1
    BY <1>4, <1>25 DEF Fault, Strikes
  <2>2. tries[j] <= faults'[j]
    BY <2>1 DEF Smooth
  <2> QED
    BY <1>f, <1>25, <2>1, <2>2 DEF Fault
<1>26. CASE Abandon(j)
  <2>1. /\ Cancelled /\ at'[j] = "failed" /\ at[j] # "wait" /\ UNCHANGED <<file, tries, faults>>
    BY <1>2, <1>26 DEF Abandon, Goes, Cancellable
  <2> QED
    BY <1>1, <1>r, <1>t, <1>c, <1>4, <2>1 DEF Smooth, Bad, Between
<1> QED
  BY <1>10, <1>11, <1>12, <1>13, <1>14, <1>15, <1>16, <1>17, <1>18, <1>19, <1>20, <1>21, <1>22,
     <1>23, <1>24, <1>25, <1>26, <1>15o, <1>21n DEF Advance, Untar

LEMMA CauseJob ==
  ASSUME TypeOK, StepInv, HeldInv, CauseInv, NEW m \in Jobs, Advance(m)
  PROVE  CauseInv'
<1>1. /\ result = "running" /\ result' = result /\ Jobs' = Jobs
      /\ at[m] \notin {"done", "failed", "cancelled"}
      /\ \A k \in Jobs : k # m => at'[k] = at[k]
  BY AdvanceCases, SameOutputs, OthersStay
<1>2. \A j \in Jobs : Explained(j) => Explained(j)'
  BY ExplainedStays
<1>3. ASSUME NEW j \in Jobs, ~Explained(j)'
      PROVE  Smooth(j)' /\ (j = m /\ at'[j] = "failed" => Cancelled)
  <2>1. ~Explained(j) /\ Smooth(j)
    BY <1>1, <1>2, <1>3 DEF CauseInv
  <2>2. Rivals(j) = {} /\ Blocks(j) = {}
    BY <2>1 DEF Explained
  <2>3. CASE j = m
    BY <1>3, <2>1, <2>3, SmoothByItself
  <2>4. CASE j # m
    BY <2>1, <2>2, <2>4, SmoothByOthers
  <2> QED
    BY <2>3, <2>4
<1>4. ASSUME Cancelled'
      PROVE  Accounted'
  <2>1. CASE Cancelled
    <3>1. PICK j \in Jobs : at[j] = "failed" /\ Explained(j)
      BY <1>1, <2>1 DEF CauseInv, Accounted
    <3>2. at'[j] = "failed" /\ Explained(j)'
      BY <1>1, <1>2, <3>1
    <3> QED
      BY <1>1, <3>2 DEF Accounted
  <2>2. CASE ~Cancelled
    <3>1. at'[m] = "failed"
      BY <1>1, <1>4, <2>2 DEF Cancelled
    <3>2. Explained(m)'
      BY <1>3, <2>2, <3>1
    <3> QED
      BY <1>1, <3>1, <3>2 DEF Accounted
  <2> QED
    BY <2>1, <2>2
<1> QED
  BY <1>1, <1>3, <1>4 DEF CauseInv

\* When a command begins, no attempt has been made, and the read-only files and
\* the paths in the way explain what they will cause.
LEMMA CauseStart ==
  ASSUME TypeOK, TypeOK', NEW w, NEW patterns, Start(w, patterns)
  PROVE  CauseInv'
<1> DEFINE js == Decoded(w, Selected(patterns))
<1>1. /\ jobs' = [j \in js |-> manifest[j[1]]] /\ at' = [j \in js |-> "wait"]
      /\ tries' = [j \in js |-> 0] /\ faults' = [j \in js |-> 0]
      /\ result' = "running" /\ UNCHANGED <<file, dirs>>
      /\ lockedBefore' = {p \in Paths : file[p].locked}
      /\ barredBefore' = {p \in Paths : Barred(p)}
  BY DEF Start
<1> HIDE DEF js
<1>2. Jobs' = js
  BY <1>1 DEF Jobs
<1>3. ~Cancelled'
  BY <1>1, <1>2 DEF Cancelled
<1>4. ASSUME NEW j \in Jobs'
      PROVE  Explained(j)' \/ Smooth(j)'
  <2> DEFINE t == Target(jobs'[j])
  <2>1. jobs'[j] \in Layers
    BY DEF TypeOK
  <2>2. t \in Paths /\ t = Target(jobs[j])'
    BY <2>1, PathsOfLayers DEF Target
  <2>3. CASE file[t].locked
    BY <1>1, <2>2, <2>3 DEF Explained
  <2>4. CASE ~Room(j)'
    <3>1. PICK p \in Outputs(jobs[j])' : Barred(p)'
      BY <2>4 DEF Room
    <3>2. p \in Paths
      BY <2>1, <3>1, PathsOfLayers DEF Outputs, Target, Download, Temp
    <3>3. Barred(p)
      BY <1>1, <3>1 DEF Barred, FileAbove
    <3>4. p \in barredBefore'
      BY <1>1, <3>2, <3>3
    <3> QED
      BY <3>1, <3>4 DEF Explained
  <2>5. CASE ~file[t].locked /\ Room(j)'
    BY <1>1, <1>2, <2>2, <2>5 DEF Smooth, Bad, Between
  <2> QED
    BY <2>3, <2>4, <2>5
<1> QED
  BY <1>1, <1>3, <1>4 DEF CauseInv

LEMMA CauseStep ==
  ASSUME TypeOK, StepInv, HeldInv, CauseInv, [Next]_vars
  PROVE  CauseInv'
<1>1. CASE Command
  BY <1>1, NextType, CauseStart DEF Command, StartAll, StartFetch
<1>2. CASE \E j \in Jobs : Advance(j)
  BY <1>2, CauseJob
<1>3. CASE Return
  <2>1. /\ UNCHANGED <<archive, expired, way, jobs, lockedBefore, barredBefore, at, faults>>
        /\ Jobs' = Jobs
        /\ \A l : Outputs(l)' = Outputs(l)
    BY <1>3, SameOutputs DEF Return, commandVars
  <2>2. Cancelled' = Cancelled /\ \A j \in Jobs : Rivals(j)' = Rivals(j) /\ Blocks(j)' = Blocks(j)
    BY <2>1 DEF Cancelled, Rivals, Blocks
  <2>3. \A j \in Jobs : Explained(j)' = Explained(j)
    BY <2>1, <2>2 DEF Explained, Retries, Target
  <2>4. Accounted => Accounted'
    BY <2>1, <2>3 DEF Accounted
  <2>5. result = "running" /\ result' = IF Cancelled THEN "failed" ELSE "ok"
    BY <1>3 DEF Return
  <2> QED
    BY <2>2, <2>4, <2>5 DEF CauseInv
<1>4. CASE Kill
  BY <1>4 DEF Kill, CauseInv
<1>5. CASE Expire
  <2>1. Jobs' = Jobs /\ UNCHANGED <<result, at>> /\ expired'
    BY <1>5 DEF Expire, Jobs, commandVars, jobVars
  <2>2. \A j \in Jobs : Explained(j)'
    BY <2>1 DEF Explained
  <2> QED
    BY <2>1, <2>2 DEF CauseInv, Accounted, Cancelled
<1>6. CASE UNCHANGED vars
  <2>1. /\ UNCHANGED <<archive, file, dirs, result, expired, way, jobs, at, tries, held>>
        /\ UNCHANGED <<lockedBefore, barredBefore>>
        /\ faults' = faults /\ Jobs' = Jobs /\ \A l : Outputs(l)' = Outputs(l)
    BY <1>6, SameOutputs DEF vars, commandVars, jobVars
  <2>2. Cancelled' = Cancelled /\ \A j \in Jobs : Rivals(j)' = Rivals(j) /\ Blocks(j)' = Blocks(j)
    BY <2>1 DEF Cancelled, Rivals, Blocks
  <2>3. \A j \in Jobs : Explained(j)' = Explained(j)
    BY <2>1, <2>2 DEF Explained, Retries, Target
  <2>4. \A j \in Jobs : Smooth(j)' = Smooth(j)
    BY <2>1 DEF Smooth, Room, Barred, FileAbove, Bad, Target, Temp
  <2> QED
    BY <2>1, <2>2, <2>3, <2>4 DEF CauseInv, Accounted
<1> QED
  BY <1>1, <1>2, <1>3, <1>4, <1>5, <1>6 DEF Next, Work

LEMMA CauseInvariant == Spec => []CauseInv
<1>1. Init => CauseInv
  BY DEF Init, CauseInv
<1>2. UnpackInv /\ CauseInv /\ [Next]_vars => CauseInv'
  BY CauseStep DEF UnpackInv
<1> QED
  BY <1>1, <1>2, UnpackInvariant, PTL DEF Spec

\* A command fails only for a reason: what others left behind in the directory,
\* cancelled goroutines and lost attempts are not among them.
THEOREM FailuresAreExplained == Spec => []FailureExplained
<1>1. CauseInv => FailureExplained
  BY DEF CauseInv, FailureExplained, Accounted
<1> QED
  BY <1>1, CauseInvariant, PTL

====
