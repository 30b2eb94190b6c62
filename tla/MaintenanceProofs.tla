---------------------------- MODULE MaintenanceProofs ----------------------------
(***************************************************************************)
(* Proofs about Maintenance, for any dongles, relays, nodes, gateways and  *)
(* bounds.                                                                 *)
(***************************************************************************)
EXTENDS Maintenance, TLAPS

\* Tasks that work on USB dongles.
UsbPlaces == {"claim", "backup", "confirmed", "lookup", "reclaim", "write", "replug"}

\* What makes TaskOwnsSlot inductive: ids not yet given have no task, and only a
\* job on a USB dongle comes to be reviewed, confirmed and written.
Fresh ==
    /\ slot.id <= begun
    /\ \A j \in Ids : j > begun => task[j] = "none"

UsbKind ==
    /\ slot.step = "review" => slot.kind # "relay"
    /\ \A j \in Ids : task[j] \in UsbPlaces => slot.kind # "relay"

FirmwareIInv == FirmwareTypeOK /\ TaskOwnsSlot /\ Fresh /\ UsbKind

-------------------------------------------------------------------------------
(* Lemmas about slots and tasks. *)

LEMMA WorkingPlaces ==
    Working = {"download", "claim", "backup", "confirmed", "lookup",
               "reclaim", "write", "replug", "upload", "restart"}
  BY DEF Working, StepAt

LEMMA WorkingSteps ==
    /\ StepAt["download"] = "download"
    /\ StepAt["claim"] = "backup" /\ StepAt["backup"] = "backup"
    /\ StepAt["confirmed"] = "flash" /\ StepAt["lookup"] = "flash"
    /\ StepAt["reclaim"] = "flash" /\ StepAt["write"] = "flash"
    /\ StepAt["replug"] = "replug"
    /\ StepAt["upload"] = "flash" /\ StepAt["restart"] = "restart"
  BY DEF StepAt

LEMMA FirmwareInitInv == ASSUME FirmwareInit PROVE FirmwareIInv
  <1>1. FirmwareTypeOK
    BY JobsAssumption DEF FirmwareInit, FirmwareTypeOK, NoJob, NoReservation, NoId, Ids,
       Places, Traces
  <1>2. TaskOwnsSlot
    BY WorkingPlaces DEF FirmwareInit, TaskOwnsSlot, NoJob, NoId, Ids, Active
  <1>3. Fresh /\ UsbKind
    BY DEF FirmwareInit, Fresh, UsbKind, UsbPlaces, NoJob, NoId, Ids
  <1>. QED BY <1>1, <1>2, <1>3 DEF FirmwareIInv

\* A working task is that of the job in the slot, which is a job.
LEMMA WorkingOwns ==
    ASSUME FirmwareIInv, NEW j \in Ids, task[j] \in Working
    PROVE  /\ slot \in Jobs /\ slot.id = j /\ slot.step = StepAt[task[j]]
           /\ task[j] \in UsbPlaces => slot.kind # "relay"
           /\ \A i \in Ids : task[i] \in Working => i = j
  BY DEF FirmwareIInv, FirmwareTypeOK, TaskOwnsSlot, UsbKind, NoJob, NoId, Ids

LEMMA StepKeeps ==
    ASSUME slot \in Jobs, NEW s \in Active \cup Over, Step(s)
    PROVE  slot' \in Jobs /\ slot'.id = slot.id /\ slot'.kind = slot.kind /\ slot'.step = s
  BY DEF Jobs, Step, Kinds

\* The job in the slot goes on to another step, and its task with it.
LEMMA GoesOn ==
    ASSUME FirmwareIInv, NEW j \in Ids, task[j] \in Working,
           NEW to \in Places, NEW s \in Active \cup Over,
           task' = [task EXCEPT ![j] = to], Step(s), begun' = begun,
           to \in Working => StepAt[to] = s,
           to \notin Working => s \notin Active \ {"review", "replug"},
           to \in UsbPlaces \/ s = "review" => slot.kind # "relay"
    PROVE  slot' \in Jobs /\ task' \in [Ids -> Places] /\ TaskOwnsSlot' /\ Fresh' /\ UsbKind'
  <1>1. /\ slot \in Jobs /\ slot.id = j
        /\ \A i \in Ids : task[i] \in Working => i = j
    BY WorkingOwns
  <1>2. slot' \in Jobs /\ slot'.id = j /\ slot'.kind = slot.kind /\ slot'.step = s
    BY <1>1, StepKeeps
  <1>3. task' \in [Ids -> Places] /\ task'[j] = to /\ \A i \in Ids \ {j} : task'[i] = task[i]
    BY DEF FirmwareIInv, FirmwareTypeOK
  <1>4. TaskOwnsSlot'
    BY <1>1, <1>2, <1>3 DEF TaskOwnsSlot
  <1>5. Fresh'
    BY <1>1, <1>2, <1>3, WorkingPlaces, JobsAssumption
       DEF FirmwareIInv, FirmwareTypeOK, Fresh, Ids
  <1>6. UsbKind'
    BY <1>1, <1>2, <1>3, WorkingPlaces DEF FirmwareIInv, UsbKind, UsbPlaces
  <1>. QED BY <1>2, <1>3, <1>4, <1>5, <1>6

LEMMA Untouched ==
    ASSUME FirmwareIInv, UNCHANGED <<slot, task, begun>>
    PROVE  TaskOwnsSlot' /\ Fresh' /\ UsbKind'
  BY DEF FirmwareIInv, TaskOwnsSlot, Fresh, UsbKind

LEMMA TraceKeeps ==
    ASSUME NEW t \in Traces, NEW b \in BOOLEAN
    PROVE  /\ [t EXCEPT !.sure = b] \in Traces
           /\ [t EXCEPT !.strayed = b] \in Traces
  BY DEF Traces

\* The moves of dongles and sessions, requests, and what a late cancel drops.
LEMMA AroundJobs ==
    ASSUME FirmwareIInv, NEW updating,
           \/ \E d \in Dongles, n \in Nodes : Plug(d, n)
           \/ \E n \in Nodes : Unplug(n) \/ Attach(n)
           \/ \E d \in Dongles : Detach(d)
           \/ \E kind \in Kinds, d \in Targets : Ask(kind, d, updating)
           \/ \E j \in Ids : CancelDrops(j)
    PROVE  FirmwareIInv'
  <1>. USE DEF FirmwareIInv
  <1>1. FirmwareTypeOK /\ TaskOwnsSlot
    OBVIOUS
  <1>2. CASE \E d \in Dongles, n \in Nodes : Plug(d, n)
    <2>1. FirmwareTypeOK'
      BY <1>1, <1>2, JobsAssumption DEF FirmwareTypeOK, Plug, jobVars
    <2>. QED BY <1>2, <2>1, Untouched DEF Plug, jobVars
  <1>3. CASE \E n \in Nodes : Unplug(n)
    <2>1. PICK n \in Nodes : Unplug(n)
      BY <1>3
    <2>2. traced' = [traced EXCEPT !.sure = traced.sure /\ slot.dongle # at[n]]
      BY <2>1 DEF Unplug
    <2>3. (traced.sure /\ slot.dongle # at[n]) \in BOOLEAN
      BY Zenon
    <2>4. traced' \in Traces
      BY <1>1, <2>2, <2>3, TraceKeeps, Zenon DEF FirmwareTypeOK
    <2>5. FirmwareTypeOK'
      BY <1>1, <2>1, <2>4, JobsAssumption DEF FirmwareTypeOK, Unplug, jobVars
    <2>. QED BY <2>1, <2>5, Untouched DEF Unplug, jobVars
  <1>4. CASE \E n \in Nodes : Attach(n)
    <2>1. FirmwareTypeOK'
      BY <1>1, <1>4 DEF FirmwareTypeOK, Attach, jobVars
    <2>. QED BY <1>4, <2>1, Untouched DEF Attach, jobVars
  <1>5. CASE \E d \in Dongles : Detach(d)
    <2>1. FirmwareTypeOK'
      BY <1>1, <1>5 DEF FirmwareTypeOK, Detach, jobVars
    <2>. QED BY <1>5, <2>1, Untouched DEF Detach, jobVars
  <1>6. ASSUME NEW kind \in Kinds, NEW d \in Targets, Ask(kind, d, updating)
        PROVE  FirmwareIInv'
    <2>1. [kind |-> kind, dongle |-> d,
           path |-> IF kind = "relay" THEN Nobody ELSE engine[d]] \in Requests
      BY <1>1, <1>6 DEF Ask, FirmwareTypeOK, Requests
    <2>2. FirmwareTypeOK'
      BY <1>1, <1>6, <2>1 DEF FirmwareTypeOK, Ask, dongleVars
    <2>. QED BY <1>6, <2>2, Untouched DEF Ask
  <1>7. CASE \E j \in Ids : CancelDrops(j)
    <2>1. FirmwareTypeOK'
      BY <1>1, <1>7 DEF FirmwareTypeOK, CancelDrops, dongleVars
    <2>. QED BY <1>7, <2>1, Untouched DEF CancelDrops
  <1>. QED BY <1>2, <1>3, <1>4, <1>5, <1>6, <1>7

-------------------------------------------------------------------------------
(* Starting, confirming and cancelling. *)

LEMMA BeginInv == ASSUME FirmwareIInv, NEW r \in asking, Begin(r) PROVE FirmwareIInv'
  <1>. DEFINE id == begun + 1
  <1>1. FirmwareTypeOK /\ TaskOwnsSlot /\ Fresh /\ UsbKind /\ r \in Requests
    BY DEF FirmwareIInv, FirmwareTypeOK
  <1>2. CASE JobActive
    <2>1. FirmwareTypeOK'
      BY <1>1, <1>2 DEF FirmwareTypeOK, Begin, dongleVars
    <2>. QED BY <1>2, <2>1, Untouched DEF Begin, FirmwareIInv
  <1>3. CASE ~JobActive
    <2>1. Take(r) /\ begun < MaxJobs
      BY <1>3 DEF Begin, Take
    <2>2. id \in Ids /\ begun' = id
      BY <1>1, <2>1, JobsAssumption DEF Take, FirmwareTypeOK, Ids
    <2>3. \A j \in Ids : task[j] \notin Working
      BY <1>1, <1>3, WorkingPlaces, WorkingSteps DEF TaskOwnsSlot, JobActive, Active
    <2>4. /\ slot' \in Jobs /\ slot'.id = id /\ slot'.kind = r.kind
          /\ slot'.step = IF r.kind = "restore" THEN "flash" ELSE "download"
      BY <1>1, <2>1, <2>2 DEF Take, Jobs, Requests, Active
    <2>5. /\ task' \in [Ids -> Places]
          /\ task'[id] = IF r.kind = "restore" THEN "lookup" ELSE "download"
          /\ \A j \in Ids \ {id} : task'[j] = task[j]
      BY <1>1, <2>1, <2>2, WorkingPlaces DEF Take, FirmwareTypeOK, Places
    <2>a. traced' = [traced EXCEPT !.sure = Sure(r.dongle, r.path)]
      BY <2>1 DEF Take
    <2>b. Sure(r.dongle, r.path) \in BOOLEAN
      BY Zenon DEF Sure
    <2>c. traced' \in Traces
      BY <1>1, <2>a, <2>b, TraceKeeps, Zenon DEF FirmwareTypeOK
    <2>6. FirmwareTypeOK'
      BY <1>1, <2>2, <2>4, <2>5, <2>c, JobsAssumption
         DEF FirmwareTypeOK, Begin, dongleVars, Ids
    <2>7. TaskOwnsSlot'
      BY <2>2, <2>3, <2>4, <2>5, WorkingPlaces, WorkingSteps DEF TaskOwnsSlot
    <2>8. Fresh'
      BY <1>1, <2>2, <2>4, <2>5 DEF Fresh, FirmwareTypeOK, Ids
    <2>9. UsbKind'
      BY <2>3, <2>4, <2>5, WorkingPlaces DEF UsbKind, UsbPlaces
    <2>. QED BY <2>6, <2>7, <2>8, <2>9 DEF FirmwareIInv
  <1>. QED BY <1>2, <1>3

\* No task works while the job is in review.
LEMMA ReviewIdle ==
    ASSUME FirmwareIInv, InReview
    PROVE  slot \in Jobs /\ slot.id \in Ids /\ \A j \in Ids : task[j] \notin Working
  BY WorkingPlaces, WorkingSteps
     DEF FirmwareIInv, FirmwareTypeOK, TaskOwnsSlot, InReview, NoJob, Jobs

LEMMA ConfirmInv == ASSUME FirmwareIInv, Confirm PROVE FirmwareIInv'
  <1>1. /\ slot \in Jobs /\ slot.id \in Ids /\ \A j \in Ids : task[j] \notin Working
        /\ FirmwareTypeOK /\ Fresh /\ UsbKind /\ InReview
    BY ReviewIdle DEF Confirm, FirmwareIInv
  <1>2. slot' \in Jobs /\ slot'.id = slot.id /\ slot'.kind = slot.kind /\ slot'.step = "flash"
    BY <1>1, StepKeeps DEF Confirm, Active
  <1>3. /\ task' \in [Ids -> Places] /\ task'[slot.id] = "confirmed"
        /\ \A j \in Ids \ {slot.id} : task'[j] = task[j]
    BY <1>1, WorkingPlaces DEF Confirm, FirmwareTypeOK, Places
  <1>4. FirmwareTypeOK'
    BY <1>1, <1>2, <1>3 DEF FirmwareTypeOK, Confirm, dongleVars
  <1>5. TaskOwnsSlot'
    BY <1>1, <1>2, <1>3, WorkingPlaces, WorkingSteps DEF TaskOwnsSlot
  <1>6. Fresh'
    BY <1>1, <1>2, <1>3, JobsAssumption DEF Fresh, Confirm, FirmwareTypeOK, Ids
  <1>7. UsbKind'
    BY <1>1, <1>2, <1>3, WorkingPlaces DEF UsbKind, UsbPlaces, InReview
  <1>. QED BY <1>4, <1>5, <1>6, <1>7 DEF FirmwareIInv

LEMMA CancelInv == ASSUME FirmwareIInv, Cancel PROVE FirmwareIInv'
  <1>1. /\ slot \in Jobs /\ slot.id \in Ids /\ \A j \in Ids : task[j] \notin Working
        /\ FirmwareTypeOK /\ Fresh /\ UsbKind /\ InReview
    BY ReviewIdle DEF Cancel, FirmwareIInv
  <1>2. slot' \in Jobs /\ slot'.id = slot.id /\ slot'.step = "cancelled"
    BY <1>1, StepKeeps DEF Cancel, Over
  <1>3. FirmwareTypeOK'
    BY <1>1, <1>2 DEF FirmwareTypeOK, Cancel, dongleVars
  <1>4. TaskOwnsSlot'
    BY <1>1, <1>2 DEF TaskOwnsSlot, Cancel, Active
  <1>5. Fresh' /\ UsbKind'
    BY <1>1, <1>2, WorkingPlaces DEF Fresh, UsbKind, UsbPlaces, Cancel
  <1>. QED BY <1>3, <1>4, <1>5 DEF FirmwareIInv

-------------------------------------------------------------------------------
(* The steps of a task. *)

LEMMA FreeType ==
    ASSUME FirmwareTypeOK, NEW j \in Ids, Free(j)
    PROVE  reserved' \in [node : Nodes \cup {Nobody}, by : Ids \cup {NoId}]
  BY DEF FirmwareTypeOK, Free, NoReservation

\* Tasks that only change their place and the step of their job.
LEMMA PlainSteps ==
    ASSUME FirmwareIInv, NEW j \in Ids,
           \/ Replugged(j) \/ Uploading(j) \/ Uploaded(j) \/ Restarted(j) \/ Fails(j)
    PROVE  FirmwareIInv'
  <1>. USE WorkingPlaces, WorkingSteps DEF Places, Active, Over, Goes, UsbPlaces
  <1>1. FirmwareTypeOK
    BY DEF FirmwareIInv
  <1>2. CASE Replugged(j)
    <2>1. slot.step = "replug" /\ slot.kind # "relay"
      BY <1>2, WorkingOwns DEF Replugged
    <2>2. slot' \in Jobs /\ task' \in [Ids -> Places] /\ TaskOwnsSlot' /\ Fresh' /\ UsbKind'
      BY <1>2, <2>1, GoesOn DEF Replugged
    <2>. QED BY <1>1, <1>2, <2>2 DEF Replugged, FirmwareTypeOK, FirmwareIInv, dongleVars
  <1>3. CASE Uploading(j)
    <2>1. slot' \in Jobs /\ task' \in [Ids -> Places] /\ TaskOwnsSlot' /\ Fresh' /\ UsbKind'
      BY <1>3, GoesOn DEF Uploading
    <2>. QED BY <1>1, <1>3, <2>1 DEF Uploading, FirmwareTypeOK, FirmwareIInv, dongleVars
  <1>4. CASE Uploaded(j)
    <2>1. slot' \in Jobs /\ task' \in [Ids -> Places] /\ TaskOwnsSlot' /\ Fresh' /\ UsbKind'
      BY <1>4, GoesOn DEF Uploaded
    <2>. QED BY <1>1, <1>4, <2>1 DEF Uploaded, FirmwareTypeOK, FirmwareIInv, dongleVars
  <1>5. CASE Restarted(j)
    <2>1. slot' \in Jobs /\ task' \in [Ids -> Places] /\ TaskOwnsSlot' /\ Fresh' /\ UsbKind'
      BY <1>5, GoesOn DEF Restarted
    <2>. QED BY <1>1, <1>5, <2>1 DEF Restarted, FirmwareTypeOK, FirmwareIInv, dongleVars
  <1>6. CASE Fails(j)
    <2>1. slot' \in Jobs /\ task' \in [Ids -> Places] /\ TaskOwnsSlot' /\ Fresh' /\ UsbKind'
      BY <1>6, GoesOn DEF Fails
    <2>2. reserved' \in [node : Nodes \cup {Nobody}, by : Ids \cup {NoId}]
      BY <1>1, <1>6, FreeType DEF Fails
    <2>. QED BY <1>1, <1>6, <2>1, <2>2 DEF Fails, FirmwareTypeOK, FirmwareIInv, dongleVars
  <1>. QED BY <1>2, <1>3, <1>4, <1>5, <1>6

\* The job's node: a job on a USB dongle has one, and so has a session.
LEMMA PathNode ==
    ASSUME FirmwareTypeOK, slot \in Jobs, slot.kind # "relay"
    PROVE  slot.path \in Nodes /\ slot.dongle \in Dongles /\ PathNow \in Nodes
  BY JobsAssumption DEF FirmwareTypeOK, Jobs, PathNow

\* The steps of a task that take, use or give up a node, or a release.
LEMMA DownloadedInv ==
    ASSUME FirmwareIInv, NEW j \in Ids, Downloaded(j) PROVE FirmwareIInv'
  <1>. USE WorkingPlaces, WorkingSteps DEF Places, Active, Over, Goes, UsbPlaces
  <1>1. FirmwareTypeOK /\ slot \in Jobs /\ slot.kind # "relay"
    BY WorkingOwns DEF FirmwareIInv, Downloaded
  <1>2. slot' \in Jobs /\ task' \in [Ids -> Places] /\ TaskOwnsSlot' /\ Fresh' /\ UsbKind'
    BY <1>1, GoesOn DEF Downloaded
  <1>3. reserved' \in [node : Nodes \cup {Nobody}, by : Ids \cup {NoId}]
    BY <1>1, PathNode DEF Downloaded, Reserve
  <1>. QED BY <1>1, <1>2, <1>3 DEF Downloaded, FirmwareTypeOK, FirmwareIInv, dongleVars

\* A task that goes on within its step.
LEMMA StaysInStep ==
    ASSUME FirmwareIInv, NEW j \in Ids, task[j] \in UsbPlaces, NEW to \in UsbPlaces,
           StepAt[to] = StepAt[task[j]],
           task' = [task EXCEPT ![j] = to], begun' = begun,
           slot' \in Jobs, slot'.id = slot.id, slot'.kind = slot.kind, slot'.step = slot.step
    PROVE  task' \in [Ids -> Places] /\ TaskOwnsSlot' /\ Fresh' /\ UsbKind'
  <1>. USE WorkingPlaces DEF UsbPlaces
  <1>1. /\ slot.id = j /\ slot.kind # "relay" /\ slot.step = StepAt[to]
        /\ \A i \in Ids : task[i] \in Working => i = j
    BY WorkingOwns
  <1>2. task' \in [Ids -> Places] /\ task'[j] = to /\ \A i \in Ids \ {j} : task'[i] = task[i]
    BY DEF FirmwareIInv, FirmwareTypeOK, Places
  <1>3. TaskOwnsSlot'
    BY <1>1, <1>2 DEF TaskOwnsSlot
  <1>4. Fresh'
    BY <1>1, <1>2, JobsAssumption DEF FirmwareIInv, FirmwareTypeOK, Fresh, Ids
  <1>5. UsbKind'
    BY <1>1, <1>2 DEF FirmwareIInv, UsbKind
  <1>. QED BY <1>2, <1>3, <1>4, <1>5

LEMMA HeldInv ==
    ASSUME FirmwareIInv, NEW j \in Ids, Held(j) PROVE FirmwareIInv'
  <1>. USE WorkingPlaces, WorkingSteps DEF UsbPlaces
  <1>1. FirmwareTypeOK /\ slot \in Jobs
    BY WorkingOwns DEF FirmwareIInv, Held, Goes
  <1>2. task' \in [Ids -> Places] /\ TaskOwnsSlot' /\ Fresh' /\ UsbKind'
    <2>1. CASE Goes(j, "claim", "backup")
      BY <1>1, <2>1, StaysInStep DEF Held, Goes
    <2>2. CASE Goes(j, "reclaim", "write")
      BY <1>1, <2>2, StaysInStep DEF Held, Goes
    <2>. QED BY <2>1, <2>2 DEF Held
  <1>. QED BY <1>1, <1>2 DEF Held, FirmwareTypeOK, FirmwareIInv, dongleVars

LEMMA TakeReleaseInv ==
    ASSUME FirmwareIInv, NEW j \in Ids, TakeRelease(j) PROVE FirmwareIInv'
  <1>. USE WorkingPlaces, WorkingSteps DEF Places, Active, Over, Goes, UsbPlaces
  <1>1. FirmwareTypeOK /\ slot \in Jobs
    BY WorkingOwns DEF FirmwareIInv, TakeRelease
  <1>2. slot' \in Jobs /\ task' \in [Ids -> Places] /\ TaskOwnsSlot' /\ Fresh' /\ UsbKind'
    <2>1. CASE release # NoId
      BY <1>1, <2>1, StaysInStep DEF TakeRelease
    <2>2. CASE release = NoId
      BY <1>1, <2>2, GoesOn DEF TakeRelease
    <2>. QED BY <2>1, <2>2
  <1>. QED BY <1>1, <1>2 DEF TakeRelease, FirmwareTypeOK, FirmwareIInv, dongleVars

LEMMA LookupInv ==
    ASSUME FirmwareIInv, NEW j \in Ids, Lookup(j) PROVE FirmwareIInv'
  <1>. USE WorkingPlaces, WorkingSteps DEF Goes, UsbPlaces
  <1>. DEFINE sure == IF engine[slot.dongle] # Nobody
                      THEN Sure(slot.dongle, engine[slot.dongle]) ELSE traced.sure
  <1>1. FirmwareTypeOK /\ slot \in Jobs /\ slot.kind # "relay"
    BY WorkingOwns DEF FirmwareIInv, Lookup
  <1>2. PathNow \in Nodes
    BY <1>1, PathNode
  <1>3. slot' \in Jobs /\ slot'.id = slot.id /\ slot'.kind = slot.kind /\ slot'.step = slot.step
    BY <1>1, <1>2 DEF Jobs, Lookup
  <1>4. task' \in [Ids -> Places] /\ TaskOwnsSlot' /\ Fresh' /\ UsbKind'
    BY <1>3, StaysInStep DEF Lookup
  <1>5. reserved' \in [node : Nodes \cup {Nobody}, by : Ids \cup {NoId}]
    BY <1>2 DEF Lookup, Reserve
  <1>6. sure \in BOOLEAN
    <2>1. traced.sure \in BOOLEAN
      BY <1>1 DEF FirmwareTypeOK, Traces
    <2>2. Sure(slot.dongle, engine[slot.dongle]) \in BOOLEAN
      BY Zenon DEF Sure
    <2>. HIDE DEF Sure
    <2>. QED BY <2>1, <2>2, Zenon
  <1>7. traced' \in Traces
    <2>1. traced' = [traced EXCEPT !.sure = sure]
      BY Zenon DEF Lookup
    <2>. HIDE DEF sure
    <2>. QED BY <1>1, <1>6, <2>1, TraceKeeps, Zenon DEF FirmwareTypeOK
  <1>. QED BY <1>1, <1>3, <1>4, <1>5, <1>7 DEF Lookup, FirmwareTypeOK, FirmwareIInv, dongleVars

LEMMA StraysType == Strays \in BOOLEAN
  BY Zenon DEF Strays

\* The end of a stay at the dongle: its node is given up.
LEMMA LeavesInv ==
    ASSUME FirmwareIInv, NEW j \in Ids, BackUp(j) \/ Write(j) PROVE FirmwareIInv'
  <1>. USE WorkingPlaces, WorkingSteps DEF Places, Active, Over, Goes, UsbPlaces
  <1>1. /\ FirmwareTypeOK /\ slot \in Jobs /\ slot.kind # "relay"
        /\ task[j] \in {"backup", "write"}
    BY WorkingOwns DEF FirmwareIInv, BackUp, Write
  <1>2. slot' \in Jobs /\ task' \in [Ids -> Places] /\ TaskOwnsSlot' /\ Fresh' /\ UsbKind'
    <2>1. CASE BackUp(j)
      BY <1>1, <2>1, GoesOn DEF BackUp
    <2>2. ASSUME NEW end \in {"done", "failed", "replug"}, Write(j), Step(end),
                 task' = [task EXCEPT ![j] = IF end = "replug" THEN "replug" ELSE "ended"]
          PROVE  slot' \in Jobs /\ task' \in [Ids -> Places] /\ TaskOwnsSlot' /\ Fresh' /\ UsbKind'
      BY <1>1, <2>2, GoesOn DEF Write
    <2>. QED BY <2>1, <2>2 DEF Write
  <1>3. reserved' \in [node : Nodes \cup {Nobody}, by : Ids \cup {NoId}]
    BY <1>1, FreeType DEF BackUp, Write
  <1>4. traced' \in Traces
    <2>1. traced' = [traced EXCEPT !.strayed = Strays]
      BY Zenon DEF BackUp, Write
    <2>. QED BY <1>1, <2>1, StraysType, TraceKeeps, Zenon DEF FirmwareTypeOK
  <1>. QED BY <1>1, <1>2, <1>3, <1>4
           DEF BackUp, Write, FirmwareTypeOK, FirmwareIInv, dongleVars

\* Nobody waits for the replug any longer: the job stays where it is.
LEMMA ReplugTimesOutInv ==
    ASSUME FirmwareIInv, NEW j \in Ids, ReplugTimesOut(j) PROVE FirmwareIInv'
  <1>. USE WorkingPlaces, WorkingSteps DEF Places, Active, Over, Goes, UsbPlaces
  <1>1. FirmwareTypeOK /\ slot \in Jobs /\ slot.step = "replug" /\ slot.kind # "relay"
    BY WorkingOwns DEF FirmwareIInv, ReplugTimesOut
  <1>2. Step("replug")
    BY <1>1 DEF ReplugTimesOut, Step, Jobs
  <1>3. slot' \in Jobs /\ task' \in [Ids -> Places] /\ TaskOwnsSlot' /\ Fresh' /\ UsbKind'
    BY <1>1, <1>2, GoesOn DEF ReplugTimesOut
  <1>. QED BY <1>1, <1>3 DEF ReplugTimesOut, FirmwareTypeOK, FirmwareIInv, dongleVars

-------------------------------------------------------------------------------
(* The theorems. *)

LEMMA FirmwareStepInv ==
    ASSUME FirmwareIInv, NEW updating, FirmwareNext(updating) PROVE FirmwareIInv'
  <1>1. ASSUME NEW j \in Ids, TaskStep(j) PROVE FirmwareIInv'
    BY <1>1, DownloadedInv, HeldInv, LeavesInv, TakeReleaseInv, LookupInv, ReplugTimesOutInv,
       PlainSteps DEF TaskStep
  <1>2. ASSUME NEW r \in asking, Begin(r) PROVE FirmwareIInv'
    BY <1>2, BeginInv
  <1>. QED BY <1>1, <1>2, ConfirmInv, CancelInv, AroundJobs DEF FirmwareNext

LEMMA FirmwareStutters ==
    ASSUME FirmwareIInv, UNCHANGED firmwareVars PROVE FirmwareIInv'
  BY Untouched DEF FirmwareIInv, FirmwareTypeOK, firmwareVars, jobVars, dongleVars

LEMMA FirmwareInvariant == Spec => []FirmwareIInv
  <1>1. Init => FirmwareIInv
    BY FirmwareInitInv DEF Init
  <1>2. FirmwareIInv /\ [Next]_maintenanceVars => FirmwareIInv'
    <2>1. CASE Next
      BY <2>1, FirmwareStepInv, FirmwareStutters DEF Next
    <2>2. CASE UNCHANGED maintenanceVars
      BY <2>2, FirmwareStutters DEF maintenanceVars
    <2>. QED BY <2>1, <2>2
  <1>. QED BY <1>1, <1>2, PTL DEF Spec

\* However requests, cancels and failures interleave, update and fail change the
\* job of the task that calls them, in the step that task is in, and a job that
\* waits for no user has a task (src/src/firmware/mod.rs, update and fail).
THEOREM JobsExclusive == Spec => []TaskOwnsSlot
  BY FirmwareInvariant, PTL DEF FirmwareIInv

-------------------------------------------------------------------------------
(* A job and its dongle. *)

\* Where a task has a reservation.
Claims == {"claim", "backup", "reclaim", "write"}

\* The node of a task that works on a dongle is reserved for it, and free of
\* sessions from when the task goes on; nobody else has a reservation.
Holding ==
    /\ reserved.by = NoId => reserved = NoReservation
    /\ reserved.by # NoId => task[reserved.by] \in Claims
    /\ \A j \in Ids : task[j] \in Claims => reserved = [node |-> slot.path, by |-> j]
    /\ \A j \in Ids : task[j] \in {"backup", "write"} => NoSession(slot.path)

\* While the history is sure of it, the job's dongle is on the job's node.
SureOfNode == traced.sure => slot.id # NoId /\ slot.path \in Nodes /\ at[slot.path] = slot.dongle

AloneIInv == FirmwareIInv /\ Holding /\ SureOfNode /\ ~traced.strayed

LEMMA ClaimPlaces == Claims \subseteq Working /\ Claims \subseteq UsbPlaces
  BY WorkingPlaces DEF Claims, UsbPlaces

\* The only working task holds the reservation, if anything does.
LEMMA OnlyHolder ==
    ASSUME FirmwareIInv, Holding, NEW j \in Ids, \A i \in Ids \ {j} : task[i] \notin Working
    PROVE  /\ task[j] \notin Claims => reserved = NoReservation
           /\ Free(j) => reserved' = NoReservation
  <1>1. reserved.by # NoId => reserved.by = j /\ task[j] \in Claims
    <2>1. reserved.by \in Ids \cup {NoId}
      BY DEF FirmwareIInv, FirmwareTypeOK
    <2>. QED BY <2>1, ClaimPlaces DEF Holding
  <1>2. j # NoId
    BY DEF Ids, NoId
  <1>. QED BY <1>1, <1>2 DEF Holding, Free

\* The only working task goes on to another place.
LEMMA HoldingGoes ==
    ASSUME FirmwareIInv, NEW j \in Ids, \A i \in Ids \ {j} : task[i] \notin Working,
           NEW to \in Places, task' = [task EXCEPT ![j] = to],
           to \in Claims => reserved' = [node |-> slot'.path, by |-> j],
           to \notin Claims => reserved' = NoReservation,
           to \in {"backup", "write"} => NoSession(slot.path)'
    PROVE  Holding'
  <1>1. task'[j] = to /\ \A i \in Ids \ {j} : task'[i] = task[i]
    BY DEF FirmwareIInv, FirmwareTypeOK
  <1>2. \A i \in Ids : task'[i] \in Claims => i = j
    BY <1>1, ClaimPlaces
  <1>3. j # NoId /\ NoReservation.by = NoId
    BY DEF Ids, NoId, NoReservation
  <1>4. {"backup", "write"} \subseteq Claims
    BY DEF Claims
  <1>5. \A i \in Ids : task'[i] \in {"backup", "write"} => NoSession(slot.path)'
    BY <1>1, <1>2, <1>4
  <1>6. CASE to \in Claims
    BY <1>1, <1>2, <1>3, <1>5, <1>6 DEF Holding
  <1>7. CASE to \notin Claims
    BY <1>1, <1>2, <1>3, <1>5, <1>7 DEF Holding
  <1>. QED BY <1>6, <1>7

LEMMA StepPlace ==
    ASSUME slot \in Jobs, NEW s, Step(s)
    PROVE  slot'.id = slot.id /\ slot'.path = slot.path /\ slot'.dongle = slot.dongle
  BY DEF Jobs, Step

LEMMA SureStays ==
    ASSUME SureOfNode, slot'.id = slot.id, slot'.path = slot.path, slot'.dongle = slot.dongle,
           at' = at, traced'.sure => traced.sure
    PROVE  SureOfNode'
  BY DEF SureOfNode

\* The job the history is sure of is one on a USB dongle.
LEMMA SureOfDongle ==
    ASSUME FirmwareIInv, SureOfNode, traced.sure
    PROVE  slot \in Jobs /\ slot.dongle \in Dongles /\ slot.path \in Nodes /\ at[slot.path] = slot.dongle
  <1>1. slot \in Jobs /\ slot.path \in Nodes
    BY DEF SureOfNode, FirmwareIInv, FirmwareTypeOK, NoJob
  <1>2. slot.kind # "relay"
    BY <1>1, JobsAssumption DEF Jobs
  <1>. QED BY <1>1, <1>2, PathNode DEF SureOfNode, FirmwareIInv

LEMMA AroundAlone ==
    ASSUME AloneIInv, NEW updating,
           \/ \E d \in Dongles, n \in Nodes : Plug(d, n)
           \/ \E n \in Nodes : Unplug(n) \/ Attach(n)
           \/ \E d \in Dongles : Detach(d)
           \/ \E kind \in Kinds, d \in Targets : Ask(kind, d, updating)
           \/ \E j \in Ids : CancelDrops(j)
    PROVE  Holding' /\ SureOfNode' /\ ~traced'.strayed
  <1>. USE DEF AloneIInv
  <1>1. \A j \in Ids : task[j] \in {"backup", "write"} =>
           slot.path \in Nodes /\ reserved.node = slot.path /\ NoSession(slot.path)
    <2>. SUFFICES ASSUME NEW j \in Ids, task[j] \in {"backup", "write"}
                  PROVE  slot.path \in Nodes /\ reserved.node = slot.path /\ NoSession(slot.path)
      OBVIOUS
    <2>1. task[j] \in Claims
      BY DEF Claims
    <2>2. slot \in Jobs /\ slot.kind # "relay"
      BY <2>1, WorkingOwns, ClaimPlaces
    <2>. QED BY <2>1, <2>2, PathNode DEF Holding, FirmwareIInv
  <1>2. ASSUME UNCHANGED <<slot, task, reserved>>,
               \A j \in Ids : task[j] \in {"backup", "write"} => NoSession(slot.path)'
        PROVE  Holding'
    BY <1>2 DEF Holding
  <1>3. ASSUME UNCHANGED <<slot, task, reserved, engine>> PROVE Holding'
    BY <1>1, <1>2, <1>3 DEF NoSession
  <1>4. CASE \E d \in Dongles, n \in Nodes : Plug(d, n)
    <2>1. PICK d \in Dongles, n \in Nodes : Plug(d, n)
      BY <1>4
    <2>2. UNCHANGED <<slot, task, reserved, engine, traced>> /\ at' = [at EXCEPT ![n] = d] /\ at[n] = Nobody
      BY <2>1 DEF Plug, jobVars
    <2>3. at \in [Nodes -> Dongles \cup {Nobody}]
      BY DEF FirmwareIInv, FirmwareTypeOK
    <2>4. traced.sure => slot.path # n /\ slot.path \in Nodes
      BY <2>2, SureOfDongle, JobsAssumption
    <2>5. SureOfNode'
      BY <2>2, <2>3, <2>4 DEF SureOfNode
    <2>. QED BY <1>3, <2>2, <2>5
  <1>5. CASE \E n \in Nodes : Unplug(n)
    <2>1. PICK n \in Nodes : Unplug(n)
      BY <1>5
    <2>2. UNCHANGED <<slot, task, reserved, engine>> /\ at' = [at EXCEPT ![n] = Nobody]
      BY <2>1 DEF Unplug, jobVars
    <2>3. traced' = [traced EXCEPT !.sure = traced.sure /\ slot.dongle # at[n]]
      BY <2>1 DEF Unplug
    <2>4. at \in [Nodes -> Dongles \cup {Nobody}] /\ traced \in Traces
      BY DEF FirmwareIInv, FirmwareTypeOK
    <2>5. traced'.sure = (traced.sure /\ slot.dongle # at[n]) /\ traced'.strayed = traced.strayed
      BY <2>3, <2>4, Zenon DEF Traces
    <2>6. traced'.sure => slot.path # n /\ traced.sure
      BY <2>5 DEF SureOfNode
    <2>7. SureOfNode'
      BY <2>2, <2>4, <2>6 DEF SureOfNode
    <2>. QED BY <1>3, <2>2, <2>5, <2>7
  <1>6. CASE \E n \in Nodes : Attach(n)
    <2>1. PICK n \in Nodes : Attach(n)
      BY <1>6
    <2>2. UNCHANGED <<slot, task, reserved, at, traced>> /\ engine' = [engine EXCEPT ![at[n]] = n] /\ reserved.node # n
      BY <2>1 DEF Attach, jobVars
    <2>3. engine \in [Dongles -> Nodes \cup {Nobody}]
      BY DEF FirmwareIInv, FirmwareTypeOK
    <2>4. \A j \in Ids : task[j] \in {"backup", "write"} => NoSession(slot.path)'
      BY <1>1, <2>2, <2>3 DEF NoSession
    <2>5. SureOfNode'
      BY <2>2 DEF SureOfNode
    <2>. QED BY <1>2, <2>2, <2>4, <2>5
  <1>7. CASE \E d \in Dongles : Detach(d)
    <2>1. PICK d \in Dongles : Detach(d)
      BY <1>7
    <2>2. UNCHANGED <<slot, task, reserved, at, traced>> /\ engine' = [engine EXCEPT ![d] = Nobody]
      BY <2>1 DEF Detach, jobVars
    <2>3. engine \in [Dongles -> Nodes \cup {Nobody}]
      BY DEF FirmwareIInv, FirmwareTypeOK
    <2>4. \A j \in Ids : task[j] \in {"backup", "write"} => NoSession(slot.path)'
      BY <1>1, <2>2, <2>3, JobsAssumption DEF NoSession
    <2>5. SureOfNode'
      BY <2>2 DEF SureOfNode
    <2>. QED BY <1>2, <2>2, <2>4, <2>5
  <1>8. ASSUME UNCHANGED <<slot, task, reserved, engine, at, traced>>
        PROVE  Holding' /\ SureOfNode' /\ ~traced'.strayed
    BY <1>3, <1>8 DEF SureOfNode
  <1>9. ASSUME NEW kind \in Kinds, NEW d \in Targets, Ask(kind, d, updating)
        PROVE  UNCHANGED <<slot, task, reserved, engine, at, traced>>
    BY <1>9 DEF Ask, dongleVars
  <1>10. ASSUME NEW j \in Ids, CancelDrops(j)
         PROVE  UNCHANGED <<slot, task, reserved, engine, at, traced>>
    BY <1>10 DEF CancelDrops, dongleVars
  <1>. QED BY <1>4, <1>5, <1>6, <1>7, <1>8, <1>9, <1>10

LEMMA BeginAlone ==
    ASSUME AloneIInv, NEW r \in asking, Begin(r)
    PROVE  Holding' /\ SureOfNode' /\ ~traced'.strayed
  <1>. USE DEF AloneIInv
  <1>1. reserved' = reserved /\ at' = at /\ engine' = engine
    BY DEF Begin, dongleVars
  <1>2. CASE JobActive
    <2>1. UNCHANGED <<slot, task, traced>>
      BY <1>2 DEF Begin
    <2>2. Holding'
      BY <1>1, <2>1 DEF Holding, NoSession
    <2>. QED BY <1>1, <2>1, <2>2, SureStays
  <1>3. CASE ~JobActive
    <2>1. Take(r) /\ r \in Requests /\ begun < MaxJobs /\ begun \in Nat /\ Fresh
      BY <1>3, JobsAssumption DEF Begin, Take, FirmwareIInv, FirmwareTypeOK
    <2>2. PICK id \in Ids : id = begun + 1
      BY <2>1, JobsAssumption DEF Ids
    <2>3. PICK to \in Places \ Claims : task' = [task EXCEPT ![id] = to]
      <3>1. {"lookup", "download"} \subseteq Places \ Claims
        BY WorkingPlaces DEF Places, Claims
      <3>2. task' = [task EXCEPT ![id] = IF r.kind = "restore" THEN "lookup" ELSE "download"]
        BY <2>1, <2>2 DEF Take
      <3>3. CASE r.kind = "restore"
        BY <3>1, <3>2, <3>3
      <3>4. CASE r.kind # "restore"
        BY <3>1, <3>2, <3>4
      <3>. QED BY <3>3, <3>4
    <2>4. \A j \in Ids : task[j] \notin Working
      BY <1>3, WorkingPlaces, WorkingSteps DEF FirmwareIInv, TaskOwnsSlot, JobActive, Active
    <2>5. reserved = NoReservation
      BY <2>4, OnlyHolder, ClaimPlaces
    <2>6. Holding'
      BY <1>1, <2>3, <2>4, <2>5, HoldingGoes DEF Claims
    <2>7. /\ slot'.id = id /\ slot'.path = r.path /\ slot'.dongle = r.dongle
          /\ traced'.sure = Sure(r.dongle, r.path) /\ traced'.strayed = traced.strayed
      <3>1. traced \in Traces /\ traced' = [traced EXCEPT !.sure = Sure(r.dongle, r.path)]
        BY <2>1 DEF Take, FirmwareIInv, FirmwareTypeOK
      <3>2. traced'.sure = Sure(r.dongle, r.path) /\ traced'.strayed = traced.strayed
        BY <3>1, Zenon DEF Traces
      <3>. QED BY <2>1, <2>2, <3>2 DEF Take
    <2>8. id # NoId /\ (r.path \in Nodes \/ r.path = Nobody)
      BY <2>1, <2>2 DEF Ids, NoId, Requests
    <2>9. SureOfNode'
      BY <1>1, <2>7, <2>8 DEF SureOfNode, Sure
    <2>. QED BY <2>6, <2>7, <2>9
  <1>. QED BY <1>2, <1>3

LEMMA ReviewAlone ==
    ASSUME AloneIInv, Confirm \/ Cancel
    PROVE  Holding' /\ SureOfNode' /\ ~traced'.strayed
  <1>. USE DEF AloneIInv
  <1>1. slot \in Jobs /\ slot.id \in Ids /\ \A j \in Ids : task[j] \notin Working
    BY ReviewIdle DEF Confirm, Cancel
  <1>2. UNCHANGED <<reserved, at, engine, traced>>
    BY DEF Confirm, Cancel, dongleVars
  <1>3. slot'.id = slot.id /\ slot'.path = slot.path /\ slot'.dongle = slot.dongle
    BY <1>1, StepPlace DEF Confirm, Cancel
  <1>4. Holding'
    <2>1. CASE Confirm
      <3>1. PICK id \in Ids : id = slot.id
        BY <1>1
      <3>2. task' = [task EXCEPT ![id] = "confirmed"] /\ "confirmed" \in Places \ Claims
        BY <2>1, <3>1, WorkingPlaces DEF Confirm, Places, Claims
      <3>3. reserved = NoReservation
        BY <1>1, <3>1, OnlyHolder, ClaimPlaces
      <3>. QED BY <1>1, <1>2, <3>1, <3>2, <3>3, HoldingGoes DEF Claims
    <2>2. CASE Cancel
      <3>1. UNCHANGED <<task, reserved, engine>>
        BY <2>2 DEF Cancel, dongleVars
      <3>. QED BY <1>3, <3>1 DEF Holding, NoSession
    <2>. QED BY <2>1, <2>2
  <1>. QED BY <1>2, <1>3, <1>4, SureStays

\* What the steps of a task have in common.
LEMMA TaskAlone ==
    ASSUME AloneIInv, NEW j \in Ids, task[j] \in Working, NEW to \in Places,
           task' = [task EXCEPT ![j] = to], UNCHANGED <<at, engine>>,
           slot' = slot \/ (\E s \in Active \cup Over : Step(s)),
           \/ to \in Claims /\ reserved' = [node |-> slot.path, by |-> j]
           \/ to \notin Claims /\ task[j] \notin Claims /\ reserved' = reserved
           \/ to \notin Claims /\ Free(j),
           to \in {"backup", "write"} => NoSession(slot.path)
    PROVE  /\ Holding'
           /\ traced' = traced => SureOfNode' /\ ~traced'.strayed
           /\ traced'.sure = traced.sure => SureOfNode'
  <1>. USE DEF AloneIInv
  <1>1. slot \in Jobs /\ \A i \in Ids \ {j} : task[i] \notin Working
    BY WorkingOwns
  <1>2. slot'.id = slot.id /\ slot'.path = slot.path /\ slot'.dongle = slot.dongle
    BY <1>1, StepPlace
  <1>3. to \notin Claims => reserved' = NoReservation
    BY <1>1, OnlyHolder
  <1>4. to \in Claims => reserved' = [node |-> slot'.path, by |-> j]
    BY <1>2
  <1>5. NoSession(slot.path)' <=> NoSession(slot.path)
    BY <1>2 DEF NoSession
  <1>6. Holding'
    BY <1>1, <1>3, <1>4, <1>5, HoldingGoes
  <1>. QED BY <1>2, <1>6, SureStays

LEMMA TaskStepAlone ==
    ASSUME AloneIInv, NEW j \in Ids, TaskStep(j)
    PROVE  Holding' /\ SureOfNode' /\ ~traced'.strayed
  <1>. USE WorkingPlaces DEF Places, Active, Over, Goes, Claims
  <1>1. CASE Downloaded(j)
    BY <1>1, TaskAlone DEF Downloaded, Reserve, dongleVars
  <1>2. CASE Held(j)
    <2>1. PICK to \in {"backup", "write"} : task' = [task EXCEPT ![j] = to]
      BY <1>2 DEF Held
    <2>2. /\ task[j] \in Claims /\ task[j] \in Working /\ NoSession(reserved.node)
          /\ UNCHANGED <<slot, reserved, at, engine, traced>>
      BY <1>2 DEF Held, dongleVars
    <2>3. reserved = [node |-> slot.path, by |-> j]
      BY <2>2 DEF AloneIInv, Holding
    <2>. QED BY <2>1, <2>2, <2>3, TaskAlone
  <1>3. CASE BackUp(j) \/ Write(j)
    <2>1. /\ task[j] \in {"backup", "write"} /\ UNCHANGED <<at, engine>> /\ Free(j)
          /\ \E s \in Active \cup Over : Step(s)
          /\ traced' = [traced EXCEPT !.strayed = Strays]
      BY <1>3 DEF BackUp, Write, dongleVars
    <2>2. PICK to \in {"replug", "ended"} : task' = [task EXCEPT ![j] = to]
      BY <1>3 DEF BackUp, Write
    <2>3. reserved = [node |-> slot.path, by |-> j]
      BY <2>1 DEF AloneIInv, Holding
    <2>4. traced.sure => at[reserved.node] = slot.dongle
      BY <2>3 DEF AloneIInv, SureOfNode
    <2>5. traced \in Traces
      BY DEF AloneIInv, FirmwareIInv, FirmwareTypeOK
    <2>6. traced'.sure = traced.sure /\ ~traced'.strayed
      BY <2>1, <2>4, <2>5 DEF Traces, Strays, AloneIInv
    <2>. QED BY <2>1, <2>2, <2>6, TaskAlone
  <1>4. CASE TakeRelease(j)
    <2>1. /\ task[j] = "confirmed" /\ UNCHANGED <<reserved, at, engine, traced>>
          /\ slot' = slot \/ (\E s \in Active \cup Over : Step(s))
      BY <1>4 DEF TakeRelease, dongleVars
    <2>2. PICK to \in {"lookup", "ended"} : task' = [task EXCEPT ![j] = to]
      BY <1>4 DEF TakeRelease
    <2>. QED BY <2>1, <2>2, TaskAlone
  <1>5. CASE Lookup(j)
    <2>1. /\ task[j] = "lookup" /\ task' = [task EXCEPT ![j] = "reclaim"] /\ UNCHANGED <<at, engine>>
          /\ slot' = [slot EXCEPT !.path = PathNow] /\ reserved' = [node |-> PathNow, by |-> j]
          /\ traced' = [traced EXCEPT !.sure = IF engine[slot.dongle] # Nobody
                  THEN Sure(slot.dongle, engine[slot.dongle]) ELSE @]
      BY <1>5 DEF Lookup, Reserve, dongleVars
    <2>2. slot \in Jobs /\ slot.id = j /\ slot.kind # "relay" /\ \A i \in Ids \ {j} : task[i] \notin Working
      BY <2>1, WorkingOwns DEF AloneIInv, UsbPlaces
    <2>3. slot'.path = PathNow /\ slot'.id = slot.id /\ slot'.dongle = slot.dongle
      BY <2>1, <2>2 DEF Jobs
    <2>4. Holding'
      BY <2>1, <2>2, <2>3, HoldingGoes DEF AloneIInv
    <2>5. traced \in Traces /\ FirmwareTypeOK
      BY DEF AloneIInv, FirmwareIInv, FirmwareTypeOK
    <2>6. traced'.strayed = traced.strayed
      BY <2>1, <2>5, Zenon DEF Traces
    <2>7. PathNow \in Nodes
      BY <2>2, <2>5, PathNode
    <2>8. SureOfNode'
      <3>1. CASE engine[slot.dongle] # Nobody
        <4>1. traced'.sure = Sure(slot.dongle, engine[slot.dongle])
          BY <2>1, <2>5, <3>1 DEF Traces
        <4>2. PathNow = engine[slot.dongle]
          BY <3>1 DEF PathNow
        <4>3. j # NoId
          BY DEF Ids, NoId
        <4>. QED BY <2>1, <2>2, <2>3, <2>7, <4>1, <4>2, <4>3 DEF SureOfNode, Sure
      <3>2. CASE engine[slot.dongle] = Nobody
        <4>1. traced'.sure = traced.sure
          BY <2>1, <2>5, <3>2 DEF Traces
        <4>2. PathNow = slot.path
          BY <3>2 DEF PathNow
        <4>. QED BY <2>1, <2>3, <4>1, <4>2, SureStays DEF AloneIInv
      <3>. QED BY <3>1, <3>2
    <2>. QED BY <2>4, <2>6, <2>8 DEF AloneIInv
  <1>6. CASE Replugged(j) \/ ReplugTimesOut(j)
    <2>1. /\ task[j] = "replug" /\ task' = [task EXCEPT ![j] = "ended"]
          /\ UNCHANGED <<reserved, at, engine, traced>>
          /\ slot' = slot \/ (\E s \in Active \cup Over : Step(s))
      BY <1>6 DEF Replugged, ReplugTimesOut, dongleVars
    <2>. QED BY <2>1, TaskAlone
  <1>7. CASE Uploading(j) \/ Uploaded(j) \/ Restarted(j)
    <2>1. /\ task[j] \in {"download", "upload", "restart"}
          /\ UNCHANGED <<reserved, at, engine, traced>> /\ \E s \in Active \cup Over : Step(s)
      BY <1>7 DEF Uploading, Uploaded, Restarted, dongleVars
    <2>2. PICK to \in {"upload", "restart", "ended"} : task' = [task EXCEPT ![j] = to]
      BY <1>7 DEF Uploading, Uploaded, Restarted
    <2>. QED BY <2>1, <2>2, TaskAlone
  <1>8. CASE Fails(j)
    <2>1. /\ task[j] \in Working /\ task' = [task EXCEPT ![j] = "ended"]
          /\ UNCHANGED <<at, engine, traced>> /\ Free(j) /\ \E s \in Active \cup Over : Step(s)
      BY <1>8 DEF Fails, dongleVars
    <2>. QED BY <2>1, TaskAlone
  <1>. QED BY <1>1, <1>2, <1>3, <1>4, <1>5, <1>6, <1>7, <1>8 DEF TaskStep

LEMMA AloneInit == FirmwareInit => Holding /\ SureOfNode /\ ~traced.strayed
  BY DEF FirmwareInit, Holding, SureOfNode, Claims, NoReservation, NoId, Ids

LEMMA AloneStep ==
    ASSUME AloneIInv, NEW updating, FirmwareNext(updating) PROVE AloneIInv'
  <1>1. FirmwareIInv'
    BY FirmwareStepInv DEF AloneIInv
  <1>2. ASSUME NEW j \in Ids, TaskStep(j) PROVE Holding' /\ SureOfNode' /\ ~traced'.strayed
    BY <1>2, TaskStepAlone
  <1>3. ASSUME NEW r \in asking, Begin(r) PROVE Holding' /\ SureOfNode' /\ ~traced'.strayed
    BY <1>3, BeginAlone
  <1>4. Holding' /\ SureOfNode' /\ ~traced'.strayed
    BY <1>2, <1>3, ReviewAlone, AroundAlone DEF FirmwareNext
  <1>. QED BY <1>1, <1>4 DEF AloneIInv

LEMMA AloneStutters ==
    ASSUME AloneIInv, UNCHANGED firmwareVars PROVE AloneIInv'
  <1>1. FirmwareIInv'
    BY FirmwareStutters DEF AloneIInv
  <1>2. Holding' /\ SureOfNode' /\ ~traced'.strayed
    BY DEF AloneIInv, Holding, SureOfNode, NoSession, firmwareVars, jobVars, dongleVars
  <1>. QED BY <1>1, <1>2 DEF AloneIInv

\* However dongles are moved while requests, cancels and failures interleave: a job
\* has the node it works on to itself, no reservation outlives its task, and the
\* dongle that is read and written is the job's own as long as it stays where the
\* job looked it up (src/src/firmware/mod.rs, prepare and write).
THEOREM JobsWorkAlone == Spec => []JobAlone
  <1>1. Init => AloneIInv
    BY FirmwareInitInv, AloneInit DEF Init, AloneIInv
  <1>2. AloneIInv /\ [Next]_maintenanceVars => AloneIInv'
    <2>1. CASE Next
      BY <2>1, AloneStep, AloneStutters DEF Next
    <2>2. CASE UNCHANGED maintenanceVars
      BY <2>2, AloneStutters DEF maintenanceVars
    <2>. QED BY <2>1, <2>2
  <1>3. AloneIInv => JobAlone
    BY DEF AloneIInv, Holding, Claims, JobAlone, NodeHeldAlone, OwnDongle, NoSession
  <1>. QED BY <1>1, <1>2, <1>3, PTL DEF Spec

-------------------------------------------------------------------------------
(* Sensor updates. *)

WorkerPlaces == {"download", "probe", "flagOn", "loop", "withdraw", "probeAgain",
                 "putBack", "report", "ended"}

\* What makes WorkerOwnsSlot inductive: the worker of an update that met no
\* other works alone, ids not yet given have no worker, and who stopped for a
\* cancel only tidies up; and once an update was begun, the slot holds one.
Alone == \A u \in UpdateIds \ flagged.shared :
            AtWork(u) => \A v \in UpdateIds : AtWork(v) => v = u
Unoffered == \A u \in UpdateIds : u > offered => worker[u].at = "none" /\ u \notin flagged.cut
CutTidies == \A u \in flagged.cut : u \in UpdateIds => worker[u].at \in Tidying \cup {"ended"}

Slotted == offered > 0 => update \in Updates

UpdatesIInv == UpdatesTypeOK /\ WorkerOwnsSlot /\ Alone /\ Unoffered /\ CutTidies /\ Slotted

LEMMA UpdatesInitInv == ASSUME UpdatesInit PROVE UpdatesIInv
  <1>1. flagged \in Flagged
    <2>1. flag \in [Gateways -> BOOLEAN]
      BY DEF UpdatesInit
    <2>2. [first |-> flag, failed |-> {}, shared |-> {}, cut |-> {}] \in Flagged
      BY <2>1 DEF Flagged
    <2>. QED BY <2>2 DEF UpdatesInit
  <1>2. UpdatesTypeOK
    <2>1. worker \in [UpdateIds -> Workers \cup {Idle}]
      BY DEF UpdatesInit
    <2>2. listener \in [Gateways -> UpdateIds \cup {NoUpdateId}]
      BY DEF UpdatesInit
    <2>3. /\ update \in Updates \cup {NoUpdate} /\ wanted \subseteq Gateways
          /\ flag \in [Gateways -> BOOLEAN] /\ stopping \in BOOLEAN /\ permit \in BOOLEAN
      BY DEF UpdatesInit
    <2>4. offered \in 0..MaxUpdates
      BY UpdatesAssumption DEF UpdatesInit
    <2>. QED BY <1>1, <2>1, <2>2, <2>3, <2>4 DEF UpdatesTypeOK
  <1>3. \A u \in UpdateIds : worker[u].at = "none" /\ ~AtWork(u)
    BY DEF UpdatesInit, Idle, AtWork
  <1>4. flagged.cut = {} /\ offered = 0
    BY DEF UpdatesInit
  <1>. QED BY <1>2, <1>3, <1>4
           DEF UpdatesIInv, WorkerOwnsSlot, Alone, Unoffered, CutTidies, Slotted

\* Of a worker that was started, each component has its type, and an update is
\* in the slot.
LEMMA WorkerType ==
    ASSUME UpdatesIInv, NEW u \in UpdateIds, worker[u].at # "none"
    PROVE  /\ worker[u] \in Workers /\ worker[u].gateway \in Gateways /\ worker[u].before \in BOOLEAN
           /\ update \in Updates
  BY UpdatesAssumption
     DEF UpdatesIInv, UpdatesTypeOK, Workers, Idle, Unoffered, Slotted, UpdateIds

LEMMA ShowStepType ==
    ASSUME update \in Updates,
           NEW s \in {"download", "running", "done", "failed", "cancelled"}, ShowStep(s)
    PROVE  update' \in Updates /\ update'.id = update.id /\ update'.step = s
  BY DEF Updates, ShowStep

LEMMA MoveWorker ==
    ASSUME UpdatesIInv, NEW u \in UpdateIds, worker[u].at # "none",
           NEW to \in WorkerPlaces,
           Moves(u, worker[u].at, to) \/ MovesFailed(u, worker[u].at, to)
    PROVE  /\ worker' \in [UpdateIds -> Workers \cup {Idle}]
           /\ worker'[u].at = to
           /\ \A v \in UpdateIds \ {u} : worker'[v] = worker[v]
  <1>1. worker[u] \in Workers /\ worker \in [UpdateIds -> Workers \cup {Idle}]
    BY WorkerType DEF UpdatesIInv, UpdatesTypeOK
  <1>2. CASE Moves(u, worker[u].at, to)
    BY <1>1, <1>2 DEF Moves, Workers, Tidying, WorkerPlaces
  <1>3. CASE MovesFailed(u, worker[u].at, to)
    BY <1>1, <1>3 DEF MovesFailed, Workers, Tidying, WorkerPlaces
  <1>. QED BY <1>2, <1>3

\* The worker of update u, at work, goes on to `to`, and may change the slot: it
\* leaves the update active, or stops for a cancel, or ends.
LEMMA WorkerGoesOn ==
    ASSUME UpdatesIInv, NEW u \in UpdateIds, AtWork(u), NEW to \in WorkerPlaces,
           Moves(u, worker[u].at, to) \/ MovesFailed(u, worker[u].at, to),
           offered' = offered, flagged'.shared = flagged.shared,
           \/ flagged'.cut = flagged.cut /\ worker[u].at \in Tidying /\ to \in Tidying \cup {"ended"}
           \/ flagged'.cut = flagged.cut /\ worker[u].at \notin Tidying
           \/ flagged'.cut = flagged.cut \cup {u} /\ to \in Tidying,
           \/ UNCHANGED update
           \/ ShowStep("running")
           \/ ShowStep("cancelled") /\ u \in flagged'.cut
           \/ \E s \in {"failed", "done"} : ShowStep(s) /\ to = "ended"
    PROVE  /\ worker' \in [UpdateIds -> Workers \cup {Idle}]
           /\ update' \in Updates
           /\ WorkerOwnsSlot' /\ Alone' /\ Unoffered' /\ CutTidies' /\ Slotted'
  <1>1. worker[u].at # "none" /\ worker[u].at # "ended"
    BY DEF AtWork
  <1>2. /\ worker' \in [UpdateIds -> Workers \cup {Idle}]
        /\ worker'[u].at = to
        /\ \A v \in UpdateIds \ {u} : worker'[v] = worker[v]
    BY <1>1, MoveWorker
  <1>3. update \in Updates
    BY <1>1, WorkerType
  <1>4. update' \in Updates /\ update'.id = update.id
    BY <1>3, ShowStepType
  <1>5. \/ update' = update
        \/ update'.step = "running"
        \/ u \in flagged'.cut
        \/ to = "ended"
    BY <1>3, ShowStepType
  <1>6. flagged.cut \subseteq flagged'.cut
    OBVIOUS
  <1>7. WorkerOwnsSlot'
    <2>1. SUFFICES ASSUME NEW v \in UpdateIds, v \notin flagged.shared, AtWork(v)'
                   PROVE  update'.id = v /\ (UpdateActive' \/ v \in flagged'.cut)
      BY DEF WorkerOwnsSlot
    <2>2. v = u
      BY <1>2, <2>1 DEF AtWork, UpdatesIInv, Alone
    <2>3. update.id = v /\ (UpdateActive \/ v \in flagged.cut) /\ to # "ended"
      BY <1>2, <2>1, <2>2 DEF UpdatesIInv, WorkerOwnsSlot, AtWork
    <2>. QED BY <1>4, <1>5, <1>6, <2>2, <2>3 DEF UpdateActive
  <1>8. Alone'
    BY <1>2 DEF Alone, UpdatesIInv, AtWork
  <1>9. Unoffered'
    <2>1. u <= offered
      BY <1>1 DEF UpdatesIInv, Unoffered, UpdateIds, UpdatesTypeOK
    <2>. QED BY <1>2, <2>1 DEF UpdatesIInv, Unoffered, UpdateIds, UpdatesTypeOK
  <1>10. CutTidies'
    <2>1. worker[u].at \notin Tidying => u \notin flagged.cut
      BY <1>1 DEF UpdatesIInv, CutTidies
    <2>. QED BY <1>2, <2>1 DEF UpdatesIInv, CutTidies
  <1>. QED BY <1>2, <1>4, <1>7, <1>8, <1>9, <1>10 DEF Slotted

LEMMA CommandFailsType ==
    ASSUME UpdatesIInv, NEW u \in UpdateIds, worker[u].at # "none", CommandFails(u)
    PROVE  flagged' \in Flagged /\ flagged'.cut = flagged.cut /\ flagged'.shared = flagged.shared
  <1>1. worker[u].gateway \in Gateways /\ flagged \in Flagged
    BY WorkerType DEF UpdatesIInv, UpdatesTypeOK
  <1>. QED BY <1>1 DEF CommandFails, Flagged

LEMMA FlagType ==
    ASSUME UpdatesIInv, NEW u \in UpdateIds, worker[u].at # "none", NEW f \in BOOLEAN,
           flag' = [flag EXCEPT ![worker[u].gateway] = f]
    PROVE  flag' \in [Gateways -> BOOLEAN]
  BY WorkerType DEF UpdatesIInv, UpdatesTypeOK

\* What a worker at work reads of the flags.
LEMMA FlagRead ==
    ASSUME UpdatesIInv, NEW u \in UpdateIds, worker[u].at # "none"
    PROVE  flag[worker[u].gateway] \in BOOLEAN /\ Restored(u) \in BOOLEAN
  BY WorkerType DEF UpdatesIInv, UpdatesTypeOK, Restored

\* The worker reads the flags: it remembers them and goes on.
LEMMA ProbeInv == ASSUME UpdatesIInv, NEW u \in UpdateIds, Probe(u) PROVE UpdatesIInv'
  <1>1. CASE worker[u].at = "probe" /\ MovesFailed(u, "probe", "report") /\ CommandFails(u)
    <2>1. /\ worker' \in [UpdateIds -> Workers \cup {Idle}]
          /\ update' \in Updates
          /\ WorkerOwnsSlot' /\ Alone' /\ Unoffered' /\ CutTidies' /\ Slotted'
      BY <1>1, CommandFailsType, WorkerGoesOn DEF AtWork, WorkerPlaces, Tidying, Probe
    <2>. QED BY <1>1, <2>1, CommandFailsType DEF Probe, UpdatesIInv, UpdatesTypeOK
  <1>2. CASE /\ worker[u].at = "probe"
             /\ worker' = [worker EXCEPT ![u].at = "flagOn", ![u].before = flag[worker[u].gateway]]
             /\ listener' = [listener EXCEPT ![worker[u].gateway] = u]
             /\ UNCHANGED flagged
    <2>1. /\ worker[u] \in Workers /\ flag[worker[u].gateway] \in BOOLEAN /\ update \in Updates
          /\ worker \in [UpdateIds -> Workers \cup {Idle}]
      BY <1>2, WorkerType, FlagRead DEF UpdatesIInv, UpdatesTypeOK
    <2>2. /\ worker' \in [UpdateIds -> Workers \cup {Idle}]
          /\ worker'[u].at = "flagOn"
          /\ \A v \in UpdateIds \ {u} : worker'[v] = worker[v]
      BY <1>2, <2>1 DEF Workers
    <2>3. u \notin flagged.cut /\ AtWork(u)
      BY <1>2 DEF UpdatesIInv, CutTidies, Tidying, AtWork
    <2>4. WorkerOwnsSlot' /\ Alone' /\ Unoffered' /\ CutTidies' /\ Slotted'
      BY <1>2, <2>1, <2>2, <2>3 DEF Probe, UpdatesIInv, WorkerOwnsSlot, Alone, Unoffered,
         CutTidies, Slotted, AtWork, UpdateActive
    <2>. QED BY <1>2, <2>2, <2>4 DEF Probe, UpdatesIInv, UpdatesTypeOK
  <1>. QED BY <1>1, <1>2 DEF Probe, MovesFailed

LEMMA WorkerInv == ASSUME UpdatesIInv, NEW u \in UpdateIds, WorkerStep(u) PROVE UpdatesIInv'
  <1>. USE DEF AtWork, WorkerPlaces, Tidying
  <1>. DEFINE Goes2 == /\ worker' \in [UpdateIds -> Workers \cup {Idle}]
                       /\ update' \in Updates
                       /\ WorkerOwnsSlot' /\ Alone' /\ Unoffered' /\ CutTidies' /\ Slotted'
  <1>1. CASE Fetched(u)
    <2>1. Goes2
      BY <1>1, WorkerGoesOn DEF Fetched, Moves, MovesFailed
    <2>. QED BY <1>1, <2>1 DEF Fetched, UpdatesIInv, UpdatesTypeOK
  <1>2. CASE Probe(u)
    BY <1>2, ProbeInv
  <1>3. CASE FlagOn(u)
    <2>1. CASE Moves(u, "flagOn", "loop") /\ ShowStep("running") /\ UNCHANGED flagged
      <3>1. Goes2
        BY <1>3, <2>1, WorkerGoesOn DEF FlagOn, Moves
      <3>2. flag' \in [Gateways -> BOOLEAN]
        BY <1>3, <2>1, FlagType, FlagRead DEF FlagOn, Moves
      <3>. QED BY <1>3, <2>1, <3>1, <3>2 DEF FlagOn, UpdatesIInv, UpdatesTypeOK
    <2>2. CASE MovesFailed(u, "flagOn", "withdraw") /\ CommandFails(u) /\ UNCHANGED update
      <3>1. flagged' \in Flagged /\ flagged'.cut = flagged.cut /\ flagged'.shared = flagged.shared
        BY <2>2, CommandFailsType DEF MovesFailed
      <3>2. Goes2
        BY <1>3, <2>2, <3>1, WorkerGoesOn DEF FlagOn, MovesFailed
      <3>3. flag' \in [Gateways -> BOOLEAN]
        BY <1>3, <2>2, FlagType, FlagRead DEF FlagOn, MovesFailed
      <3>. QED BY <1>3, <3>1, <3>2, <3>3 DEF FlagOn, UpdatesIInv, UpdatesTypeOK
    <2>. QED BY <1>3, <2>1, <2>2 DEF FlagOn
  <1>4. CASE LoopEnds(u)
    <2>1. Goes2
      BY <1>4, WorkerGoesOn DEF LoopEnds, Moves, MovesFailed
    <2>. QED BY <1>4, <2>1 DEF LoopEnds, UpdatesIInv, UpdatesTypeOK
  <1>5. CASE LoopCancelled(u)
    <2>1. /\ flagged' \in Flagged /\ flagged'.cut = flagged.cut \cup {u}
          /\ flagged'.shared = flagged.shared
      BY <1>5 DEF LoopCancelled, UpdatesIInv, UpdatesTypeOK, Flagged
    <2>2. Goes2
      BY <1>5, <2>1, WorkerGoesOn DEF LoopCancelled, Moves
    <2>. QED BY <1>5, <2>1, <2>2 DEF LoopCancelled, UpdatesIInv, UpdatesTypeOK
  <1>6. CASE Withdraw(u)
    <2>1. Goes2
      BY <1>6, WorkerGoesOn DEF Withdraw, Moves
    <2>. QED BY <1>6, <2>1 DEF Withdraw, UpdatesIInv, UpdatesTypeOK
  <1>7. CASE ProbeAgain(u)
    <2>1. flagged' \in Flagged /\ flagged'.cut = flagged.cut /\ flagged'.shared = flagged.shared
      BY <1>7, CommandFailsType DEF ProbeAgain, Moves, UpdatesIInv, UpdatesTypeOK
    <2>2. Goes2
      BY <1>7, <2>1, WorkerGoesOn DEF ProbeAgain, Moves
    <2>. QED BY <1>7, <2>1, <2>2 DEF ProbeAgain, UpdatesIInv, UpdatesTypeOK
  <1>8. CASE PutBack(u)
    <2>1. flagged' \in Flagged /\ flagged'.cut = flagged.cut /\ flagged'.shared = flagged.shared
      BY <1>8, CommandFailsType DEF PutBack, Moves, UpdatesIInv, UpdatesTypeOK
    <2>2. Goes2
      BY <1>8, <2>1, WorkerGoesOn DEF PutBack, Moves
    <2>3. flag' \in [Gateways -> BOOLEAN]
      BY <1>8, FlagType, FlagRead DEF PutBack, Moves
    <2>. QED BY <1>8, <2>1, <2>2, <2>3 DEF PutBack, UpdatesIInv, UpdatesTypeOK
  <1>9. CASE ReportBack(u)
    <2>1. Goes2
      BY <1>9, WorkerGoesOn DEF ReportBack, Moves
    <2>. QED BY <1>9, <2>1 DEF ReportBack, UpdatesIInv, UpdatesTypeOK
  <1>. QED BY <1>1, <1>2, <1>3, <1>4, <1>5, <1>6, <1>7, <1>8, <1>9 DEF WorkerStep

LEMMA TakeUpdateInv ==
    ASSUME UpdatesIInv, NEW g \in Gateways, ~UpdateActive, TakeUpdate(g)
    PROVE  /\ update' \in Updates /\ offered' \in 0..MaxUpdates
           /\ worker' \in [UpdateIds -> Workers \cup {Idle}]
           /\ flagged' \in Flagged
           /\ WorkerOwnsSlot' /\ Alone' /\ Unoffered' /\ CutTidies' /\ Slotted'
  <1>. DEFINE id == offered + 1
              met == {u \in UpdateIds : AtWork(u)} \cap (flagged.cut \cup flagged.shared)
              w == [at |-> "download", gateway |-> g, before |-> FALSE, ok |-> TRUE]
  <1>1. id \in UpdateIds /\ offered' = id /\ id \in 0..MaxUpdates
    BY UpdatesAssumption DEF UpdatesIInv, UpdatesTypeOK, TakeUpdate, UpdateIds
  <1>2. update' \in Updates /\ update'.id = id /\ UpdateActive'
    BY <1>1 DEF TakeUpdate, Updates, UpdateActive
  <1>3. w \in Workers
    BY DEF Workers
  <1>4. /\ worker' \in [UpdateIds -> Workers \cup {Idle}]
        /\ worker'[id] = w
        /\ \A v \in UpdateIds \ {id} : worker'[v] = worker[v]
    <2>1. worker' = [worker EXCEPT ![id] = w]
      BY DEF TakeUpdate
    <2>. HIDE DEF w
    <2>. QED BY <1>1, <1>3, <2>1 DEF UpdatesIInv, UpdatesTypeOK
  <1>5. /\ flagged' \in Flagged /\ flagged'.cut = flagged.cut
        /\ flagged'.shared = IF met = {} THEN flagged.shared ELSE flagged.shared \cup met \cup {id}
    BY <1>1 DEF TakeUpdate, UpdatesIInv, UpdatesTypeOK, Flagged
  <1>6. \A v \in UpdateIds : AtWork(v) => v \in flagged.cut \cup flagged.shared
    BY DEF UpdatesIInv, WorkerOwnsSlot
  <1>7. \A v \in UpdateIds \ flagged'.shared : ~AtWork(v)
    BY <1>5, <1>6
  <1>8. id \notin flagged'.shared => \A v \in UpdateIds : ~AtWork(v)
    BY <1>5, <1>6
  <1>9. \A v \in UpdateIds \ {id} : AtWork(v)' <=> AtWork(v)
    BY <1>4 DEF AtWork
  <1>10. WorkerOwnsSlot' /\ Alone'
    BY <1>1, <1>2, <1>7, <1>8, <1>9 DEF WorkerOwnsSlot, Alone
  <1>11. Unoffered'
    BY <1>1, <1>4, <1>5 DEF Unoffered, UpdatesIInv, UpdatesTypeOK, UpdateIds
  <1>12. CutTidies'
    <2>1. id \notin flagged.cut
      BY <1>1 DEF UpdatesIInv, UpdatesTypeOK, Unoffered, UpdateIds
    <2>. QED BY <1>4, <1>5, <2>1 DEF CutTidies, UpdatesIInv
  <1>. QED BY <1>1, <1>2, <1>4, <1>5, <1>10, <1>11, <1>12 DEF Slotted

LEMMA UpdatesUntouched ==
    ASSUME UpdatesIInv, UNCHANGED <<update, offered, worker, flagged>>
    PROVE  WorkerOwnsSlot' /\ Alone' /\ Unoffered' /\ CutTidies' /\ Slotted'
  BY DEF UpdatesIInv, WorkerOwnsSlot, Alone, Unoffered, CutTidies, Slotted, AtWork, UpdateActive

LEMMA UpdatesStepInv ==
    ASSUME UpdatesIInv, NEW flashing, NEW connected \in SUBSET Gateways,
           UpdatesNext(flashing, connected)
    PROVE  UpdatesIInv'
  <1>1. ASSUME NEW g \in wanted, BeginUpdate(g) PROVE UpdatesIInv'
    <2>1. g \in Gateways
      BY DEF UpdatesIInv, UpdatesTypeOK
    <2>2. CASE UpdateActive
      BY <1>1, <2>2, UpdatesUntouched DEF BeginUpdate, UpdatesIInv, UpdatesTypeOK
    <2>3. CASE ~UpdateActive
      BY <1>1, <2>1, <2>3, TakeUpdateInv DEF BeginUpdate, UpdatesIInv, UpdatesTypeOK
    <2>. QED BY <2>2, <2>3
  <1>2. ASSUME NEW g \in connected, AskUpdate(g, flashing) PROVE UpdatesIInv'
    BY <1>2, UpdatesUntouched DEF AskUpdate, UpdatesIInv, UpdatesTypeOK
  <1>3. CASE AskCancel
    BY <1>3, UpdatesUntouched DEF AskCancel, UpdatesIInv, UpdatesTypeOK
  <1>4. CASE Notify
    BY <1>4, UpdatesUntouched DEF Notify, UpdatesIInv, UpdatesTypeOK
  <1>. QED BY <1>1, <1>2, <1>3, <1>4, WorkerInv DEF UpdatesNext

LEMMA UpdatesStutter ==
    ASSUME UpdatesIInv, UNCHANGED updateVars PROVE UpdatesIInv'
  BY UpdatesUntouched DEF UpdatesIInv, UpdatesTypeOK, updateVars

LEMMA UpdatesInvariant == Spec => []UpdatesIInv
  <1>1. Init => UpdatesIInv
    BY UpdatesInitInv DEF Init
  <1>2. UpdatesIInv /\ [Next]_maintenanceVars => UpdatesIInv'
    <2>. SUFFICES ASSUME UpdatesIInv, [Next]_maintenanceVars PROVE UpdatesIInv'
      OBVIOUS
    <2>1. CASE UpdatesNext(Flashing, Connected)
      BY <2>1, UpdatesStepInv DEF Connected
    <2>2. CASE UNCHANGED updateVars
      BY <2>2, UpdatesStutter
    <2>. QED BY <2>1, <2>2 DEF Next, maintenanceVars
  <1>. QED BY <1>1, <1>2, PTL DEF Spec

\* Whatever is cancelled, fails or is started meanwhile, the worker of an update
\* that met no other has the slot to itself: its update is the one shown, and it
\* counts as active until it is over or was cancelled (run_sensor_update and the
\* slot's check, src/src/firmware/sensors.rs).
THEOREM UpdatesExclusive == Spec => []WorkerOwnsSlot
  BY UpdatesInvariant, PTL DEF UpdatesIInv

\* Type correctness of the two slots, the tasks and workers, the reservation and
\* the flags (src/src/firmware/mod.rs, sensors.rs, relay.rs).
THEOREM TypeCorrect == Spec => []TypeOK
  <1>1. Init => raced \in BOOLEAN
    BY DEF Init
  <1>2. raced \in BOOLEAN /\ [Next]_maintenanceVars => (raced \in BOOLEAN)'
    BY Zenon DEF Next, maintenanceVars
  <1>3. Spec => [](raced \in BOOLEAN)
    BY <1>1, <1>2, PTL DEF Spec
  <1>4. FirmwareIInv /\ UpdatesIInv /\ raced \in BOOLEAN => TypeOK
    BY DEF FirmwareIInv, UpdatesIInv, TypeOK
  <1>. QED BY <1>3, <1>4, FirmwareInvariant, UpdatesInvariant, PTL

-------------------------------------------------------------------------------
(* The flags. *)

\* What a worker that is alone may have made of its gateway's flag: before it turns
\* the flag on and after it has put it back, the flag is what it was; in between the
\* worker knows what it was.
FlagOf(u) ==
    LET g == worker[u].gateway
    IN g \notin flagged.failed =>
          /\ worker[u].at \in {"download", "probe", "flagOn", "report", "ended"} => flag[g] = flagged.first[g]
          /\ worker[u].at \in {"flagOn", "loop", "withdraw", "probeAgain", "putBack"} =>
                worker[u].before = flagged.first[g]

\* Unless updates met: the flag of a gateway without a worker is what it was.
FlagKnown ==
    flagged.shared = {} =>
        /\ \A u \in UpdateIds : AtWork(u) => FlagOf(u)
        /\ \A g \in Gateways \ flagged.failed :
              (\A u \in UpdateIds : AtWork(u) => worker[u].gateway # g) => flag[g] = flagged.first[g]

LEMMA FlagInit == UpdatesInit => FlagKnown
  BY DEF UpdatesInit, FlagKnown, Idle, AtWork

\* A step of a worker, which is the only one when no updates met.
LEMMA FlagGoesOn ==
    ASSUME UpdatesIInv, FlagKnown, NEW u \in UpdateIds, AtWork(u), NEW g \in Gateways,
           g = worker[u].gateway, worker'[u].gateway = g, worker'[u].at # "none",
           \A v \in UpdateIds \ {u} : worker'[v] = worker[v],
           \A h \in Gateways \ {g} : flag'[h] = flag[h],
           flagged'.shared = flagged.shared, flagged'.first = flagged.first,
           flagged.failed \subseteq flagged'.failed,
           flagged.shared = {} /\ FlagOf(u) => FlagOf(u)'
    PROVE  FlagKnown'
  <1>. SUFFICES ASSUME flagged.shared = {}
                PROVE  /\ \A v \in UpdateIds : AtWork(v)' => FlagOf(v)'
                       /\ \A h \in Gateways \ flagged'.failed :
                             (\A v \in UpdateIds : AtWork(v)' => worker'[v].gateway # h) =>
                                 flag'[h] = flagged'.first[h]
    BY DEF FlagKnown
  <1>1. \A v \in UpdateIds : AtWork(v) => v = u
    BY DEF UpdatesIInv, Alone
  <1>2. \A v \in UpdateIds \ {u} : ~AtWork(v)'
    BY <1>1 DEF AtWork
  <1>3. FlagOf(u)'
    BY DEF FlagKnown
  <1>4. \A v \in UpdateIds : AtWork(v)' => FlagOf(v)'
    BY <1>2, <1>3
  <1>5. ASSUME NEW h \in Gateways \ flagged'.failed,
               \A v \in UpdateIds : AtWork(v)' => worker'[v].gateway # h
        PROVE  flag'[h] = flagged'.first[h]
    <2>1. CASE h = g
      <3>1. worker'[u].at \in {"none", "ended"}
        BY <1>5, <2>1 DEF AtWork
      <3>. QED BY <1>3, <1>5, <2>1, <3>1 DEF FlagOf
    <2>2. CASE h # g
      BY <1>1, <1>5, <2>2 DEF FlagKnown
    <2>. QED BY <2>1, <2>2
  <1>. QED BY <1>4, <1>5

\* What a worker's step leaves of the worker.
LEMMA MovedWorker ==
    ASSUME UpdatesIInv, NEW u \in UpdateIds, NEW from, NEW to \in WorkerPlaces, from # "none",
           Moves(u, from, to) \/ MovesFailed(u, from, to)
    PROVE  /\ worker'[u].at = to /\ worker'[u].gateway = worker[u].gateway
           /\ worker'[u].before = worker[u].before
           /\ \A v \in UpdateIds \ {u} : worker'[v] = worker[v]
  <1>1. worker[u].at = from
    BY DEF Moves, MovesFailed
  <1>2. worker[u] \in Workers /\ worker \in [UpdateIds -> Workers \cup {Idle}]
    BY <1>1, WorkerType DEF UpdatesIInv, UpdatesTypeOK
  <1>3. CASE Moves(u, from, to)
    BY <1>2, <1>3 DEF Moves, Workers
  <1>4. CASE MovesFailed(u, from, to)
    BY <1>2, <1>4 DEF MovesFailed, Workers
  <1>. QED BY <1>3, <1>4

\* A command failed: nothing is known of the gateway any longer.
LEMMA FailedFlag ==
    ASSUME UpdatesIInv, NEW u \in UpdateIds, worker[u].at # "none", CommandFails(u)
    PROVE  /\ flagged'.failed = flagged.failed \cup {worker[u].gateway}
           /\ flagged'.shared = flagged.shared /\ flagged'.first = flagged.first
  BY DEF CommandFails, UpdatesIInv, UpdatesTypeOK, Flagged

\* A step of a worker within its places, as FlagGoesOn needs it.
LEMMA FlagMoves ==
    ASSUME UpdatesIInv, FlagKnown, NEW u \in UpdateIds, AtWork(u), NEW from, NEW to \in WorkerPlaces,
           Moves(u, from, to) \/ MovesFailed(u, from, to),
           \/ CommandFails(u) /\ \E f \in BOOLEAN : flag' = [flag EXCEPT ![worker[u].gateway] = f]
           \/ CommandFails(u) /\ flag' = flag
           \/ /\ flagged'.shared = flagged.shared /\ flagged'.first = flagged.first
              /\ flagged'.failed = flagged.failed
              /\ flag' = flag \/ \E f \in BOOLEAN : flag' = [flag EXCEPT ![worker[u].gateway] = f]
              /\ FlagOf(u) => FlagOf(u)'
    PROVE  FlagKnown'
  <1>1. worker[u].at = from /\ from # "none"
    BY DEF Moves, MovesFailed, AtWork
  <1>2. /\ worker'[u].at = to /\ worker'[u].gateway = worker[u].gateway
        /\ \A v \in UpdateIds \ {u} : worker'[v] = worker[v]
    BY <1>1, MovedWorker
  <1>3. PICK g \in Gateways : g = worker[u].gateway
    BY <1>1, WorkerType
  <1>4. \A h \in Gateways \ {g} : flag'[h] = flag[h]
    BY <1>3 DEF UpdatesIInv, UpdatesTypeOK
  <1>5. to # "none"
    BY DEF WorkerPlaces
  <1>6. CASE CommandFails(u)
    <2>1. /\ flagged'.failed = flagged.failed \cup {g}
          /\ flagged'.shared = flagged.shared /\ flagged'.first = flagged.first
      BY <1>1, <1>3, <1>6, FailedFlag
    <2>2. FlagOf(u)'
      BY <1>2, <1>3, <2>1 DEF FlagOf
    <2>. QED BY <1>2, <1>3, <1>4, <1>5, <2>1, <2>2, FlagGoesOn
  <1>7. CASE /\ flagged'.shared = flagged.shared /\ flagged'.first = flagged.first
             /\ flagged'.failed = flagged.failed /\ (FlagOf(u) => FlagOf(u)')
    BY <1>2, <1>3, <1>4, <1>5, <1>7, FlagGoesOn
  <1>. QED BY <1>6, <1>7

LEMMA WorkerFlag ==
    ASSUME UpdatesIInv, FlagKnown, NEW u \in UpdateIds, WorkerStep(u)
    PROVE  FlagKnown'
  <1>. DEFINE g == worker[u].gateway
              Trusted(from, to) ==
                 /\ Moves(u, from, to) \/ MovesFailed(u, from, to)
                 /\ flagged'.shared = flagged.shared /\ flagged'.first = flagged.first
                 /\ flagged'.failed = flagged.failed
  <1>1. AtWork(u) /\ worker[u].at # "none" /\ g \in Gateways
    <2>1. AtWork(u)
      BY DEF WorkerStep, Fetched, Probe, FlagOn, LoopEnds, LoopCancelled, Withdraw, ProbeAgain,
             PutBack, ReportBack, Moves, MovesFailed, AtWork
    <2>. QED BY <2>1, WorkerType DEF AtWork
  <1>2. flag \in [Gateways -> BOOLEAN] /\ flagged \in Flagged
    BY DEF UpdatesIInv, UpdatesTypeOK
  <1>3. ASSUME NEW from, NEW to \in WorkerPlaces, Trusted(from, to), flag' = flag,
               to \in {"download", "probe", "flagOn", "report", "ended"} =>
                  from \in {"download", "probe", "report"}
                  \/ (g \notin flagged.failed /\ worker[u].before = flagged.first[g] => flag[g] = worker[u].before),
               to \in {"flagOn", "loop", "withdraw", "probeAgain", "putBack"} =>
                  from \in {"flagOn", "loop", "withdraw", "probeAgain", "putBack"}
        PROVE  FlagKnown'
    <2>1. /\ worker'[u].at = to /\ worker'[u].gateway = g /\ worker'[u].before = worker[u].before
          /\ worker[u].at = from
      BY <1>1, <1>3, MovedWorker DEF Moves, MovesFailed
    <2>2. from \in WorkerPlaces \ {"ended"}
      BY <1>1, <2>1, WorkerType DEF Workers, Tidying, WorkerPlaces, AtWork
    <2>3. FlagOf(u) => FlagOf(u)'
      BY <1>3, <2>1, <2>2 DEF FlagOf, WorkerPlaces
    <2>. QED BY <1>1, <1>3, <2>3, FlagMoves
  <1>4. CASE Fetched(u)
    BY <1>3, <1>4 DEF Fetched, WorkerPlaces
  <1>5. CASE Probe(u)
    <2>1. CASE MovesFailed(u, "probe", "report") /\ CommandFails(u)
      BY <1>1, <1>5, <2>1, FlagMoves DEF Probe, WorkerPlaces
    <2>2. CASE /\ worker[u].at = "probe"
               /\ worker' = [worker EXCEPT ![u].at = "flagOn", ![u].before = flag[worker[u].gateway]]
               /\ UNCHANGED <<flag, flagged>>
      <3>1. worker[u] \in Workers /\ worker \in [UpdateIds -> Workers \cup {Idle}]
        BY <1>1, WorkerType DEF UpdatesIInv, UpdatesTypeOK
      <3>2. /\ worker'[u].at = "flagOn" /\ worker'[u].gateway = g /\ worker'[u].before = flag[g]
            /\ \A v \in UpdateIds \ {u} : worker'[v] = worker[v]
        BY <2>2, <3>1 DEF Workers
      <3>3. FlagOf(u) => FlagOf(u)'
        BY <2>2, <3>2 DEF FlagOf
      <3>. QED BY <1>1, <2>2, <3>2, <3>3, FlagGoesOn
    <2>. QED BY <1>5, <2>1, <2>2 DEF Probe
  <1>6. CASE FlagOn(u)
    <2>1. CASE /\ Moves(u, "flagOn", "loop") /\ flag' = [flag EXCEPT ![g] = TRUE]
               /\ UNCHANGED flagged
      <3>1. /\ worker'[u].at = "loop" /\ worker'[u].gateway = g /\ worker'[u].before = worker[u].before
            /\ worker[u].at = "flagOn"
        BY <2>1, MovedWorker DEF WorkerPlaces, Moves
      <3>2. FlagOf(u) => FlagOf(u)'
        BY <2>1, <3>1 DEF FlagOf
      <3>. QED BY <1>1, <2>1, <3>2, FlagMoves DEF WorkerPlaces
    <2>2. CASE MovesFailed(u, "flagOn", "withdraw") /\ CommandFails(u)
      <3>1. \E f \in BOOLEAN : flag' = [flag EXCEPT ![g] = f]
        BY <1>1, <1>2, <1>6, <2>2 DEF FlagOn
      <3>. QED BY <1>1, <2>2, <3>1, FlagMoves DEF WorkerPlaces
    <2>. QED BY <1>6, <2>1, <2>2 DEF FlagOn
  <1>7. CASE LoopEnds(u)
    BY <1>3, <1>7 DEF LoopEnds, WorkerPlaces
  <1>8. CASE LoopCancelled(u)
    <2>1. /\ flagged'.shared = flagged.shared /\ flagged'.first = flagged.first
          /\ flagged'.failed = flagged.failed
      BY <1>2, <1>8 DEF LoopCancelled, Flagged
    <2>. QED BY <1>3, <1>8, <2>1 DEF LoopCancelled, WorkerPlaces
  <1>9. CASE Withdraw(u)
    BY <1>3, <1>9 DEF Withdraw, WorkerPlaces
  <1>10. CASE ProbeAgain(u)
    <2>1. CASE Moves(u, "probeAgain", "report") /\ CommandFails(u)
      BY <1>1, <1>10, <2>1, FlagMoves DEF ProbeAgain, WorkerPlaces
    <2>2. CASE flag[g] = Restored(u) /\ Moves(u, "probeAgain", "report") /\ UNCHANGED flagged
      BY <1>3, <1>10, <2>2 DEF ProbeAgain, WorkerPlaces, Restored
    <2>3. CASE flag[g] # Restored(u) /\ Moves(u, "probeAgain", "putBack") /\ UNCHANGED flagged
      BY <1>3, <1>10, <2>3 DEF ProbeAgain, WorkerPlaces
    <2>. QED BY <1>10, <2>1, <2>2, <2>3 DEF ProbeAgain
  <1>11. CASE PutBack(u)
    <2>1. CASE flag' = [flag EXCEPT ![g] = Restored(u)] /\ UNCHANGED flagged
      <3>1. /\ worker'[u].at = "report" /\ worker'[u].gateway = g /\ worker'[u].before = worker[u].before
            /\ worker[u].at = "putBack" /\ Moves(u, "putBack", "report")
        BY <1>11, MovedWorker DEF PutBack, WorkerPlaces, Moves
      <3>2. FlagOf(u) => FlagOf(u)'
        BY <1>1, <1>2, <2>1, <3>1 DEF FlagOf, Restored
      <3>3. Restored(u) \in BOOLEAN
        BY <1>1, FlagRead
      <3>. QED BY <1>1, <2>1, <3>1, <3>2, <3>3, FlagMoves DEF WorkerPlaces
    <2>2. CASE CommandFails(u)
      <3>1. \E f \in BOOLEAN : flag' = [flag EXCEPT ![g] = f]
        <4>1. flag[g] \in BOOLEAN /\ Restored(u) \in BOOLEAN
          BY <1>1, FlagRead
        <4>. QED BY <1>11, <2>1, <4>1 DEF PutBack
      <3>. QED BY <1>1, <1>11, <2>2, <3>1, FlagMoves DEF PutBack, WorkerPlaces
    <2>. QED BY <1>11, <2>1, <2>2 DEF PutBack
  <1>12. CASE ReportBack(u)
    BY <1>3, <1>12 DEF ReportBack, WorkerPlaces
  <1>. QED BY <1>4, <1>5, <1>6, <1>7, <1>8, <1>9, <1>10, <1>11, <1>12 DEF WorkerStep

LEMMA TakeUpdateFlag ==
    ASSUME UpdatesIInv, FlagKnown, NEW g \in Gateways, ~UpdateActive, TakeUpdate(g), flag' = flag
    PROVE  FlagKnown'
  <1>. DEFINE met == {u \in UpdateIds : AtWork(u)} \cap (flagged.cut \cup flagged.shared)
              w == [at |-> "download", gateway |-> g, before |-> FALSE, ok |-> TRUE]
  <1>1. PICK id \in UpdateIds : id = offered + 1
    BY UpdatesAssumption DEF UpdatesIInv, UpdatesTypeOK, TakeUpdate, UpdateIds
  <1>2. worker'[id] = w /\ \A v \in UpdateIds \ {id} : worker'[v] = worker[v]
    <2>1. worker' = [worker EXCEPT ![id] = w]
      BY <1>1 DEF TakeUpdate
    <2>. HIDE DEF w
    <2>. QED BY <2>1 DEF UpdatesIInv, UpdatesTypeOK
  <1>3. /\ flagged'.first = flagged.first /\ flagged'.failed = flagged.failed
        /\ flagged'.shared = IF met = {} THEN flagged.shared ELSE flagged.shared \cup met \cup {id}
    BY <1>1 DEF TakeUpdate, UpdatesIInv, UpdatesTypeOK, Flagged
  <1>. SUFFICES ASSUME flagged'.shared = {}
                PROVE  /\ \A v \in UpdateIds : AtWork(v)' => FlagOf(v)'
                       /\ \A h \in Gateways \ flagged'.failed :
                             (\A v \in UpdateIds : AtWork(v)' => worker'[v].gateway # h) =>
                                 flag'[h] = flagged'.first[h]
    BY DEF FlagKnown
  <1>4. flagged.shared = {} /\ met = {}
    BY <1>3
  <1>5. \A v \in UpdateIds : ~AtWork(v)
    BY <1>4 DEF UpdatesIInv, WorkerOwnsSlot
  <1>6. \A h \in Gateways \ flagged.failed : flag[h] = flagged.first[h]
    BY <1>4, <1>5 DEF FlagKnown
  <1>7. \A v \in UpdateIds : AtWork(v)' => v = id
    BY <1>2, <1>5 DEF AtWork
  <1>8. FlagOf(id)'
    BY <1>2, <1>3, <1>6 DEF FlagOf
  <1>. QED BY <1>3, <1>6, <1>7, <1>8

LEMMA FlagStep ==
    ASSUME UpdatesIInv, FlagKnown, NEW flashing, NEW connected \in SUBSET Gateways,
           UpdatesNext(flashing, connected)
    PROVE  FlagKnown'
  <1>1. ASSUME UNCHANGED <<worker, flag, flagged>> PROVE FlagKnown'
    BY <1>1 DEF FlagKnown, FlagOf, AtWork
  <1>2. ASSUME NEW g \in wanted, BeginUpdate(g) PROVE FlagKnown'
    <2>1. g \in Gateways
      BY DEF UpdatesIInv, UpdatesTypeOK
    <2>2. CASE UpdateActive
      BY <1>1, <1>2, <2>2 DEF BeginUpdate
    <2>3. CASE ~UpdateActive
      BY <1>2, <2>1, <2>3, TakeUpdateFlag DEF BeginUpdate
    <2>. QED BY <2>2, <2>3
  <1>3. ASSUME NEW g \in connected, AskUpdate(g, flashing) PROVE FlagKnown'
    BY <1>1, <1>3 DEF AskUpdate
  <1>4. CASE AskCancel \/ Notify
    BY <1>1, <1>4 DEF AskCancel, Notify
  <1>. QED BY <1>2, <1>3, <1>4, WorkerFlag DEF UpdatesNext

\* Whatever fails, is cancelled or started meanwhile: once no worker is at work, the
\* update flag of a gateway is what it was before any update, unless a command to
\* it failed or updates met (run_sensor_update, src/src/firmware/sensors.rs).
THEOREM FlagsRestored == Spec => []FlagPutBack
  <1>1. Init => FlagKnown
    BY FlagInit DEF Init
  <1>2. UpdatesIInv /\ FlagKnown /\ [Next]_maintenanceVars => FlagKnown'
    <2>. SUFFICES ASSUME UpdatesIInv, FlagKnown, [Next]_maintenanceVars PROVE FlagKnown'
      OBVIOUS
    <2>1. CASE UpdatesNext(Flashing, Connected)
      BY <2>1, FlagStep DEF Connected
    <2>2. CASE UNCHANGED updateVars
      BY <2>2 DEF updateVars, FlagKnown, FlagOf, AtWork
    <2>. QED BY <2>1, <2>2 DEF Next, maintenanceVars
  <1>3. FlagKnown => FlagPutBack
    BY DEF FlagKnown, FlagPutBack
  <1>. QED BY <1>1, <1>2, <1>3, UpdatesInvariant, PTL DEF Spec

(* Jobs and updates together. *)

\* What makes NotBoth inductive: a request past its check counts, too.
Excused == raced \/ flagged.shared # {}

Apart ==
    /\ JobActive /\ UpdateActive => Excused
    /\ asking # {} /\ UpdateActive => Excused
    /\ wanted # {} /\ JobActive => Excused
    /\ asking # {} /\ wanted # {} => raced

\* A job becomes active by a request past its check, a request passes it only
\* while no update runs.
LEMMA JobStarts ==
    ASSUME FirmwareIInv, NEW updating, FirmwareNext(updating)
    PROVE  (JobActive' => JobActive \/ asking # {}) /\ (asking' # {} => asking # {} \/ ~updating)
  <1>1. ASSUME NEW j \in Ids, TaskStep(j) PROVE JobActive /\ asking' = asking
    <2>1. task[j] \in Working
      BY <1>1, WorkingPlaces DEF TaskStep, Downloaded, Held, BackUp, TakeRelease, Lookup, Write,
         Replugged, ReplugTimesOut, Uploading, Uploaded, Restarted, Fails, Goes
    <2>2. JobActive
      BY <2>1, WorkingOwns, WorkingPlaces, WorkingSteps DEF JobActive, Active
    <2>. QED BY <1>1, <2>2 DEF TaskStep, Downloaded, Held, BackUp, TakeRelease, Lookup, Write,
         Replugged, ReplugTimesOut, Uploading, Uploaded, Restarted, Fails
  <1>2. CASE Confirm \/ Cancel
    BY <1>2 DEF Confirm, Cancel, InReview, JobActive, Active
  <1>3. CASE \E r \in asking : Begin(r)
    BY <1>3
  <1>4. CASE \E d \in Dongles, n \in Nodes : Plug(d, n)
    BY <1>4 DEF Plug, jobVars, JobActive
  <1>5. CASE \E n \in Nodes : Unplug(n) \/ Attach(n)
    BY <1>5 DEF Unplug, Attach, jobVars, JobActive
  <1>6. CASE \E d \in Dongles : Detach(d)
    BY <1>6 DEF Detach, jobVars, JobActive
  <1>7. CASE \E kind \in Kinds, d \in Targets : Ask(kind, d, updating)
    BY <1>7 DEF Ask, JobActive
  <1>8. CASE \E j \in Ids : CancelDrops(j)
    BY <1>8 DEF CancelDrops, JobActive
  <1>. QED BY <1>1, <1>2, <1>3, <1>4, <1>5, <1>6, <1>7, <1>8 DEF FirmwareNext

LEMMA UpdateStarts ==
    ASSUME UpdatesIInv, NEW flashing, NEW connected, UpdatesNext(flashing, connected)
    PROVE  /\ UpdateActive' => UpdateActive \/ wanted # {} \/ flagged.shared # {}
           /\ wanted' # {} => wanted # {} \/ ~flashing
           /\ flagged.shared \subseteq flagged'.shared
  <1>1. ASSUME NEW u \in UpdateIds, WorkerStep(u)
        PROVE  /\ UpdateActive' => UpdateActive \/ flagged.shared # {}
               /\ wanted' = wanted /\ flagged'.shared = flagged.shared
    <2>1. wanted' = wanted
      BY <1>1 DEF WorkerStep, Fetched, Probe, FlagOn, LoopEnds, LoopCancelled, Withdraw,
         ProbeAgain, PutBack, ReportBack
    <2>2. flagged'.shared = flagged.shared
      BY <1>1 DEF WorkerStep, Fetched, Probe, FlagOn, LoopEnds, LoopCancelled, Withdraw,
         ProbeAgain, PutBack, ReportBack, CommandFails, UpdatesIInv, UpdatesTypeOK, Flagged
    <2>3. AtWork(u) /\ update \in Updates
      <3>1. AtWork(u)
        BY <1>1 DEF WorkerStep, Fetched, Probe, FlagOn, LoopEnds, LoopCancelled, Withdraw,
           ProbeAgain, PutBack, ReportBack, AtWork, Moves, MovesFailed
      <3>. QED BY <3>1, WorkerType DEF AtWork
    <2>4. CASE update' = update
      BY <2>1, <2>2, <2>4 DEF UpdateActive
    <2>5. CASE \E s \in {"cancelled", "failed", "done"} : ShowStep(s)
      BY <2>1, <2>2, <2>3, <2>5, ShowStepType DEF UpdateActive
    <2>6. CASE worker[u].at = "flagOn"
      <3>1. u \in flagged.shared \/ UpdateActive
        BY <2>3, <2>6 DEF UpdatesIInv, WorkerOwnsSlot, CutTidies, Tidying
      <3>. QED BY <2>1, <2>2, <3>1
    <2>7. \/ update' = update
          \/ \E s \in {"cancelled", "failed", "done"} : ShowStep(s)
          \/ worker[u].at = "flagOn"
      BY <1>1 DEF WorkerStep, Fetched, Probe, FlagOn, LoopEnds, LoopCancelled, Withdraw,
         ProbeAgain, PutBack, ReportBack, Moves, MovesFailed
    <2>. QED BY <2>4, <2>5, <2>6, <2>7
  <1>2. ASSUME NEW g \in wanted, BeginUpdate(g)
        PROVE  wanted # {} /\ flagged.shared \subseteq flagged'.shared
    BY <1>2 DEF BeginUpdate, TakeUpdate, UpdatesIInv, UpdatesTypeOK, Flagged
  <1>3. CASE \E g \in connected : AskUpdate(g, flashing)
    BY <1>3 DEF AskUpdate, UpdateActive
  <1>4. CASE AskCancel \/ Notify
    BY <1>4 DEF AskCancel, Notify, UpdateActive
  <1>. QED BY <1>1, <1>2, <1>3, <1>4 DEF UpdatesNext

LEMMA ApartStep ==
    ASSUME FirmwareIInv, UpdatesIInv, Apart, [Next]_maintenanceVars
    PROVE  Apart'
  <1>1. CASE /\ FirmwareNext(Updating) /\ UNCHANGED updateVars
             /\ raced' = (raced \/ (asking' # {} /\ wanted' # {}))
    <2>1. (JobActive' => JobActive \/ asking # {}) /\ (asking' # {} => asking # {} \/ ~UpdateActive)
      BY <1>1, JobStarts DEF Updating
    <2>. QED BY <1>1, <2>1 DEF Apart, Excused, updateVars, UpdateActive
  <1>2. CASE /\ UpdatesNext(Flashing, Connected) /\ UNCHANGED firmwareVars
             /\ raced' = (raced \/ (asking' # {} /\ wanted' # {}))
    <2>1. /\ UpdateActive' => UpdateActive \/ wanted # {} \/ flagged.shared # {}
          /\ wanted' # {} => wanted # {} \/ ~JobActive
          /\ flagged.shared \subseteq flagged'.shared
      BY <1>2, UpdateStarts DEF Flashing
    <2>2. JobActive' = JobActive /\ asking' = asking
      BY <1>2 DEF firmwareVars, jobVars, JobActive
    <2>. QED BY <1>2, <2>1, <2>2 DEF Apart, Excused
  <1>3. CASE UNCHANGED maintenanceVars
    BY <1>3 DEF maintenanceVars, firmwareVars, jobVars, updateVars, Apart, Excused, JobActive,
       UpdateActive
  <1>. QED BY <1>1, <1>2, <1>3 DEF Next

\* A firmware job and a sensor update never run together, unless their requests
\* passed their checks at the same moment or an update met the worker of a
\* cancelled one (Firmware::begin, start_sensor_update: the two slots' checks).
THEOREM JobsAndUpdatesApart == Spec => []NotBoth
  <1>. DEFINE IInv == FirmwareIInv /\ UpdatesIInv /\ Apart
  <1>1. Init => IInv
    <2>1. Init => ~JobActive /\ asking = {} /\ wanted = {}
      BY DEF Init, FirmwareInit, UpdatesInit, JobActive, NoJob, Active
    <2>. QED BY <2>1, FirmwareInitInv, UpdatesInitInv DEF Init, Apart
  <1>2. IInv /\ [Next]_maintenanceVars => IInv'
    <2>1. ASSUME FirmwareIInv, UpdatesIInv, Apart, [Next]_maintenanceVars PROVE Apart'
      BY <2>1, ApartStep
    <2>2. ASSUME FirmwareIInv, [Next]_maintenanceVars PROVE FirmwareIInv'
      BY <2>2, FirmwareStepInv, FirmwareStutters DEF Next, maintenanceVars
    <2>3. ASSUME UpdatesIInv, [Next]_maintenanceVars PROVE UpdatesIInv'
      BY <2>3, UpdatesStepInv, UpdatesStutter DEF Next, maintenanceVars, Connected
    <2>. QED BY <2>1, <2>2, <2>3
  <1>3. IInv => NotBoth
    BY DEF Apart, Excused, NotBoth
  <1>. QED BY <1>1, <1>2, <1>3, PTL DEF Spec
===============================================================================
