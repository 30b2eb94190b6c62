----------------------------- MODULE SensorRegistry -----------------------------
(***************************************************************************)
(* The sensors the daemon knows (src/src/protocol/sensor.rs,               *)
(* SensorManager) and the two files that keep them: state.yaml, written by *)
(* the daemon alone, and sensors.yaml, which its user edits as well        *)
(* (src/src/config/sensors.rs, state.rs).  Every operation holds the       *)
(* manager's lock to its end, but saves its files one after the other, and *)
(* a save may fail or the daemon stop before it.                           *)
(* One dongle stands for all: what it has paired is what reports.          *)
(***************************************************************************)
EXTENDS Naturals, Sequences, FiniteSets, SequencesExt

CONSTANTS
    Sensors,      \* the sensors' MACs
    Nobody,       \* no sensor
    Names,        \* names a user gives
    Lookalikes,   \* those of them that look generated ("Wyze Sense ...")
    EventCap,     \* capacity of the event channel
    MaxUpsets     \* bound: connections, renames, edits, deletes, restarts, failures

ASSUME RegistryAssumption ==
    /\ IsFiniteSet(Sensors) /\ Nobody \notin Sensors
    /\ Lookalikes \subseteq Names
    /\ Names \cap {"none", "stub", "auto"} = {}
    /\ EventCap \in Nat \ {0} /\ MaxUpsets \in Nat

VARIABLES
    kind,      \* kind[m]: whether the manager knows sensor m, and its type
    name,      \* name[m]: friendly_name
    state,     \* state.yaml: what it says of kind[m]
    file,      \* sensors.yaml: the name it gives m
    readable,  \* sensors.yaml can be parsed
    op,        \* the operation that holds the lock: the files it has yet to save
    deleting,  \* the delete request under way
    paired,    \* sensors in the dongle's memory
    link,      \* the dongle: away, or connected; seen: it was, since the start
    events,    \* the event channel
    spent,     \* upsets so far
    given,     \* history: the name the user gave m last
    kept,      \* history: what the daemon was told of m, and recorded
    gone,      \* history: sensors whose delete request was answered
    causes     \* history: what went wrong for a sensor (Causes)

memoryVars == <<kind, name>>
diskVars == <<state, file, readable>>
dongleVars == <<paired, link, events>>
historyVars == <<given, kept, gone, causes>>
vars == <<memoryVars, diskVars, op, deleting, dongleVars, spent, historyVars>>

Kinds == {"absent", "untyped", "typed"}
\* A name the daemon made up: without the type ("Wyze Sense ...", "Wyze UNKNOWN
\* ..."), or with it ("Wyze CONTACT ...").
Labels == Names \cup {"stub", "auto"}
Files == [Sensors -> Labels \cup {"none"}]
Empty == [m \in Sensors |-> "none"]
Known == {m \in Sensors : kind[m] # "absent"}
Free == [todo |-> <<>>, what |-> "none", mac |-> Nobody, file |-> Empty]
Idle == op = Free

\* An unparsable sensors.yaml written over; an edit made during a save; a name
\* in the file that was not read yet; a save that failed (until one succeeds),
\* and a re-read before it did; a report of a deleted sensor still queued; a
\* deleted sensor the dongle still has.
Causes == {"broken", "overwritten", "unread", "unsaved", "lost", "late", "paired"}

TypeOK ==
    /\ kind \in [Sensors -> Kinds]
    /\ name \in Files
    /\ state \in [Sensors -> Kinds]
    /\ file \in Files
    /\ readable \in BOOLEAN
    /\ op \in [todo : Seq({"config", "state"}), what : {"none", "new", "known", "load", "rename", "delete"},
               mac : Sensors \cup {Nobody}, file : Files]
    /\ deleting \in [mac : Sensors \cup {Nobody}, at : {"none", "unpair", "erase", "erasing"}]
    /\ paired \in SUBSET Sensors
    /\ link \in [up : BOOLEAN, seen : BOOLEAN]
    /\ events \in Seq([mac : Sensors, typed : BOOLEAN])
    /\ spent \in Nat
    /\ given \in [Sensors -> Names \cup {"none"}]
    /\ kept \in [Sensors -> Kinds]
    /\ gone \in SUBSET Sensors
    /\ causes \in [Sensors -> SUBSET Causes]

NoDelete == [mac |-> Nobody, at |-> "none"]

\* A new daemon, with a dongle that may have sensors, one of them known from an
\* earlier run.
Init ==
    /\ state \in [Sensors -> {"absent", "typed"}]
    /\ paired = {m \in Sensors : state[m] = "typed"}
    /\ file = [m \in Sensors |-> IF m \in paired THEN "auto" ELSE "none"]
    /\ kind = state /\ name = file /\ readable = TRUE
    /\ op = Free /\ deleting = NoDelete
    /\ link = [up |-> FALSE, seen |-> FALSE] /\ events = <<>>
    /\ spent = 0
    /\ given = [m \in Sensors |-> "none"]
    /\ kept = state /\ gone = {} /\ causes = [m \in Sensors |-> {}]

Spend == spent < MaxUpsets /\ spent' = spent + 1
Blame(S, c) == causes' = [m \in Sensors |-> causes[m] \cup (IF m \in S THEN {c} ELSE {})]
Unread(S) == IF readable THEN {} ELSE S
\* What is known of the sensors in S is read from the files.
Reread(S) ==
    causes' = [m \in Sensors |->
        IF m \notin S THEN causes[m]
        ELSE (causes[m] \ {"unread"})
                \cup (IF "unsaved" \in causes[m] THEN {"lost"} ELSE {})
                \cup (IF readable THEN {} ELSE {"unread"})]
Begin(what, m, todo, f) == op' = [todo |-> todo, what |-> what, mac |-> m, file |-> f]

\* load_from_yaml(..).unwrap_or_else: an unreadable file is taken for empty.
Loaded == IF readable THEN file ELSE Empty

-------------------------------------------------------------------------------
(* The dongle. *)

\* A sensor is paired (the event of a successful pairing carries its type).
Pair(m) ==
    /\ link.up /\ m \notin paired
    /\ Spend
    /\ Len(events) < EventCap
    /\ paired' = paired \cup {m}
    /\ events' = Append(events, [mac |-> m, typed |-> TRUE])
    /\ gone' = gone \ {m}
    /\ UNCHANGED <<memoryVars, diskVars, op, deleting, link, given, kept, causes>>

\* A paired sensor reports; some packets do not tell its type.
Report(m, typed) ==
    /\ link.up /\ m \in paired
    /\ Len(events) < EventCap
    /\ events' = Append(events, [mac |-> m, typed |-> typed])
    /\ UNCHANGED <<memoryVars, diskVars, op, deleting, paired, link, spent, historyVars>>

Disconnect ==
    /\ link.up
    /\ link' = [link EXCEPT !.up = FALSE]
    /\ UNCHANGED <<memoryVars, diskVars, op, deleting, paired, events, spent, historyVars>>

\* The event that announces each listed sensor, as far as there is room.
Announce ==
    \E q \in SetToSeqs(paired) :
        LET all == events \o [i \in DOMAIN q |-> [mac |-> q[i], typed |-> kind'[q[i]] = "typed"]]
        IN events' = SubSeq(all, 1, IF Len(all) < EventCap THEN Len(all) ELSE EventCap)

\* A bridge's list: assign_dongle, which neither reads nor saves a file.
ConnectBridge ==
    /\ Idle /\ ~link.up
    /\ Spend
    /\ link' = [link EXCEPT !.up = TRUE]
    /\ kind' = [m \in Sensors |-> IF m \in paired \ Known THEN "untyped" ELSE kind[m]]
    /\ name' = [m \in Sensors |-> IF m \in paired \ Known THEN "stub" ELSE name[m]]
    /\ Blame(paired \ Known, "unread")
    /\ Announce
    /\ UNCHANGED <<diskVars, op, deleting, paired, given, kept, gone>>

\* A local dongle's list: load_sensors reads the files again, for every listed
\* sensor the first time and for the unknown ones later.
Read(typeOf) ==
    LET read == IF link.seen THEN paired \ Known ELSE paired
        full == [m \in Sensors |-> IF m \in read /\ Loaded[m] = "none" THEN "stub" ELSE Loaded[m]]
    IN /\ Idle /\ ~link.up
       /\ Spend
       /\ link' = [up |-> TRUE, seen |-> TRUE]
       /\ kind' = [m \in Sensors |-> IF m \in read THEN typeOf[m] ELSE kind[m]]
       /\ name' = [m \in Sensors |-> IF m \in read THEN full[m] ELSE name[m]]
       /\ IF read = {} THEN UNCHANGED op
             ELSE Begin("load", Nobody, IF full = Loaded THEN <<"state">> ELSE <<"config", "state">>, full)
       /\ Reread(read)
       /\ Announce
       /\ UNCHANGED <<diskVars, deleting, paired, given, kept, gone>>

Persisted == [m \in Sensors |-> IF state[m] = "absent" THEN "untyped" ELSE state[m]]

\* Mutation of ConnectLocal: the type is asked of sensors.yaml, where it no
\* longer is.
ConnectUntyped == Read([m \in Sensors |-> "untyped"])

ConnectLocal == Read(Persisted)

-------------------------------------------------------------------------------
(* dispatch_event. *)

Registers(e) == \/ kind[e.mac] = "absent"
                \/ kind[e.mac] = "untyped" /\ e.typed

\* Mutation of NewName: a registration always makes up a name.
NewNameAlways(m, typed) == IF typed THEN "auto" ELSE "stub"

\* The name of a sensor that is registered: the user's, if he gave one.
NewName(m, typed) ==
    IF Loaded[m] \notin {"none", "stub"} \cup Lookalikes THEN Loaded[m]
    ELSE IF typed THEN "auto" ELSE "stub"

\* A report registers its sensor if it is new or gets its type
\* (register_and_persist_sensor), and saves the state.
Dispatch ==
    /\ Idle /\ events # <<>>
    /\ LET e == Head(events)
           m == e.mac
           n == NewName(m, e.typed)
       IN IF Registers(e)
             THEN /\ kind' = [kind EXCEPT ![m] = IF e.typed THEN "typed" ELSE "untyped"]
                  /\ name' = [name EXCEPT ![m] = n]
                  /\ Begin(IF m \in Known THEN "known" ELSE "new", m, <<"config", "state">>,
                           [Loaded EXCEPT ![m] = n])
                  /\ Blame(Unread({m}), "unread")
             ELSE Begin("known", m, <<"state">>, Empty) /\ UNCHANGED <<memoryVars, causes>>
    /\ events' = Tail(events)
    /\ UNCHANGED <<diskVars, deleting, paired, link, spent, given, kept, gone>>

-------------------------------------------------------------------------------
(* The saves an operation still has to do, one at a time. *)

Saving(what) == ~Idle /\ op.todo # <<>> /\ Head(op.todo) = what
Saved == op' = [op EXCEPT !.todo = Tail(@)]

\* save_to_yaml_atomic: sensors.yaml is as it was read, with the change.
SaveConfig ==
    /\ Saving("config")
    /\ file' = op.file /\ readable' = TRUE
    /\ given' = IF op.what = "rename" THEN [given EXCEPT ![op.mac] = op.file[op.mac]] ELSE given
    /\ causes' = [m \in Sensors |-> causes[m] \cup
                     (IF given'[m] # "none" /\ ~readable THEN {"broken"} ELSE {})]
    /\ Saved
    /\ UNCHANGED <<memoryVars, state, deleting, dongleVars, spent, kept, gone>>

\* save_state_to_disk.
SaveState ==
    /\ Saving("state")
    /\ state' = kind
    /\ causes' = [m \in Sensors |-> causes[m] \ {"unsaved"}]
    /\ Saved
    /\ UNCHANGED <<memoryVars, file, readable, deleting, dongleVars, spent, given, kept, gone>>

\* A save fails: the operation returns there, but a report whose sensor was
\* known goes on to save the state.
SaveFails ==
    /\ ~Idle /\ op.todo # <<>>
    /\ Spend
    /\ op' = [op EXCEPT !.todo = IF op.what = "known" THEN Tail(@) ELSE <<>>]
    /\ Blame({m \in Sensors : state[m] # kind[m]}, "unsaved")
    /\ UNCHANGED <<memoryVars, diskVars, deleting, dongleVars, given, kept, gone>>

\* The operation is over; a delete request is answered with success whatever
\* became of the saves.
Finish ==
    /\ ~Idle /\ op.todo = <<>>
    /\ op' = Free
    /\ kept' = IF op.what \in {"new", "known"} THEN [kept EXCEPT ![op.mac] = kind[op.mac]] ELSE kept
    /\ IF op.what = "delete"
          THEN /\ deleting' = NoDelete
               /\ gone' = gone \cup {op.mac}
               /\ Blame({op.mac} \cap paired, "paired")
          ELSE UNCHANGED <<deleting, gone, causes>>
    /\ UNCHANGED <<memoryVars, diskVars, dongleVars, spent, given>>

-------------------------------------------------------------------------------
(* What the user asks for. *)

\* rename_sensor: the memory first; an unreadable file is an error then.
Rename(m, n) ==
    /\ Idle /\ m \in Known
    /\ Spend
    /\ name' = [name EXCEPT ![m] = n]
    /\ given' = [given EXCEPT ![m] = "none"]
    /\ IF readable THEN Begin("rename", m, <<"config">>, [file EXCEPT ![m] = n]) ELSE UNCHANGED op
    /\ UNCHANGED <<kind, diskVars, deleting, dongleVars, kept, gone, causes>>

Delete(m) ==
    /\ deleting = NoDelete
    /\ Spend
    /\ deleting' = [mac |-> m, at |-> "unpair"]
    /\ UNCHANGED <<memoryVars, diskVars, op, dongleVars, historyVars>>

\* delete_sensor on the connected dongle, whose failure is ignored.
Unpair(ok) ==
    /\ deleting.at = "unpair"
    /\ ok => link.up
    /\ paired' = IF ok THEN paired \ {deleting.mac} ELSE paired
    /\ deleting' = [deleting EXCEPT !.at = "erase"]
    /\ UNCHANGED <<memoryVars, diskVars, op, link, events, spent, historyVars>>

Removal(cleared) ==
    LET m == deleting.mac
    IN /\ deleting.at = "erase" /\ Idle
       /\ kind' = [kind EXCEPT ![m] = "absent"]
       /\ name' = [name EXCEPT ![m] = "none"]
       /\ given' = [given EXCEPT ![m] = "none"]
       /\ kept' = [kept EXCEPT ![m] = "absent"]
       /\ Begin("delete", m, IF readable /\ file[m] # "none" THEN <<"config">> \o cleared ELSE cleared,
                [file EXCEPT ![m] = "none"])
       /\ deleting' = [deleting EXCEPT !.at = "erasing"]
       /\ Blame({n \in {m} : \E i \in DOMAIN events : events[i].mac = m}, "late")
       /\ UNCHANGED <<diskVars, dongleVars, spent, gone>>

\* Mutation of Erase: state.yaml is left for the next report to save.
EraseUnsaved == Removal(<<>>)

\* delete_and_persist_sensor.
Erase == Removal(<<"state">>)

\* The user edits sensors.yaml: a name, or so that it cannot be parsed, or back.
Edit(m, n) ==
    /\ readable
    /\ Spend
    /\ file' = [file EXCEPT ![m] = n]
    /\ given' = [given EXCEPT ![m] = n]
    /\ causes' = [causes EXCEPT ![m] = @ \cup {"unread"} \cup (IF Idle THEN {} ELSE {"overwritten"})]
    /\ UNCHANGED <<memoryVars, state, readable, op, deleting, dongleVars, kept, gone>>

Garble ==
    /\ Spend
    /\ readable' = ~readable
    /\ Blame(IF Idle THEN {} ELSE Sensors, "overwritten")
    /\ UNCHANGED <<memoryVars, state, file, op, deleting, dongleVars, given, kept, gone>>

ListedNames == [m \in Sensors |-> IF m \in Known /\ file[m] # "none" THEN file[m] ELSE name[m]]

\* reload_config, on the MQTT reload command.
Reload ==
    /\ Idle /\ readable
    /\ name' = ListedNames
    /\ causes' = [m \in Sensors |-> causes[m] \ {"unread"}]
    /\ UNCHANGED <<kind, diskVars, op, deleting, dongleVars, spent, given, kept, gone>>

\* The daemon stops at any point and starts anew: load_all_from_state.
Restart ==
    /\ Spend
    /\ kind' = state
    /\ name' = [m \in Sensors |-> IF state[m] = "absent" THEN "none"
                                  ELSE IF Loaded[m] = "none" THEN "stub" ELSE Loaded[m]]
    /\ op' = Free /\ deleting' = NoDelete
    /\ link' = [up |-> FALSE, seen |-> FALSE]
    /\ events' = <<>>
    /\ Reread(Sensors)
    /\ UNCHANGED <<diskVars, paired, given, kept, gone>>

-------------------------------------------------------------------------------
Next ==
    \/ \E m \in Sensors : Pair(m)
    \/ \E m \in Sensors, typed \in BOOLEAN : Report(m, typed)
    \/ Disconnect
    \/ ConnectBridge
    \/ ConnectLocal
    \/ Dispatch
    \/ SaveConfig
    \/ SaveState
    \/ SaveFails
    \/ Finish
    \/ \E m \in Sensors, n \in Names : Rename(m, n)
    \/ \E m \in Sensors : Delete(m)
    \/ \E ok \in BOOLEAN : Unpair(ok)
    \/ Erase
    \/ \E m \in Sensors, n \in Names : Edit(m, n)
    \/ Garble
    \/ Reload
    \/ Restart

Spec == Init /\ [][Next]_vars

-------------------------------------------------------------------------------
(* Properties. *)

\* A name the user gave, and was not refused, stays in sensors.yaml through
\* registrations, other renames, deletes and restarts: unless it looks
\* generated, an unparsable file was written over, or he gave it during a save.
NameKept ==
    Idle => \A m \in Sensors :
        \/ given[m] \in {"none", file[m]} \cup Lookalikes
        \/ causes[m] \cap {"broken", "overwritten"} # {}

\* A sensor goes by the name the user gave it, except for an edit until it is
\* read, and a name read from an unparsable file.
NameShown ==
    Idle => \A m \in Known :
        \/ given[m] \in {"none", name[m]} \cup Lookalikes
        \/ causes[m] \cap {"broken", "overwritten", "unread"} # {}

\* The user's names are right, on disk and in memory.
NamesTrue == NameKept /\ NameShown

\* What a report told of a sensor is not forgotten, whatever stops or connects:
\* unless a save failed and the files were read before one succeeded.
ReportedKept ==
    \A m \in Sensors :
        \/ kept[m] = "typed" => kind[m] = "typed"
        \/ "lost" \in causes[m]

\* A deleted sensor does not come back by itself: unless a save failed before a
\* restart, a report of it was queued, or a dongle still has it.
DeletedStaysGone ==
    \A m \in gone : kind[m] = "absent" \/ causes[m] \cap {"lost", "late", "paired"} # {}
===============================================================================
