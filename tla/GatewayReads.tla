----------------------------- MODULE GatewayReads -----------------------------
(* What the host reads out of a gateway, and changes in it: the handshake, the *)
(* streamed sensor list, the sensor table read entry by entry, the build      *)
(* information read page by page, one entry added or deleted.  Several tasks   *)
(* hold clones of one engine: its command lock serialises their commands, and  *)
(* nothing serialises their calls.  A reply is recognised by its key alone, so *)
(* one that is late or re-sent can answer a later command of the same key.     *)
(* The gateway is the one src/ emulates.                                       *)
EXTENDS Naturals, FiniteSets, Sequences, SequencesExt

CONSTANTS
    Opener,      \* the task that opens the session with the handshake
    Readers,     \* the other tasks with a clone of the engine, one call each
    Macs,        \* the sensors there are
    Nobody,      \* no task, no entry
    Room,        \* items the list's channel holds (32 in the code)
    Attempts,    \* how often the handshake sends the Inquiry
    MaxMishaps    \* bound: losses, copies, late replies, changes at the gateway

ASSUME ReadsAssumption ==
    /\ Opener \notin Readers
    /\ Nobody \notin Readers \cup {Opener} \cup Macs
    /\ IsFiniteSet(Macs)
    /\ Room \in Nat \ {0} /\ Attempts \in Nat \ {0} /\ MaxMishaps \in Nat

VARIABLES
    table,    \* the gateway's sensors, in the order of its memory
    dead,     \* it has lost power: it answers nothing
    wire,     \* what it has sent and the host has not read
    recent,   \* async packets the reader read within RESEND_WINDOW
    lock,     \* the task that holds cmd_lock, waiting for its reply
    stream,   \* the task whose sender is in sensor_list_tx
    chan,     \* items queued for each task
    call,     \* each task's call
    kept,     \* history: sensors in the table ever since the call began
    met,      \* history: sensors in the table at some time since
    moved,    \* history: the table changed since
    why,      \* history: what befell the call's own exchange
    mishaps

gateway == <<table, dead>>
engineVars == <<recent, lock, stream, chan>>
history == <<kept, met, moved, why>>
readsVars == <<gateway, wire, engineVars, call, history, mishaps>>

Tasks == Readers \cup {Opener}
Hello == <<"inquiry", "enr", "mac", "version", "auth">>
Pages == 3

\* A task's call: what it is for, how far it is, what it has got so far.
Idle == [op |-> "none", mac |-> Nobody, step |-> 0, tries |-> 0,
         count |-> 0, got |-> <<>>, end |-> "no"]

Running(t) == call[t].op # "none" /\ call[t].end = "no"

Entries == Macs \cup {Nobody}
Cmds == {"inquiry", "enr", "mac", "version", "auth", "count", "list", "get", "page", "delete", "add"}
Keys == (Cmds \ {"get", "page", "add"}) \cup {"nv", "build", "item"}
Replies == [key : Keys, verb : Keys \cup {"add"}, index : Nat, count : Nat, item : Entries, ok : BOOLEAN]
Packets == [reply : Replies, for : Tasks, copy : BOOLEAN]
Calls == [op : {"none", "hello", "list", "table", "info", "add", "delete"},
          mac : Entries, step : Nat, tries : Nat, count : Nat,
          got : Seq(Entries \cup Nat), end : {"no", "ok", "failed"}]
Befalls == {"lost", "misled", "copied", "replaced", "dropped", "full"}

ReadsTypeOK ==
    /\ table \in Seq(Macs) /\ dead \in BOOLEAN
    /\ wire \in Seq(Packets) /\ recent \in Seq(Packets)
    /\ lock \in Tasks \cup {Nobody} /\ stream \in Tasks \cup {Nobody}
    /\ chan \in [Tasks -> Seq(Entries)]
    /\ call \in [Tasks -> Calls]
    /\ kept \in [Tasks -> SUBSET Macs] /\ met \in [Tasks -> SUBSET Macs]
    /\ moved \in [Tasks -> BOOLEAN] /\ why \in [Tasks -> SUBSET Befalls]
    /\ mishaps \in Nat

-------------------------------------------------------------------------------
(* The gateway.                                                                *)

Plain(key) == [key |-> key, verb |-> key, index |-> 0, count |-> Len(table),
               item |-> Nobody, ok |-> TRUE]

\* What a command leaves of the table.
Delete(mac) ==
    IF mac \in ToSet(table) THEN RemoveAt(table, CHOOSE i \in DOMAIN table : table[i] = mac)
    ELSE table
Add(mac) == Append(Delete(mac), mac)

\* An add is refused when another sensor has the short address it gives (the
\* addresses themselves are left out: either may happen).
TablesAfter(c) == CASE c.cmd = "delete" -> {Delete(c.mac)}
                    [] c.cmd = "add" -> {Add(c.mac), table}
                    [] OTHER -> {table}

\* What it sends back: one reply, and after the list's reply its items.
EntryAt(i) == [Plain("nv") EXCEPT !.index = i,
                   !.item = IF i < Len(table) THEN table[i + 1] ELSE Nobody]
Items == [i \in DOMAIN table |-> [Plain("item") EXCEPT !.count = 0, !.item = table[i]]]
Reply(c, added) ==
    CASE c.cmd = "get" -> <<EntryAt(c.index)>>
      [] c.cmd = "add" -> <<[Plain("nv") EXCEPT !.verb = "add", !.ok = added]>>
      [] c.cmd = "page" -> <<[Plain("build") EXCEPT !.index = c.index]>>
      [] c.cmd = "list" -> <<Plain("list")>> \o Items
      [] OTHER -> <<Plain(c.cmd)>>

\* A packet on the wire carries, for the properties only, whose command it
\* answers and whether it is a copy the gateway sent again.
Tagged(t, replies) ==
    [i \in DOMAIN replies |-> [reply |-> replies[i], for |-> t, copy |-> FALSE]]

ChangesTable(new) ==
    /\ table' = new
    /\ kept' = [t \in Tasks |-> IF Running(t) THEN kept[t] \cap ToSet(new) ELSE kept[t]]
    /\ met' = [t \in Tasks |-> IF Running(t) THEN met[t] \cup ToSet(new) ELSE met[t]]
    /\ moved' = [t \in Tasks |-> moved[t] \/ (Running(t) /\ new # table)]

-------------------------------------------------------------------------------
(* Calls.                                                                      *)

Collecting(t) == Running(t) /\ call[t].op = "list" /\ call[t].step = 2

\* The command a call sends next.
Command(t) ==
    LET k == call[t] IN
    [cmd |-> CASE k.op = "hello" -> Hello[k.step + 1]
               [] k.op = "list" -> <<"count", "list">>[k.step + 1]
               [] k.op = "table" -> "get"
               [] k.op = "info" -> "page"
               [] OTHER -> k.op,
     index |-> k.step, mac |-> k.mac]

Key(c) == CASE c.cmd \in {"get", "add"} -> "nv"
            [] c.cmd = "page" -> "build"
            [] OTHER -> c.cmd

\* Sync packets are never taken for resends, and of the other replies to the
\* handshake a copy is heeded by nobody.
Unheeded == ToSet(Hello)

Ready == call[Opener].end = "ok"

\* How a call can go on from where it is.
Ended(t, end, got) == [call EXCEPT ![t].end = end, ![t].got = got]
Stepped(t, got) == [call EXCEPT ![t].step = @ + 1, ![t].tries = 0, ![t].got = got]

\* Mutation of Again: tries are not counted.
AgainUncounted(t) == call

\* The same command once more, counted.
Again(t) == [call EXCEPT ![t].tries = @ + 1]

-------------------------------------------------------------------------------
(* A task begins a call.                                                       *)

Start(t, op, mac) ==
    /\ call[t].op = "none"
    /\ call' = [call EXCEPT ![t] = [Idle EXCEPT !.op = op, !.mac = mac]]
    /\ kept' = [kept EXCEPT ![t] = ToSet(table)]
    /\ met' = [met EXCEPT ![t] = ToSet(table)]
    /\ UNCHANGED <<gateway, wire, engineVars, moved, why, mishaps>>

Open == Start(Opener, "hello", Nobody)

\* Who reads a list, a table or the build information, adds or deletes a sensor.
Begin(t) ==
    /\ Ready
    /\ \/ \E op \in {"list", "table", "info"} : Start(t, op, Nobody)
       \/ \E op \in {"add", "delete"}, mac \in Macs : Start(t, op, mac)

-------------------------------------------------------------------------------
(* A command goes out, with the lock held until its reply or its timeout.      *)

Delivered(t, c) ==
    /\ ~dead
    /\ \E new \in TablesAfter(c) :
           /\ ChangesTable(new)
           /\ wire' = wire \o Tagged(t, Reply(c, new = Add(c.mac)))
    /\ UNCHANGED <<dead, why, mishaps>>

Undelivered(t) ==
    /\ \/ dead /\ UNCHANGED mishaps
       \/ ~dead /\ mishaps < MaxMishaps /\ mishaps' = mishaps + 1
    /\ why' = [why EXCEPT ![t] = @ \cup {"lost"}]
    /\ UNCHANGED <<gateway, wire, kept, met, moved>>

Send(t) ==
    /\ Running(t) /\ ~Collecting(t) /\ lock = Nobody
    /\ lock' = t
    /\ Delivered(t, Command(t)) \/ Undelivered(t)
    /\ UNCHANGED <<recent, stream, chan, call>>

-------------------------------------------------------------------------------
(* The reply reaches the waiting task, which gives the lock back.              *)

\* get_sensor_list puts its sender in place before it asks for the list; the
\* sender of another list that is still being collected is dropped.
Counted(t, m) ==
    IF m.count = 0
    THEN call' = Ended(t, "ok", <<>>) /\ UNCHANGED stream
    ELSE call' = [Stepped(t, <<>>) EXCEPT ![t].count = m.count] /\ stream' = t

\* Mutation of EntryRead: an entry is taken whatever its index.
EntryReadAny(t, m) ==
    LET got == Append(call[t].got, m.item) IN
    call' = IF m.verb = "add" THEN Ended(t, "failed", call[t].got)
            ELSE IF m.item = Nobody THEN Ended(t, "ok", call[t].got)
            ELSE IF Len(got) >= m.count THEN Ended(t, "ok", got)
            ELSE Stepped(t, got)

\* An entry under another index than the one asked for is asked for again, once.
EntryRead(t, m) ==
    LET k == call[t]
        got == Append(k.got, m.item)
    IN  call' = IF m.verb = "add" THEN Ended(t, "failed", k.got)
                ELSE IF m.index # k.step
                     THEN IF k.tries = 0 THEN Again(t) ELSE Ended(t, "failed", k.got)
                ELSE IF m.item = Nobody THEN Ended(t, "ok", k.got)
                ELSE IF Len(got) >= m.count THEN Ended(t, "ok", got)
                ELSE Stepped(t, got)

\* The pages are compared only when all are there; the last one is optional.
PagesTrue(pages) == pages[1] = 0 /\ pages[2] = 1

PageRead(t, page) ==
    LET pages == Append(call[t].got, page) IN
    call' = IF Len(pages) < Pages THEN Stepped(t, pages)
            ELSE Ended(t, IF PagesTrue(pages) THEN "ok" ELSE "failed", pages)

EndsIf(t, right) == call' = Ended(t, IF right THEN "ok" ELSE "failed", <<>>)

Answered(t, m) ==
    LET k == call[t] IN
    \/ k.op = "list" /\ k.step = 0 /\ Counted(t, m)
    \/ /\ UNCHANGED stream
       /\ \/ k.op = "list" /\ k.step = 1 /\ call' = Stepped(t, <<>>)
          \/ k.op = "table" /\ EntryRead(t, m)
          \/ k.op = "info" /\ PageRead(t, m.index)
          \/ k.op = "hello" /\ call' = IF k.step + 1 < Len(Hello) THEN Stepped(t, <<>>)
                                      ELSE Ended(t, "ok", <<>>)
          \/ k.op = "add" /\ EndsIf(t, m.verb = "add" /\ m.ok)
          \/ k.op = "delete" /\ EndsIf(t, TRUE)

-------------------------------------------------------------------------------
(* The reader task.                                                            *)

Waits(key) == lock # Nobody /\ Key(Command(lock)) = key

\* is_resend: an identical packet within the window that no command waits for.
IsResend(m) == (\E p \in ToSet(recent) : p.reply = m) /\ ~Waits(m.key)

Listener == IF stream # Nobody /\ Running(stream) THEN stream ELSE Nobody

\* What reading packet p does to the exchanges of the calls, for the properties.
Befallen(p, u) ==
    LET m == p.reply
        heeded == \/ u = lock /\ Waits(m.key)
                  \/ u = Listener /\ m.key = "item"
    IN  (IF heeded /\ p.for # u THEN {"misled"} ELSE {})
        \cup (IF heeded /\ p.copy THEN {"copied"} ELSE {})
        \cup (IF u = stream /\ stream' # u /\ Running(u) THEN {"replaced"} ELSE {})
        \cup (IF u = p.for /\ m.key = "item" /\ IsResend(m) /\ ~p.copy THEN {"dropped"} ELSE {})
        \cup (IF u = p.for /\ m.key = "item" /\ u = Listener /\ Len(chan[u]) = Room
              THEN {"full"} ELSE {})

Handled(m) ==
    \/ /\ Waits(m.key)
       /\ lock' = Nobody
       /\ Answered(lock, m)
       /\ UNCHANGED chan
    \/ /\ ~Waits(m.key)
       /\ chan' = IF m.key = "item" /\ Listener # Nobody /\ Len(chan[Listener]) < Room
                  THEN [chan EXCEPT ![Listener] = Append(@, m.item)] ELSE chan
       /\ UNCHANGED <<lock, stream, call>>

Read ==
    /\ wire # <<>>
    /\ wire' = Tail(wire)
    /\ LET p == Head(wire)
           m == p.reply
       IN  /\ \/ IsResend(m) /\ UNCHANGED <<engineVars, call>>
              \/ /\ ~IsResend(m)
                 /\ recent' = IF m.key \in Unheeded THEN recent ELSE Append(recent, p)
                 /\ Handled(m)
           /\ why' = [u \in Tasks |-> why[u] \cup Befallen(p, u)]
    /\ UNCHANGED <<gateway, kept, met, moved, mishaps>>

\* RESEND_WINDOW has passed for the oldest packet.
Forget ==
    /\ recent # <<>>
    /\ recent' = Tail(recent)
    /\ UNCHANGED <<gateway, wire, lock, stream, chan, call, history, mishaps>>

-------------------------------------------------------------------------------
(* Waits that run out.                                                         *)

Mishap == mishaps < MaxMishaps /\ mishaps' = mishaps + 1

\* The answer is still on its way: only within the bound.
Coming(keys) == \E i \in DOMAIN wire : wire[i].reply.key \in keys

\* The Inquiry is sent again, a missing third page is done without, and any
\* other command that is not answered fails the call.
Expire(t) ==
    LET k == call[t] IN
    /\ lock = t
    /\ \/ ~Coming({Key(Command(t))}) /\ UNCHANGED mishaps
       \/ Coming({Key(Command(t))}) /\ Mishap
    /\ lock' = Nobody
    /\ call' = CASE k.op = "hello" /\ k.step = 0 /\ k.tries + 1 < Attempts -> Again(t)
                 [] k.op = "info" /\ k.step = 2 ->
                      Ended(t, IF PagesTrue(k.got) THEN "ok" ELSE "failed", k.got)
                 [] OTHER -> Ended(t, "failed", k.got)
    /\ why' = [why EXCEPT ![t] = @ \cup {"lost"}]
    /\ UNCHANGED <<gateway, wire, recent, stream, chan, kept, met, moved>>

\* The list is collected until it has as many sensors as were counted, its
\* sender is gone, or nothing has come for a while; then sensor_list_tx is
\* cleared, whoever's sender is in it.
Collected(t, got, befell) ==
    /\ call' = Ended(t, "ok", got)
    /\ stream' = Nobody
    /\ why' = [u \in Tasks |->
                  IF u = t THEN why[u] \cup befell
                  ELSE IF u = stream /\ Running(u) THEN why[u] \cup {"replaced"} ELSE why[u]]

Pick(t) ==
    LET mac == Head(chan[t])
        got == IF mac \in ToSet(call[t].got) THEN call[t].got ELSE Append(call[t].got, mac)
    IN  /\ chan[t] # <<>>
        /\ chan' = [chan EXCEPT ![t] = Tail(@)]
        /\ IF Len(got) >= call[t].count THEN Collected(t, got, {})
           ELSE call' = [call EXCEPT ![t].got = got] /\ UNCHANGED <<stream, why>>
        /\ UNCHANGED mishaps

Settle(t) ==
    /\ chan[t] = <<>>
    /\ UNCHANGED chan
    /\ \/ stream # t /\ Collected(t, call[t].got, {}) /\ UNCHANGED mishaps
       \/ stream = t /\ ~Coming({"item"}) /\ Collected(t, call[t].got, {}) /\ UNCHANGED mishaps
       \/ stream = t /\ Coming({"item"}) /\ Collected(t, call[t].got, {"lost"}) /\ Mishap

Collect(t) ==
    /\ Collecting(t)
    /\ Pick(t) \/ Settle(t)
    /\ UNCHANGED <<gateway, wire, recent, lock, kept, met, moved>>

-------------------------------------------------------------------------------
(* What goes wrong, within the bound.                                          *)

Lose ==
    /\ Mishap /\ wire # <<>>
    /\ wire' = Tail(wire)
    /\ why' = [why EXCEPT ![Head(wire).for] = @ \cup {"lost"}]
    /\ UNCHANGED <<gateway, engineVars, call, kept, met, moved>>

\* The gateway has not seen the host's ACK and sends a reply once more.
Resend ==
    /\ Mishap
    /\ \E p \in ToSet(recent) : wire' = Append(wire, [p EXCEPT !.copy = TRUE])
    /\ UNCHANGED <<gateway, engineVars, call, history>>

\* A sensor pairs with the gateway meanwhile.
Pair ==
    /\ Mishap /\ ~dead
    /\ \E mac \in Macs \ ToSet(table) : ChangesTable(Append(table, mac))
    /\ UNCHANGED <<dead, wire, engineVars, call, why>>

PowerOff ==
    /\ Mishap /\ ~dead
    /\ dead' = TRUE
    /\ UNCHANGED <<table, wire, engineVars, call, history>>

-------------------------------------------------------------------------------

ReadsInit ==
    /\ table \in SetToAllKPermutations(Macs)
    /\ dead = FALSE
    /\ wire = <<>> /\ recent = <<>>
    /\ lock = Nobody /\ stream = Nobody
    /\ chan = [t \in Tasks |-> <<>>]
    /\ call = [t \in Tasks |-> Idle]
    /\ kept = [t \in Tasks |-> {}] /\ met = [t \in Tasks |-> {}]
    /\ moved = [t \in Tasks |-> FALSE] /\ why = [t \in Tasks |-> {}]
    /\ mishaps = 0

ReadsNext ==
    \/ Open \/ Read \/ Forget
    \/ \E t \in Readers : Begin(t)
    \/ \E t \in Tasks : Send(t) \/ Expire(t) \/ Collect(t)
    \/ Lose \/ Resend \/ Pair \/ PowerOff

ReadsSpec == ReadsInit /\ [][ReadsNext]_readsVars

\* The reader runs, the lock is fair, and every wait of the code has a timeout.
FairReads ==
    /\ ReadsSpec
    /\ WF_readsVars(Read)
    /\ \A t \in Tasks : WF_readsVars(Send(t)) /\ WF_readsVars(Expire(t)) /\ WF_readsVars(Collect(t))

-------------------------------------------------------------------------------
Ok(t, op) == call[t].op = op /\ call[t].end = "ok"

\* A sensor list whose exchange met with nothing worse than a reply sent again
\* holds every sensor that was in the gateway's table all the while, unless
\* there came to be more of them than it counted, and none that never was.
ListTrue(t) ==
    Ok(t, "list") /\ why[t] \subseteq {"copied"} =>
        /\ ToSet(call[t].got) \subseteq met[t]
        /\ Cardinality(met[t]) <= call[t].count => kept[t] \subseteq ToSet(call[t].got)

\* A sensor table read while no sensor came or went has each of its sensors once,
\* whatever was lost or sent again: only a reply to an earlier call misleads it.
TableTrue(t) ==
    Ok(t, "table") /\ ~moved[t] /\ "misled" \notin why[t] =>
        ToSet(call[t].got) = met[t] /\ IsInjective(call[t].got)

\* Build information is cut short only if a page was lost or came too late.
InfoTrue(t) ==
    Ok(t, "info") /\ why[t] = {} => call[t].got = <<0, 1, 2>>

\* What a call reports is what the gateway held (get_sensor_list,
\* ows_sensor_table and ows_build_info against Engine's reader).
ReadsTrue == \A t \in Readers : ListTrue(t) /\ TableTrue(t) /\ InfoTrue(t)

\* Every call ends, also with a gateway that has gone silent.
CallsEnd == \A t \in Tasks : Running(t) ~> ~Running(t)
===============================================================================
