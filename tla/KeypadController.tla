---------------------------- MODULE KeypadController ----------------------------
(***************************************************************************)
(* The keypads' requests (src/src/gateway/keypad.rs), each handled in a    *)
(* task of its own: what is decided at once (src/src/protocol/keypad.rs),  *)
(* what waits for Home Assistant, which carries a request out, refuses it  *)
(* or says nothing, and changes the alarm for reasons of its own.          *)
(***************************************************************************)
EXTENDS Naturals, Sequences

CONSTANTS
    Keypads,       \* the keypads' MACs
    Nobody,        \* no keypad
    MaxTasks,      \* bound: events handled at a time
    MaxInputs      \* bound: keypad events and changes of the alarm not asked for

ASSUME KeypadAssumption ==
    /\ Nobody \notin Keypads
    /\ MaxTasks \in Nat /\ MaxInputs \in Nat

VARIABLES
    task,      \* task[t]: an event being handled
    inputs,    \* events and changes so far
    pending,   \* pending[k]: the action remembered for a PIN of keypad k
    alarm,     \* alarm_state: the last state Home Assistant published, or "none"
    asks,      \* the requests on their way to Home Assistant
    ha,        \* Home Assistant's alarm panel
    news,      \* Home Assistant's messages on their way to the daemon
    chosen,    \* history: the action selected on a keypad and not dealt with
    stale,     \* history: the keypads where something else is remembered
    trail      \* history: trail[t]: the actions the panel met since, refused or not, causes

haVars == <<asks, ha, news>>
historyVars == <<chosen, stale, trail>>
vars == <<task, inputs, pending, alarm, haVars, historyVars>>

Tasks == 1 .. MaxTasks
Actions == {"disarm", "arm_home", "arm_away"}
Choices == Actions \cup {"none"}

\* What a keypad sends: a button, or a PIN (right or wrong).  Panic, the start of a
\* PIN and motion are answered at once or not at all, and change nothing.
Sends == [what : {"button"}, button : Actions, right : {FALSE}]
           \cup [what : {"pin"}, button : {"none"}, right : BOOLEAN]

\* The panel's states: a night or a vacation counts as home or away, "triggered"
\* stands for pending too.
States == {"disarmed", "armed_home", "armed_away", "arming", "triggered"}

\* A refusal of another request, to all or to the same keypad; events of one keypad
\* that overlap; an action remembered that is not the one selected; a panel whose
\* changes the daemon had yet to hear of.
Causes == {"others", "overlap", "stale", "behind"}

Idle == [at |-> "none", keypad |-> Nobody, event |-> [what |-> "pin", button |-> "none", right |-> FALSE],
         meant |-> "none", action |-> "none", fresh |-> FALSE, rejected |-> FALSE, result |-> "none"]
Clean == [met |-> {}, refused |-> FALSE, causes |-> {}]

TypeOK ==
    /\ task \in [Tasks -> [at : {"none", "publishing", "deciding", "waiting", "replying"},
                            keypad : Keypads \cup {Nobody}, event : Sends, meant : Choices,
                            action : Choices, fresh : BOOLEAN, rejected : BOOLEAN,
                            result : {"none", "confirmed", "rejected", "needs pin", "told"}]]
    /\ inputs \in Nat
    /\ pending \in [Keypads -> Choices]
    /\ alarm \in States \cup {"none"}
    /\ asks \in Seq([from : Tasks \cup {0}, keypad : Keypads, action : Actions,
                     pin : {"none", "right", "wrong"}])
    /\ ha \in States
    /\ news \in Seq([what : {"state"}, value : States, for : {0}]
                      \cup [what : {"invalid"}, value : Keypads \cup {Nobody}, for : Tasks \cup {0}])
    /\ chosen \in [Keypads -> Choices]
    /\ stale \in SUBSET Keypads
    /\ trail \in [Tasks -> [met : SUBSET Actions, refused : BOOLEAN, causes : SUBSET Causes]]

Init ==
    /\ task = [t \in Tasks |-> Idle]
    /\ inputs = 0
    /\ pending = [k \in Keypads |-> "none"]
    /\ ha \in {"disarmed", "armed_home"}
    /\ alarm \in {"none", ha}
    /\ asks = <<>> /\ news = <<>>
    /\ chosen = pending /\ stale = {}
    /\ trail = [t \in Tasks |-> Clean]

Active(t) == task[t].at # "none"
Pinned(t) == task[t].event.what = "pin"
Blamed(tr, cause) == [tr EXCEPT !.causes = @ \cup {cause}]
If(c, cause) == IF c THEN {cause} ELSE {}
Marked(k, c) == stale' = IF c THEN stale \cup {k} ELSE stale \ {k}

-------------------------------------------------------------------------------
(* protocol/keypad.rs. *)

Mode(s) == IF s \in {"arming", "none"} THEN "disarmed" ELSE s
Target == [disarm |-> "disarmed", arm_home |-> "armed_home", arm_away |-> "armed_away"]

\* Mutation of CompletedBy: any armed state completes an arming.
CompletedByAny(action, s) ==
    IF action = "disarm" THEN s = "disarmed" ELSE s \in {"arming", "armed_home", "armed_away"}

\* The actions that state s of the panel shows to be done.
Met(s) == {a \in Actions : s = Target[a] \/ (a # "disarm" /\ s = "arming")}

\* completed_by: an exit delay completes either arming.
CompletedBy(action, s) ==
    \/ s = Target[action]
    \/ action # "disarm" /\ s = "arming"

\* decide: the action to request, if any.
Requested(e, remembered) ==
    CASE e.what = "button" /\ e.button # "disarm" -> e.button
      [] e.what = "pin" /\ remembered # "none" -> remembered
      [] e.what = "pin" /\ remembered = "none" /\ Mode(alarm) # "disarmed" -> "disarm"
      [] OTHER -> "none"

-------------------------------------------------------------------------------
(* Events. *)

\* A keypad sends; its task is spawned by the event worker.  A task runs on to its
\* first wait (Next): a PIN's or a published button's is decided at once.
Send(k, e, t) ==
    LET busy == {u \in Tasks : Active(u) /\ task[u].keypad = k}
        behind == alarm # ha \/ \E i \in DOMAIN news : news[i].what = "state"
    IN /\ inputs < MaxInputs /\ ~Active(t)
       /\ inputs' = inputs + 1
       /\ task' = [task EXCEPT ![t] =
             [Idle EXCEPT !.at = IF e.what = "button" THEN "publishing" ELSE "deciding",
                          !.keypad = k, !.event = e, !.meant = chosen[k]]]
       /\ chosen' = [chosen EXCEPT ![k] = e.button]
       /\ trail' = [u \in Tasks |->
             CASE u = t -> [met |-> Met(ha), refused |-> FALSE,
                            causes |-> If(busy # {}, "overlap") \cup If(behind, "behind") \cup If(k \in stale, "stale")]
               [] u \in busy -> Blamed(trail[u], "overlap")
               [] OTHER -> trail[u]]
       /\ UNCHANGED <<pending, alarm, haVars, stale>>

\* A remembered action is forgotten after a minute.
Expire(k) ==
    /\ pending[k] # "none"
    /\ pending' = [pending EXCEPT ![k] = "none"]
    /\ chosen' = [chosen EXCEPT ![k] = "none"]
    /\ Marked(k, FALSE)
    /\ UNCHANGED <<task, inputs, alarm, haVars, trail>>

\* A button is first published as an event, which may wait for the client.
Publish(t) ==
    /\ task[t].at = "publishing"
    /\ task' = [task EXCEPT ![t].at = "deciding"]
    /\ UNCHANGED <<inputs, pending, alarm, haVars, historyVars>>

-------------------------------------------------------------------------------
(* The end of an event. *)

End(t, result, action) ==
    task' = [task EXCEPT ![t].at = "replying", ![t].result = result, ![t].action = action]

\* send_reply.
Reply(t) ==
    /\ task[t].at = "replying"
    /\ task' = [task EXCEPT ![t] = Idle]
    /\ asks' = [i \in DOMAIN asks |-> IF asks[i].from = t THEN [asks[i] EXCEPT !.from = 0] ELSE asks[i]]
    /\ news' = [i \in DOMAIN news |-> IF news[i].for = t THEN [news[i] EXCEPT !.for = 0] ELSE news[i]]
    /\ trail' = [trail EXCEPT ![t] = Clean]
    /\ UNCHANGED <<inputs, pending, alarm, ha, chosen, stale>>

\* The action was seen to be done.
Confirm(t, action) ==
    LET k == task[t].keypad
    IN /\ End(t, "confirmed", action)
       /\ chosen' = IF chosen[k] = action THEN [chosen EXCEPT ![k] = "none"] ELSE chosen
       /\ Marked(k, pending'[k] # "none")
       /\ UNCHANGED <<inputs, alarm, haVars, trail>>

\* It was not: the PIN is rejected, or one is asked for.
Fail(t) ==
    LET k == task[t].keypad
    IN /\ IF Pinned(t) THEN UNCHANGED <<pending, stale>>
          ELSE /\ pending' = [pending EXCEPT ![k] = task[t].action]
               /\ Marked(k, chosen[k] # task[t].action)
       /\ End(t, IF Pinned(t) THEN "rejected" ELSE "needs pin", task[t].action)
       /\ UNCHANGED <<inputs, alarm, haVars, chosen, trail>>

-------------------------------------------------------------------------------
(* Deciding and asking. *)

Pin(t) == IF ~Pinned(t) THEN "none" ELSE IF task[t].event.right THEN "right" ELSE "wrong"

\* take_pending, decide, set_pending, and a request, that the
\* task listens for the outcome of before it publishes it.
Decided(t, remains) ==
    LET k == task[t].keypad
        e == task[t].event
        action == Requested(e, pending[k])
    IN /\ task[t].at = "deciding"
       /\ pending' = CASE e.what = "pin" /\ ~remains -> [pending EXCEPT ![k] = "none"]
                       [] e.button = "disarm" -> [pending EXCEPT ![k] = "disarm"]
                       [] OTHER -> pending
       /\ CASE action = "none" ->
                  /\ Marked(k, pending'[k] \notin {"none", chosen[k]})
                  /\ End(t, "told", "none")
                  /\ UNCHANGED <<inputs, alarm, haVars, chosen, trail>>
            [] action # "none" /\ CompletedBy(action, alarm) -> Confirm(t, action)
            [] OTHER ->
                  /\ task' = [task EXCEPT ![t].action = action, ![t].at = "waiting"]
                  /\ asks' = Append(asks, [from |-> t, keypad |-> k, action |-> action, pin |-> Pin(t)])
                  /\ IF Pinned(t) THEN Marked(k, FALSE) ELSE UNCHANGED stale
                  /\ UNCHANGED <<inputs, alarm, ha, news, chosen, trail>>

\* Mutation of Decide: a PIN leaves the remembered action for the next one.
DecideKept(t) == Decided(t, TRUE)

Decide(t) == Decided(t, FALSE)

\* The alarm changed; only its latest state is seen.
Look(t) ==
    /\ task[t].at = "waiting" /\ task[t].fresh
    /\ IF CompletedBy(task[t].action, alarm)
          THEN UNCHANGED pending /\ Confirm(t, task[t].action)
          ELSE /\ task' = [task EXCEPT ![t].fresh = FALSE]
               /\ UNCHANGED <<inputs, pending, alarm, haVars, historyVars>>

Rejected(t) == task[t].at = "waiting" /\ task[t].rejected /\ Fail(t)

Timeout(t) == task[t].at = "waiting" /\ ~task[t].rejected /\ Fail(t)

-------------------------------------------------------------------------------
(* Home Assistant. *)

Becomes(s) ==
    /\ ha' = s
    /\ news' = Append(news, [what |-> "state", value |-> s, for |-> 0])
    /\ trail' = [t \in Tasks |-> IF Active(t) THEN [trail[t] EXCEPT !.met = @ \cup Met(s)] ELSE trail[t]]

\* An action is carried out, arming perhaps with an exit delay.
CarryOut ==
    /\ asks # <<>> /\ Head(asks).pin # "wrong"
    /\ LET action == Head(asks).action
       IN \E s \in {Target[action]} \cup If(action # "disarm", "arming") : Becomes(s)
    /\ asks' = Tail(asks)
    /\ UNCHANGED <<task, inputs, pending, alarm, chosen, stale>>

\* A wrong PIN, or an action that needs one, is refused: to the keypad, to all
\* (a bare `invalid`), or without a word.
Refuse(said) ==
    /\ asks # <<>> /\ Head(asks).pin # "right"
    /\ asks' = Tail(asks)
    /\ news' = IF said = "none" THEN news
               ELSE Append(news, [what |-> "invalid", for |-> Head(asks).from,
                                  value |-> IF said = "all" THEN Nobody ELSE Head(asks).keypad])
    /\ trail' = [t \in Tasks |-> IF t = Head(asks).from THEN [trail[t] EXCEPT !.refused = TRUE] ELSE trail[t]]
    /\ UNCHANGED <<task, inputs, pending, alarm, ha, chosen, stale>>

\* An exit delay ends, a user or an intruder changes the alarm.
Change(s) ==
    /\ inputs < MaxInputs
    /\ inputs' = inputs + 1
    /\ s # ha
    /\ Becomes(s)
    /\ UNCHANGED <<task, pending, alarm, asks, chosen, stale>>

-------------------------------------------------------------------------------
(* Messages of Home Assistant. *)

\* on_alarm_state.
HearState ==
    /\ news # <<>> /\ Head(news).what = "state"
    /\ alarm' = Head(news).value
    /\ task' = [t \in Tasks |-> IF task[t].at = "waiting" THEN [task[t] EXCEPT !.fresh = TRUE] ELSE task[t]]
    /\ news' = Tail(news)
    /\ UNCHANGED <<inputs, pending, asks, ha, historyVars>>

Hear(heard) ==
    /\ news # <<>> /\ Head(news).what = "invalid"
    /\ task' = [t \in Tasks |->
          IF task[t].at = "waiting" /\ task[t].keypad \in heard THEN [task[t] EXCEPT !.rejected = TRUE] ELSE task[t]]
    /\ news' = Tail(news)
    /\ trail' = [t \in Tasks |->
          IF task[t].at = "waiting" /\ Head(news).value \in {Nobody, task[t].keypad} /\ Head(news).for # t
             THEN Blamed(trail[t], "others") ELSE trail[t]]
    /\ UNCHANGED <<inputs, pending, alarm, asks, ha, chosen, stale>>

\* on_pin_result: the requests of the keypad it names, or all.
HearInvalid == Hear(IF news # <<>> /\ Head(news).value \in Keypads THEN {Head(news).value} ELSE Keypads)

-------------------------------------------------------------------------------
Wakes ==
    \/ \E k \in Keypads, e \in Sends, t \in Tasks : Send(k, e, t)
    \/ \E k \in Keypads : Expire(k)
    \/ \E t \in Tasks : Publish(t) \/ Look(t) \/ Rejected(t) \/ Timeout(t)
    \/ CarryOut
    \/ \E said \in {"keypad", "all", "none"} : Refuse(said)
    \/ \E s \in States : Change(s)
    \/ HearState
    \/ HearInvalid

Next ==
    \/ \E t \in Tasks : Decide(t) \/ Reply(t)
    \/ (\A t \in Tasks : task[t].at \notin {"deciding", "replying"}) /\ Wakes

Spec == Init /\ [][Next]_vars

-------------------------------------------------------------------------------
(* Properties. *)

Ends(t, result) == task[t].at = "replying" /\ task[t].result = result

\* A PIN is rejected before its time is over only if Home Assistant refused it:
\* unless it refused another request to all keypads or to this one.
RejectedTrue ==
    \A t \in Tasks :
        Ends(t, "rejected") /\ task[t].rejected => trail[t].refused \/ "others" \in trail[t].causes

\* A PIN goes with the action selected on its keypad, or disarms if there is
\* none: unless it was typed before that was dealt with, or something else was
\* remembered.
PinForSelected ==
    \A t \in Tasks :
        Pinned(t) /\ task[t].action # "none" =>
            \/ task[t].action = IF task[t].meant = "none" THEN "disarm" ELSE task[t].meant
            \/ trail[t].causes \cap {"overlap", "stale"} # {}

\* A keypad is told that an action is done only if the panel was as asked at some
\* time since, or arming: unless the daemon had yet to hear of a change when the
\* keypad asked.
ConfirmedTrue ==
    \A t \in Tasks :
        Ends(t, "confirmed") =>
            \/ task[t].action \in trail[t].met
            \/ "behind" \in trail[t].causes

\* What a keypad is told of its PIN or its action (KeypadReply) is what happened.
OutcomeTrue == RejectedTrue /\ ConfirmedTrue
===============================================================================
