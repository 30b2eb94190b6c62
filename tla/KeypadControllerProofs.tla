------------------------ MODULE KeypadControllerProofs ------------------------
(* Theorems about KeypadController, for any keypads, any number of events      *)
(* handled at a time and any number of inputs.                                 *)
EXTENDS KeypadController, SequenceTheorems, TLAPS

Records == [at : {"none", "publishing", "deciding", "waiting", "replying"},
            keypad : Keypads \cup {Nobody}, event : Sends, meant : Choices,
            action : Choices, fresh : BOOLEAN, rejected : BOOLEAN,
            result : {"none", "confirmed", "rejected", "needs pin", "told"}]
Asks == [from : Tasks \cup {0}, keypad : Keypads, action : Actions, pin : {"none", "right", "wrong"}]
Said == [what : {"state"}, value : States, for : {0}]
Invalid == [what : {"invalid"}, value : Keypads \cup {Nobody}, for : Tasks \cup {0}]
Trails == [met : SUBSET Actions, refused : BOOLEAN, causes : SUBSET Causes]

\* An event that is being handled has its keypad, and one that waits its action.
Placed ==
    \A t \in Tasks :
        /\ Active(t) => task[t].keypad \in Keypads
        /\ task[t].at = "waiting" => task[t].action \in Actions

\* TypeOK, with names for its parts.
Types ==
    /\ task \in [Tasks -> Records] /\ trail \in [Tasks -> Trails]
    /\ asks \in Seq(Asks) /\ news \in Seq(Said \cup Invalid)
    /\ pending \in [Keypads -> Choices] /\ chosen \in [Keypads -> Choices]
    /\ alarm \in States \cup {"none"} /\ ha \in States
    /\ stale \in SUBSET Keypads /\ inputs \in Nat

LEMMA TypesAreTypeOK == Types <=> TypeOK
BY DEF Types, TypeOK, Records, Asks, Said, Invalid, Trails

\* Changing the elements of a sequence within its set leaves a sequence.
LEMMA MappedSeq ==
    ASSUME NEW S, NEW s \in Seq(S), NEW f \in [DOMAIN s -> S]
    PROVE  f \in Seq(S)
<1>1. DOMAIN s = 1 .. Len(s) /\ Len(s) \in Nat
  OBVIOUS
<1>2. QED
  BY <1>1, SeqDef

LEMMA SendType ==
    ASSUME Types, NEW k \in Keypads, NEW e \in Sends, NEW t \in Tasks, Send(k, e, t)
    PROVE  Types'
<1> DEFINE new == [Idle EXCEPT !.at = IF e.what = "button" THEN "publishing" ELSE "deciding",
                          !.keypad = k, !.event = e, !.meant = chosen[k]]
<1>1. new \in Records
  BY DEF Idle, Records, Types, Choices
<1>2. task' = [task EXCEPT ![t] = new]
  BY DEF Send
<1>3. task' \in [Tasks -> Records]
  BY <1>1, <1>2 DEF Types
<1>4. e.button \in Choices
  BY DEF Sends, Choices
<1>5. chosen' \in [Keypads -> Choices]
  BY <1>4 DEF Send, Types
<1>6. \A s \in States \cup {"none"} : Met(s) \in SUBSET Actions
  BY DEF Met
<1>7. trail' \in [Tasks -> Trails]
  <2>1. Met(ha) \in SUBSET Actions
    BY <1>6 DEF Types
  <2>2. \A c \in BOOLEAN, cause \in Causes : If(c, cause) \in SUBSET Causes
    BY DEF If
  <2>3. \A u \in Tasks : trail[u] \in Trails /\ Blamed(trail[u], "overlap") \in Trails
    BY DEF Types, Trails, Blamed, Causes
  <2> DEFINE cs == If({u \in Tasks : Active(u) /\ task[u].keypad = k} # {}, "overlap")
                     \cup If(alarm # ha \/ \E i \in DOMAIN news : news[i].what = "state", "behind")
                     \cup If(k \in stale, "stale")
  <2>4. cs \in SUBSET Causes
    BY DEF If, Causes
  <2>5. [met |-> Met(ha), refused |-> FALSE, causes |-> cs] \in Trails
    BY <2>1, <2>4 DEF Trails
  <2>6. QED
    BY <2>3, <2>5 DEF Send
<1>8. inputs' \in Nat /\ UNCHANGED <<pending, alarm, asks, ha, news, stale>>
  BY DEF Send, haVars, Types
<1>9. QED
  BY <1>3, <1>5, <1>7, <1>8 DEF Types

\* A record of which one field changes within its type keeps its type.
LEMMA RecordUpdates ==
    ASSUME NEW r \in Records
    PROVE  /\ \A x \in {"none", "publishing", "deciding", "waiting", "replying"} :
                 [r EXCEPT !.at = x] \in Records
           /\ \A x \in Choices : [r EXCEPT !.action = x] \in Records
           /\ \A x \in BOOLEAN : [r EXCEPT !.fresh = x] \in Records /\ [r EXCEPT !.rejected = x] \in Records
           /\ \A x \in {"confirmed", "rejected", "needs pin", "told"} : [r EXCEPT !.result = x] \in Records
<1>1. \A x \in {"none", "publishing", "deciding", "waiting", "replying"} : [r EXCEPT !.at = x] \in Records
  BY DEF Records
<1>2. \A x \in Choices : [r EXCEPT !.action = x] \in Records
  BY DEF Records
<1>3. \A x \in BOOLEAN : [r EXCEPT !.fresh = x] \in Records
  BY DEF Records
<1>4. \A x \in BOOLEAN : [r EXCEPT !.rejected = x] \in Records
  BY DEF Records
<1>5. \A x \in {"confirmed", "rejected", "needs pin", "told"} : [r EXCEPT !.result = x] \in Records
  BY DEF Records
<1>6. QED
  BY <1>1, <1>2, <1>3, <1>4, <1>5

LEMMA EndType ==
    ASSUME Types, NEW t \in Tasks, NEW result \in {"confirmed", "rejected", "needs pin", "told"},
           NEW action \in Choices, End(t, result, action)
    PROVE  task' \in [Tasks -> Records]
<1> DEFINE f == [task EXCEPT ![t].at = "replying"]
           g == [f EXCEPT ![t].result = result]
<1>1. f \in [Tasks -> Records]
  BY RecordUpdates DEF Types
<1> HIDE DEF f
<1>2. g \in [Tasks -> Records]
  BY <1>1, RecordUpdates
<1>3. task' = [g EXCEPT ![t].action = action]
  BY DEF End, f
<1> HIDE DEF g
<1>4. QED
  BY <1>2, <1>3, RecordUpdates

\* What is requested is one of the actions, or none.
LEMMA RequestedType ==
    ASSUME NEW e \in Sends, NEW remembered \in Choices
    PROVE  Requested(e, remembered) \in Choices
BY DEF Requested, Sends, Choices, Actions

LEMMA ConfirmType ==
    ASSUME Types, NEW t \in Tasks, task[t].keypad \in Keypads, NEW action \in Choices,
           pending' \in [Keypads -> Choices], Confirm(t, action)
    PROVE  Types'
<1>1. task' \in [Tasks -> Records]
  BY EndType DEF Confirm
<1>2. chosen' \in [Keypads -> Choices] /\ stale' \in SUBSET Keypads
  BY DEF Confirm, Marked, Types, Choices
<1>3. QED
  BY <1>1, <1>2 DEF Confirm, Types, haVars

LEMMA FailType ==
    ASSUME Types, NEW t \in Tasks, task[t].keypad \in Keypads, Fail(t)
    PROVE  Types'
<1>1. task[t].action \in Choices
  BY DEF Types, Records
<1>2. task' \in [Tasks -> Records]
  BY <1>1, EndType DEF Fail
<1>3. pending' \in [Keypads -> Choices] /\ stale' \in SUBSET Keypads
  BY <1>1 DEF Fail, Marked, Types
<1>4. QED
  BY <1>2, <1>3 DEF Fail, Types, haVars

LEMMA DecideType ==
    ASSUME Types, Placed, NEW t \in Tasks, Decide(t)
    PROVE  Types'
<1> DEFINE k == task[t].keypad
           e == task[t].event
           action == Requested(e, pending[k])
           ask == [from |-> t, keypad |-> k, action |-> action, pin |-> Pin(t)]
<1>1. k \in Keypads /\ e \in Sends /\ action \in Choices
  <2>1. k \in Keypads /\ e \in Sends
    BY DEF Decide, Decided, Placed, Active, Types, Records
  <2>2. pending[k] \in Choices
    BY <2>1 DEF Types
  <2>3. QED
    BY <2>1, <2>2, RequestedType
<1>2. pending' \in [Keypads -> Choices]
  BY <1>1 DEF Decide, Decided, Types, Choices, Actions
<1>3. CASE action = "none"
  <2>1. End(t, "told", "none") /\ Marked(k, pending'[k] \notin {"none", chosen[k]})
        /\ UNCHANGED <<inputs, alarm, asks, ha, news, chosen, trail>>
    BY <1>3 DEF Decide, Decided, haVars
  <2>2. task' \in [Tasks -> Records]
    BY <2>1, EndType DEF Choices
  <2>3. stale' \in SUBSET Keypads
    BY <1>1, <2>1 DEF Marked, Types
  <2>4. QED
    BY <1>2, <2>1, <2>2, <2>3 DEF Types
<1>4. CASE action # "none" /\ CompletedBy(action, alarm)
  <2>1. Confirm(t, action)
    BY <1>4 DEF Decide, Decided
  <2>2. QED
    BY <1>1, <1>2, <2>1, ConfirmType
<1>5. CASE action # "none" /\ ~CompletedBy(action, alarm)
  <2>1. /\ task' = [task EXCEPT ![t].action = action, ![t].at = "waiting"]
        /\ asks' = Append(asks, ask)
        /\ IF Pinned(t) THEN Marked(k, FALSE) ELSE UNCHANGED stale
        /\ UNCHANGED <<inputs, alarm, ha, news, chosen, trail>>
    BY <1>5 DEF Decide, Decided
  <2>2. task' \in [Tasks -> Records]
    <3> DEFINE f == [task EXCEPT ![t].action = action]
    <3>1. f \in [Tasks -> Records]
      BY <1>1, RecordUpdates DEF Types
    <3> HIDE DEF f
    <3>2. task' = [f EXCEPT ![t].at = "waiting"]
      BY <2>1 DEF f
    <3>3. QED
      BY <3>1, <3>2, RecordUpdates
  <2>3. ask \in Asks
    BY <1>1, <1>5 DEF Asks, Pin, Choices
  <2>4. asks' \in Seq(Asks)
    BY <2>1, <2>3, AppendProperties DEF Types
  <2>5. stale' \in SUBSET Keypads
    BY <1>1, <2>1 DEF Marked, Types
  <2>6. QED
    BY <1>2, <2>1, <2>2, <2>4, <2>5 DEF Types
<1>6. QED
  BY <1>3, <1>4, <1>5

LEMMA BecomesType ==
    ASSUME Types, NEW s \in States, Becomes(s)
    PROVE  ha' \in States /\ news' \in Seq(Said \cup Invalid) /\ trail' \in [Tasks -> Trails]
<1>1. [what |-> "state", value |-> s, for |-> 0] \in Said
  BY DEF Said
<1>2. news' \in Seq(Said \cup Invalid)
  BY <1>1, AppendProperties DEF Becomes, Types
<1>3. Met(s) \in SUBSET Actions
  BY DEF Met
<1>4. \A t \in Tasks : [trail[t] EXCEPT !.met = @ \cup Met(s)] \in Trails
  BY <1>3 DEF Types, Trails
<1>5. QED
  BY <1>2, <1>4 DEF Becomes, Types

LEMMA HomeAssistantType ==
    ASSUME Types, \/ CarryOut
                  \/ \E said \in {"keypad", "all", "none"} : Refuse(said)
                  \/ \E s \in States : Change(s)
    PROVE  Types'
<1>1. CASE CarryOut
  <2>1. asks # <<>> /\ Head(asks) \in Asks /\ asks' \in Seq(Asks)
    BY <1>1, HeadTailProperties DEF CarryOut, Types
  <2>2. PICK s \in {Target[Head(asks).action]} \cup If(Head(asks).action # "disarm", "arming") : Becomes(s)
    BY <1>1 DEF CarryOut
  <2>3. \A a \in Actions : Target[a] \in States
    BY DEF Target, Actions, States
  <2>4. s \in States
    BY <2>1, <2>2, <2>3 DEF Asks, If, States
  <2>5. QED
    BY <1>1, <2>1, <2>2, <2>4, BecomesType DEF CarryOut, Types
<1>2. ASSUME NEW said \in {"keypad", "all", "none"}, Refuse(said) PROVE Types'
  <2>1. asks # <<>> /\ Head(asks) \in Asks /\ asks' \in Seq(Asks)
    BY <1>2, HeadTailProperties DEF Refuse, Types
  <2>2. [what |-> "invalid", for |-> Head(asks).from,
         value |-> IF said = "all" THEN Nobody ELSE Head(asks).keypad] \in Invalid
    BY <2>1 DEF Asks, Invalid
  <2>3. news' \in Seq(Said \cup Invalid)
    BY <1>2, <2>2, AppendProperties DEF Refuse, Types
  <2>4. trail' \in [Tasks -> Trails]
    BY <1>2 DEF Refuse, Types, Trails
  <2>5. QED
    BY <1>2, <2>1, <2>3, <2>4 DEF Refuse, Types
<1>3. ASSUME NEW s \in States, Change(s) PROVE Types'
  BY <1>3, BecomesType DEF Change, Types
<1>4. QED
  BY <1>1, <1>2, <1>3

LEMMA HearType ==
    ASSUME Types, HearState \/ HearInvalid
    PROVE  Types'
<1>1. news # <<>> /\ Head(news) \in Said \cup Invalid
  BY HeadTailProperties DEF HearState, HearInvalid, Hear, Types
<1>2. news' \in Seq(Said \cup Invalid)
  <2>1. news' = Tail(news) /\ news \in Seq(Said \cup Invalid)
    BY DEF HearState, HearInvalid, Hear, Types
  <2>2. QED
    BY <1>1, <2>1, HeadTailProperties
<1>3. CASE HearState
  <2>1. alarm' \in States
    BY <1>1, <1>3 DEF HearState, Said, Invalid
  <2>2. task' \in [Tasks -> Records]
    BY <1>3, RecordUpdates DEF HearState, Types
  <2>3. QED
    BY <1>2, <1>3, <2>1, <2>2 DEF HearState, Types, historyVars
<1>4. CASE HearInvalid
  <2>1. task' \in [Tasks -> Records]
    BY <1>4, RecordUpdates DEF HearInvalid, Hear, Types
  <2>2. trail' \in [Tasks -> Trails]
    <3>1. \A tr \in Trails : Blamed(tr, "others") \in Trails
      BY DEF Blamed, Trails, Causes
    <3>2. QED
      BY <1>4, <3>1 DEF HearInvalid, Hear, Types
  <2>3. QED
    BY <1>2, <1>4, <2>1, <2>2 DEF HearInvalid, Hear, Types
<1>5. QED
  BY <1>3, <1>4

LEMMA KeypadTypeStep == Types /\ Placed /\ [Next]_vars => Types'
<1> SUFFICES ASSUME Types, Placed, [Next]_vars PROVE Types'
  OBVIOUS
<1> USE DEF haVars, historyVars
<1>1. ASSUME NEW k \in Keypads, Expire(k) PROVE Types'
  BY <1>1 DEF Expire, Marked, Types, Choices
<1>2. ASSUME NEW t \in Tasks, Publish(t) PROVE Types'
  BY <1>2 DEF Publish, Types, Records
<1>3. ASSUME NEW t \in Tasks, Reply(t) PROVE Types'
  <2>1. Idle \in Records /\ Clean \in Trails
    BY DEF Idle, Clean, Records, Trails, Sends, Choices
  <2>2. asks' \in Seq(Asks)
    <3>1. \A i \in DOMAIN asks : asks[i] \in Asks /\ [asks[i] EXCEPT !.from = 0] \in Asks
      <4>1. \A x \in Asks : [x EXCEPT !.from = 0] \in Asks
        BY DEF Asks
      <4>2. QED
        BY <4>1 DEF Types
    <3>2. asks' \in [DOMAIN asks -> Asks]
      BY <1>3, <3>1 DEF Reply
    <3>3. QED
      BY <3>2, MappedSeq DEF Types
  <2>3. news' \in Seq(Said \cup Invalid)
    <3>1. \A i \in DOMAIN news : /\ news[i] \in Said \cup Invalid
                                 /\ [news[i] EXCEPT !.for = 0] \in Said \cup Invalid
      <4>1. \A x \in Said \cup Invalid : [x EXCEPT !.for = 0] \in Said \cup Invalid
        <5>1. \A x \in Said : [x EXCEPT !.for = 0] \in Said
          BY DEF Said
        <5>2. \A x \in Invalid : [x EXCEPT !.for = 0] \in Invalid
          BY DEF Invalid
        <5>3. QED
          BY <5>1, <5>2
      <4>2. QED
        BY <4>1 DEF Types
    <3>2. news' \in [DOMAIN news -> Said \cup Invalid]
      BY <1>3, <3>1 DEF Reply
    <3>3. QED
      BY <3>2, MappedSeq DEF Types
  <2>4. task' \in [Tasks -> Records] /\ trail' \in [Tasks -> Trails]
    BY <1>3, <2>1 DEF Reply, Types
  <2>5. QED
    BY <1>3, <2>2, <2>3, <2>4 DEF Reply, Types
<1>4. ASSUME NEW t \in Tasks, Look(t) \/ Rejected(t) \/ Timeout(t) PROVE Types'
  <2>1. task[t].keypad \in Keypads /\ task[t].action \in Choices
    BY <1>4 DEF Look, Rejected, Timeout, Placed, Active, Types, Records
  <2>2. CASE Look(t) /\ CompletedBy(task[t].action, alarm)
    BY <2>1, <2>2, ConfirmType DEF Look, Types
  <2>3. CASE Look(t) /\ ~CompletedBy(task[t].action, alarm)
    <3>1. task' = [task EXCEPT ![t].fresh = FALSE]
          /\ UNCHANGED <<inputs, pending, alarm, haVars, historyVars>>
      BY <2>3 DEF Look
    <3>2. task' \in [Tasks -> Records]
      BY <3>1 DEF Types, Records
    <3>3. QED
      BY <3>1, <3>2 DEF Types
  <2>4. CASE Rejected(t) \/ Timeout(t)
    BY <2>1, <2>4, FailType DEF Rejected, Timeout
  <2>5. QED
    BY <1>4, <2>2, <2>3, <2>4
<1>5. CASE UNCHANGED vars
  BY <1>5 DEF vars, Types
<1>6. QED
  BY <1>1, <1>2, <1>3, <1>4, <1>5, SendType, DecideType, HomeAssistantType, HearType
  DEF Next, Wakes

-------------------------------------------------------------------------------
\* A request or a refusal under way names only a task that waits for it still, and
\* a refusal was noted in that task's history.
Linked ==
    /\ \A i \in DOMAIN asks : asks[i].from # 0 => Active(asks[i].from)
    /\ \A i \in DOMAIN news :
          news[i].what = "invalid" /\ news[i].for # 0 =>
              Active(news[i].for) /\ trail[news[i].for].refused

\* Whoever was told of a refusal was refused, or another request was.
Explained == \A t \in Tasks : task[t].rejected => trail[t].refused \/ "others" \in trail[t].causes

\* Every state the daemon knows of, or is still to hear of, was one of the panel's
\* since the keypad asked.
Seen ==
    \A t \in Tasks : Active(t) /\ "behind" \notin trail[t].causes =>
        /\ Met(alarm) \subseteq trail[t].met
        /\ \A i \in DOMAIN news : news[i].what = "state" => Met(news[i].value) \subseteq trail[t].met

Outcomes == Linked /\ Explained /\ Seen /\ ConfirmedTrue

\* The strengthening of OutcomeTrue.
KeypadIInv == Types /\ Placed /\ Outcomes

\* The elements of a sequence that grew or shrank.
LEMMA AppendElements ==
    ASSUME NEW S, NEW s \in Seq(S), NEW x \in S, NEW i \in DOMAIN Append(s, x)
    PROVE  (i \in DOMAIN s /\ Append(s, x)[i] = s[i]) \/ Append(s, x)[i] = x
BY AppendProperties

LEMMA TailElements ==
    ASSUME NEW S, NEW s \in Seq(S), s # <<>>, NEW i \in DOMAIN Tail(s)
    PROVE  i + 1 \in DOMAIN s /\ Tail(s)[i] = s[i + 1]
BY HeadTailProperties

LEMMA HeadElement ==
    ASSUME NEW S, NEW s \in Seq(S), s # <<>>
    PROVE  1 \in DOMAIN s /\ Head(s) = s[1]
BY HeadTailProperties

LEMMA KeypadInit == Init => KeypadIInv
<1> SUFFICES ASSUME Init PROVE KeypadIInv
  OBVIOUS
<1>1. Idle \in Records /\ Clean \in Trails
  BY DEF Idle, Clean, Records, Trails, Sends, Choices
<1>2. Types
  <2>1. task \in [Tasks -> Records] /\ trail \in [Tasks -> Trails]
    BY <1>1 DEF Init
  <2>2. pending \in [Keypads -> Choices] /\ chosen \in [Keypads -> Choices]
    BY DEF Init, Choices
  <2>3. ha \in States /\ alarm \in States \cup {"none"}
    BY DEF Init, States
  <2>4. QED
    BY <2>1, <2>2, <2>3 DEF Init, Types
<1>3. \A t \in Tasks : task[t].at = "none" /\ ~task[t].rejected
  BY DEF Init, Idle
<1>4. Placed /\ Outcomes
  BY <1>3 DEF Init, Placed, Outcomes, Linked, Explained, Seen, ConfirmedTrue, Ends, Active
<1>5. QED
  BY <1>2, <1>4 DEF KeypadIInv

\* A task that goes on, and confirms only what it may, disturbs nobody.
LEMMA TaskGoesOn ==
    ASSUME KeypadIInv, NEW t \in Tasks, Active(t),
           UNCHANGED <<alarm, news, trail>>,
           asks' = asks \/ \E ask \in Asks : ask.from = t /\ asks' = Append(asks, ask),
           \A u \in Tasks \ {t} : task'[u] = task[u],
           task'[t].at # "none", task'[t].keypad = task[t].keypad,
           task'[t].rejected = task[t].rejected,
           task'[t].at = "waiting" => task'[t].action \in Actions,
           Ends(t, "confirmed")' => task'[t].action \in trail[t].met \/ "behind" \in trail[t].causes
    PROVE  Placed' /\ Outcomes'
<1>1. Placed'
  BY DEF KeypadIInv, Placed, Active
<1>2. \A u \in Tasks : Active(u) => Active(u)'
  BY DEF Active
<1>3. Linked'
  <2>0. \A i \in DOMAIN asks : asks[i].from # 0 => asks[i].from \in Tasks /\ Active(asks[i].from)
    <3>1. \A i \in DOMAIN asks : asks[i] \in Asks
      BY DEF KeypadIInv, Types
    <3>2. QED
      BY <3>1 DEF Asks, KeypadIInv, Outcomes, Linked
  <2>1. ASSUME NEW i \in DOMAIN asks', (asks[i].from # 0)' PROVE Active(asks[i].from)'
    <3>1. CASE asks' = asks
      <4>1. asks[i].from \in Tasks /\ Active(asks[i].from)
        BY <2>0, <2>1, <3>1
      <4>2. QED
        BY <1>2, <3>1, <4>1
    <3>2. ASSUME NEW ask \in Asks, ask.from = t, asks' = Append(asks, ask)
          PROVE  Active(asks[i].from)'
      <4>1. (i \in DOMAIN asks /\ asks'[i] = asks[i]) \/ asks'[i] = ask
        BY <2>1, <3>2, AppendElements DEF KeypadIInv, Types
      <4>2. CASE i \in DOMAIN asks /\ asks'[i] = asks[i]
        <5>1. asks[i].from \in Tasks /\ Active(asks[i].from)
          BY <2>0, <2>1, <4>2
        <5>2. QED
          BY <1>2, <4>2, <5>1
      <4>3. CASE asks'[i] = ask
        BY <3>2, <4>3 DEF Active
      <4>4. QED
        BY <4>1, <4>2, <4>3
    <3>3. QED
      BY <3>1, <3>2
  <2>2. ASSUME NEW i \in DOMAIN news, news[i].what = "invalid", news[i].for # 0
        PROVE  Active(news[i].for)' /\ trail'[news[i].for].refused
    <3>1. Active(news[i].for) /\ trail[news[i].for].refused
      BY <2>2 DEF KeypadIInv, Outcomes, Linked
    <3>2. news[i].for \in Tasks
      BY <2>2 DEF KeypadIInv, Types, Said, Invalid
    <3>3. QED
      BY <1>2, <3>1, <3>2
  <2>3. QED
    BY <2>1, <2>2 DEF Linked
<1>4. Explained'
  BY DEF KeypadIInv, Outcomes, Explained
<1>5. Seen'
  BY DEF KeypadIInv, Outcomes, Seen, Active
<1>6. ConfirmedTrue'
  BY DEF KeypadIInv, Outcomes, ConfirmedTrue, Ends
<1>7. QED
  BY <1>1, <1>3, <1>4, <1>5, <1>6 DEF Outcomes

\* What an action's completion shows.
LEMMA CompletedMet ==
    ASSUME NEW a \in Actions, NEW s, CompletedBy(a, s)
    PROVE  a \in Met(s)
BY DEF CompletedBy, Met

LEMMA ConfirmGoesOn ==
    ASSUME KeypadIInv, NEW t \in Tasks, Active(t), NEW a \in Actions, CompletedBy(a, alarm), Confirm(t, a)
    PROVE  Placed' /\ Outcomes'
<1>1. task' = [task EXCEPT ![t].at = "replying", ![t].result = "confirmed", ![t].action = a]
  BY DEF Confirm, End
<1>2. /\ \A u \in Tasks \ {t} : task'[u] = task[u]
      /\ task'[t].at = "replying" /\ task'[t].action = a /\ task'[t].keypad = task[t].keypad
      /\ task'[t].rejected = task[t].rejected
  BY <1>1 DEF KeypadIInv, Types, Records
<1>3. a \in trail[t].met \/ "behind" \in trail[t].causes
  BY CompletedMet DEF KeypadIInv, Outcomes, Seen
<1>4. QED
  BY <1>2, <1>3, TaskGoesOn DEF Confirm, haVars

LEMMA FailGoesOn ==
    ASSUME KeypadIInv, NEW t \in Tasks, Active(t), Fail(t)
    PROVE  Placed' /\ Outcomes'
<1>1. PICK result \in {"rejected", "needs pin"} :
          task' = [task EXCEPT ![t].at = "replying", ![t].result = result, ![t].action = task[t].action]
  BY DEF Fail, End
<1>2. /\ \A u \in Tasks \ {t} : task'[u] = task[u]
      /\ task'[t].at = "replying" /\ task'[t].result # "confirmed" /\ task'[t].keypad = task[t].keypad
      /\ task'[t].rejected = task[t].rejected
  BY <1>1 DEF KeypadIInv, Types, Records
<1>3. QED
  BY <1>2, TaskGoesOn DEF Fail, Ends, haVars

LEMMA DecideGoesOn ==
    ASSUME KeypadIInv, NEW t \in Tasks, Decide(t)
    PROVE  Placed' /\ Outcomes'
<1> DEFINE k == task[t].keypad
           action == Requested(task[t].event, pending[k])
           ask == [from |-> t, keypad |-> k, action |-> action, pin |-> Pin(t)]
<1>1. Active(t)
  BY DEF Decide, Decided, Active
<1>2. k \in Keypads /\ action \in Choices
  <2>1. k \in Keypads /\ task[t].event \in Sends
    BY <1>1 DEF KeypadIInv, Placed, Types, Records
  <2>2. pending[k] \in Choices
    BY <2>1 DEF KeypadIInv, Types
  <2>3. QED
    BY <2>1, <2>2, RequestedType
<1>3. CASE action = "none"
  <2>1. End(t, "told", "none") /\ UNCHANGED <<alarm, asks, ha, news, trail>>
    BY <1>3 DEF Decide, Decided, haVars
  <2>2. /\ \A u \in Tasks \ {t} : task'[u] = task[u]
        /\ task'[t].at = "replying" /\ task'[t].result = "told" /\ task'[t].keypad = task[t].keypad
        /\ task'[t].rejected = task[t].rejected
    BY <2>1 DEF End, KeypadIInv, Types, Records
  <2>3. QED
    BY <1>1, <2>1, <2>2, TaskGoesOn DEF Ends
<1>4. CASE action # "none" /\ CompletedBy(action, alarm)
  <2>1. Confirm(t, action) /\ action \in Actions
    BY <1>2, <1>4 DEF Decide, Decided, Choices
  <2>2. QED
    BY <1>1, <1>4, <2>1, ConfirmGoesOn
<1>5. CASE action # "none" /\ ~CompletedBy(action, alarm)
  <2>1. /\ task' = [task EXCEPT ![t].action = action, ![t].at = "waiting"]
        /\ asks' = Append(asks, ask)
        /\ UNCHANGED <<alarm, news, trail>>
    BY <1>5 DEF Decide, Decided
  <2>2. action \in Actions
    BY <1>2, <1>5 DEF Choices
  <2>3. ask \in Asks /\ ask.from = t
    BY <1>2, <2>2 DEF Asks, Pin
  <2>4. /\ \A u \in Tasks \ {t} : task'[u] = task[u]
        /\ task'[t].at = "waiting" /\ task'[t].action = action /\ task'[t].keypad = task[t].keypad
        /\ task'[t].rejected = task[t].rejected
    BY <2>1 DEF KeypadIInv, Types, Records
  <2> HIDE DEF ask, action, k
  <2>5. QED
    BY <1>1, <2>1, <2>2, <2>3, <2>4, TaskGoesOn DEF Ends, k
<1>6. QED
  BY <1>3, <1>4, <1>5

LEMMA SendGoesOn ==
    ASSUME KeypadIInv, NEW k \in Keypads, NEW e \in Sends, NEW t \in Tasks, Send(k, e, t)
    PROVE  Placed' /\ Outcomes'
<1>1. /\ ~Active(t) /\ UNCHANGED <<alarm, asks, news, ha>>
      /\ \A u \in Tasks \ {t} : task'[u] = task[u]
  BY DEF Send, haVars, KeypadIInv, Types
<1>2. /\ task'[t].at \in {"publishing", "deciding"} /\ task'[t].keypad = k /\ ~task'[t].rejected
  BY DEF Send, Idle, KeypadIInv, Types
<1>3. ASSUME NEW u \in Tasks \ {t}
      PROVE  /\ trail'[u].met = trail[u].met /\ trail'[u].refused = trail[u].refused
             /\ trail[u].causes \subseteq trail'[u].causes
  BY DEF Send, Blamed, KeypadIInv, Types, Trails
<1>4. /\ trail'[t].met = Met(ha)
      /\ "behind" \notin trail'[t].causes =>
            alarm = ha /\ ~\E i \in DOMAIN news : news[i].what = "state"
  BY DEF Send, If, KeypadIInv, Types
<1>5. Placed'
  BY <1>1, <1>2 DEF KeypadIInv, Placed, Active
<1>6. Linked'
  <2>1. \A i \in DOMAIN asks : asks[i].from # 0 => asks[i].from # t
    BY <1>1 DEF KeypadIInv, Outcomes, Linked
  <2>2. \A i \in DOMAIN asks : asks[i].from \in Tasks \cup {0}
    <3>1. \A i \in DOMAIN asks : asks[i] \in Asks
      BY DEF KeypadIInv, Types
    <3>2. QED
      BY <3>1 DEF Asks
  <2>3. \A i \in DOMAIN news : news[i].what = "invalid" /\ news[i].for # 0 => news[i].for # t
    BY <1>1 DEF KeypadIInv, Outcomes, Linked
  <2>4. \A i \in DOMAIN news : news[i].for \in Tasks \cup {0}
    <3>1. \A i \in DOMAIN news : news[i] \in Said \cup Invalid
      BY DEF KeypadIInv, Types
    <3>2. QED
      BY <3>1 DEF Said, Invalid
  <2>5. QED
    BY <1>1, <1>3, <2>1, <2>2, <2>3, <2>4 DEF KeypadIInv, Outcomes, Linked, Active
<1>7. Explained'
  BY <1>1, <1>2, <1>3 DEF KeypadIInv, Outcomes, Explained
<1>8. Seen'
  BY <1>1, <1>2, <1>3, <1>4 DEF KeypadIInv, Outcomes, Seen, Active
<1>9. ConfirmedTrue'
  BY <1>1, <1>2, <1>3 DEF KeypadIInv, Outcomes, ConfirmedTrue, Ends
<1>10. QED
  BY <1>5, <1>6, <1>7, <1>8, <1>9 DEF Outcomes

LEMMA ReplyGoesOn ==
    ASSUME KeypadIInv, NEW t \in Tasks, Reply(t)
    PROVE  Placed' /\ Outcomes'
<1>1. /\ \A u \in Tasks \ {t} : task'[u] = task[u] /\ trail'[u] = trail[u]
      /\ task'[t] = Idle /\ alarm' = alarm
  BY DEF Reply, KeypadIInv, Types
<1>2. Idle.at = "none" /\ ~Idle.rejected
  BY DEF Idle
<1>3. Placed'
  BY <1>1, <1>2 DEF KeypadIInv, Placed, Active
<1>4. /\ DOMAIN asks' = DOMAIN asks /\ DOMAIN news' = DOMAIN news
      /\ \A i \in DOMAIN asks : asks'[i].from # 0 => asks'[i].from = asks[i].from /\ asks[i].from # t
      /\ \A i \in DOMAIN news : /\ news'[i].for # 0 => news'[i].for = news[i].for /\ news[i].for # t
                                /\ news'[i].what = news[i].what /\ news'[i].value = news[i].value
  <2>1. \A i \in DOMAIN asks : asks[i] \in Asks
    BY DEF KeypadIInv, Types
  <2>2. \A x \in Asks : [x EXCEPT !.from = 0].from = 0
    BY DEF Asks
  <2>3. \A i \in DOMAIN news : news[i] \in Said \cup Invalid
    BY DEF KeypadIInv, Types
  <2>4. ASSUME NEW x \in Said \cup Invalid
        PROVE  /\ [x EXCEPT !.for = 0].for = 0 /\ [x EXCEPT !.for = 0].what = x.what
               /\ [x EXCEPT !.for = 0].value = x.value
    BY DEF Said, Invalid
  <2>5. QED
    BY <2>1, <2>2, <2>3, <2>4 DEF Reply
<1>5. Linked'
  <2>1. \A i \in DOMAIN asks : asks[i].from \in Tasks \cup {0}
    <3>1. \A i \in DOMAIN asks : asks[i] \in Asks
      BY DEF KeypadIInv, Types
    <3>2. QED
      BY <3>1 DEF Asks
  <2>2. \A i \in DOMAIN news : news[i].for \in Tasks \cup {0}
    <3>1. \A i \in DOMAIN news : news[i] \in Said \cup Invalid
      BY DEF KeypadIInv, Types
    <3>2. QED
      BY <3>1 DEF Said, Invalid
  <2>3. QED
    BY <1>1, <1>4, <2>1, <2>2 DEF KeypadIInv, Outcomes, Linked, Active
<1>6. Explained'
  BY <1>1, <1>2 DEF KeypadIInv, Outcomes, Explained
<1>7. Seen'
  BY <1>1, <1>2, <1>4 DEF KeypadIInv, Outcomes, Seen, Active
<1>8. ConfirmedTrue'
  BY <1>1, <1>2 DEF KeypadIInv, Outcomes, ConfirmedTrue, Ends
<1>9. QED
  BY <1>3, <1>5, <1>6, <1>7, <1>8 DEF Outcomes

\* The panel changes: all who wait see it.
LEMMA BecomesGoesOn ==
    ASSUME KeypadIInv, NEW s \in States, Becomes(s), UNCHANGED <<task, alarm>>,
           asks' = asks \/ (asks # <<>> /\ asks' = Tail(asks))
    PROVE  Placed' /\ Outcomes'
<1> DEFINE x == [what |-> "state", value |-> s, for |-> 0]
<1>1. x \in Said \cup Invalid /\ x.what = "state" /\ x.value = s /\ x.for = 0
  BY DEF Said
<1>2. news' = Append(news, x)
  BY DEF Becomes
<1> HIDE DEF x
<1>3. \A i \in DOMAIN news' : (i \in DOMAIN news /\ news'[i] = news[i]) \/ news'[i] = x
  BY <1>1, <1>2, AppendElements DEF KeypadIInv, Types
<1>4. ASSUME NEW u \in Tasks
      PROVE  /\ trail[u].met \subseteq trail'[u].met /\ trail'[u].refused = trail[u].refused
             /\ trail'[u].causes = trail[u].causes
             /\ Active(u) => Met(s) \subseteq trail'[u].met
  BY DEF Becomes, KeypadIInv, Types, Trails
<1>5. Placed'
  BY DEF KeypadIInv, Placed, Active
<1>6. \A i \in DOMAIN asks' : asks'[i].from # 0 => Active(asks'[i].from)
  BY TailElements DEF KeypadIInv, Outcomes, Linked, Types
<1>7. Linked'
  <2>1. \A i \in DOMAIN news : news[i].for \in Tasks \cup {0}
    <3>1. \A i \in DOMAIN news : news[i] \in Said \cup Invalid
      BY DEF KeypadIInv, Types
    <3>2. QED
      BY <3>1 DEF Said, Invalid
  <2>2. QED
    BY <1>1, <1>3, <1>4, <1>6, <2>1 DEF KeypadIInv, Outcomes, Linked, Active
<1>8. Explained'
  BY <1>4 DEF KeypadIInv, Outcomes, Explained
<1>9. Seen'
  BY <1>1, <1>3, <1>4 DEF KeypadIInv, Outcomes, Seen, Active
<1>10. ConfirmedTrue'
  BY <1>4 DEF KeypadIInv, Outcomes, ConfirmedTrue, Ends
<1>11. QED
  BY <1>5, <1>7, <1>8, <1>9, <1>10 DEF Outcomes

LEMMA RefuseGoesOn ==
    ASSUME KeypadIInv, NEW said \in {"keypad", "all", "none"}, Refuse(said)
    PROVE  Placed' /\ Outcomes'
<1> DEFINE h == Head(asks)
           x == [what |-> "invalid", for |-> h.from, value |-> IF said = "all" THEN Nobody ELSE h.keypad]
<1>1. /\ asks # <<>> /\ h \in Asks /\ asks' = Tail(asks)
      /\ h.from # 0 => Active(h.from)
  BY HeadElement, HeadTailProperties DEF Refuse, KeypadIInv, Types, Outcomes, Linked
<1>2. x \in Said \cup Invalid /\ x.what = "invalid" /\ x.for = h.from
  BY <1>1 DEF Asks, Invalid
<1>3. news' = news \/ news' = Append(news, x)
  BY DEF Refuse
<1>4. \A u \in Tasks : /\ trail'[u].met = trail[u].met /\ trail'[u].causes = trail[u].causes
                       /\ trail[u].refused => trail'[u].refused
                       /\ u = h.from => trail'[u].refused
  BY DEF Refuse, KeypadIInv, Types, Trails
<1>5. UNCHANGED <<task, alarm>> /\ h.from \in Tasks \cup {0}
  BY <1>1 DEF Refuse, Asks
<1> HIDE DEF h, x
<1>6. \A i \in DOMAIN news' : (i \in DOMAIN news /\ news'[i] = news[i]) \/ news'[i] = x
  BY <1>2, <1>3, AppendElements DEF KeypadIInv, Types
<1>7. Placed'
  BY <1>5 DEF KeypadIInv, Placed, Active
<1>8. \A i \in DOMAIN asks' : asks'[i].from # 0 => Active(asks'[i].from)
  BY <1>1, TailElements DEF KeypadIInv, Outcomes, Linked, Types
<1>9. Linked'
  <2>1. \A i \in DOMAIN news : news[i].for \in Tasks \cup {0}
    <3>1. \A i \in DOMAIN news : news[i] \in Said \cup Invalid
      BY DEF KeypadIInv, Types
    <3>2. QED
      BY <3>1 DEF Said, Invalid
  <2>2. QED
    BY <1>1, <1>2, <1>4, <1>5, <1>6, <1>8, <2>1 DEF KeypadIInv, Outcomes, Linked, Active
<1>10. Explained'
  BY <1>4, <1>5 DEF KeypadIInv, Outcomes, Explained
<1>11. Seen'
  BY <1>2, <1>4, <1>5, <1>6 DEF KeypadIInv, Outcomes, Seen, Active
<1>12. ConfirmedTrue'
  BY <1>4, <1>5 DEF KeypadIInv, Outcomes, ConfirmedTrue, Ends
<1>13. QED
  BY <1>7, <1>9, <1>10, <1>11, <1>12 DEF Outcomes

\* What the first of the messages says, and where the others stand.
LEMMA NewsTail ==
    ASSUME KeypadIInv, news # <<>>, news' = Tail(news)
    PROVE  /\ 1 \in DOMAIN news /\ Head(news) = news[1] /\ Head(news) \in Said \cup Invalid
           /\ \A i \in DOMAIN news' : i + 1 \in DOMAIN news /\ news'[i] = news[i + 1]
<1>1. news \in Seq(Said \cup Invalid)
  BY DEF KeypadIInv, Types
<1>2. QED
  BY <1>1, TailElements, HeadElement, HeadTailProperties

LEMMA HearStateGoesOn ==
    ASSUME KeypadIInv, HearState
    PROVE  Placed' /\ Outcomes'
<1>1. /\ news # <<>> /\ news' = Tail(news) /\ Head(news).what = "state"
      /\ alarm' = Head(news).value /\ UNCHANGED <<asks, trail>>
  BY DEF HearState, historyVars
<1>2. /\ 1 \in DOMAIN news /\ Head(news) = news[1]
      /\ \A i \in DOMAIN news' : i + 1 \in DOMAIN news /\ news'[i] = news[i + 1]
  BY <1>1, NewsTail
<1>3. \A u \in Tasks : /\ task'[u].at = task[u].at /\ task'[u].keypad = task[u].keypad
                       /\ task'[u].action = task[u].action /\ task'[u].rejected = task[u].rejected
                       /\ task'[u].result = task[u].result
  BY DEF HearState, KeypadIInv, Types, Records
<1>4. Placed'
  BY <1>3 DEF KeypadIInv, Placed, Active
<1>5. Linked'
  <2>1. \A i \in DOMAIN asks : asks[i].from \in Tasks \cup {0}
    <3>1. \A i \in DOMAIN asks : asks[i] \in Asks
      BY DEF KeypadIInv, Types
    <3>2. QED
      BY <3>1 DEF Asks
  <2>2. \A i \in DOMAIN news : news[i].for \in Tasks \cup {0}
    <3>1. \A i \in DOMAIN news : news[i] \in Said \cup Invalid
      BY DEF KeypadIInv, Types
    <3>2. QED
      BY <3>1 DEF Said, Invalid
  <2>3. QED
    BY <1>1, <1>2, <1>3, <2>1, <2>2 DEF KeypadIInv, Outcomes, Linked, Active
<1>6. Explained'
  BY <1>1, <1>3 DEF KeypadIInv, Outcomes, Explained
<1>7. Seen'
  BY <1>1, <1>2, <1>3 DEF KeypadIInv, Outcomes, Seen, Active
<1>8. ConfirmedTrue'
  BY <1>1, <1>3 DEF KeypadIInv, Outcomes, ConfirmedTrue, Ends
<1>9. QED
  BY <1>4, <1>5, <1>6, <1>7, <1>8 DEF Outcomes

\* A refusal reaches its own task, which is refused, or another's, which is noted.
LEMMA HearInvalidGoesOn ==
    ASSUME KeypadIInv, HearInvalid
    PROVE  Placed' /\ Outcomes'
<1> DEFINE h == Head(news)
           heard == IF news # <<>> /\ h.value \in Keypads THEN {h.value} ELSE Keypads
           told(u) == task[u].at = "waiting" /\ task[u].keypad \in heard
<1>1. /\ news # <<>> /\ news' = Tail(news) /\ h.what = "invalid" /\ UNCHANGED <<asks, alarm>>
      /\ task' = [t \in Tasks |-> IF told(t) THEN [task[t] EXCEPT !.rejected = TRUE] ELSE task[t]]
      /\ trail' = [t \in Tasks |->
            IF task[t].at = "waiting" /\ h.value \in {Nobody, task[t].keypad} /\ h.for # t
               THEN Blamed(trail[t], "others") ELSE trail[t]]
  BY DEF HearInvalid, Hear
<1>2. /\ 1 \in DOMAIN news /\ h = news[1] /\ h \in Said \cup Invalid
      /\ \A i \in DOMAIN news' : i + 1 \in DOMAIN news /\ news'[i] = news[i + 1]
  BY <1>1, NewsTail
<1>3. h.value \in Keypads \cup {Nobody}
  BY <1>1, <1>2 DEF Said, Invalid
<1>4. \A u \in Tasks : /\ task'[u].at = task[u].at /\ task'[u].keypad = task[u].keypad
                       /\ task'[u].action = task[u].action /\ task'[u].result = task[u].result
                       /\ task'[u].rejected => task[u].rejected \/ told(u)
  BY <1>1 DEF KeypadIInv, Types, Records
<1>5. \A u \in Tasks : /\ trail'[u].met = trail[u].met /\ trail'[u].refused = trail[u].refused
                       /\ trail[u].causes \subseteq trail'[u].causes
  BY <1>1 DEF Blamed, KeypadIInv, Types, Trails
<1>6. \A u \in Tasks : told(u) => trail'[u].refused \/ "others" \in trail'[u].causes
  <2> SUFFICES ASSUME NEW u \in Tasks, told(u)
               PROVE  trail'[u].refused \/ "others" \in trail'[u].causes
    OBVIOUS
  <2>1. h.value \in {Nobody, task[u].keypad} /\ task[u].at = "waiting"
    BY <1>1, <1>3
  <2>2. CASE h.for = u
    <3>1. u # 0
      BY DEF Tasks
    <3>2. trail[u].refused
      BY <1>1, <1>2, <2>2, <3>1 DEF KeypadIInv, Outcomes, Linked
    <3>3. QED
      BY <1>5, <3>2
  <2>3. CASE h.for # u
    <3>1. trail'[u] = Blamed(trail[u], "others")
      BY <1>1, <2>1, <2>3
    <3>2. QED
      BY <3>1 DEF Blamed, KeypadIInv, Types, Trails
  <2>4. QED
    BY <2>2, <2>3
<1>7. UNCHANGED <<asks, alarm>>
  BY <1>1
<1> HIDE DEF h, heard, told
<1>8. Placed'
  BY <1>4 DEF KeypadIInv, Placed, Active
<1>9. Linked'
  <2>1. \A i \in DOMAIN asks : asks[i].from \in Tasks \cup {0}
    <3>1. \A i \in DOMAIN asks : asks[i] \in Asks
      BY DEF KeypadIInv, Types
    <3>2. QED
      BY <3>1 DEF Asks
  <2>2. \A i \in DOMAIN news : news[i].for \in Tasks \cup {0}
    <3>1. \A i \in DOMAIN news : news[i] \in Said \cup Invalid
      BY DEF KeypadIInv, Types
    <3>2. QED
      BY <3>1 DEF Said, Invalid
  <2>3. QED
    BY <1>2, <1>4, <1>5, <1>7, <2>1, <2>2 DEF KeypadIInv, Outcomes, Linked, Active
<1>10. Explained'
  BY <1>4, <1>5, <1>6 DEF KeypadIInv, Outcomes, Explained
<1>11. Seen'
  BY <1>2, <1>4, <1>5, <1>7 DEF KeypadIInv, Outcomes, Seen, Active
<1>12. ConfirmedTrue'
  BY <1>4, <1>5 DEF KeypadIInv, Outcomes, ConfirmedTrue, Ends
<1>13. QED
  BY <1>8, <1>9, <1>10, <1>11, <1>12 DEF Outcomes

LEMMA KeypadStep == KeypadIInv /\ [Next]_vars => KeypadIInv'
<1> SUFFICES ASSUME KeypadIInv, [Next]_vars PROVE KeypadIInv'
  OBVIOUS
<1>1. Types'
  BY KeypadTypeStep DEF KeypadIInv
<1>2. Placed' /\ Outcomes'
  <2>1. ASSUME NEW k \in Keypads, Expire(k) PROVE Placed' /\ Outcomes'
    BY <2>1 DEF Expire, haVars, KeypadIInv, Placed, Outcomes, Linked, Explained, Seen, ConfirmedTrue, Active, Ends
  <2>2. ASSUME NEW t \in Tasks, Publish(t) PROVE Placed' /\ Outcomes'
    <3>1. /\ \A u \in Tasks \ {t} : task'[u] = task[u]
          /\ task'[t].at = "deciding" /\ task'[t].keypad = task[t].keypad /\ task'[t].rejected = task[t].rejected
          /\ UNCHANGED <<alarm, asks, news, trail>>
      BY <2>2 DEF Publish, haVars, historyVars, KeypadIInv, Types, Records
    <3>2. QED
      BY <2>2, <3>1, TaskGoesOn DEF Publish, Active, Ends
  <2>3. ASSUME NEW t \in Tasks, Look(t) PROVE Placed' /\ Outcomes'
    <3>1. Active(t) /\ task[t].action \in Actions
      BY <2>3 DEF Look, Active, KeypadIInv, Placed
    <3>2. CASE CompletedBy(task[t].action, alarm)
      BY <2>3, <3>1, <3>2, ConfirmGoesOn DEF Look
    <3>3. CASE ~CompletedBy(task[t].action, alarm)
      <4>1. task' = [task EXCEPT ![t].fresh = FALSE] /\ UNCHANGED <<alarm, asks, news, trail>>
        BY <2>3, <3>3 DEF Look, haVars, historyVars
      <4>2. /\ \A u \in Tasks \ {t} : task'[u] = task[u]
            /\ task'[t].at = "waiting" /\ task'[t].keypad = task[t].keypad
            /\ task'[t].action = task[t].action /\ task'[t].rejected = task[t].rejected
        BY <2>3, <4>1 DEF Look, KeypadIInv, Types, Records
      <4>3. QED
        BY <3>1, <4>1, <4>2, TaskGoesOn DEF Ends
    <3>4. QED
      BY <3>2, <3>3
  <2>4. ASSUME NEW t \in Tasks, Rejected(t) \/ Timeout(t) PROVE Placed' /\ Outcomes'
    BY <2>4, FailGoesOn DEF Rejected, Timeout, Active
  <2>5. CASE CarryOut
    <3>1. PICK s : Becomes(s) /\ s \in {Target[Head(asks).action]} \cup If(Head(asks).action # "disarm", "arming")
      BY <2>5 DEF CarryOut
    <3>2. asks # <<>> /\ asks' = Tail(asks) /\ UNCHANGED <<task, alarm>> /\ Head(asks) \in Asks
      BY <2>5, HeadTailProperties DEF CarryOut, KeypadIInv, Types
    <3>3. s \in States
      <4>1. \A a \in Actions : Target[a] \in States
        BY DEF Target, Actions, States
      <4>2. QED
        BY <3>1, <3>2, <4>1 DEF Asks, If, States
    <3>4. QED
      BY <3>1, <3>2, <3>3, BecomesGoesOn
  <2>6. ASSUME NEW s \in States, Change(s) PROVE Placed' /\ Outcomes'
    BY <2>6, BecomesGoesOn DEF Change
  <2>7. CASE UNCHANGED vars
    BY <2>7 DEF vars, haVars, historyVars, KeypadIInv, Placed, Outcomes, Linked, Explained, Seen, ConfirmedTrue, Active, Ends
  <2>8. QED
    BY <2>1, <2>2, <2>3, <2>4, <2>5, <2>6, <2>7, SendGoesOn, DecideGoesOn, ReplyGoesOn, RefuseGoesOn,
       HearStateGoesOn, HearInvalidGoesOn
    DEF Next, Wakes
<1>3. QED
  BY <1>1, <1>2 DEF KeypadIInv

\* Every variable keeps its type, for any keypads, tasks and inputs.
THEOREM KeypadTypeCorrect == Spec => []TypeOK
<1>1. KeypadIInv => TypeOK
  BY TypesAreTypeOK DEF KeypadIInv
<1>2. QED
  BY <1>1, KeypadInit, KeypadStep, PTL DEF Spec

\* However many keypads ask at once, and however their requests, refusals and the
\* alarm's changes overlap: what a keypad is told of its PIN or its action is what
\* happened, but for the cases named.
THEOREM OutcomesTrue == Spec => []OutcomeTrue
<1>1. KeypadIInv => OutcomeTrue
  BY DEF KeypadIInv, Outcomes, Explained, ConfirmedTrue, OutcomeTrue, RejectedTrue
<1>2. QED
  BY <1>1, KeypadInit, KeypadStep, PTL DEF Spec

-------------------------------------------------------------------------------
(* The PIN's action.                                                           *)

Runs(t) == task[t].at \in {"deciding", "replying"}
Works(t) == task[t].at \in {"publishing", "deciding", "waiting"}
Button(t) == task[t].event.what = "button"
Excused(t) == trail[t].causes \cap {"overlap", "stale"} # {}

\* A task that can run on does, so at most one is running.
Alone == \A t, u \in Tasks : Runs(t) /\ Runs(u) => t = u

\* Two events of a keypad handled at a time are known to overlap.
Overlapping ==
    \A t, u \in Tasks :
        t # u /\ Active(t) /\ Active(u) /\ task[t].keypad = task[u].keypad => "overlap" \in trail[t].causes

\* A task has an action once it has decided on one, and a button's is the button;
\* only a button is published.
Deciding ==
    \A t \in Tasks :
        /\ task[t].at \in {"none", "publishing", "deciding"} => task[t].action = "none"
        /\ task[t].at = "publishing" => ~Pinned(t)
        /\ task[t].at = "waiting" /\ ~Pinned(t) => task[t].action = task[t].event.button
        /\ task[t].at = "deciding" /\ Pinned(t) => chosen[task[t].keypad] = "none"

\* The selection is worked on by a task.
Working(k) == \E t \in Tasks : Works(t) /\ Button(t) /\ task[t].keypad = k /\ task[t].event.button = chosen[k]
Taking(k) == \E t \in Tasks : task[t].at = "deciding" /\ Pinned(t) /\ task[t].keypad = k

\* What is remembered of a keypad is what was selected on it, unless the history
\* says otherwise, the selection is being worked on, or a PIN is about to take it.
Remembering ==
    \A k \in Keypads :
        /\ k \in stale => pending[k] # "none"
        /\ k \notin stale => pending[k] = chosen[k] \/ Working(k) \/ Taking(k)

\* A PIN finds the action selected remembered when it decides.
Finding ==
    \A t \in Tasks :
        task[t].at = "deciding" /\ Pinned(t) /\ ~Excused(t) => pending[task[t].keypad] = task[t].meant

PinIInv == Alone /\ Overlapping /\ Deciding /\ Remembering /\ Finding /\ PinForSelected

\* What the PIN's action depends on of a task.
Kept(u) ==
    /\ task'[u].at = task[u].at /\ task'[u].keypad = task[u].keypad /\ task'[u].event = task[u].event
    /\ task'[u].action = task[u].action /\ task'[u].meant = task[u].meant
    /\ trail[u].causes \subseteq trail'[u].causes

LEMMA PinInit == Init => PinIInv
BY DEF Init, PinIInv, Alone, Overlapping, Deciding, Remembering, Finding, PinForSelected,
       Runs, Active, Idle, Clean, historyVars

\* A step that no task, no selection and nothing remembered depends on.
LEMMA PinKept ==
    ASSUME PinIInv, \A u \in Tasks : Kept(u), UNCHANGED <<pending, chosen, stale>>
    PROVE  PinIInv'
<1>1. Alone'
  BY DEF PinIInv, Alone, Runs, Kept
<1>2. Overlapping'
  BY DEF PinIInv, Overlapping, Active, Kept
<1>3. Deciding'
  BY DEF PinIInv, Deciding, Pinned, Kept
<1>4. Remembering'
  BY DEF PinIInv, Remembering, Working, Taking, Works, Button, Pinned, Kept
<1>5. Finding'
  BY DEF PinIInv, Finding, Excused, Pinned, Kept
<1>6. PinForSelected'
  BY DEF PinIInv, PinForSelected, Pinned, Kept
<1>7. QED
  BY <1>1, <1>2, <1>3, <1>4, <1>5, <1>6 DEF PinIInv

\* What is remembered of one keypad.
RememberedOf(k) ==
    /\ k \in stale => pending[k] # "none"
    /\ k \notin stale => pending[k] = chosen[k] \/ Working(k) \/ Taking(k)

\* What is asked of the task that a step is about.
PinOf(t) ==
    /\ task[t].at \in {"none", "publishing", "deciding"} => task[t].action = "none"
    /\ task[t].at = "publishing" => ~Pinned(t)
    /\ task[t].at = "waiting" /\ ~Pinned(t) => task[t].action = task[t].event.button
    /\ task[t].at = "deciding" /\ Pinned(t) =>
          /\ chosen[task[t].keypad] = "none"
          /\ ~Excused(t) => pending[task[t].keypad] = task[t].meant
    /\ Pinned(t) /\ task[t].action # "none" =>
          \/ task[t].action = IF task[t].meant = "none" THEN "disarm" ELSE task[t].meant
          \/ Excused(t)

\* A step of one task, of keypad k.
LEMMA PinTaskStep ==
    ASSUME PinIInv, NEW t \in Tasks, NEW k \in Keypads,
           \A u \in Tasks \ {t} : Kept(u),
           \A u \in Tasks \ {t} : ~Runs(u),
           \A u \in Tasks \ {t} : Active(u) /\ Active(t)' /\ task[u].keypad = task'[t].keypad =>
                "overlap" \in trail'[u].causes /\ "overlap" \in trail'[t].causes,
           Active(t) => task[t].keypad = k,
           Active(t)' => task'[t].keypad = k,
           \A j \in Keypads \ {k} : /\ pending'[j] = pending[j] /\ chosen'[j] = chosen[j]
                                    /\ j \in stale' <=> j \in stale,
           RememberedOf(k)', PinOf(t)'
    PROVE  PinIInv'
<1>1. Alone'
  BY DEF Alone, Runs, Kept
<1>2. Overlapping'
  <2>1. ASSUME NEW u \in Tasks \ {t}, NEW v \in Tasks \ {t}, u # v, Active(u)', Active(v)', task'[u].keypad = task'[v].keypad
        PROVE  "overlap" \in trail'[u].causes
    BY <2>1 DEF PinIInv, Overlapping, Active, Kept
  <2>2. QED
    BY <2>1 DEF Overlapping, Active, Kept
<1>3. Deciding'
  BY DEF PinIInv, Deciding, Pinned, Runs, Kept, PinOf
<1>4. Remembering'
  <2> SUFFICES ASSUME NEW j \in Keypads PROVE RememberedOf(j)'
    BY DEF Remembering, RememberedOf
  <2>1. CASE j = k
    BY <2>1
  <2>2. CASE j # k
    <3>1. Working(j) => Working(j)'
      <4>1. ASSUME NEW u \in Tasks, Works(u), Button(u), task[u].keypad = j, task[u].event.button = chosen[j]
            PROVE  u # t
        BY <2>2, <4>1 DEF Works, Active
      <4>2. QED
        BY <2>2, <4>1 DEF Working, Works, Button, Kept
    <3>2. Taking(j) => Taking(j)'
      <4>1. ASSUME NEW u \in Tasks, task[u].at = "deciding", Pinned(u), task[u].keypad = j
            PROVE  FALSE
        BY <2>2, <4>1 DEF Runs, Active
      <4>2. QED
        BY <4>1 DEF Taking
    <3>3. RememberedOf(j)
      BY DEF PinIInv, Remembering, RememberedOf
    <3>4. QED
      BY <2>2, <3>1, <3>2, <3>3 DEF RememberedOf
  <2>3. QED
    BY <2>1, <2>2
<1>5. Finding'
  BY DEF Finding, Runs, Kept, PinOf
<1>6. PinForSelected'
  <2> SUFFICES ASSUME NEW u \in Tasks, Pinned(u)', task'[u].action # "none"
               PROVE  \/ task'[u].action = IF task'[u].meant = "none" THEN "disarm" ELSE task'[u].meant
                      \/ trail'[u].causes \cap {"overlap", "stale"} # {}
    BY DEF PinForSelected
  <2>1. CASE u = t
    BY <2>1 DEF PinOf, Excused
  <2>2. CASE u # t
    BY <2>2 DEF PinIInv, PinForSelected, Pinned, Kept
  <2>3. QED
    BY <2>1, <2>2
<1>7. QED
  BY <1>1, <1>2, <1>3, <1>4, <1>5, <1>6 DEF PinIInv

\* The keypad of an event that is being handled.
LEMMA PinPlace ==
    ASSUME KeypadIInv, NEW t \in Tasks, Active(t)
    PROVE  task[t].keypad \in Keypads
BY DEF KeypadIInv, Placed

\* Of the tasks that none of the steps below touches.
LEMMA Untouched ==
    ASSUME KeypadIInv, NEW t \in Tasks, NEW new, task' = [task EXCEPT ![t] = new]
    PROVE  /\ task'[t] = new
           /\ \A u \in Tasks \ {t} : task'[u] = task[u]
BY DEF KeypadIInv, Types

LEMMA PinSend ==
    ASSUME KeypadIInv, PinIInv, NEW k \in Keypads, NEW e \in Sends, NEW t \in Tasks, Send(k, e, t),
           \A u \in Tasks : ~Runs(u)
    PROVE  PinIInv'
<1> DEFINE busy == {u \in Tasks : Active(u) /\ task[u].keypad = k}
           new == [Idle EXCEPT !.at = IF e.what = "button" THEN "publishing" ELSE "deciding",
                               !.keypad = k, !.event = e, !.meant = chosen[k]]
<1>1. /\ ~Active(t) /\ task' = [task EXCEPT ![t] = new]
      /\ chosen' = [chosen EXCEPT ![k] = e.button] /\ UNCHANGED <<pending, stale>>
  BY DEF Send
<1>2. /\ new.at = IF e.what = "button" THEN "publishing" ELSE "deciding"
      /\ new.keypad = k /\ new.event = e /\ new.meant = chosen[k] /\ new.action = "none"
  BY DEF Idle
<1>3. task'[t] = new /\ \A u \in Tasks \ {t} : task'[u] = task[u]
  BY <1>1, Untouched
<1>4. \A u \in Tasks \ {t} : /\ trail[u].causes \subseteq trail'[u].causes
                             /\ u \in busy => "overlap" \in trail'[u].causes
  BY <1>1 DEF Send, Blamed, KeypadIInv, Types, Trails
<1>5. /\ busy # {} => "overlap" \in trail'[t].causes
      /\ k \in stale => "stale" \in trail'[t].causes
  BY DEF Send, If
<1>6. chosen'[k] = e.button /\ \A j \in Keypads \ {k} : chosen'[j] = chosen[j]
  BY <1>1 DEF KeypadIInv, Types
<1> HIDE DEF new
<1>7. \A u \in Tasks \ {t} : Kept(u)
  BY <1>3, <1>4 DEF Kept
<1>8. \A u \in Tasks \ {t} : Active(u) /\ Active(t)' /\ task[u].keypad = task'[t].keypad =>
                "overlap" \in trail'[u].causes /\ "overlap" \in trail'[t].causes
  BY <1>2, <1>3, <1>4, <1>5
<1>9. e.what \in {"button", "pin"} /\ (e.what = "pin" => e.button = "none")
  BY DEF Sends
<1>10. RememberedOf(k)'
  <2>1. k \in stale => pending[k] # "none"
    BY DEF PinIInv, Remembering
  <2>2. CASE e.what = "button"
    <3>1. Working(k)'
      BY <1>2, <1>3, <1>6, <2>2 DEF Working, Works, Button
    <3>2. QED
      BY <1>1, <2>1, <3>1 DEF RememberedOf
  <2>3. CASE e.what = "pin"
    <3>1. Taking(k)'
      BY <1>2, <1>3, <2>3 DEF Taking, Pinned
    <3>2. QED
      BY <1>1, <2>1, <3>1 DEF RememberedOf
  <2>4. QED
    BY <1>9, <2>2, <2>3
<1>11. PinOf(t)'
  <2>1. ASSUME ~Excused(t)' PROVE pending[k] = chosen[k]
    <3>1. k \notin stale /\ busy = {}
      BY <1>5, <2>1 DEF Excused
    <3>2. ~Working(k) /\ ~Taking(k)
      BY <3>1 DEF Working, Taking, Works, Active
    <3>3. QED
      BY <3>1, <3>2 DEF PinIInv, Remembering
  <2>2. task'[t].action = "none" /\ task'[t].keypad = k /\ task'[t].meant = chosen[k]
    BY <1>2, <1>3
  <2>3. task'[t].at = "waiting" => FALSE
    BY <1>2, <1>3
  <2>4. Pinned(t)' => chosen'[k] = "none"
    BY <1>2, <1>3, <1>6, <1>9 DEF Pinned
  <2>5. task'[t].at = "publishing" => ~Pinned(t)'
    BY <1>2, <1>3 DEF Pinned
  <2>6. QED
    BY <1>1, <2>1, <2>2, <2>3, <2>4, <2>5 DEF PinOf
<1>12. QED
  BY <1>1, <1>2, <1>3, <1>6, <1>7, <1>8, <1>10, <1>11, PinTaskStep

\* A task that goes on: what is left to show is about it and its keypad.
LEMMA PinGoesOn ==
    ASSUME KeypadIInv, PinIInv, NEW t \in Tasks, Active(t), NEW k \in Keypads, k = task[t].keypad,
           \A u \in Tasks \ {t} : task'[u] = task[u] /\ trail'[u] = trail[u],
           \A u \in Tasks \ {t} : ~Runs(u),
           Active(t)' => task'[t].keypad = k /\ trail'[t] = trail[t],
           \A j \in Keypads \ {k} : /\ pending'[j] = pending[j] /\ chosen'[j] = chosen[j]
                                    /\ j \in stale' <=> j \in stale,
           RememberedOf(k)', PinOf(t)'
    PROVE  PinIInv'
<1>1. \A u \in Tasks \ {t} : Kept(u)
  BY DEF Kept
<1>2. \A u \in Tasks \ {t} : Active(u) /\ task[u].keypad = k =>
                "overlap" \in trail[u].causes /\ "overlap" \in trail[t].causes
  BY DEF PinIInv, Overlapping
<1>3. \A u \in Tasks \ {t} : Active(u) /\ Active(t)' /\ task[u].keypad = task'[t].keypad =>
                "overlap" \in trail'[u].causes /\ "overlap" \in trail'[t].causes
  BY <1>2
<1>4. QED
  BY <1>1, <1>3, PinTaskStep

\* The fields of a task that ends.
LEMMA PinEnds ==
    ASSUME KeypadIInv, NEW t \in Tasks, NEW result, NEW action, End(t, result, action)
    PROVE  /\ task'[t].at = "replying" /\ task'[t].keypad = task[t].keypad
           /\ task'[t].event = task[t].event /\ task'[t].meant = task[t].meant /\ task'[t].action = action
           /\ \A u \in Tasks \ {t} : task'[u] = task[u]
BY DEF End, KeypadIInv, Types, Records

\* The history of one keypad is marked.
LEMMA PinMarks ==
    ASSUME NEW k \in Keypads, NEW c \in BOOLEAN, Marked(k, c)
    PROVE  /\ k \in stale' <=> c
           /\ \A j \in Keypads \ {k} : j \in stale' <=> j \in stale
BY DEF Marked

\* Another task than t is at work on what was selected on keypad k.
WorkingBut(t, k) ==
    \E u \in Tasks \ {t} : Works(u) /\ Button(u) /\ task[u].keypad = k /\ task[u].event.button = chosen[k]

\* A task of which the action is done.
LEMMA PinConfirm ==
    ASSUME KeypadIInv, PinIInv, NEW t \in Tasks, Active(t), NEW k \in Keypads, k = task[t].keypad,
           \A u \in Tasks \ {t} : ~Runs(u),
           NEW action \in Actions, Confirm(t, action),
           \A j \in Keypads \ {k} : pending'[j] = pending[j],
           pending'[k] = "none" => chosen[k] \in {"none", action} \/ WorkingBut(t, k),
           Pinned(t) => \/ action = IF task[t].meant = "none" THEN "disarm" ELSE task[t].meant
                        \/ Excused(t)
    PROVE  PinIInv'
<1>1. /\ End(t, "confirmed", action) /\ Marked(k, pending'[k] # "none") /\ trail' = trail
      /\ chosen' = IF chosen[k] = action THEN [chosen EXCEPT ![k] = "none"] ELSE chosen
  BY DEF Confirm
<1>2. /\ task'[t].at = "replying" /\ task'[t].keypad = task[t].keypad
      /\ task'[t].event = task[t].event /\ task'[t].meant = task[t].meant /\ task'[t].action = action
      /\ \A u \in Tasks \ {t} : task'[u] = task[u]
  BY <1>1, PinEnds
<1>3. /\ k \in stale' <=> pending'[k] # "none"
      /\ \A j \in Keypads \ {k} : j \in stale' <=> j \in stale
  BY <1>1, PinMarks
<1>4. /\ chosen'[k] = IF chosen[k] = action THEN "none" ELSE chosen[k]
      /\ \A j \in Keypads \ {k} : chosen'[j] = chosen[j]
  BY <1>1 DEF KeypadIInv, Types
<1>5. WorkingBut(t, k) /\ chosen[k] # action => Working(k)'
  BY <1>2, <1>4 DEF WorkingBut, Working, Works, Button
<1>6. RememberedOf(k)'
  BY <1>3, <1>4, <1>5 DEF RememberedOf
<1>7. PinOf(t)'
  BY <1>1, <1>2 DEF PinOf, Pinned, Excused
<1>8. QED
  BY <1>1, <1>2, <1>3, <1>4, <1>6, <1>7, PinGoesOn

\* A task of which it is not.
LEMMA PinFail ==
    ASSUME KeypadIInv, PinIInv, NEW t \in Tasks, task[t].at = "waiting", Fail(t),
           NEW k \in Keypads, k = task[t].keypad, NEW action \in Actions, action = task[t].action,
           \A u \in Tasks : ~Runs(u)
    PROVE  PinIInv'
<1>1. Active(t)
  BY DEF Active
<1>2. /\ End(t, IF Pinned(t) THEN "rejected" ELSE "needs pin", action) /\ UNCHANGED <<chosen, trail>>
      /\ Pinned(t) => UNCHANGED <<pending, stale>>
      /\ ~Pinned(t) => pending' = [pending EXCEPT ![k] = action] /\ Marked(k, chosen[k] # action)
  BY DEF Fail
<1>3. /\ task'[t].at = "replying" /\ task'[t].keypad = task[t].keypad
      /\ task'[t].event = task[t].event /\ task'[t].meant = task[t].meant /\ task'[t].action = action
      /\ \A u \in Tasks \ {t} : task'[u] = task[u]
  BY <1>2, PinEnds
<1>4. PinOf(t)'
  BY <1>1, <1>2, <1>3 DEF PinOf, Pinned, Excused, PinIInv, PinForSelected
<1>5. /\ \A j \in Keypads \ {k} : pending'[j] = pending[j] /\ (j \in stale' <=> j \in stale)
      /\ ~Pinned(t) => pending'[k] = action /\ (k \in stale' <=> chosen[k] # action)
  <2>1. CASE Pinned(t)
    BY <1>2, <2>1
  <2>2. CASE ~Pinned(t)
    <3>1. pending' = [pending EXCEPT ![k] = action] /\ Marked(k, chosen[k] # action)
      BY <1>2, <2>2
    <3>2. /\ k \in stale' <=> chosen[k] # action
          /\ \A j \in Keypads \ {k} : j \in stale' <=> j \in stale
      BY <1>1, <3>1, PinMarks
    <3>3. QED
      BY <1>1, <2>2, <3>1, <3>2 DEF KeypadIInv, Types
  <2>3. QED
    BY <2>1, <2>2
<1>6. RememberedOf(k)'
  <2>1. CASE ~Pinned(t)
    <3>1. action # "none"
      BY <1>1 DEF Actions
    <3>2. QED
      BY <1>2, <1>5, <2>1, <3>1 DEF RememberedOf
  <2>2. CASE Pinned(t)
    <3>1. RememberedOf(k)
      BY <1>1 DEF PinIInv, Remembering, RememberedOf
    <3>2. Working(k) => Working(k)'
      <4>1. \A u \in Tasks : Button(u) => u # t
        BY <2>2 DEF Button, Pinned
      <4>2. QED
        BY <1>2, <1>3, <4>1 DEF Working, Works, Button
    <3>3. ~Taking(k)
      BY DEF Taking, Runs
    <3>4. QED
      BY <1>2, <2>2, <3>1, <3>2, <3>3 DEF RememberedOf
  <2>3. QED
    BY <2>1, <2>2
<1>7. QED
  BY <1>1, <1>2, <1>3, <1>4, <1>5, <1>6, PinGoesOn

LEMMA PinPublish ==
    ASSUME KeypadIInv, PinIInv, NEW t \in Tasks, Publish(t), \A u \in Tasks : ~Runs(u)
    PROVE  PinIInv'
<1>1. /\ task[t].at = "publishing" /\ task' = [task EXCEPT ![t].at = "deciding"]
      /\ UNCHANGED <<pending, chosen, stale, trail>>
  BY DEF Publish, historyVars
<1>2. PICK k \in Keypads : k = task[t].keypad
  BY <1>1, PinPlace DEF Active
<1>3. /\ task'[t].at = "deciding" /\ task'[t].keypad = task[t].keypad /\ task'[t].event = task[t].event
      /\ task'[t].meant = task[t].meant /\ task'[t].action = task[t].action
      /\ \A u \in Tasks \ {t} : task'[u] = task[u]
  BY <1>1 DEF KeypadIInv, Types, Records
<1>4. PinOf(t)'
  <2>1. ~Pinned(t) /\ task[t].action = "none"
    BY <1>1 DEF PinIInv, Deciding
  <2>2. QED
    BY <1>1, <1>3, <2>1 DEF PinOf, Pinned
<1>5. RememberedOf(k)'
  <2>1. RememberedOf(k)
    BY DEF PinIInv, Remembering, RememberedOf
  <2>2. Working(k) => Working(k)'
    BY <1>1, <1>3 DEF Working, Works, Button
  <2>3. ~Taking(k)
    BY DEF Taking, Runs
  <2>4. QED
    BY <1>1, <2>1, <2>2, <2>3 DEF RememberedOf
<1>6. QED
  BY <1>1, <1>2, <1>3, <1>4, <1>5, PinGoesOn DEF Active

LEMMA PinReply ==
    ASSUME KeypadIInv, PinIInv, NEW t \in Tasks, Reply(t)
    PROVE  PinIInv'
<1>1. /\ task[t].at = "replying" /\ task' = [task EXCEPT ![t] = Idle]
      /\ trail' = [trail EXCEPT ![t] = Clean] /\ UNCHANGED <<pending, chosen, stale>>
  BY DEF Reply
<1>2. Active(t) /\ Runs(t)
  BY <1>1 DEF Active, Runs
<1>3. PICK k \in Keypads : k = task[t].keypad
  BY <1>2, PinPlace
<1>4. /\ task'[t] = Idle /\ \A u \in Tasks \ {t} : task'[u] = task[u]
      /\ \A u \in Tasks \ {t} : trail'[u] = trail[u]
  BY <1>1 DEF KeypadIInv, Types
<1>5. \A u \in Tasks \ {t} : ~Runs(u)
  BY <1>2 DEF PinIInv, Alone
<1>6. ~Active(t)' /\ PinOf(t)'
  BY <1>4 DEF PinOf, Active, Idle
<1>7. RememberedOf(k)'
  <2>1. RememberedOf(k)
    BY DEF PinIInv, Remembering, RememberedOf
  <2>2. Working(k) => Working(k)'
    <3>1. \A u \in Tasks : Works(u) => u # t
      BY <1>1 DEF Works
    <3>2. QED
      BY <1>1, <1>4, <3>1 DEF Working, Works, Button
  <2>3. Taking(k) => Taking(k)'
    <3>1. \A u \in Tasks : task[u].at = "deciding" => u # t
      BY <1>1
    <3>2. QED
      BY <1>4, <3>1 DEF Taking, Pinned
  <2>4. QED
    BY <1>1, <2>1, <2>2, <2>3 DEF RememberedOf
<1>8. QED
  BY <1>1, <1>2, <1>3, <1>4, <1>5, <1>6, <1>7, PinGoesOn

LEMMA PinExpire ==
    ASSUME KeypadIInv, PinIInv, NEW k \in Keypads, Expire(k), \A u \in Tasks : ~Runs(u)
    PROVE  PinIInv'
<1>1. /\ pending' = [pending EXCEPT ![k] = "none"] /\ chosen' = [chosen EXCEPT ![k] = "none"]
      /\ Marked(k, FALSE) /\ UNCHANGED <<task, trail>>
  BY DEF Expire
<1>2. /\ k \notin stale' /\ pending'[k] = "none" /\ chosen'[k] = "none"
      /\ \A j \in Keypads \ {k} : /\ pending'[j] = pending[j] /\ chosen'[j] = chosen[j]
                                  /\ j \in stale' <=> j \in stale
  BY <1>1 DEF Marked, KeypadIInv, Types
<1>3. \A u \in Tasks : task[u].at # "deciding"
  BY DEF Runs
<1>4. Alone' /\ Overlapping' /\ PinForSelected'
  BY <1>1 DEF PinIInv, Alone, Runs, Overlapping, Active, PinForSelected, Pinned
<1>5. Deciding' /\ Finding'
  BY <1>1, <1>3 DEF PinIInv, Deciding, Finding, Pinned
<1>6. Remembering'
  <2> SUFFICES ASSUME NEW j \in Keypads PROVE RememberedOf(j)'
    BY DEF Remembering, RememberedOf
  <2>1. CASE j = k
    BY <1>2, <2>1 DEF RememberedOf
  <2>2. CASE j # k
    <3>1. RememberedOf(j)
      BY DEF PinIInv, Remembering, RememberedOf
    <3>2. Working(j) => Working(j)'
      BY <1>1, <1>2, <2>2 DEF Working, Works, Button
    <3>3. ~Taking(j)
      BY <1>3 DEF Taking
    <3>4. QED
      BY <1>2, <2>2, <3>1, <3>2, <3>3 DEF RememberedOf
  <2>3. QED
    BY <2>1, <2>2
<1>7. QED
  BY <1>4, <1>5, <1>6 DEF PinIInv

LEMMA PinLook ==
    ASSUME KeypadIInv, PinIInv, NEW t \in Tasks, Look(t), \A u \in Tasks : ~Runs(u)
    PROVE  PinIInv'
<1>1. task[t].at = "waiting" /\ Active(t)
  BY DEF Look, Active
<1>2. PICK k \in Keypads : k = task[t].keypad
  BY <1>1, PinPlace
<1>3. PICK action \in Actions : action = task[t].action
  BY <1>1 DEF KeypadIInv, Placed
<1>4. CASE CompletedBy(task[t].action, alarm)
  <2>1. pending' = pending /\ Confirm(t, action)
    BY <1>3, <1>4 DEF Look
  <2>2. Pinned(t) => \/ action = IF task[t].meant = "none" THEN "disarm" ELSE task[t].meant
                     \/ Excused(t)
    <3>1. action # "none"
      BY <1>3 DEF Actions
    <3>2. QED
      BY <1>3, <3>1 DEF PinIInv, PinForSelected, Excused
  <2>3. pending[k] = "none" => chosen[k] \in {"none", action} \/ WorkingBut(t, k)
    <3>1. SUFFICES ASSUME pending[k] = "none", chosen[k] # "none"
                   PROVE  chosen[k] = action \/ WorkingBut(t, k)
      OBVIOUS
    <3>2. ~Taking(k)
      BY DEF Taking, Runs
    <3>3. Working(k)
      BY <3>1, <3>2 DEF PinIInv, Remembering
    <3>4. Button(t) => action = task[t].event.button
      BY <1>1, <1>3 DEF PinIInv, Deciding, Button, Pinned
    <3>5. QED
      BY <3>3, <3>4 DEF Working, WorkingBut
  <2>4. QED
    BY <1>1, <1>2, <2>1, <2>2, <2>3, PinConfirm
<1>5. CASE ~CompletedBy(task[t].action, alarm)
  <2>1. task' = [task EXCEPT ![t].fresh = FALSE] /\ UNCHANGED <<pending, chosen, stale, trail>>
    BY <1>5 DEF Look, historyVars
  <2>2. \A u \in Tasks : Kept(u)
    BY <2>1 DEF Kept, KeypadIInv, Types, Records
  <2>3. QED
    BY <2>1, <2>2, PinKept
<1>6. QED
  BY <1>4, <1>5

\* What a decision requests: a button its own action, a PIN what is remembered.
LEMMA PinRequests ==
    ASSUME NEW e \in Sends, NEW remembered \in Choices
    PROVE  /\ e.what = "button" => Requested(e, remembered) = IF e.button = "disarm" THEN "none" ELSE e.button
           /\ e.what = "pin" => Requested(e, remembered) \in {IF remembered = "none" THEN "disarm" ELSE remembered, "none"}
           /\ e.what = "pin" /\ remembered # "none" => Requested(e, remembered) = remembered
<1>1. "button" # "pin"
  OBVIOUS
<1>2. CASE e.what = "button" /\ e.button # "disarm"
  BY <1>1, <1>2 DEF Requested
<1>3. CASE e.what = "button" /\ e.button = "disarm"
  BY <1>1, <1>3 DEF Requested
<1>4. CASE e.what = "pin" /\ remembered # "none"
  BY <1>1, <1>4 DEF Requested
<1>5. CASE e.what = "pin" /\ remembered = "none"
  BY <1>1, <1>5 DEF Requested
<1>6. e.what \in {"button", "pin"}
  BY DEF Sends
<1>7. QED
  BY <1>2, <1>3, <1>4, <1>5, <1>6

LEMMA PinDecide ==
    ASSUME KeypadIInv, PinIInv, NEW t \in Tasks, Decide(t)
    PROVE  PinIInv'
<1> DEFINE e == task[t].event
<1>1. task[t].at = "deciding" /\ Active(t) /\ Runs(t)
  BY DEF Decide, Decided, Active, Runs
<1>2. \A u \in Tasks \ {t} : ~Runs(u)
  BY <1>1 DEF PinIInv, Alone
<1>3. PICK k \in Keypads : k = task[t].keypad
  BY <1>1, PinPlace
<1>4. e \in Sends /\ pending[k] \in Choices /\ chosen[k] \in Choices
  BY DEF KeypadIInv, Types, Records
<1>5. (e.what = "button" /\ e.button \in Actions) \/ (e.what = "pin" /\ e.button = "none")
  BY <1>4 DEF Sends
<1>6. PICK action \in Choices : action = Requested(e, pending[k])
  BY <1>4, RequestedType
<1>7. pending' = CASE e.what = "pin" -> [pending EXCEPT ![k] = "none"]
                   [] e.what # "pin" /\ e.button = "disarm" -> [pending EXCEPT ![k] = "disarm"]
                   [] OTHER -> pending
  BY <1>3, <1>5 DEF Decide, Decided
<1>8. /\ \A j \in Keypads \ {k} : pending'[j] = pending[j]
      /\ e.what = "pin" => pending'[k] = "none"
      /\ e.what = "button" => pending'[k] = IF e.button = "disarm" THEN "disarm" ELSE pending[k]
  BY <1>5, <1>7 DEF KeypadIInv, Types
<1>9. /\ e.what = "button" => action = IF e.button = "disarm" THEN "none" ELSE e.button
      /\ e.what = "pin" => action \in {IF pending[k] = "none" THEN "disarm" ELSE pending[k], "none"}
      /\ e.what = "pin" /\ pending[k] # "none" => action = pending[k]
  BY <1>4, <1>6, PinRequests
<1>10. /\ task[t].action = "none"
       /\ e.what = "pin" => chosen[k] = "none" /\ (Excused(t) \/ pending[k] = task[t].meant)
  BY <1>1, <1>3 DEF PinIInv, Deciding, Finding, Pinned
<1>11. e.what = "pin" /\ action # "none" =>
          \/ action = IF task[t].meant = "none" THEN "disarm" ELSE task[t].meant
          \/ Excused(t)
  BY <1>9, <1>10
<1>12. CASE action = "none"
  <2>1. /\ Marked(k, pending'[k] \notin {"none", chosen[k]}) /\ End(t, "told", "none")
        /\ UNCHANGED <<chosen, trail>>
    BY <1>3, <1>6, <1>12 DEF Decide, Decided
  <2>2. /\ task'[t].at = "replying" /\ task'[t].keypad = task[t].keypad /\ task'[t].action = "none"
        /\ \A u \in Tasks \ {t} : task'[u] = task[u]
    BY <2>1, PinEnds
  <2>3. /\ k \in stale' <=> pending'[k] \notin {"none", chosen[k]}
        /\ \A j \in Keypads \ {k} : j \in stale' <=> j \in stale
    BY <2>1, PinMarks
  <2>4. PinOf(t)'
    BY <2>2 DEF PinOf
  <2>5. e.what = "button" => pending'[k] = "disarm"
    BY <1>5, <1>8, <1>9, <1>12 DEF Actions
  <2>6. pending'[k] = "none" => chosen[k] = "none"
    BY <1>5, <1>10, <2>5
  <2>7. RememberedOf(k)'
    BY <2>1, <2>3, <2>6 DEF RememberedOf
  <2>8. QED
    BY <1>1, <1>2, <1>3, <1>8, <2>1, <2>2, <2>3, <2>4, <2>7, PinGoesOn
<1>13. CASE action # "none" /\ CompletedBy(action, alarm)
  <2>1. Confirm(t, action)
    BY <1>3, <1>6, <1>13 DEF Decide, Decided
  <2>2. Pinned(t) => \/ action = IF task[t].meant = "none" THEN "disarm" ELSE task[t].meant
                     \/ Excused(t)
    BY <1>11, <1>13 DEF Pinned
  <2>3. pending'[k] = "none" => chosen[k] \in {"none", action} \/ WorkingBut(t, k)
    <3>1. SUFFICES ASSUME pending'[k] = "none", chosen[k] # "none"
                   PROVE  chosen[k] = action \/ WorkingBut(t, k)
      OBVIOUS
    <3>2. e.what = "button" /\ e.button = action /\ pending[k] = "none"
      BY <1>5, <1>8, <1>9, <1>10, <1>13, <3>1
    <3>3. ~Taking(k)
      BY <1>2, <3>2 DEF Taking, Runs, Pinned
    <3>4. Working(k)
      BY <3>1, <3>2, <3>3 DEF PinIInv, Remembering
    <3>5. QED
      BY <3>2, <3>4 DEF Working, WorkingBut
  <2>4. action \in Actions
    BY <1>13 DEF Choices
  <2>5. QED
    BY <1>1, <1>2, <1>3, <1>8, <2>1, <2>2, <2>3, <2>4, PinConfirm
<1>14. CASE action # "none" /\ ~CompletedBy(action, alarm)
  <2>1. /\ task' = [task EXCEPT ![t].action = action, ![t].at = "waiting"]
        /\ IF Pinned(t) THEN Marked(k, FALSE) ELSE UNCHANGED stale
        /\ UNCHANGED <<chosen, trail>>
    BY <1>3, <1>6, <1>14 DEF Decide, Decided
  <2>2. /\ task'[t].at = "waiting" /\ task'[t].keypad = task[t].keypad /\ task'[t].action = action
        /\ task'[t].event = e /\ task'[t].meant = task[t].meant
        /\ \A u \in Tasks \ {t} : task'[u] = task[u]
    BY <2>1 DEF KeypadIInv, Types, Records
  <2>3. /\ \A j \in Keypads \ {k} : j \in stale' <=> j \in stale
        /\ Pinned(t) => k \notin stale'
        /\ ~Pinned(t) => (k \in stale' <=> k \in stale)
    BY <2>1 DEF Marked
  <2>4. PinOf(t)'
    <3>1. e.what = "button" => action = e.button
      BY <1>9, <1>14
    <3>2. QED
      BY <1>5, <1>11, <1>14, <2>1, <2>2, <3>1 DEF PinOf, Pinned, Excused
  <2>5. RememberedOf(k)'
    <3>1. CASE e.what = "pin"
      BY <1>8, <1>10, <2>1, <2>3, <3>1 DEF RememberedOf, Pinned
    <3>2. CASE e.what = "button"
      <4>1. pending'[k] = pending[k]
        BY <1>8, <1>9, <1>14, <3>2
      <4>2. RememberedOf(k)
        BY DEF PinIInv, Remembering, RememberedOf
      <4>3. ~Taking(k)
        BY <1>2, <3>2 DEF Taking, Runs, Pinned
      <4>4. Working(k) => Working(k)'
        BY <2>1, <2>2 DEF Working, Works, Button
      <4>5. QED
        BY <2>1, <2>3, <3>2, <4>1, <4>2, <4>3, <4>4 DEF RememberedOf, Pinned
    <3>3. QED
      BY <1>5, <3>1, <3>2
  <2>6. QED
    BY <1>1, <1>2, <1>3, <1>8, <2>1, <2>2, <2>3, <2>4, <2>5, PinGoesOn
<1>15. QED
  BY <1>12, <1>13, <1>14

LEMMA PinStep == KeypadIInv /\ PinIInv /\ [Next]_vars => PinIInv'
<1> SUFFICES ASSUME KeypadIInv, PinIInv, [Next]_vars PROVE PinIInv'
  OBVIOUS
<1>1. CASE UNCHANGED vars
  BY <1>1, PinKept DEF vars, historyVars, Kept
<1>2. CASE \E t \in Tasks : Decide(t) \/ Reply(t)
  BY <1>2, PinDecide, PinReply
<1>3. CASE (\A t \in Tasks : ~Runs(t)) /\ Wakes
  <2>1. ASSUME NEW t \in Tasks, Rejected(t) \/ Timeout(t) PROVE PinIInv'
    <3>1. task[t].at = "waiting" /\ Fail(t)
      BY <2>1 DEF Rejected, Timeout
    <3>2. \E k \in Keypads, action \in Actions : k = task[t].keypad /\ action = task[t].action
      BY <3>1 DEF KeypadIInv, Placed, Active
    <3>3. QED
      BY <1>3, <3>1, <3>2, PinFail
  <2>2. ASSUME UNCHANGED <<pending, chosen, stale>>, CarryOut \/ \E s \in States : Change(s)
        PROVE  PinIInv'
    <3>1. PICK s : Becomes(s)
      BY <2>2 DEF CarryOut, Change
    <3>2. \A u \in Tasks : trail'[u].causes = trail[u].causes
      BY <3>1 DEF Becomes, KeypadIInv, Types, Trails
    <3>3. UNCHANGED task
      BY <2>2 DEF CarryOut, Change
    <3>4. QED
      BY <2>2, <3>2, <3>3, PinKept DEF Kept
  <2>3. ASSUME NEW said \in {"keypad", "all", "none"}, Refuse(said) PROVE PinIInv'
    <3>1. UNCHANGED <<pending, chosen, stale, task>>
      BY <2>3 DEF Refuse
    <3>2. \A u \in Tasks : trail'[u].causes = trail[u].causes
      BY <2>3 DEF Refuse, KeypadIInv, Types, Trails
    <3>3. QED
      BY <3>1, <3>2, PinKept DEF Kept
  <2>4. CASE HearState
    <3>1. UNCHANGED <<pending, chosen, stale, trail>>
      BY <2>4 DEF HearState, historyVars
    <3>2. \A u \in Tasks : Kept(u)
      BY <2>4, <3>1 DEF HearState, Kept, KeypadIInv, Types, Records
    <3>3. QED
      BY <3>1, <3>2, PinKept
  <2>5. CASE HearInvalid
    <3>1. UNCHANGED <<pending, chosen, stale>>
      BY <2>5 DEF HearInvalid, Hear
    <3>2. \A u \in Tasks : trail[u].causes \subseteq trail'[u].causes
      BY <2>5 DEF HearInvalid, Hear, Blamed, KeypadIInv, Types, Trails
    <3>3. \A u \in Tasks : Kept(u)
      BY <2>5, <3>2 DEF HearInvalid, Hear, Kept, KeypadIInv, Types, Records
    <3>4. QED
      BY <3>1, <3>3, PinKept
  <2>6. CarryOut \/ (\E s \in States : Change(s)) => UNCHANGED <<pending, chosen, stale>>
    BY DEF CarryOut, Change
  <2>7. QED
    BY <1>3, <2>1, <2>2, <2>3, <2>4, <2>5, <2>6, PinSend, PinExpire, PinPublish, PinLook DEF Wakes
<1>4. QED
  BY <1>1, <1>2, <1>3 DEF Next, Runs

\* However a keypad's events overlap with each other and with the end of earlier
\* requests: a PIN goes with the action that was selected on its keypad, or disarms
\* where none was, but for the two cases named.
THEOREM PinsGoWithSelection == Spec => []PinForSelected
<1>1. PinIInv => PinForSelected
  BY DEF PinIInv
<1>2. QED
  BY <1>1, KeypadInit, KeypadStep, PinInit, PinStep, PTL DEF Spec
===============================================================================
