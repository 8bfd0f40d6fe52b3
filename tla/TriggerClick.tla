---------------------------- MODULE TriggerClick ----------------------------
(***************************************************************************)
(* A trigger as a button that steadies the pointer                         *)
(* (src/src/input/trigger_click.inl, gyro_hold.inl): a pull engages the    *)
(* side and, past the point or the effect, presses; the press ends with    *)
(* the pull or turns into a drag; and the pointer is frozen around it.     *)
(*                                                                         *)
(* A side's travel: 0 home, 1 between the points of release and engaging,  *)
(* 2 engaged, 3 past the click point, 4 bottomed; and its effect's status. *)
(* A side stands for a pad's trigger: what it publishes has a slot per pad.*)
(***************************************************************************)
EXTENDS Naturals

CONSTANTS Side, Travel,
          Setting,     \* settings a side may have: [bound, steady, shape]
          MaxSettings  \* bound: changes of the settings

AnySetting == [bound : {"none", "mouse", "key"},
               steady : {"off", "immediate", "before_press", "after_press"},
               shape : {"none", "wall", "click"}]

ASSUME TriggerAssumption == Travel \subseteq 0..4 /\ 0 \in Travel /\ Setting \subseteq AnySetting

VARIABLES
    pull,        \* by side, [travel, status] of the next report
    setting,     \* by side, what the section says
    st,          \* by side, State
    known,       \* g_pads has the pad
    heldKeys,    \* Pad::heldKeys
    trigButtons, trigKeys, gyroHold,    \* what was published: sides, sides, frozen
    settings

trigVars == <<pull, setting, st, known, heldKeys, trigButtons, trigKeys, gyroHold, settings>>

\* age: of the press, "new" within the double click time, "hold" from the drag time on;
\* ended: a click ended "no", "fresh" within the double click time, "old".
Fresh == [engaged |-> FALSE, down |-> FALSE, dragging |-> FALSE, age |-> "new", ended |-> "no"]

TrigInit ==
    /\ pull = [s \in Side |-> [travel |-> 0, status |-> 0]]
    /\ setting \in [Side -> Setting]
    /\ st = [s \in Side |-> Fresh] /\ known = FALSE /\ heldKeys = FALSE
    /\ trigButtons = {} /\ trigKeys = {} /\ gyroHold = FALSE /\ settings = 0

\* A binding counts only while the side steadies the cursor: boundR2, boundL2.
Takes(s) == setting[s].bound # "none" /\ setting[s].steady # "off"

\* crossed_effect: a wall from its start, a click shape from its end; else the travel.
Crossed(s) ==
    CASE setting[s].shape = "click" -> pull[s].status >= 2
      [] setting[s].shape = "wall"  -> pull[s].status >= 1
      [] OTHER                      -> pull[s].travel >= 3

\* Engaging takes the whole way and letting go two thirds of it.
Engages(s) == pull[s].travel >= (IF st[s].engaged THEN 1 ELSE 2)

Bottoms(s) == setting[s].shape = "wall" /\ pull[s].travel = 4

\* step_side: a drag ends only when the trigger comes home.
Step(s) ==
    LET clicking == st[s].down /\ ~st[s].dragging IN
    IF ~Takes(s) THEN Fresh
    ELSE IF ~Engages(s) THEN [Fresh EXCEPT !.ended = IF clicking THEN "fresh" ELSE st[s].ended]
    ELSE IF Crossed(s) /\ ~st[s].down THEN [Fresh EXCEPT !.engaged = TRUE, !.down = TRUE]
    ELSE IF ~Crossed(s) /\ clicking THEN [st[s] EXCEPT !.down = FALSE, !.ended = "fresh"]
    ELSE IF clicking /\ (Bottoms(s) \/ st[s].age = "hold") THEN [st[s] EXCEPT !.dragging = TRUE]
    ELSE [st[s] EXCEPT !.engaged = TRUE]

\* Its freeze: on the way in by the mode, and after a click until no second can come.
Freezes(s, x) ==
    /\ Takes(s)
    /\ IF x.engaged
       THEN /\ ~x.dragging
            /\ \/ setting[s].steady \in {"immediate", "before_press"}
               \/ setting[s].steady = "after_press" /\ x.down /\ x.age = "new"
       ELSE x.ended = "fresh"

\* on_ds5_input: both sides step and the three slots are written in full.  With neither
\* side taken a pad that was known lets go of them once.
ReportTrigger ==
    /\ st' = [s \in Side |-> Step(s)]
    /\ IF \E s \in Side : Takes(s)
       THEN LET down == {s \in Side : st'[s].down}
                keys == {s \in down : setting[s].bound = "key"}
            IN  /\ known' = TRUE /\ trigButtons' = down \ keys
                /\ trigKeys' = IF keys # {} \/ heldKeys THEN keys ELSE trigKeys
                /\ heldKeys' = (keys # {})
                /\ gyroHold' = \E s \in Side : Freezes(s, st'[s])
       ELSE /\ known' = FALSE /\ heldKeys' = FALSE
            /\ IF known
               THEN /\ trigButtons' = {} /\ gyroHold' = FALSE
                    /\ trigKeys' = IF heldKeys THEN {} ELSE trigKeys
               ELSE UNCHANGED <<trigButtons, trigKeys, gyroHold>>
    /\ UNCHANGED <<pull, setting, settings>>

\* forget: stop of the device.
ForgetTrigger ==
    /\ known /\ known' = FALSE /\ heldKeys' = FALSE /\ st' = [s \in Side |-> Fresh]
    /\ trigButtons' = {} /\ trigKeys' = {} /\ gyroHold' = FALSE
    /\ pull' = [s \in Side |-> [travel |-> 0, status |-> 0]] /\ UNCHANGED <<setting, settings>>

\* The finger, the clock and the file.
Pull(s, t, v) ==
    /\ (t = 0 => v = 0) /\ pull' = [pull EXCEPT ![s] = [travel |-> t, status |-> v]]
    /\ UNCHANGED <<setting, st, known, heldKeys, trigButtons, trigKeys, gyroHold, settings>>

Ages(s) ==
    /\ \/ st[s].down /\ st[s].age # "hold"
          /\ st' = [st EXCEPT ![s].age = IF @ = "new" THEN "double" ELSE "hold"]
       \/ st[s].ended = "fresh" /\ st' = [st EXCEPT ![s].ended = "old"]
    /\ UNCHANGED <<pull, setting, known, heldKeys, trigButtons, trigKeys, gyroHold, settings>>

Sets(s, c) ==
    /\ settings < MaxSettings /\ settings' = settings + 1
    /\ c # setting[s] /\ setting' = [setting EXCEPT ![s] = c]
    /\ UNCHANGED <<pull, st, known, heldKeys, trigButtons, trigKeys, gyroHold>>

TrigNext ==
    \/ ReportTrigger \/ ForgetTrigger
    \/ \E s \in Side, t \in Travel, v \in 0..2 : Pull(s, t, v)
    \/ \E s \in Side : Ages(s) \/ \E c \in Setting : Sets(s, c)

TrigTypeOK ==
    /\ pull \in [Side -> [travel : Travel, status : 0..2]] /\ setting \in [Side -> Setting]
    /\ st \in [Side -> [engaged : BOOLEAN, down : BOOLEAN, dragging : BOOLEAN,
                        age : {"new", "double", "hold"}, ended : {"no", "fresh", "old"}]]
    /\ {known, heldKeys, gyroHold} \subseteq BOOLEAN
    /\ trigButtons \subseteq Side /\ trigKeys \subseteq Side

\* What is published is let go of as soon as nobody takes the trigger, whatever it was
\* bound to before: no button, key or freeze is left that no later report would clear.
NothingLeftBehind ==
    /\ (trigKeys # {} => heldKeys) /\ (heldKeys => known)
    /\ (trigButtons # {} \/ gyroHold => known)
    /\ \A s \in Side : st[s].dragging => st[s].down /\ st[s].engaged

\* A drag goes on until the trigger is home, wherever the finger goes meanwhile.
DragHolds ==
    [][\A s \in Side : /\ st[s].dragging /\ Takes(s) /\ pull[s].travel >= 1 /\ known'
                       => st'[s].down]_trigVars

\* Once the fingers rest the pointer is free again.
PointerIsFreed ==
    <>[](\A s \in Side : pull[s].travel = 0) => <>[](~gyroHold /\ trigButtons = {} /\ trigKeys = {})
=============================================================================
