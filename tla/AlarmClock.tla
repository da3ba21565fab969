----------------------------- MODULE AlarmClock -----------------------------
(***************************************************************************)
(* What timer_sleep promises: whoever asks for n ticks sleeps through      *)
(* exactly n ticks once asleep, and nothing else wakes it; and the clock   *)
(* does nothing to a thread that waits for something else (away).          *)
(***************************************************************************)
EXTENDS Naturals

CONSTANTS Threads, Sleeps    \* the numbers of ticks asked for

VARIABLE alarm

Awake == <<"awake", 0>>
Away  == <<"away", 0>>

Init == alarm = [t \in Threads |-> Awake]

Asks(t, n) ==
    /\ alarm[t] = Awake
    /\ alarm' = [alarm EXCEPT ![t] = <<"asked", n>>]

Waits(t)    == alarm[t] = Awake /\ alarm' = [alarm EXCEPT ![t] = Away]
IsCalled(t) == alarm[t] = Away /\ alarm' = [alarm EXCEPT ![t] = Awake]

FallsAsleep(t) ==
    /\ alarm[t][1] = "asked"
    /\ alarm' = [alarm EXCEPT ![t] = <<"asleep", @[2]>>]

Rings(left) == IF left = 1 THEN Awake ELSE <<"asleep", left - 1>>

Tick == alarm' = [t \in Threads |->
                     IF alarm[t][1] = "asleep" THEN Rings(alarm[t][2]) ELSE alarm[t]]

Next ==
    \/ Tick
    \/ \E t \in Threads : FallsAsleep(t) \/ Waits(t) \/ IsCalled(t)
                         \/ \E n \in Sleeps \ {0} : Asks(t, n)

Spec == Init /\ [][Next]_alarm
=============================================================================
