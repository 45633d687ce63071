---------------------------- MODULE TimerService ----------------------------
(***************************************************************************)
(* What the timers of one loop promise, without lock, nodes, batches or    *)
(* the loop's sleep: an alarm rings at its time or later, the one that is  *)
(* due first before the others and one after the other, until it is over;  *)
(* one that was deleted never rings again.                                 *)
(***************************************************************************)
EXTENDS Naturals

CONSTANTS Ids,          \* what addTimer may return
          Delays        \* after how many ticks an alarm is due

VARIABLES now,          \* the clock
          alarms,       \* the alarms that were set, under their ids
          running       \* the alarm whose callback is under way, if any

vars == <<now, alarms, running>>

Alarm(msec, again) == [due |-> now + msec, msec |-> msec, again |-> again, live |-> TRUE]

Live == {c \in DOMAIN alarms : alarms[c].live}

Init == now = 0 /\ alarms = <<>> /\ running = {}

Tick == now' = now + 1 /\ UNCHANGED <<alarms, running>>

\* An id that nobody was given before.
Add(c, msec, again) ==
    /\ c \notin DOMAIN alarms
    /\ alarms' = [d \in DOMAIN alarms \cup {c} |->
                     IF d = c THEN Alarm(msec, again) ELSE alarms[d]]
    /\ UNCHANGED <<now, running>>

\* Not while it is run: a recurring alarm that deletes itself goes on.
Delete(c) == /\ c \in Live \ running
             /\ alarms' = [alarms EXCEPT ![c].live = FALSE]
             /\ UNCHANGED <<now, running>>

Run(c) == /\ running = {}
          /\ c \in Live
          /\ alarms[c].due <= now
          /\ \A d \in Live : alarms[c].due <= alarms[d].due
          /\ running' = {c}
          /\ UNCHANGED <<now, alarms>>

\* A recurring alarm is due again, counted from the end of its callback.
Return(c) == /\ running = {c}
             /\ running' = {}
             /\ alarms' = [alarms EXCEPT ![c] =
                   IF alarms[c].again THEN Alarm(alarms[c].msec, TRUE)
                                      ELSE [alarms[c] EXCEPT !.live = FALSE]]
             /\ UNCHANGED now

Next == \/ Tick
        \/ \E c \in Ids : \/ \E msec \in Delays, again \in BOOLEAN : Add(c, msec, again)
                          \/ Delete(c) \/ Run(c) \/ Return(c)

Spec == Init /\ [][Next]_vars
=============================================================================
