------------------------------ MODULE MCKernel ------------------------------
(* The vtimer (priority 4), main (3) and tcpip (2) threads, a queue that      *)
(* threads and interrupts use, log_mutex and the mutex of a serial port, and   *)
(* a queue set with a member.  A behaviour is one of the queues (Kernel) or    *)
(* one of the tick (Ticks).                                                    *)
EXTENDS Kernel, Ticks

VARIABLE part

Prio == [t \in Task |-> CASE t = "vtimer" -> 4 [] t = "main" -> 3 [] t = "tcpip" -> 2
                          [] OTHER -> 0]
Lengths == [h \in Handle |-> IF h = "q" THEN 2 ELSE 1]
Sets == [h \in Handle |-> IF h = "rx_q" THEN "qs" ELSE NULL]

Op(op, h, wait, item) == [op |-> op, h |-> h, wait |-> wait, item |-> item]

Calls(v, m, n) == [t \in Task |-> CASE t = "vtimer" -> v [] t = "main" -> m [] t = "tcpip" -> n
                                    [] OTHER -> {}]

Lock(m) == {Op("receive", m, "forever", NULL), Op("send", m, "no", NULL)}
Select == {Op("receive", "qs", "finite", NULL), Op("receive", "rx_q", "no", NULL)}
Delay == {Op("delay", NULL, "finite", NULL)}
\* monotonic_sleep_until, with no pulse
Sleep == {Op("receive", "sleep", "forever", NULL)}

Work == {
    \* tcpip_callback and the log queue: threads and interrupts at both ends of a queue
    [calls |-> Calls(Sleep, {Op("send", "q", "forever", "x")} \cup Delay,
                     {Op("receive", "q", "finite", NULL)}),
     sends |-> {"q"}, receives |-> {"q"}],
    \* serial_write: the port's mutex, and a queue the interrupt empties
    [calls |-> Calls(Sleep, Lock("mutex") \cup {Op("send", "q", "forever", "x")},
                     Lock("mutex") \cup Delay),
     sends |-> {}, receives |-> {"q"}],
    \* log_write by all three: log_mutex around the port's mutex, which two of them also
    \* take to write to the port
    [calls |-> Calls(Lock("log") \cup Lock("mutex") \cup Delay,
                     Lock("log") \cup Lock("mutex") \cup Delay,
                     Lock("log") \cup Lock("mutex")),
     sends |-> {}, receives |-> {}],
    \* the main loop: the queue set of the serial ports
    [calls |-> Calls(Sleep, Select, Lock("mutex") \cup Delay), sends |-> {"rx_q"}, receives |-> {}]}

RtosInit ==
    /\ KernelInit /\ TicksInit
    /\ part \in {"queues", "ticks"}
    \* the part that stands still has one state
    /\ part = "ticks" => work = CHOOSE w \in Workload : TRUE

RtosNext ==
    \/ part = "queues" /\ KernelNext /\ UNCHANGED <<part, tvars>>
    \/ part = "ticks"  /\ TicksNext  /\ UNCHANGED <<part, kvars>>

RtosSpec == RtosInit /\ [][RtosNext]_<<part, kvars, tvars>>
=============================================================================
