--------------------------- MODULE ExclusivePolling ---------------------------
(***************************************************************************)
(* What the polling lease of a bot token promises, without registry,        *)
(* promises, timers or microtasks.                                          *)
(*                                                                         *)
(* A poller goes to work only when every poller at work has been told to    *)
(* stop, and is turned away only because one has not been, or because it    *)
(* was itself told to stop.  Each is decided once.                          *)
(***************************************************************************)
CONSTANT Pollers

VARIABLES
    state, \* "off", "working", "refused" or "over", by poller
    told   \* pollers that were told to stop

vars == <<state, told>>

Init ==
    /\ state = [p \in Pollers |-> "off"]
    /\ told = {}

Working == {p \in Pollers : state[p] = "working"}

Turn(p, from, to) ==
    /\ state[p] = from
    /\ state' = [state EXCEPT ![p] = to]
    /\ UNCHANGED told

Begin(p) == Working \subseteq told /\ Turn(p, "off", "working")

Refuse(p) == (p \in told \/ ~(Working \subseteq told)) /\ Turn(p, "off", "refused")

End(p) == Turn(p, "working", "over")

Tell(p) ==
    /\ p \notin told
    /\ told' = told \cup {p}
    /\ UNCHANGED state

Next == \E p \in Pollers : Begin(p) \/ Refuse(p) \/ End(p) \/ Tell(p)

Spec == Init /\ [][Next]_vars
=============================================================================
