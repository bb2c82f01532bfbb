------------------------------- MODULE Service -------------------------------
(***************************************************************************)
(* What package manager promises its callers: the service is up or down,   *)
(* a start of a service that is up is refused and changes nothing, a start *)
(* that fails leaves it down, and whatever a stop returns, the service is  *)
(* down.  Lifecycle implements it.                                         *)
(***************************************************************************)
CONSTANT Callers

VARIABLES
    up,       \* the service is up
    op,       \* what each caller asked for
    answer    \* what its last call returned

vars == <<up, op, answer>>

Init ==
    /\ up = FALSE
    /\ op = [c \in Callers |-> "none"]
    /\ answer = [c \in Callers |-> "none"]

Call(c, o) ==
    /\ op[c] = "none"
    /\ op' = [op EXCEPT ![c] = o]
    /\ answer' = [answer EXCEPT ![c] = "none"]
    /\ UNCHANGED up

Return(c, next, a) ==
    /\ op' = [op EXCEPT ![c] = next]
    /\ answer' = [answer EXCEPT ![c] = a]

Start(c) ==
    /\ op[c] = "start"
    /\ \/ up /\ Return(c, "none", "refused") /\ UNCHANGED up
       \/ ~up /\ Return(c, "none", "ok") /\ up' = TRUE
       \/ ~up /\ Return(c, "none", "error") /\ UNCHANGED up

Stop(c) ==
    /\ op[c] = "stop"
    /\ up' = FALSE
    /\ \/ Return(c, "none", "ok")
       \/ up /\ Return(c, "none", "error")

(* exit() closes the service, then ends the process.                       *)
CloseToExit(c) ==
    /\ op[c] = "exit"
    /\ up' = FALSE
    /\ \/ Return(c, "exiting", "ok")
       \/ up /\ Return(c, "exiting", "error")

(* The process ends or dies and is started again.                          *)
Restart == up' = FALSE /\ op' = [c \in Callers |-> "none"]
                       /\ answer' = [c \in Callers |-> "none"]

Next ==
    \/ \E c \in Callers, o \in {"start", "stop", "exit"} : Call(c, o)
    \/ \E c \in Callers : Start(c) \/ Stop(c) \/ CloseToExit(c)
    \/ Restart

Spec == Init /\ [][Next]_vars
=============================================================================
