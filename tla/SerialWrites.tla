---------------------------- MODULE SerialWrites ----------------------------
(***************************************************************************)
(* What the write queue promises its callers, with no clock, timer,        *)
(* microtask or abandoned operation in sight: writes are served one at a   *)
(* time in the order they arrived, and each caller gets one answer, which  *)
(* never changes, given while its write is the one being served.           *)
(***************************************************************************)
EXTENDS Naturals, Sequences

CONSTANTS Ops

VARIABLES
    line,       \* every write that has arrived, in arrival order
    served,     \* how many of them have been given the slot
    answer      \* what each caller has been told

serialVars == << line, served, answer >>

SerialInit ==
    /\ line = << >>
    /\ served = 0
    /\ answer = [o \in Ops |-> "none"]

(* The write being served, if any, has been answered.                      *)
SlotFree(ans) == served = 0 \/ ans[line[served]] # "none"

(* At most one newcomer joins the end of the line.                         *)
Arrive ==
    \/ UNCHANGED line
    \/ \E o \in Ops : line' = Append(line, o) /\ o \notin {line[i] : i \in 1..Len(line)}

(* At most one caller is answered: the one being served, once.             *)
Answer ==
    \/ UNCHANGED answer
    \/ /\ ~ SlotFree(answer)
       /\ \E a \in {"resolved", "rejected", "timeout"} :
             answer' = [answer EXCEPT ![line[served]] = a]

(* At most one write, the next in line, is given a slot that is free.      *)
Serve ==
    \/ UNCHANGED served
    \/ /\ SlotFree(answer')
       /\ served < Len(line')
       /\ served' = served + 1

SerialNext == Arrive /\ Answer /\ Serve

SerialSpec == SerialInit /\ [][SerialNext]_serialVars
=============================================================================
