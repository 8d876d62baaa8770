-------------------------- MODULE OperationStates --------------------------
(***************************************************************************)
(* The statuses of an operation (a purchase mediated by ConfiApp) and the  *)
(* table of allowed transitions of transactions/state-machine.ts.  The     *)
(* behaviour spec at the end is the abstract machine the table promises:   *)
(* the stored status only ever moves along the table.                      *)
(***************************************************************************)

VARIABLE status

Statuses == {"CREATED", "WAITING_PARTICIPANT", "PENDING_BUYER_CONFIRM",
             "ACCEPTED", "FUNDED", "IN_PROGRESS", "COMPLETED", "CANCELLED",
             "DISPUTED"}

ALLOWED ==
  [s \in Statuses |->
     CASE s = "CREATED" -> {"WAITING_PARTICIPANT", "CANCELLED"}
       [] s = "WAITING_PARTICIPANT" ->
            {"PENDING_BUYER_CONFIRM", "ACCEPTED", "CANCELLED", "DISPUTED"}
       [] s = "PENDING_BUYER_CONFIRM" -> {"ACCEPTED", "CANCELLED"}
       [] s = "ACCEPTED" -> {"FUNDED", "CANCELLED", "DISPUTED"}
       [] s = "FUNDED" -> {"IN_PROGRESS", "COMPLETED", "CANCELLED", "DISPUTED"}
       [] s = "IN_PROGRESS" -> {"COMPLETED", "DISPUTED", "CANCELLED"}
       [] s = "DISPUTED" -> {"IN_PROGRESS", "CANCELLED", "COMPLETED"}
       [] OTHER -> {}]

CanTransition(from, to) == from = to \/ to \in ALLOWED[from]

\* Terminal statuses: nothing is allowed to follow them.
Final == {s \in Statuses : ALLOWED[s] = {}}

----------------------------------------------------------------------------

(***************************************************************************)
(* One save may carry two transitions: confirmHold asserts and applies     *)
(* ACCEPTED -> FUNDED -> IN_PROGRESS on the loaded document and stores the *)
(* last one.                                                               *)
(***************************************************************************)
Init == status = "ACCEPTED"

Move == \E s \in ALLOWED[status] : status' = s

FundAndStart == status = "ACCEPTED" /\ status' = "IN_PROGRESS"

Next == Move \/ FundAndStart

Spec == Init /\ [][Next]_status

============================================================================
