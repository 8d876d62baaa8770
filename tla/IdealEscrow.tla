---------------------------- MODULE IdealEscrow ----------------------------
(***************************************************************************)
(* What a protected payment promises its parties, whatever the handlers    *)
(* behind it do: the buyer's money is collected once, and then either goes *)
(* back to the buyer whole or is shared among the parties who earned it.   *)
(* Escrow implements it in the runs that say so.                           *)
(***************************************************************************)
CONSTANT Parties  \* who is paid by a completed operation

VARIABLES
  collected,  \* the provider has the buyer's money
  given       \* who has been given their part of it

vars == <<collected, given>>

Init == collected = FALSE /\ given = {}

Collect ==
  /\ ~collected
  /\ collected' = TRUE
  /\ UNCHANGED given

\* A party is paid; nobody is paid out of money that went back.
Pay(p) ==
  /\ collected
  /\ "buyer" \notin given
  /\ given' = given \cup {p}
  /\ UNCHANGED collected

\* The refund is total: nothing of it had been paid to anybody.
GiveBack ==
  /\ collected
  /\ given = {}
  /\ given' = {"buyer"}
  /\ UNCHANGED collected

Next == Collect \/ GiveBack \/ \E p \in Parties : Pay(p)

Spec == Init /\ [][Next]_vars

=============================================================================
