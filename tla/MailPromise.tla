---------------------------- MODULE MailPromise ----------------------------
(***************************************************************************)
(* What the outbox promises about one reply, whatever crashes, retries or  *)
(* duplicate deliveries happen below: a generation of the job puts at most *)
(* one mail in front of the customer, only an administrator opens another  *)
(* generation, and after a complaint nobody does.                          *)
(***************************************************************************)
EXTENDS Integers

CONSTANT MaxGeneration

VARIABLES generation, copies, blocked
promiseVars == <<generation, copies, blocked>>

Init ==
  /\ generation = 0
  /\ copies = [g \in 0..MaxGeneration |-> 0]
  /\ blocked = FALSE

\* An invocation may outlive its generation, never precede it.
HandOff(g) ==
  /\ g <= generation
  /\ copies[g] = 0
  /\ copies' = [copies EXCEPT ![g] = 1]
  /\ UNCHANGED <<generation, blocked>>

Reopen ==
  /\ ~blocked
  /\ generation < MaxGeneration
  /\ generation' = generation + 1
  /\ UNCHANGED <<copies, blocked>>

Complain ==
  /\ blocked' = TRUE
  /\ UNCHANGED <<generation, copies>>

Next ==
  \/ \E g \in 0..MaxGeneration : HandOff(g)
  \/ Reopen
  \/ Complain

Spec == Init /\ [][Next]_promiseVars
=============================================================================
