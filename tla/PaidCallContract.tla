--------------------------- MODULE PaidCallContract ---------------------------
(***************************************************************************)
(* What the platform promises about calls that cost money, with no worker, *)
(* no queue and no clock: a call is permitted while the cycle has room for *)
(* it, made at most once and only when permitted, and what is believed of  *)
(* it is never the opposite of what the provider did.                      *)
(***************************************************************************)
EXTENDS Integers, FiniteSets

CONSTANTS
  Call,    \* the calls that may be made, a finite set
  Budget   \* how many of them the cycle can pay for, a natural

VARIABLES
  permit,  \* OPEN, then GRANTED or WITHDRAWN for good
  made,    \* how often the call was made
  fact,    \* what the provider did: NONE, PENDING, TAKEN or NOT_TAKEN
  belief   \* what is on record: NONE, UNKNOWN, TAKEN or NOT_TAKEN

contractVars == <<permit, made, fact, belief>>

ContractTypeOK ==
  /\ permit \in [Call -> {"OPEN", "GRANTED", "WITHDRAWN"}]
  /\ made \in [Call -> 0..1]
  /\ fact \in [Call -> {"NONE", "PENDING", "TAKEN", "NOT_TAKEN"}]
  /\ belief \in [Call -> {"NONE", "UNKNOWN", "TAKEN", "NOT_TAKEN"}]

ContractInit ==
  /\ permit = [c \in Call |-> "OPEN"]
  /\ made = [c \in Call |-> 0]
  /\ fact = [c \in Call |-> "NONE"]
  /\ belief = [c \in Call |-> "NONE"]

\* Calls that may have to be paid: permitted, and not known to be refused.
MayBePaid == {c \in Call : permit[c] = "GRANTED" /\ belief[c] # "NOT_TAKEN"}

Grant(c) ==
  /\ permit[c] = "OPEN"
  /\ Cardinality(MayBePaid) < Budget
  /\ permit' = [permit EXCEPT ![c] = "GRANTED"]
  /\ UNCHANGED <<made, fact, belief>>

Withdraw(c) ==
  /\ permit[c] = "OPEN"
  /\ permit' = [permit EXCEPT ![c] = "WITHDRAWN"]
  /\ UNCHANGED <<made, fact, belief>>

Make(c) ==
  /\ permit[c] = "GRANTED"
  /\ made[c] = 0
  /\ belief[c] # "NOT_TAKEN"
  /\ made' = [made EXCEPT ![c] = 1]
  /\ fact' = [fact EXCEPT ![c] = "PENDING"]
  /\ UNCHANGED <<permit, belief>>

Decide(c) ==
  /\ fact[c] = "PENDING"
  /\ \E f \in {"TAKEN", "NOT_TAKEN"} : fact' = [fact EXCEPT ![c] = f]
  /\ UNCHANGED <<permit, made, belief>>

\* A belief becomes definite only as the truth, and is then never revised.
Believe(c) ==
  /\ permit[c] = "GRANTED"
  /\ \/ belief[c] = "NONE" /\ belief' = [belief EXCEPT ![c] = "UNKNOWN"]
     \/ /\ belief[c] \in {"NONE", "UNKNOWN"}
        /\ fact[c] \in {"TAKEN", "NOT_TAKEN"}
        /\ belief' = [belief EXCEPT ![c] = fact[c]]
  /\ UNCHANGED <<permit, made, fact>>

ContractNext ==
  \E c \in Call : Grant(c) \/ Withdraw(c) \/ Make(c) \/ Decide(c) \/ Believe(c)

Contract == ContractInit /\ [][ContractNext]_contractVars

(***************************************************************************)
(* What follows: the provider never bills more calls than the cycle can    *)
(* pay for.                                                                *)
(***************************************************************************)
Billed == {c \in Call : fact[c] = "TAKEN"}
BilledWithinBudget == Cardinality(Billed) <= Budget
===============================================================================
