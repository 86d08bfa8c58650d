-------------------------- MODULE ObjectStoreContract --------------------------
(***************************************************************************)
(* What the object store promises its callers: an object appears whole, in *)
(* one step, and is what one caller asked to store; a caller is told it is *)
(* stored only after that; whoever may not overwrite stores only where     *)
(* nothing is; and a reader is given what its key held when it looked,     *)
(* however long it reads and whatever is stored meanwhile.                 *)
(*                                                                         *)
(* Each variable holds, for its key or call, a set with one element or     *)
(* none.                                                                   *)
(***************************************************************************)
CONSTANTS Key, Call, Value

VARIABLES
  store,   \* the value under each key
  asked,   \* what each call asks to store
  holding, \* what each reader found when it looked
  answer   \* what each call was told

promised == <<store, asked, holding, answer>>

Ask(c) ==
  /\ asked[c] = {}
  /\ \E k \in Key, v \in Value, over \in BOOLEAN :
       asked' = [asked EXCEPT ![c] = {[key |-> k, value |-> v, over |-> over]}]
  /\ UNCHANGED <<store, holding, answer>>

Put(c) ==
  \E a \in asked[c] :
    /\ a.over \/ store[a.key] = {}
    /\ store' = [store EXCEPT ![a.key] = {a.value}]
    /\ asked' = [asked EXCEPT ![c] = {}]
    /\ answer' = [answer EXCEPT ![c] = {[key |-> a.key, value |-> a.value]}]
    /\ UNCHANGED holding

Remove(k) ==
  /\ store' = [store EXCEPT ![k] = {}]
  /\ UNCHANGED <<asked, holding, answer>>

Look(c) ==
  \E k \in Key : \E v \in store[k] :
    /\ holding[c] = {}
    /\ holding' = [holding EXCEPT ![c] = {[key |-> k, value |-> v]}]
    /\ UNCHANGED <<store, asked, answer>>

Return(c) ==
  /\ holding[c] # {}
  /\ answer' = [answer EXCEPT ![c] = holding[c]]
  /\ UNCHANGED <<store, asked, holding>>

\* A call that is given up, refused or over asks for nothing and holds nothing.
Leave(c) ==
  /\ asked' = [asked EXCEPT ![c] = {}]
  /\ holding' = [holding EXCEPT ![c] = {}]
  /\ answer' = [answer EXCEPT ![c] = {}]
  /\ UNCHANGED store

ContractInit ==
  /\ store = [k \in Key |-> {}]
  /\ asked = [c \in Call |-> {}]
  /\ holding = [c \in Call |-> {}]
  /\ answer = [c \in Call |-> {}]

ContractNext ==
  \/ \E c \in Call : Ask(c) \/ Put(c) \/ Look(c) \/ Return(c) \/ Leave(c)
  \/ \E k \in Key : Remove(k)

ContractSpec == ContractInit /\ [][ContractNext]_promised
===============================================================================
