----------------------------- MODULE PhotoContract -----------------------------
(***************************************************************************)
(* What a property's photos promise, whoever checks, reviews and deletes   *)
(* them at once: a photo is offered when it was checked, shows the checked  *)
(* file in both of its forms and never another; what was refused is not    *)
(* offered again; and what is being deleted stays so.                      *)
(***************************************************************************)
CONSTANTS Photo, Good

VARIABLES
  standing, \* "AWAITED", "OFFERED", "REFUSED" or "LEAVING"
  image,    \* the file the photo shows, while it is offered
  small     \* and the one its thumbnail shows

promised == <<standing, image, small>>

ContractInit ==
  /\ standing = [p \in Photo |-> "AWAITED"]
  /\ image = [p \in Photo |-> "none"]
  /\ small = image

Offer(p) ==
  /\ standing[p] = "AWAITED"
  /\ standing' = [standing EXCEPT ![p] = "OFFERED"]
  /\ \E file \in Good : image' = [image EXCEPT ![p] = file] /\ small' = [small EXCEPT ![p] = file]

GoesAway(p, as) ==
  /\ standing' = [standing EXCEPT ![p] = as]
  /\ image' = [image EXCEPT ![p] = "none"]
  /\ small' = [small EXCEPT ![p] = "none"]

Refuse(p) == standing[p] \in {"AWAITED", "OFFERED"} /\ GoesAway(p, "REFUSED")
Delete(p) == standing[p] # "LEAVING" /\ GoesAway(p, "LEAVING")

ContractSpec ==
  ContractInit /\ [][\E p \in Photo : Offer(p) \/ Refuse(p) \/ Delete(p)]_promised
===============================================================================
