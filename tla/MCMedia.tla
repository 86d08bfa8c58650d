-------------------------------- MODULE MCMedia --------------------------------
(* A clip that is good or bad, a master that is good, unusable or too large, a *)
(* disclosed video that is good, off its plan or too large.                    *)
EXTENDS MediaProperties
===============================================================================
