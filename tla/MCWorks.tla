------------------------------ MODULE MCWorks ------------------------------
(***************************************************************************)
(* What surrounds a bill run, for TLC: rate cards are kept and usage is    *)
(* rated before it, invoices are posted and delivered after it.  These     *)
(* share no state, and a behaviour is of one of them.                      *)
(***************************************************************************)
EXTENDS MCDistribution, MCRating, RateCardProps

VARIABLE end

worksVars == <<vars, ratingVars, cardVars, end>>

WorksInit == Init /\ RatingInit /\ CardInit /\ end \in {"cards", "usage", "invoices"}

WorksNext ==
    /\ end' = end
    /\ \/ end = "invoices" /\ Next /\ UNCHANGED <<ratingVars, cardVars>>
       \/ end = "usage" /\ RatingDesk /\ UNCHANGED <<vars, cardVars>>
       \/ end = "cards" /\ CardNext /\ UNCHANGED <<vars, ratingVars>>

WorksSpec == WorksInit /\ [][WorksNext]_worksVars

=============================================================================
