----------------------------- MODULE MCDelivery -----------------------------
(* Small instances of Delivery: the runs of these all touch the one word.    *)
EXTENDS Delivery

CONSTANT word

MCTouched == [r \in Runs |-> {word}]
=============================================================================
