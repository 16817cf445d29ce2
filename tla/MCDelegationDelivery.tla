-------------------------- MODULE MCDelegationDelivery --------------------------
(* The instance of DelegationDelivery for TLC is given by its configuration; with *)
(* a liveness property among those checked, symmetry would not be sound.          *)
EXTENDS DelegationDelivery

================================================================================
