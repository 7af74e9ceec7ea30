------------------------------ MODULE MCDelivery ------------------------------
(* TLC instances of Delivery. *)
EXTENDS Delivery, TLC

AllChannels == {"inApp", "ws", "email", "webhook"}
\* One socket per replica while they last.
Spread == CHOOSE f \in [Sockets -> Replicas] :
              \A r \in Replicas : \E s \in Sockets : f[s] = r
=============================================================================
