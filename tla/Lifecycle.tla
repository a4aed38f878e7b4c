----------------------------- MODULE Lifecycle -----------------------------
(***************************************************************************)
(* What the user of a TcpConnection sees of its life: connectionCb_ is     *)
(* called once when the connection is up and once when it is down, and     *)
(* only then is its channel taken out of the loop, for good.               *)
(***************************************************************************)
EXTENDS Sequences

VARIABLES
  told,   \* what connectionCb_ was called for, in order
  gone    \* ConnectionDestroyed has removed the channel

Init == told = <<>> /\ gone = FALSE

\* ConnectionEstablished.
Up == ~gone /\ told = <<>> /\ told' = <<"up">> /\ UNCHANGED gone

\* handleClose, or ConnectionDestroyed of a connection that is still up.
Down == ~gone /\ told = <<"up">> /\ told' = <<"up", "down">> /\ UNCHANGED gone

Remove ==
  /\ ~gone /\ gone'
  /\ told' = <<"up", "down">>
  /\ told \in {<<"up">>, <<"up", "down">>}

Next == Up \/ Down \/ Remove

Spec == Init /\ [][Next]_<<told, gone>>

=============================================================================
