----------------------------- MODULE MCTurnDelivery -----------------------------
(* An instance of TurnDelivery: three messages, of which the first books a   *)
(* visit, the second asks something or cancels, and the third books again or *)
(* moves the visit.                                                          *)
EXTENDS TurnDelivery

BookFirst == {<<"book", "answer", "book">>, <<"book", "cancel", "move">>}
=================================================================================
