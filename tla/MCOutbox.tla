------------------------------ MODULE MCOutbox ------------------------------
(* One event with two attempts and two subscribers: one of its own topic,  *)
(* one of every topic.  Events do not interact, so that one shows what     *)
(* several workers can do to any.                                          *)
EXTENDS Outbox, TLC

CONSTANTS e1

MCTopic == e1 :> "auth.password_changed"
MCTopicSubscribers == "auth.password_changed" :> <<"notifications">>
MCAnySubscribers == <<"any">>
MCMaxAttempts == e1 :> 2
=============================================================================
