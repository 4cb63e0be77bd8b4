------------------------------ MODULE MCRunner ------------------------------
(***************************************************************************)
(* Values for the constants of Runner: a notification over two channels    *)
(* with a retry; one after a shell command that must not fail; a type of   *)
(* step nobody knows, under an id used twice; no steps at all; an override *)
(* of the channels.                                                        *)
(***************************************************************************)
EXTENDS Runner

CONSTANTS ops, alice

Webhook == [id |-> "main", kind |-> "webhook", channels |-> <<>>, retry |-> 0, cont |-> TRUE]
Shell == [id |-> "main", kind |-> "shell", channels |-> <<>>, retry |-> 0, cont |-> FALSE]
Unknown == [id |-> "main", kind |-> "unknown", channels |-> <<>>, retry |-> 0, cont |-> TRUE]
Notify(list, retry) ==
  [id |-> "tell", kind |-> "notify", channels |-> list, retry |-> retry, cont |-> TRUE]

MCPlans ==
  {<<>>, <<Notify(<<ops, alice>>, 2)>>, <<Unknown, Webhook>>,
   <<Shell, Notify(<<ops>>, 0)>>, <<[Unknown EXCEPT !.id = "odd"]>>}

MCOverrides == {<<>>, [id \in {"tell"} |-> <<alice, ops>>]}
=============================================================================
