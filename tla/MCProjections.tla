--------------------------- MODULE MCProjections ---------------------------
(* Short conversations, one per kind of subject, delivered in any order.     *)
EXTENDS Projections

Event(id, type, sender, seq, at, target, val) ==
    [id |-> id, type |-> type, sender |-> sender, seq |-> seq, at |-> at, target |-> target,
     val |-> val, conv |-> "c", closes |-> 2, owner |-> sender]

MCScripts ==
  { {Event(1, "message.created", 1, 1, 0, 0, ""), Event(2, "message.edited", 1, 2, 0, 1, ""),
     Event(3, "message.edited", 1, 3, 0, 1, ""), Event(4, "message.retracted", 1, 4, 0, 1, "")},
    {Event(1, "message.created", 1, 1, 0, 0, ""), Event(2, "reaction.added", 2, 1, 0, 1, "x"),
     Event(3, "reaction.removed", 2, 2, 0, 1, "x"), Event(4, "reaction.added", 2, 3, 0, 1, "y")},
    {Event(1, "message.created", 1, 2, 1, 0, ""), Event(2, "message.created", 2, 1, 2, 1, ""),
     [Event(3, "message.created", 2, 2, 0, 1, "") EXCEPT !.conv = "other"],
     Event(4, "message.retracted", 2, 3, 0, 1, "")},
    {Event(1, "poll.created", 1, 1, 0, 0, ""), Event(2, "poll.responded", 2, 1, 0, 1, "yes"),
     Event(3, "poll.responded", 2, 2, 0, 1, "no"), Event(4, "receipt", 2, 3, 0, 1, "seen")},
    {[Event(1, "task.created", 1, 1, 0, 0, "") EXCEPT !.owner = 2],
     Event(2, "task.updated", 2, 1, 0, 1, "done"), Event(3, "task.updated", 1, 3, 1, 1, "open"),
     Event(4, "message.edited", 1, 4, 1, 1, "")},
    {Event(1, "human.requested", 2, 1, 0, 0, ""), Event(2, "human.responded", 1, 1, 0, 1, "recorded"),
     Event(3, "human.responded", 1, 2, 0, 1, ""), Event(4, "security.key", 1, 3, 1, 0, "")},
    {Event(1, "delivery.scheduled", 1, 1, 0, 0, "i"), Event(2, "delivery.scheduled", 1, 2, 0, 0, "i"),
     Event(3, "delivery.canceled", 1, 3, 0, 1, ""), Event(4, "delivery.canceled", 2, 1, 0, 1, "")},
    {[Event(1, "poll.created", 1, 1, 2, 0, "") EXCEPT !.closes = 1],
     Event(2, "poll.responded", 2, 1, 2, 1, "bad"), Event(3, "relationship.ready", 2, 2, 0, 0, ""),
     Event(4, "receipt", 2, 3, 0, 3, "accepted")},
    {Event(1, "task.created", 1, 1, 0, 0, ""), Event(2, "message.edited", 1, 2, 0, 1, ""),
     Event(3, "message.edited", 2, 1, 0, 2, "")} }
=============================================================================
