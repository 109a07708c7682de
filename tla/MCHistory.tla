----------------------------- MODULE MCHistory -----------------------------
(* History on a small instance: three messages of one application, two of  *)
(* them of the same time, and one or two of another.                       *)
EXTENDS History

Message(id, app, timestamp) == [id |-> id, app |-> app, timestamp |-> timestamp]

SomeRows == {Message(2, "a", 1), Message(1, "a", 2), Message(4, "a", 2),
             Message(3, "b", 1), Message(5, "b", 2)}
=============================================================================
