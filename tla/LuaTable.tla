------------------------------ MODULE LuaTable ------------------------------
(***************************************************************************)
(* What a Lua table promises whoever uses it: a key holds the last value   *)
(* assigned to it, whatever area of the table it is stored in, and a       *)
(* traversal with next meets every remaining key once, provided that the   *)
(* program only assigns to fields the table has.                           *)
(*                                                                         *)
(* "disturbed" is where this implementation promises less than Lua: once   *)
(* the control key has been cleared and something else has read the table  *)
(* with next, continuing may be refused.                                   *)
(***************************************************************************)
CONSTANTS Keys, Values, Nil

VARIABLES content,    \* the value of each key
          seen,       \* the keys the traversal has met
          control,    \* the key it met last, Nil before the first
          traversal,  \* "off", "on", or "refused"
          disturbed   \* see above

vars == <<content, seen, control, traversal, disturbed>>

Present == {k \in Keys : content[k] # Nil}

Init ==
  /\ content = [k \in Keys |-> Nil]
  /\ seen = {}
  /\ control = Nil
  /\ traversal = "off"
  /\ disturbed = FALSE

Stopped ==
  /\ seen' = {}
  /\ control' = Nil
  /\ disturbed' = FALSE

\* Assignments to some keys; a key that appears ends the traversal's promise.
Change ==
  /\ content' \in [Keys -> Values \cup {Nil}]
  /\ IF \E k \in Keys : content[k] = Nil /\ content'[k] # Nil
     THEN traversal' = "off" /\ Stopped
     ELSE UNCHANGED <<seen, control, traversal, disturbed>>

Begin ==
  /\ traversal' = "on"
  /\ Stopped
  /\ UNCHANGED content

\* Another reader of the table, between two steps of the traversal.
Read ==
  /\ disturbed' = (disturbed \/ (control # Nil /\ control \notin Present))
  /\ UNCHANGED <<content, seen, control, traversal>>

Continue ==
  /\ traversal = "on"
  /\ \E k \in Present \ seen :
       /\ seen' = seen \cup {k}
       /\ control' = k
  /\ disturbed' = FALSE
  /\ UNCHANGED <<content, traversal>>

End ==
  /\ traversal = "on"
  /\ Present \subseteq seen
  /\ traversal' = "off"
  /\ Stopped
  /\ UNCHANGED content

Refuse ==
  /\ traversal = "on"
  /\ disturbed
  /\ traversal' = "refused"
  /\ Stopped
  /\ UNCHANGED content

Next == Change \/ Begin \/ Read \/ Continue \/ End \/ Refuse

Spec == Init /\ [][Next]_vars
=============================================================================
