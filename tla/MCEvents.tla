------------------------------ MODULE MCEvents ------------------------------
(* Configurations for Events. *)
EXTENDS Events

Config(limit, queueLimit, overflow, onError, debounce) ==
  [limit |-> limit, queueLimit |-> queueLimit, overflow |-> overflow,
   onError |-> onError, debounce |-> debounce]

\* Every overflow and error policy, a limit, no limit, and debouncing.
Governed == {Config(0, 1, "drop_newest", "propagate", FALSE),
             Config(2, 1, "drop_oldest", "mute", FALSE),
             Config(0, 2, "error", "remove", FALSE),
             Config(0, 0, "drop_newest", "ignore", TRUE)}

\* The default error policy alone.
Propagating == {Config(0, 0, "drop_newest", "propagate", FALSE)}
=============================================================================
