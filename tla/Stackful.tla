------------------------------ MODULE Stackful ------------------------------
(***************************************************************************)
(* What the coroutine library promises to a Lua program: every coroutine   *)
(* has a stack of activations of its own.  coroutine.yield leaves that     *)
(* stack as it is and coroutine.resume continues at its top; an error      *)
(* takes activations off until a protected call catches it.                *)
(*                                                                         *)
(* Module Continuation, where a Go stack is unwound by every yield and     *)
(* rebuilt by every resume, implements this module.                        *)
(***************************************************************************)
EXTENDS Integers, Sequences

CONSTANTS Threads, Main

\* The activations of a stack, innermost first: "lua" for a Lua closure,
\* "pcall", "xpcall" and "handler" (xpcall while its handler runs), "callback"
\* for a library function calling back, and "entry" for an entry function that
\* has not started.

VARIABLES
  life,   \* "none", "alive" or "dead"
  stack,  \* the activations of a coroutine
  chain,  \* the coroutines resumed and not yet back, innermost last
  mode    \* "run": the top activation runs; "ret" or "err": it has ended

vars == <<life, stack, chain, mode>>

Running == chain[Len(chain)]
Resumed == {chain[i] : i \in 1..Len(chain)}
Back    == SubSeq(chain, 1, Len(chain) - 1)

\* The stack of the running coroutine changes from its top f to g.
Replaces(f, g) ==
  /\ chain # <<>>
  /\ stack[Running] # <<>> /\ Head(stack[Running]) = f
  /\ stack' = [stack EXCEPT ![Running] = g \o Tail(@)]

Init ==
  /\ life = [t \in Threads |-> "none"]
  /\ stack = [t \in Threads |-> <<>>]
  /\ chain = <<>>
  /\ mode = "run"

Create(t) ==
  /\ mode = "run" /\ life[t] = "none"
  /\ life' = [life EXCEPT ![t] = "alive"]
  /\ stack' = [stack EXCEPT ![t] = <<"entry">>]
  /\ UNCHANGED <<chain, mode>>

\* The first resume starts the entry function, a later one returns into the
\* activation that called yield.
Resume(t) ==
  /\ mode = "run" /\ life[t] = "alive" /\ t \notin Resumed
  /\ chain' = Append(chain, t)
  /\ IF stack[t] = <<"entry">>
     THEN stack' = [stack EXCEPT ![t] = <<"lua">>] /\ UNCHANGED mode
     ELSE mode' = "ret" /\ UNCHANGED stack
  /\ UNCHANGED life

\* A Lua function calls a function, at once or through pcall, xpcall or a
\* library function.
Call ==
  /\ mode = "run"
  /\ \E g \in {<<>>, <<"pcall">>, <<"xpcall">>, <<"callback">>} :
       Replaces("lua", <<"lua">> \o g \o <<"lua">>)
  /\ UNCHANGED <<life, chain, mode>>

\* A Lua function returns or fails.
Leave ==
  /\ mode = "run"
  /\ Replaces("lua", <<>>)
  /\ mode' \in {"ret", "err"}
  /\ UNCHANGED <<life, chain>>

\* yield called by a Lua function, in tail position, or by pcall itself.
Yield ==
  /\ mode = "run"
  /\ \E g \in {<<"lua">>, <<>>, <<"pcall", "lua">>, <<"xpcall", "lua">>} : Replaces("lua", g)
  /\ chain' = Back
  /\ mode' = "ret"
  /\ UNCHANGED life

\* What the activation below does with a result or an error.
LuaReceives      == mode = "ret" /\ Replaces("lua", <<"lua">>) /\ mode' = "run"
LuaFails         == mode = "err" /\ Replaces("lua", <<>>) /\ UNCHANGED mode
ProtectedEnds(f) == Replaces(f, <<>>) /\ mode' = "ret"
HandlerStarts    == mode = "err" /\ Replaces("xpcall", <<"lua", "handler">>) /\ mode' = "run"
CallbackEnds     == Replaces("callback", <<>>) /\ UNCHANGED mode

Deliver ==
  /\ mode \in {"ret", "err"}
  /\ \/ LuaReceives
     \/ LuaFails
     \/ ProtectedEnds("pcall") \/ ProtectedEnds("handler")
     \/ mode = "ret" /\ ProtectedEnds("xpcall")
     \/ HandlerStarts
     \/ CallbackEnds
  /\ UNCHANGED <<life, chain>>

\* A coroutine ends with its last activation; an error nothing catches may
\* drop the Lua activations it passes together.  resume turns the error into
\* a result, wrap raises it again.
Finish ==
  /\ chain # <<>>
  /\ \/ mode = "ret" /\ stack[Running] = <<>> /\ mode' = "ret"
     \/ /\ mode = "err" /\ mode' \in {"ret", "err"}
        /\ \A i \in 1..Len(stack[Running]) : stack[Running][i] = "lua"
  /\ life' = [life EXCEPT ![Running] = "dead"]
  /\ stack' = [stack EXCEPT ![Running] = <<>>]
  /\ chain' = Back

\* The host got its result.
HostReceives ==
  /\ chain = <<>> /\ mode # "run"
  /\ mode' = "run"
  /\ UNCHANGED <<life, stack, chain>>

Next ==
  \/ \E t \in Threads : Create(t) \/ Resume(t)
  \/ Call \/ Leave \/ Yield \/ Deliver \/ Finish \/ HostReceives

Spec == Init /\ [][Next]_vars
=============================================================================
