--------------------------- MODULE ConnectionPool ---------------------------
(***************************************************************************)
(* What the connection server promises, without table, polling or buffers: *)
(* connections are admitted in the order they arrived, at most Capacity    *)
(* are held, one request at a time is served and only for a connection     *)
(* that is held, a connection is never taken away while another one is     *)
(* being served, and a server that stopped stays stopped.                  *)
(***************************************************************************)
EXTENDS Integers, Sequences, FiniteSets

CONSTANTS Conns, Capacity, None

VARIABLES
  stopped,
  pending,   \* connections not yet admitted, oldest first
  held,      \* connections admitted
  serving    \* the connection whose request is being answered, or None

poolVars == <<stopped, pending, held, serving>>

PoolInit == stopped = FALSE /\ pending = <<>> /\ held = {} /\ serving = None

Arrive(c) ==
  /\ ~stopped
  /\ c \notin held /\ \A k \in DOMAIN pending : pending[k] # c
  /\ pending' = Append(pending, c)
  /\ UNCHANGED <<stopped, held, serving>>

Admit ==
  /\ serving = None
  /\ pending # <<>>
  /\ Cardinality(held) < Capacity
  /\ held' = held \cup {Head(pending)}
  /\ pending' = Tail(pending)
  /\ UNCHANGED <<stopped, serving>>

\* The oldest connection is gone before it could be admitted.
Abandon ==
  /\ serving = None
  /\ pending # <<>>
  /\ pending' = Tail(pending)
  /\ UNCHANGED <<stopped, held, serving>>

Begin(c) ==
  /\ serving = None
  /\ c \in held
  /\ serving' = c
  /\ UNCHANGED <<stopped, pending, held>>

Finish ==
  /\ serving # None
  /\ serving' = None
  /\ UNCHANGED <<stopped, pending, held>>

\* Between requests any connections may go, during one only the served one.
Release(S) ==
  /\ S \subseteq held
  /\ serving = None \/ S = {serving}
  /\ held' = held \ S
  /\ serving' = None
  /\ UNCHANGED <<stopped, pending>>

Stop ==
  /\ ~stopped
  /\ stopped' = TRUE
  /\ pending' = <<>>
  /\ held' = {}
  /\ serving' = None

PoolNext ==
  \/ \E c \in Conns : Arrive(c) \/ Begin(c)
  \/ \E S \in SUBSET held : Release(S)
  \/ Admit \/ Abandon \/ Finish \/ Stop

PoolSpec == PoolInit /\ [][PoolNext]_poolVars

=============================================================================
