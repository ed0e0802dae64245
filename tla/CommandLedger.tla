---------------------------- MODULE CommandLedger ----------------------------
(***************************************************************************)
(* What an idempotent command endpoint promises its clients: a key takes   *)
(* effect at most once, an effect is never undone or renumbered, and a     *)
(* client is told "done" only about an effect that took place, always with *)
(* the event of that one effect, however often and wherever it retries.    *)
(***************************************************************************)
EXTENDS Naturals, Sequences

CONSTANT Commands   \* requests, each a record with its idempotency key

VARIABLES
  effects,   \* the commands that took effect, in the order they did
  told       \* what clients know: a command and the event that it caused

Init == effects = <<>> /\ told = {}

TakeEffect(c) ==
  /\ \A i \in DOMAIN effects : effects[i].key # c.key
  /\ effects' = Append(effects, c)
  /\ UNCHANGED told

Tell(i) ==
  /\ told' = told \cup {[cmd |-> effects[i], event |-> i]}
  /\ UNCHANGED effects

Next == \/ \E c \in Commands : TakeEffect(c)
        \/ \E i \in DOMAIN effects : Tell(i)

Spec == Init /\ [][Next]_<<effects, told>>
=============================================================================
