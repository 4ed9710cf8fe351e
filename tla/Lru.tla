-------------------------------- MODULE Lru --------------------------------
(***************************************************************************)
(* What an intern ledger promises: it files things under hashes, and what  *)
(* it gives up when it must is the one used least recently.                *)
(***************************************************************************)
EXTENDS Naturals

CONSTANTS Hashes, Ids, None
VARIABLES
  used,   \* when each thing held was last used
  filed,  \* the hash it is filed under
  gave,   \* what was just given up, None when nothing was
  clock
vars == <<used, filed, gave, clock>>

Held == DOMAIN used
Without(f, id) == [i \in DOMAIN f \ {id} |-> f[i]]
With(f, id, v) == [i \in DOMAIN f \cup {id} |-> IF i = id THEN v ELSE f[i]]

Init == used = << >> /\ filed = << >> /\ gave = None /\ clock = 0

Use(id, hash) ==
  /\ used' = With(used, id, clock)
  /\ filed' = With(filed, id, hash)
  /\ clock' = clock + 1 /\ gave' = None
Insert(id, hash) == id \notin Held /\ Use(id, hash)
Touch(id) == id \in Held /\ Use(id, filed[id])
Drop(id) == used' = Without(used, id) /\ filed' = Without(filed, id) /\ UNCHANGED clock
EvictOldest(id) ==
  /\ id \in Held /\ \A other \in Held : used[id] <= used[other]
  /\ Drop(id) /\ gave' = id
Remove(id) == id \in Held /\ Drop(id) /\ gave' = None

Next ==
  \/ \E id \in Ids, hash \in Hashes : Insert(id, hash)
  \/ \E id \in Held : Touch(id) \/ EvictOldest(id) \/ Remove(id)
Spec == Init /\ [][Next]_vars
=============================================================================
