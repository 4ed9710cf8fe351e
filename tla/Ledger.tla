------------------------------- MODULE Ledger -------------------------------
(***************************************************************************)
(* The bookkeeping the content-addressed stores share (src/emu/intern.rs): *)
(* hash buckets, and a doubly linked list threaded through the table of    *)
(* entries by id, oldest to newest.  used and clock are histories: when    *)
(* each entry was last used, which the code keeps only as the list, and    *)
(* gave what an eviction answered.                                         *)
(***************************************************************************)
EXTENDS Naturals

CONSTANTS
  Hashes,   \* the buckets
  MaxIds,   \* ids handed out; the code's counter has 32 bits
  MaxUses   \* bound on inserts and touches
ASSUME LedgerAssumption == MaxIds \in Nat /\ MaxUses \in Nat

VARIABLES
  byHash,  \* the ids in each bucket
  hash,    \* per entry: the bucket it was filed under
  older,   \* per entry: its neighbour towards the oldest, None at the end
  newer,   \* per entry: its neighbour towards the newest
  oldest, newest, next,
  gave,    \* what the last call to evict_oldest returned, None after any other
  used, clock
list == <<older, newer, oldest, newest>>
vars == <<byHash, hash, list, next, gave, used, clock>>

Id == 0..MaxIds
None == MaxIds + 1
Entries == DOMAIN hash
At(f, id, v) == [i \in DOMAIN f |-> IF i = id THEN v ELSE f[i]]
Without(f, id) == [i \in DOMAIN f \ {id} |-> f[i]]
With(f, id, v) == [i \in DOMAIN f \cup {id} |-> IF i = id THEN v ELSE f[i]]

List == [older |-> older, newer |-> newer, oldest |-> oldest, newest |-> newest]

(* Broken: taking out the oldest leaves it the oldest.                     *)
UnlinkForgettingOldest(l, id) ==
  [older |-> Without(At(l.older, l.newer[id], l.older[id]), id),
   newer |-> Without(At(l.newer, l.older[id], l.newer[id]), id),
   oldest |-> l.oldest,
   newest |-> IF l.newer[id] = None THEN l.older[id] ELSE l.newest]

(* The list with an entry taken out: each neighbour, or the end where      *)
(* there is none, gets the other.                                          *)
Unlink(l, id) ==
  [older |-> Without(At(l.older, l.newer[id], l.older[id]), id),
   newer |-> Without(At(l.newer, l.older[id], l.newer[id]), id),
   oldest |-> IF l.older[id] = None THEN l.newer[id] ELSE l.oldest,
   newest |-> IF l.newer[id] = None THEN l.older[id] ELSE l.newest]

(* ...and with one put at its newest end.                                  *)
LinkNewest(l, id) ==
  [older |-> With(l.older, id, l.newest),
   newer |-> With(At(l.newer, l.newest, id), id, None),
   oldest |-> IF l.newest = None THEN id ELSE l.oldest,
   newest |-> id]

Becomes(l) == older' = l.older /\ newer' = l.newer /\ oldest' = l.oldest /\ newest' = l.newest
Uses(id) == clock < MaxUses /\ used' = With(used, id, clock) /\ clock' = clock + 1

Init ==
  /\ byHash = [h \in Hashes |-> {}] /\ hash = << >>
  /\ older = << >> /\ newer = << >> /\ oldest = None /\ newest = None
  /\ next = 0 /\ gave = None /\ used = << >> /\ clock = 0

Insert(h) ==
  /\ next < MaxIds /\ Uses(next)
  /\ byHash' = [byHash EXCEPT ![h] = @ \cup {next}]
  /\ hash' = With(hash, next, h)
  /\ Becomes(LinkNewest(List, next))
  /\ next' = next + 1 /\ gave' = None

(* Broken: a hit leaves what it found where it was.                        *)
FindInPlace(h, id) ==
  /\ id \in byHash[h] /\ Uses(id)
  /\ Becomes(List)
  /\ gave' = None /\ UNCHANGED <<byHash, hash, next>>

(* A hit moves what it found to the newest end, unless it is there.        *)
Find(h, id) ==
  /\ id \in byHash[h] /\ Uses(id)
  /\ Becomes(IF newest = id THEN List ELSE LinkNewest(Unlink(List, id), id))
  /\ gave' = None /\ UNCHANGED <<byHash, hash, next>>

Unfile(id) ==
  /\ Becomes(Unlink(List, id))
  /\ byHash' = [byHash EXCEPT ![hash[id]] = @ \ {id}]
  /\ hash' = Without(hash, id)
  /\ used' = Without(used, id)
  /\ UNCHANGED <<next, clock>>
EvictOldest == oldest # None /\ Unfile(oldest) /\ gave' = oldest
RemoveId(id) == id \in Entries /\ Unfile(id) /\ gave' = None

Next ==
  \/ \E h \in Hashes : Insert(h)
  \/ \E h \in Hashes, id \in Id : Find(h, id)
  \/ EvictOldest
  \/ \E id \in Id : RemoveId(id)
Spec == Init /\ [][Next]_vars

----------------------------------------------------------------------------
TypeOK ==
  /\ hash \in [Entries -> Hashes] /\ Entries \subseteq 0..MaxIds - 1
  /\ older \in [Entries -> Entries \cup {None}] /\ newer \in [Entries -> Entries \cup {None}]
  /\ oldest \in Entries \cup {None} /\ newest \in Entries \cup {None}
  /\ byHash \in [Hashes -> SUBSET Entries]
  /\ used \in [Entries -> 0..MaxUses - 1] /\ clock \in 0..MaxUses /\ next \in 0..MaxIds
  /\ gave \in Id \cup {None}

(* A bucket holds exactly the entries filed under its hash: a dropped      *)
(* picture's payload is never answered with the name of one that is gone.  *)
Filed == \A id \in Id, h \in Hashes : id \in byHash[h] <=> id \in Entries /\ hash[id] = h

(* The links thread every entry in the order of its last use, in both      *)
(* directions, and the two ends are the least and the most recent.         *)
Adjacent(a, b) == used[a] < used[b] /\ ~\E c \in Entries : used[a] < used[c] /\ used[c] < used[b]
Threaded ==
  /\ \A a, b \in Entries : a # b => used[a] # used[b]
  /\ \A a, b \in Entries : newer[a] = b <=> Adjacent(a, b)
  /\ \A a, b \in Entries : older[b] = a <=> Adjacent(a, b)
  /\ \A a \in Entries : newer[a] = None <=> \A b \in Entries : used[b] <= used[a]
  /\ \A a \in Entries : older[a] = None <=> \A b \in Entries : used[a] <= used[b]
  /\ \A a \in Entries : oldest = a <=> \A b \in Entries : used[a] <= used[b]
  /\ \A a \in Entries : newest = a <=> \A b \in Entries : used[b] <= used[a]

(* The ledger is a least-recently-used store: what evict_oldest gives up   *)
(* is the entry whose last use is the longest ago, by the history and not  *)
(* by the list, and nothing else is lost, refiled or made up.              *)
Abstract == INSTANCE Lru WITH filed <- hash, Ids <- Id
LeastRecentlyUsed == Abstract!Spec
=============================================================================
