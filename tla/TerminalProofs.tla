--------------------------- MODULE TerminalProofs ---------------------------
(***************************************************************************)
(* The parts of the terminal that share nothing: the two stores that give  *)
(* things up, the intern ledger and the tracked pictures, and the parser.  *)
(*                                                                         *)
(* The ledger's list is threaded right for any number of hashes, ids and   *)
(* uses, and the ledger is the store that evicts what was used least       *)
(* recently.  Chain is what the two list operations preserve, said of any  *)
(* set of entries E, any times of use u and any list l: each entry's       *)
(* neighbours are its nearest in time.  Threaded says the same of the      *)
(* state as an equivalence, and follows.                                   *)
(*                                                                         *)
(* The emulator and Emacs agree about pictures, for any sessions, any      *)
(* screen, any cap on what is tracked and any cap on what Emacs keeps; and *)
(* no graphics transfer ends without an answer.  A picture is told of in   *)
(* four places, the tracked list, the queue, the update under way and      *)
(* Emacs, and no two of them change together.  The invariant says what     *)
(* each may hold given the other three.                                    *)
(*                                                                         *)
(* The parser takes a read in bulk scans and is left as one told of each   *)
(* byte alone, for any bytes and any reads of whole characters.  Meets is  *)
(* what a turn of its loop does: it ends as the bytes it took end, or no   *)
(* next byte can tell the two apart.                                       *)
(***************************************************************************)
EXTENDS Ledger, Pictures, Stream, WellFoundedInduction, TLAPS

-----------------------------------------------------------------------------
(* The ledger *)

Links(E, l) ==
  /\ l.older \in [E -> E \cup {None}] /\ l.newer \in [E -> E \cup {None}]
  /\ l.oldest \in E \cup {None} /\ l.newest \in E \cup {None}
InTurn(E, u) == \A a, b \in E : u[a] = u[b] => a = b
Ahead(E, u, l) ==
  \A a, c \in E :
    /\ l.newer[a] \in E => u[a] < u[l.newer[a]] /\ (u[c] <= u[a] \/ u[l.newer[a]] <= u[c])
    /\ l.newer[a] = None => u[c] <= u[a]
Behind(E, u, l) ==
  \A a, c \in E :
    /\ l.older[a] \in E => u[l.older[a]] < u[a] /\ (u[a] <= u[c] \/ u[c] <= u[l.older[a]])
    /\ l.older[a] = None => u[a] <= u[c]
Ends(E, u, l) ==
  \A c \in E : l.oldest \in E /\ l.newest \in E /\ u[l.oldest] <= u[c] /\ u[c] <= u[l.newest]
Chain(E, u, l) == Links(E, l) /\ InTurn(E, u) /\ Ahead(E, u, l) /\ Behind(E, u, l) /\ Ends(E, u, l)

\* Neighbours are neighbours both ways, and an entry is never its own.
LEMMA Mutual ==
  ASSUME NEW E, None \notin E, NEW u, \A e \in E : u[e] \in Nat, NEW l, Chain(E, u, l),
         NEW a \in E, NEW b \in E
  PROVE  /\ a # b /\ l.newer[a] = b => l.older[b] = a
         /\ a # b /\ l.older[a] = b => l.newer[b] = a
         /\ l.newer[a] # a /\ l.older[a] # a
<1> USE DEF Chain
<1>0. l.newer[a] \in E \cup {None} /\ l.older[b] \in E \cup {None}
      /\ l.older[a] \in E \cup {None} /\ l.newer[b] \in E \cup {None}
  BY DEF Links
<1>1. l.newer[a] # a /\ l.older[a] # a
  BY DEF Ahead, Behind
<1>2. ASSUME a # b, l.newer[a] = b  PROVE l.older[b] = a
  <2> DEFINE p == l.older[b]
  <2>1. u[a] < u[b] /\ (p \in E => u[p] <= u[a] \/ u[b] <= u[p])
    BY <1>2 DEF Ahead
  <2>2. p # None
    BY <2>1 DEF Behind
  <2>3. p \in E /\ u[p] < u[b] /\ (u[b] <= u[a] \/ u[a] <= u[p])
    BY <1>0, <2>2 DEF Behind
  <2>4. u[p] = u[a]
    BY <2>1, <2>3
  <2> QED BY <2>3, <2>4 DEF InTurn
<1>3. ASSUME a # b, l.older[a] = b  PROVE l.newer[b] = a
  <2> DEFINE n == l.newer[b]
  <2>1. u[b] < u[a] /\ (n \in E => u[a] <= u[n] \/ u[n] <= u[b])
    BY <1>3 DEF Behind
  <2>2. n # None
    BY <2>1 DEF Ahead
  <2>3. n \in E /\ u[b] < u[n] /\ (u[a] <= u[b] \/ u[n] <= u[a])
    BY <1>0, <2>2 DEF Ahead
  <2>4. u[n] = u[a]
    BY <2>1, <2>3
  <2> QED BY <2>3, <2>4 DEF InTurn
<1> QED BY <1>1, <1>2, <1>3

\* Taking an entry out of a chain leaves a chain (Ledger::unlink).
LEMMA UnlinkChain ==
  ASSUME NEW E, None \notin E, NEW u, \A e \in E : u[e] \in Nat, NEW l, Chain(E, u, l), NEW id \in E
  PROVE  Chain(E \ {id}, u, Unlink(l, id))
<1> DEFINE m == Unlink(l, id)  F == E \ {id}  p == l.older[id]  n == l.newer[id]
<1>0. Links(E, l) /\ InTurn(E, u) /\ Ahead(E, u, l) /\ Behind(E, u, l) /\ Ends(E, u, l)
  BY DEF Chain
<1>1. /\ m.older = [i \in F |-> IF i = n THEN p ELSE l.older[i]]
      /\ m.newer = [i \in F |-> IF i = p THEN n ELSE l.newer[i]]
      /\ m.oldest = IF p = None THEN n ELSE l.oldest
      /\ m.newest = IF n = None THEN p ELSE l.newest
  BY <1>0 DEF Unlink, Without, At, Links
<1>2. p \in F \cup {None} /\ n \in F \cup {None}
  BY <1>0, Mutual DEF Links
<1>3. \A a \in F : l.newer[a] \in F \cup {None} \/ a = p
  BY <1>0, Mutual DEF Links
<1>4. \A a \in F : l.older[a] \in F \cup {None} \/ a = n
  BY <1>0, Mutual DEF Links
<1>5. Links(F, m)
  <2>1. m.older \in [F -> F \cup {None}] /\ m.newer \in [F -> F \cup {None}]
    BY <1>1, <1>2, <1>3, <1>4
  <2>2. p # None => l.oldest # id
    BY <1>0, <1>2 DEF Behind, Ends
  <2>3. n # None => l.newest # id
    BY <1>0, <1>2 DEF Ahead, Ends
  <2>4. m.oldest \in F \cup {None} /\ m.newest \in F \cup {None}
    BY <1>0, <1>1, <1>2, <2>2, <2>3 DEF Links
  <2> QED BY <2>1, <2>4 DEF Links
<1>6. Ahead(F, u, m)
  <2> SUFFICES ASSUME NEW a \in F, NEW c \in F
               PROVE  /\ m.newer[a] \in F => u[a] < u[m.newer[a]] /\ (u[c] <= u[a] \/ u[m.newer[a]] <= u[c])
                      /\ m.newer[a] = None => u[c] <= u[a]
    BY DEF Ahead
  <2>1. CASE a # p
    <3>1. m.newer[a] = l.newer[a]
      BY <1>1, <2>1
    <3> QED BY <3>1, <1>0 DEF Ahead
  <2>2. CASE a = p
    <3>1. m.newer[a] = n
      BY <1>1, <2>2
    <3>2. u[a] < u[id] /\ (u[id] <= u[c] \/ u[c] <= u[a])
      BY <1>0, <2>2 DEF Behind
    <3>3. u[c] # u[id] /\ u[c] \in Nat /\ u[a] \in Nat /\ u[id] \in Nat
      BY <1>0 DEF InTurn
    <3>4. /\ n \in E => u[id] < u[n] /\ (u[c] <= u[id] \/ u[n] <= u[c])
          /\ n = None => u[c] <= u[id]
      BY <1>0 DEF Ahead
    <3>5. n \in E => u[n] \in Nat
      OBVIOUS
    <3> QED BY <1>2, <3>1, <3>2, <3>3, <3>4, <3>5
  <2> QED BY <2>1, <2>2
<1>7. Behind(F, u, m)
  <2> SUFFICES ASSUME NEW a \in F, NEW c \in F
               PROVE  /\ m.older[a] \in F => u[m.older[a]] < u[a] /\ (u[a] <= u[c] \/ u[c] <= u[m.older[a]])
                      /\ m.older[a] = None => u[a] <= u[c]
    BY DEF Behind
  <2>1. CASE a # n
    <3>1. m.older[a] = l.older[a]
      BY <1>1, <2>1
    <3> QED BY <3>1, <1>0 DEF Behind
  <2>2. CASE a = n
    <3>1. m.older[a] = p
      BY <1>1, <2>2
    <3>2. u[id] < u[a] /\ (u[c] <= u[id] \/ u[a] <= u[c])
      BY <1>0, <2>2 DEF Ahead
    <3>3. u[c] # u[id] /\ u[c] \in Nat /\ u[a] \in Nat /\ u[id] \in Nat
      BY <1>0 DEF InTurn
    <3>4. /\ p \in E => u[p] < u[id] /\ (u[id] <= u[c] \/ u[c] <= u[p])
          /\ p = None => u[id] <= u[c]
      BY <1>0 DEF Behind
    <3>5. p \in E => u[p] \in Nat
      OBVIOUS
    <3> QED BY <1>2, <3>1, <3>2, <3>3, <3>4, <3>5
  <2> QED BY <2>1, <2>2
<1>8. Ends(F, u, m)
  <2> SUFFICES ASSUME NEW c \in F
               PROVE  m.oldest \in F /\ m.newest \in F /\ u[m.oldest] <= u[c] /\ u[c] <= u[m.newest]
    BY DEF Ends
  <2>1. /\ l.oldest \in E /\ l.newest \in E /\ u[l.oldest] <= u[c] /\ u[c] <= u[l.newest]
        /\ u[l.oldest] <= u[id] /\ u[id] <= u[l.newest]
    BY <1>0 DEF Ends
  <2>2. u[c] # u[id] /\ u[c] \in Nat /\ u[id] \in Nat
    BY <1>0 DEF InTurn
  <2>3. /\ n \in E => u[id] < u[n] /\ (u[c] <= u[id] \/ u[n] <= u[c])
        /\ n = None => u[c] <= u[id]
    BY <1>0 DEF Ahead
  <2>4. /\ p \in E => u[p] < u[id] /\ (u[id] <= u[c] \/ u[c] <= u[p])
        /\ p = None => u[id] <= u[c]
    BY <1>0 DEF Behind
  <2>5. m.oldest \in F /\ u[m.oldest] <= u[c]
    <3>1. CASE p = None
      BY <1>1, <1>2, <2>2, <2>3, <2>4, <3>1
    <3>2. CASE p # None
      <4>1. u[p] < u[id] /\ u[l.oldest] <= u[p]
        BY <1>0, <1>2, <2>4, <3>2 DEF Ends
      <4>2. l.oldest # id
        BY <1>2, <2>2, <4>1, <3>2
      <4> QED BY <1>1, <2>1, <3>2, <4>2
    <3> QED BY <3>1, <3>2
  <2>6. m.newest \in F /\ u[c] <= u[m.newest]
    <3>1. CASE n = None
      BY <1>1, <1>2, <2>2, <2>3, <2>4, <3>1
    <3>2. CASE n # None
      <4>1. u[id] < u[n] /\ u[n] <= u[l.newest]
        BY <1>0, <1>2, <2>3, <3>2 DEF Ends
      <4>2. l.newest # id
        BY <1>2, <2>2, <4>1, <3>2
      <4> QED BY <1>1, <2>1, <3>2, <4>2
    <3> QED BY <3>1, <3>2
  <2> QED BY <2>5, <2>6
<1>9. InTurn(F, u)
  BY <1>0 DEF InTurn
<1> QED BY <1>5, <1>6, <1>7, <1>8, <1>9 DEF Chain

\* An entry put at the newest end of a chain, used after all the others, makes a chain
\* (Ledger::link_newest).
LEMMA LinkChain ==
  ASSUME NEW E, None \notin E, NEW u, NEW v, NEW l, Chain(E, u, l), NEW id, id \notin E, id # None,
         \A e \in E : u[e] \in Nat /\ v[e] = u[e] /\ u[e] < v[id], v[id] \in Nat
  PROVE  Chain(E \cup {id}, v, LinkNewest(l, id))
<1> DEFINE m == LinkNewest(l, id)  F == E \cup {id}
<1>0. Links(E, l) /\ InTurn(E, u) /\ Ahead(E, u, l) /\ Behind(E, u, l) /\ Ends(E, u, l)
  BY DEF Chain
<1>1. /\ m.older = [i \in F |-> IF i = id THEN l.newest ELSE l.older[i]]
      /\ m.newer = [i \in F |-> IF i = id THEN None ELSE IF i = l.newest THEN id ELSE l.newer[i]]
      /\ m.oldest = IF l.newest = None THEN id ELSE l.oldest
      /\ m.newest = id
  BY <1>0 DEF LinkNewest, With, At, Links
<1>2. Links(F, m)
  <2>1. m.older \in [F -> F \cup {None}] /\ m.newer \in [F -> F \cup {None}]
    BY <1>0, <1>1 DEF Links
  <2>2. m.oldest \in F \cup {None} /\ m.newest \in F \cup {None}
    BY <1>0, <1>1 DEF Links
  <2> QED BY <2>1, <2>2 DEF Links
<1>3. InTurn(F, v)
  BY <1>0 DEF InTurn
<1>4. \A e \in E : l.newest \in E /\ u[e] <= u[l.newest]
  BY <1>0 DEF Ends
<1>5. Ahead(F, v, m)
  <2> SUFFICES ASSUME NEW a \in F, NEW c \in F
               PROVE  /\ m.newer[a] \in F => v[a] < v[m.newer[a]] /\ (v[c] <= v[a] \/ v[m.newer[a]] <= v[c])
                      /\ m.newer[a] = None => v[c] <= v[a]
    BY DEF Ahead
  <2>1. CASE a = id
    BY <1>1, <2>1
  <2>2. CASE a # id /\ a = l.newest
    BY <1>1, <1>4, <2>2
  <2>3. CASE a # id /\ a # l.newest
    <3>1. a \in E /\ m.newer[a] = l.newer[a] /\ l.newer[a] \in E \cup {None}
      BY <1>0, <1>1, <2>3 DEF Links
    <3>2. l.newer[a] \in E
      <4>1. l.newest \in E /\ u[a] <= u[l.newest] /\ u[a] # u[l.newest]
        BY <1>0, <1>4, <2>3, <3>1 DEF InTurn
      <4> QED BY <1>0, <3>1, <4>1 DEF Ahead
    <3>3. CASE c = id
      BY <1>0, <3>1, <3>2, <3>3 DEF Ahead
    <3>4. CASE c # id
      BY <1>0, <3>1, <3>2, <3>4 DEF Ahead
    <3> QED BY <3>3, <3>4
  <2> QED BY <2>1, <2>2, <2>3
<1>6. Behind(F, v, m)
  <2> SUFFICES ASSUME NEW a \in F, NEW c \in F
               PROVE  /\ m.older[a] \in F => v[m.older[a]] < v[a] /\ (v[a] <= v[c] \/ v[c] <= v[m.older[a]])
                      /\ m.older[a] = None => v[a] <= v[c]
    BY DEF Behind
  <2>1. CASE a = id
    <3>1. m.older[a] = l.newest /\ l.newest \in E \cup {None}
      BY <1>0, <1>1, <2>1 DEF Links
    <3>2. CASE c = id
      BY <2>1, <3>1, <3>2
    <3>3. CASE c # id
      BY <1>4, <2>1, <3>1, <3>3
    <3> QED BY <3>2, <3>3
  <2>2. CASE a # id
    <3>1. a \in E /\ m.older[a] = l.older[a] /\ l.older[a] \in E \cup {None}
      BY <1>0, <1>1, <2>2 DEF Links
    <3>2. CASE c = id
      BY <1>0, <3>1, <3>2 DEF Behind
    <3>3. CASE c # id
      BY <1>0, <3>1, <3>3 DEF Behind
    <3> QED BY <3>2, <3>3
  <2> QED BY <2>1, <2>2
<1>7. Ends(F, v, m)
  <2> SUFFICES ASSUME NEW c \in F
               PROVE  m.oldest \in F /\ m.newest \in F /\ v[m.oldest] <= v[c] /\ v[c] <= v[m.newest]
    BY DEF Ends
  <2>1. m.newest \in F /\ v[c] <= v[m.newest]
    BY <1>1
  <2>2. CASE l.newest = None
    <3>1. E = {}
      BY <1>4, <2>2
    <3> QED BY <1>1, <2>1, <2>2, <3>1
  <2>3. CASE l.newest # None
    <3>1. l.newest \in E
      BY <1>0, <2>3 DEF Links
    <3>2. \A e \in E : l.oldest \in E /\ u[l.oldest] <= u[e]
      BY <1>0 DEF Ends
    <3>3. m.oldest = l.oldest /\ l.oldest \in E
      BY <1>1, <2>3, <3>1, <3>2
    <3>4. CASE c = id
      BY <2>1, <3>3, <3>4
    <3>5. CASE c # id
      BY <2>1, <3>2, <3>3, <3>5
    <3> QED BY <3>4, <3>5
  <2> QED BY <2>2, <2>3
<1> QED BY <1>2, <1>3, <1>5, <1>6, <1>7 DEF Chain

\* A chain threads every entry in the order of its last use, both ways.
LEMMA ChainThreaded ==
  ASSUME Chain(Entries, used, List), None \notin Entries, \A e \in Entries : used[e] \in Nat
  PROVE  Threaded
<1> DEFINE l == List  E == Entries  u == used
<1>0. /\ Links(E, l) /\ InTurn(E, u) /\ Ahead(E, u, l) /\ Behind(E, u, l) /\ Ends(E, u, l)
      /\ l.older = older /\ l.newer = newer /\ l.oldest = oldest /\ l.newest = newest
  BY DEF Chain, List
<1>1. ASSUME NEW a \in E, NEW b \in E  PROVE newer[a] = b <=> Adjacent(a, b)
  <2>1. ASSUME newer[a] = b  PROVE Adjacent(a, b)
    BY <1>0, <2>1 DEF Ahead, Adjacent
  <2>2. ASSUME Adjacent(a, b)  PROVE newer[a] = b
    <3>1. u[a] < u[b] /\ \A c \in E : ~(u[a] < u[c] /\ u[c] < u[b])
      BY <2>2 DEF Adjacent
    <3>2. newer[a] \in E
      BY <1>0, <3>1 DEF Links, Ahead
    <3>3. u[a] < u[newer[a]] /\ u[newer[a]] <= u[b]
      BY <1>0, <3>1, <3>2 DEF Ahead
    <3>4. u[newer[a]] = u[b]
      BY <3>1, <3>2, <3>3
    <3> QED BY <1>0, <3>2, <3>4 DEF InTurn
  <2> QED BY <2>1, <2>2
<1>2. ASSUME NEW a \in E, NEW b \in E  PROVE older[b] = a <=> Adjacent(a, b)
  <2>1. ASSUME older[b] = a  PROVE Adjacent(a, b)
    BY <1>0, <2>1 DEF Behind, Adjacent
  <2>2. ASSUME Adjacent(a, b)  PROVE older[b] = a
    <3>1. u[a] < u[b] /\ \A c \in E : ~(u[a] < u[c] /\ u[c] < u[b])
      BY <2>2 DEF Adjacent
    <3>2. older[b] \in E
      BY <1>0, <3>1 DEF Links, Behind
    <3>3. u[older[b]] < u[b] /\ u[a] <= u[older[b]]
      BY <1>0, <3>1, <3>2 DEF Behind
    <3>4. u[older[b]] = u[a]
      BY <3>1, <3>2, <3>3
    <3> QED BY <1>0, <3>2, <3>4 DEF InTurn
  <2> QED BY <2>1, <2>2
<1>3. ASSUME NEW a \in E  PROVE newer[a] = None <=> \A b \in E : u[b] <= u[a]
  <2>1. newer[a] \in E \cup {None}
    BY <1>0 DEF Links
  <2>2. newer[a] \in E => u[a] < u[newer[a]]
    BY <1>0 DEF Ahead
  <2>3. newer[a] = None => \A b \in E : u[b] <= u[a]
    BY <1>0 DEF Ahead
  <2> QED BY <2>1, <2>2, <2>3
<1>4. ASSUME NEW a \in E  PROVE older[a] = None <=> \A b \in E : u[a] <= u[b]
  <2>1. older[a] \in E \cup {None}
    BY <1>0 DEF Links
  <2>2. older[a] \in E => u[older[a]] < u[a]
    BY <1>0 DEF Behind
  <2>3. older[a] = None => \A b \in E : u[a] <= u[b]
    BY <1>0 DEF Behind
  <2> QED BY <2>1, <2>2, <2>3
<1>5. ASSUME NEW a \in E  PROVE oldest = a <=> \A b \in E : u[a] <= u[b]
  <2>1. oldest \in E /\ \A b \in E : u[oldest] <= u[b]
    BY <1>0 DEF Ends
  <2>2. u[oldest] = u[a] => oldest = a
    BY <1>0, <2>1 DEF InTurn
  <2> QED BY <2>1, <2>2
<1>6. ASSUME NEW a \in E  PROVE newest = a <=> \A b \in E : u[b] <= u[a]
  <2>1. newest \in E /\ \A b \in E : u[b] <= u[newest]
    BY <1>0 DEF Ends
  <2>2. u[newest] = u[a] => newest = a
    BY <1>0, <2>1 DEF InTurn
  <2> QED BY <2>1, <2>2
<1>7. \A a, b \in E : a # b => u[a] # u[b]
  BY <1>0 DEF InTurn
<1> QED BY <1>1, <1>2, <1>3, <1>4, <1>5, <1>6, <1>7 DEF Threaded

-----------------------------------------------------------------------------
(* The inductive invariant: an entry's id and its last use are in the past, *)
(* so the next of either is new.                                            *)

Fresh == \A e \in Entries : e \in Nat /\ e < next /\ used[e] \in Nat /\ used[e] < clock
IInv == TypeOK /\ Filed /\ Fresh /\ Chain(Entries, used, List)

\* The end of the list is no entry.
LEMMA NoneOutside == ASSUME TypeOK PROVE None \notin Entries /\ None \in Nat
  BY LedgerAssumption DEF TypeOK, None

\* An empty ledger satisfies the invariant.
LEMMA InitIInv == Init => IInv
<1> SUFFICES ASSUME Init PROVE IInv
  OBVIOUS
<1>1. Entries = {} /\ hash = << >> /\ older = << >> /\ newer = << >> /\ used = << >>
  BY DEF Init, Entries
<1>2. TypeOK
  BY <1>1, LedgerAssumption DEF Init, TypeOK, Id, None
<1>3. Filed /\ Fresh
  BY <1>1 DEF Init, Filed, Fresh
<1>4. Chain(Entries, used, List)
  BY <1>1 DEF Init, Chain, Links, InTurn, Ahead, Behind, Ends, List
<1> QED BY <1>2, <1>3, <1>4 DEF IInv

\* What every action knows of the state before it.
LEMMA KnownEntry ==
  ASSUME IInv
  PROVE  /\ None \notin Entries /\ None \in Nat /\ next \in Nat /\ clock \in Nat
         /\ Chain(Entries, used, List)
         /\ List = [older |-> older, newer |-> newer, oldest |-> oldest, newest |-> newest]
         /\ DOMAIN used = Entries /\ Entries \subseteq 0..MaxIds - 1
         /\ \A e \in Entries : used[e] \in Nat /\ used[e] < clock /\ e < next
  BY NoneOutside, LedgerAssumption DEF IInv, TypeOK, Fresh, List

\* Links that stay among the entries have their types.
LEMMA LinksTyped ==
  ASSUME NEW E, NEW l, Links(E, l), Becomes(l), Entries' = E
  PROVE  /\ older' \in [Entries' -> Entries' \cup {None}] /\ newer' \in [Entries' -> Entries' \cup {None}]
         /\ oldest' \in Entries' \cup {None} /\ newest' \in Entries' \cup {None}
  BY DEF Links, Becomes

\* Inserting files a new entry at the newest end.
LEMMA InsertStep ==
  ASSUME IInv, NEW h \in Hashes, Insert(h)
  PROVE  IInv'
<1> DEFINE m == LinkNewest(List, next)
<1>1. next \notin Entries /\ next # None /\ next \in 0..MaxIds - 1 /\ clock \in 0..MaxUses - 1
  BY KnownEntry, LedgerAssumption DEF Insert, Uses, None, IInv, TypeOK
<1>2. Entries' = Entries \cup {next} /\ hash' = With(hash, next, h) /\ used' = With(used, next, clock)
      /\ clock' = clock + 1 /\ next' = next + 1 /\ gave' = None
      /\ byHash' = [byHash EXCEPT ![h] = @ \cup {next}] /\ Becomes(m)
  BY DEF Insert, Uses, Entries, With
<1>3. used'[next] = clock /\ \A e \in Entries : used'[e] = used[e]
  BY <1>1, <1>2, KnownEntry DEF With
<1>4. Chain(Entries', used', m)
  BY <1>1, <1>2, <1>3, KnownEntry, LinkChain
<1>5. List' = m
  BY <1>2 DEF Becomes, List, LinkNewest
<1>6. Chain(Entries, used, List)'
  BY <1>4, <1>5
<1>7. TypeOK'
  <2>1. hash' \in [Entries' -> Hashes] /\ Entries' \subseteq 0..MaxIds - 1
    BY <1>1, <1>2, KnownEntry DEF IInv, TypeOK, With, Entries
  <2>2. byHash' \in [Hashes -> SUBSET Entries']
    BY <1>2 DEF IInv, TypeOK
  <2>3. used' \in [Entries' -> 0..MaxUses - 1]
    BY <1>1, <1>2, <1>3, KnownEntry DEF IInv, TypeOK, With
  <2>4. clock' \in 0..MaxUses /\ next' \in 0..MaxIds /\ gave' \in Id \cup {None}
    BY <1>1, <1>2, LedgerAssumption
  <2>5. Links(Entries', m)
    BY <1>4 DEF Chain
  <2> QED BY <1>2, <2>1, <2>2, <2>3, <2>4, <2>5, LinksTyped DEF TypeOK
<1>8. Filed'
  <2> SUFFICES ASSUME NEW i \in Id, NEW g \in Hashes
               PROVE  i \in byHash'[g] <=> i \in Entries' /\ hash'[i] = g
    BY DEF Filed
  <2>1. i \in byHash[g] <=> i \in Entries /\ hash[i] = g
    BY DEF IInv, Filed
  <2>2. byHash'[g] = IF g = h THEN byHash[g] \cup {next} ELSE byHash[g]
    BY <1>2 DEF IInv, TypeOK
  <2>3. i \in Entries' => hash'[i] = IF i = next THEN h ELSE hash[i]
    BY <1>2 DEF With, Entries
  <2> QED BY <1>1, <1>2, <2>1, <2>2, <2>3
<1>9. Fresh'
  BY <1>1, <1>2, <1>3, KnownEntry DEF Fresh
<1> QED BY <1>6, <1>7, <1>8, <1>9 DEF IInv

\* A hit moves the entry to the newest end, where it may be already.
LEMMA FindStep ==
  ASSUME IInv, NEW h \in Hashes, NEW id \in Id, Find(h, id)
  PROVE  IInv'
<1> DEFINE E == Entries \ {id}
           m == IF newest = id THEN List ELSE LinkNewest(Unlink(List, id), id)
<1>1. id \in Entries /\ id # None /\ Entries = E \cup {id}
  BY KnownEntry DEF Find, IInv, Filed
<1>2. Entries' = Entries /\ hash' = hash /\ byHash' = byHash /\ next' = next /\ gave' = None
      /\ clock' = clock + 1 /\ clock \in 0..MaxUses - 1 /\ used' = With(used, id, clock) /\ Becomes(m)
  BY LedgerAssumption DEF Find, Uses, Entries, IInv, TypeOK
<1>3. used'[id] = clock /\ \A e \in E : used'[e] = used[e]
  BY <1>1, <1>2, KnownEntry DEF With
<1>4. ASSUME newest # id  PROVE Chain(Entries, used', m)
  <2>1. Chain(E, used, Unlink(List, id))
    BY <1>1, KnownEntry, UnlinkChain
  <2>2. Chain(E \cup {id}, used', LinkNewest(Unlink(List, id), id))
    BY <1>1, <1>3, <2>1, KnownEntry, LinkChain
  <2> QED BY <1>1, <1>4, <2>2
<1>5. ASSUME newest = id  PROVE Chain(Entries, used', m)
  <2> DEFINE l == List
  <2>0. /\ Links(Entries, l) /\ InTurn(Entries, used) /\ Ahead(Entries, used, l)
        /\ Behind(Entries, used, l) /\ Ends(Entries, used, l) /\ l.newest = id
    BY <1>5, KnownEntry DEF Chain
  <2>1. InTurn(Entries, used')
    BY <1>1, <1>3, <2>0, KnownEntry DEF InTurn
  <2>2. \A e \in Entries : used[e] <= used[id] /\ used'[e] \in Nat /\ used'[e] <= clock
    BY <1>1, <1>3, <2>0, KnownEntry DEF Ends
  <2>3. l.newer[id] = None /\ \A a \in E : l.older[a] # id
    BY <1>1, <2>0, <2>2, KnownEntry DEF Links, Ahead, Behind
  <2>4. Ahead(Entries, used', l)
    <3> SUFFICES ASSUME NEW a \in Entries, NEW c \in Entries
                 PROVE  /\ l.newer[a] \in Entries =>
                             used'[a] < used'[l.newer[a]] /\ (used'[c] <= used'[a] \/ used'[l.newer[a]] <= used'[c])
                        /\ l.newer[a] = None => used'[c] <= used'[a]
      BY DEF Ahead
    <3>1. CASE a = id
      <4>1. l.newer[a] = None /\ used'[a] = clock /\ used'[c] <= clock
        BY <1>3, <2>2, <2>3, <3>1
      <4>2. l.newer[a] \notin Entries
        BY <4>1, NoneOutside DEF IInv
      <4> QED BY <4>1, <4>2
    <3>2. CASE a # id
      <4>1. l.newer[a] \in Entries /\ used[a] < used[l.newer[a]] /\ (used[c] <= used[a] \/ used[l.newer[a]] <= used[c])
        <5>1. used[a] < used[id]
          BY <1>1, <2>0, <2>2, <3>2, KnownEntry DEF InTurn
        <5> QED BY <1>1, <2>0, <5>1, KnownEntry DEF Links, Ahead
      <4>2. used'[a] = used[a] /\ (c # id => used'[c] = used[c])
            /\ (l.newer[a] # id => used'[l.newer[a]] = used[l.newer[a]])
        BY <1>3, <3>2, <4>1
      <4>3. used[a] < clock /\ used[id] < clock
        BY <1>1, KnownEntry
      <4>4. CASE l.newer[a] = id
        <5>1. c # id => used[c] < used[id]
          BY <1>1, <2>0, <2>2, KnownEntry DEF InTurn
        <5>2. c # id => used[c] <= used[a]
          BY <1>1, <4>1, <4>4, <5>1, KnownEntry
        <5> QED BY <1>1, <1>3, <4>2, <4>3, <4>4, <5>2, KnownEntry
      <4>5. CASE l.newer[a] # id
        BY <1>1, <1>3, <2>2, <4>1, <4>2, <4>3, <4>5, KnownEntry
      <4> QED BY <4>4, <4>5
    <3> QED BY <3>1, <3>2
  <2>5. Behind(Entries, used', l)
    <3> SUFFICES ASSUME NEW a \in Entries, NEW c \in Entries
                 PROVE  /\ l.older[a] \in Entries =>
                             used'[l.older[a]] < used'[a] /\ (used'[a] <= used'[c] \/ used'[c] <= used'[l.older[a]])
                        /\ l.older[a] = None => used'[a] <= used'[c]
      BY DEF Behind
    <3>1. /\ l.older[a] \in Entries => used[l.older[a]] < used[a] /\ (used[a] <= used[c] \/ used[c] <= used[l.older[a]])
          /\ l.older[a] = None => used[a] <= used[c]
      BY <2>0 DEF Behind
    <3>2. l.older[a] # id
      <4>1. CASE a = id
        BY <1>1, <2>0, <4>1, KnownEntry DEF Behind
      <4>2. CASE a # id
        BY <2>3, <4>2
      <4> QED BY <4>1, <4>2
    <3>3. l.older[a] \in Entries => used'[l.older[a]] = used[l.older[a]] /\ used[l.older[a]] < clock
      BY <1>1, <1>3, <3>2, KnownEntry
    <3>4. CASE a = id
      <4>1. CASE c = id
        BY <1>3, <3>3, <3>4, <4>1, KnownEntry
      <4>2. CASE c # id
        <5>1. used[c] < used[id] /\ used'[c] = used[c]
          BY <1>1, <1>3, <2>0, <2>2, <4>2, KnownEntry DEF InTurn
        <5> QED BY <1>3, <3>1, <3>3, <3>4, <5>1, KnownEntry
      <4> QED BY <4>1, <4>2
    <3>5. CASE a # id
      BY <1>1, <1>3, <2>2, <3>1, <3>3, <3>5, KnownEntry
    <3> QED BY <3>4, <3>5
  <2>6. Ends(Entries, used', l)
    <3> SUFFICES ASSUME NEW c \in Entries
                 PROVE  l.oldest \in Entries /\ l.newest \in Entries
                        /\ used'[l.oldest] <= used'[c] /\ used'[c] <= used'[l.newest]
      BY DEF Ends
    <3>1. l.oldest \in Entries /\ used[l.oldest] <= used[c] /\ used[l.oldest] <= used[id]
      BY <1>1, <2>0 DEF Ends
    <3>2. used'[c] <= used'[l.newest]
      BY <1>3, <2>0, <2>2
    <3>3. CASE l.oldest = id
      <4>1. c = id
        BY <1>1, <2>0, <2>2, <3>1, <3>3, KnownEntry DEF InTurn
      <4> QED BY <1>1, <2>0, <2>2, <3>2, <3>3, <4>1
    <3>4. CASE l.oldest # id
      <4>1. used'[l.oldest] = used[l.oldest]
        BY <1>3, <3>1, <3>4
      <4> QED BY <1>1, <1>3, <2>0, <3>1, <3>2, <4>1, KnownEntry
    <3> QED BY <3>3, <3>4
  <2>7. Chain(Entries, used', l)
    BY <2>0, <2>1, <2>4, <2>5, <2>6 DEF Chain
  <2> QED BY <1>5, <2>7
<1>6. Chain(Entries, used', m)
  BY <1>1, <1>4, <1>5
<1>7. List' = m
  BY <1>2 DEF Becomes, List, LinkNewest
<1>8. Chain(Entries, used, List)'
  BY <1>2, <1>6, <1>7
<1>9. TypeOK'
  <2>1. used' \in [Entries' -> 0..MaxUses - 1]
    BY <1>1, <1>2, <1>3, KnownEntry DEF IInv, TypeOK, With
  <2>2. clock' \in 0..MaxUses /\ gave' \in Id \cup {None}
    BY <1>2, LedgerAssumption
  <2>3. Links(Entries', m)
    BY <1>2, <1>6 DEF Chain
  <2> QED BY <1>2, <2>1, <2>2, <2>3, LinksTyped DEF IInv, TypeOK
<1>10. Filed'
  BY <1>2 DEF IInv, Filed
<1>11. Fresh'
  BY <1>1, <1>2, <1>3, KnownEntry DEF Fresh
<1> QED BY <1>8, <1>9, <1>10, <1>11 DEF IInv

\* Removing an entry, or evicting the oldest, takes it out of its bucket and the list.
LEMMA UnfileStep ==
  ASSUME IInv, NEW id \in Entries, Unfile(id), gave' \in Id \cup {None}
  PROVE  IInv'
<1> DEFINE m == Unlink(List, id)
<1>1. Entries' = Entries \ {id} /\ hash' = Without(hash, id) /\ used' = Without(used, id)
      /\ byHash' = [byHash EXCEPT ![hash[id]] = @ \ {id}] /\ next' = next /\ clock' = clock /\ Becomes(m)
  BY DEF Unfile, Entries, Without
<1>2. \A e \in Entries' : used'[e] = used[e] /\ hash'[e] = hash[e]
  BY <1>1, KnownEntry DEF Without, Entries
<1>3. Chain(Entries \ {id}, used, m)
  BY KnownEntry, UnlinkChain
<1>4. Chain(Entries', used', m)
  BY <1>1, <1>2, <1>3 DEF Chain, Links, InTurn, Ahead, Behind, Ends
<1>5. List' = m
  BY <1>1 DEF Becomes, List, Unlink
<1>6. Chain(Entries, used, List)'
  BY <1>4, <1>5
<1>7. TypeOK'
  <2>1. hash' \in [Entries' -> Hashes] /\ Entries' \subseteq 0..MaxIds - 1
    BY <1>1, <1>2, KnownEntry DEF IInv, TypeOK, Without, Entries
  <2>2. byHash' \in [Hashes -> SUBSET Entries']
    <3> SUFFICES ASSUME NEW g \in Hashes PROVE byHash'[g] \subseteq Entries'
      BY <1>1 DEF IInv, TypeOK
    <3>1. byHash'[g] = IF g = hash[id] THEN byHash[g] \ {id} ELSE byHash[g]
      BY <1>1 DEF IInv, TypeOK
    <3>2. id \in byHash[g] => hash[id] = g
      BY KnownEntry, LedgerAssumption DEF IInv, Filed, TypeOK, Id
    <3> QED BY <1>1, <3>1, <3>2 DEF IInv, TypeOK
  <2>3. used' \in [Entries' -> 0..MaxUses - 1]
    BY <1>1, <1>2, KnownEntry DEF IInv, TypeOK, Without
  <2>4. Links(Entries', m)
    BY <1>4 DEF Chain
  <2> QED BY <1>1, <2>1, <2>2, <2>3, <2>4, LinksTyped DEF IInv, TypeOK
<1>8. Filed'
  <2> SUFFICES ASSUME NEW i \in Id, NEW g \in Hashes
               PROVE  i \in byHash'[g] <=> i \in Entries' /\ hash'[i] = g
    BY DEF Filed
  <2>1. i \in byHash[g] <=> i \in Entries /\ hash[i] = g
    BY DEF IInv, Filed
  <2>2. byHash'[g] = IF g = hash[id] THEN byHash[g] \ {id} ELSE byHash[g]
    BY <1>1 DEF IInv, TypeOK
  <2> QED BY <1>1, <1>2, <2>1, <2>2
<1>9. Fresh'
  BY <1>1, <1>2, KnownEntry DEF Fresh
<1> QED BY <1>6, <1>7, <1>8, <1>9 DEF IInv

\* Nothing else touches the ledger.
LEMMA StutterStep == ASSUME IInv, UNCHANGED vars PROVE IInv'
<1>1. UNCHANGED <<byHash, hash, older, newer, oldest, newest, next, gave, used, clock>>
  BY DEF vars, list
<1>2. Entries' = Entries /\ List' = List
  BY <1>1 DEF Entries, List
<1> QED BY <1>1, <1>2 DEF IInv, TypeOK, Filed, Fresh

\* Every operation keeps the invariant.
LEMMA NextIInv == IInv /\ [Next]_vars => IInv'
<1> SUFFICES ASSUME IInv, [Next]_vars PROVE IInv'
  OBVIOUS
<1>1. ASSUME NEW h \in Hashes, Insert(h) PROVE IInv'
  BY <1>1, InsertStep
<1>2. ASSUME NEW h \in Hashes, NEW id \in Id, Find(h, id) PROVE IInv'
  BY <1>2, FindStep
<1>3. ASSUME EvictOldest PROVE IInv'
  <2>1. oldest \in Entries /\ Unfile(oldest) /\ gave' = oldest /\ oldest \in Id
    BY <1>3, LedgerAssumption DEF EvictOldest, IInv, TypeOK, Id
  <2> QED BY <2>1, UnfileStep
<1>4. ASSUME NEW id \in Id, RemoveId(id) PROVE IInv'
  BY <1>4, UnfileStep DEF RemoveId
<1>5. ASSUME UNCHANGED vars PROVE IInv'
  BY <1>5, StutterStep
<1> QED BY <1>1, <1>2, <1>3, <1>4, <1>5 DEF Next

-----------------------------------------------------------------------------
(* For every number of buckets, ids and uses.                               *)

\* The links, the buckets and the history agree in every reachable state.
THEOREM LedgerInvariant == Spec => []IInv
<1>1. Init => IInv
  BY InitIInv
<1>2. IInv /\ [Next]_vars => IInv'
  BY NextIInv
<1> QED BY <1>1, <1>2, PTL DEF Spec

\* The fields of the store keep their types (InternLedger, intern.rs).
THEOREM LedgerTypes == Spec => []TypeOK
<1>1. IInv => TypeOK
  BY DEF IInv
<1> QED BY <1>1, LedgerInvariant, PTL

\* A bucket holds exactly the entries filed under its hash, so that `find'
\* never answers with an id that was evicted.
THEOREM LedgerFiled == Spec => []Filed
<1>1. IInv => Filed
  BY DEF IInv
<1> QED BY <1>1, LedgerInvariant, PTL

\* The links thread every entry in the order of its last use, both ways.
THEOREM LedgerThreaded == Spec => []Threaded
<1>1. IInv => Threaded
  BY KnownEntry, ChainThreaded DEF IInv
<1> QED BY <1>1, LedgerInvariant, PTL

\* What `evict_oldest' gives up is the entry whose last use is the longest
\* ago, and nothing else is lost, refiled or made up: the table with its
\* threaded list implements a least-recently-used store.
THEOREM LedgerIsLru == Spec => LeastRecentlyUsed
<1>1. Init => Abstract!Init
  BY DEF Init, Abstract!Init
<1>2. IInv /\ [Next]_vars => [Abstract!Next]_(Abstract!vars)
  <2> SUFFICES ASSUME IInv, [Next]_vars  PROVE [Abstract!Next]_(Abstract!vars)
    OBVIOUS
  <2>0. Abstract!Held = Entries /\ DOMAIN hash = Entries
    BY KnownEntry DEF Abstract!Held, Entries
  <2>1. ASSUME NEW h \in Hashes, Insert(h)  PROVE Abstract!Next
    <3>1. next \in Id /\ next \notin Entries
      BY <2>1, KnownEntry, LedgerAssumption DEF Insert, IInv, TypeOK, Id
    <3>2. Abstract!Insert(next, h)
      BY <2>0, <2>1, <3>1 DEF Insert, Uses, With, Abstract!Insert, Abstract!Use, Abstract!With
    <3> QED BY <3>1, <3>2 DEF Abstract!Next
  <2>2. ASSUME NEW h \in Hashes, NEW id \in Id, Find(h, id)  PROVE Abstract!Next
    <3>1. id \in Entries
      BY <2>2 DEF Find, IInv, Filed
    <3>2. hash' = hash /\ used' = With(used, id, clock) /\ clock' = clock + 1 /\ gave' = None
      BY <2>2 DEF Find, Uses
    <3>3. hash = Abstract!With(hash, id, hash[id])
      BY <3>1 DEF Abstract!With, Entries, IInv, TypeOK
    <3>4. Abstract!Touch(id)
      BY <2>0, <3>1, <3>2, <3>3 DEF With, Abstract!Touch, Abstract!Use, Abstract!With
    <3> QED BY <2>0, <3>1, <3>4 DEF Abstract!Next
  <2>3. ASSUME EvictOldest  PROVE Abstract!Next
    <3>1. oldest \in Entries /\ gave' = oldest /\ used' = Without(used, oldest)
          /\ hash' = Without(hash, oldest) /\ clock' = clock
      BY <2>3 DEF EvictOldest, Unfile, IInv, TypeOK
    <3>2. \A other \in Entries : used[oldest] <= used[other]
      BY KnownEntry DEF Chain, Ends
    <3>3. Abstract!EvictOldest(oldest)
      BY <2>0, <3>1, <3>2 DEF Without, Abstract!EvictOldest, Abstract!Drop, Abstract!Without
    <3> QED BY <2>0, <3>1, <3>3 DEF Abstract!Next
  <2>4. ASSUME NEW id \in Id, RemoveId(id)  PROVE Abstract!Next
    <3>1. Abstract!Remove(id)
      BY <2>0, <2>4 DEF RemoveId, Unfile, Without, Abstract!Remove, Abstract!Drop, Abstract!Without
    <3> QED BY <2>0, <2>4, <3>1 DEF RemoveId, Abstract!Next
  <2>5. ASSUME UNCHANGED vars  PROVE UNCHANGED Abstract!vars
    BY <2>5 DEF vars, list, Abstract!vars
  <2> QED BY <2>1, <2>2, <2>3, <2>4, <2>5 DEF Next
<1> QED BY <1>1, <1>2, LedgerInvariant, PTL DEF Spec, LeastRecentlyUsed, Abstract!Spec


-----------------------------------------------------------------------------
(* Lists of pictures *)

\* A set of naturals that holds 0 and the successor of every member is all of them.
LEMMA SetInduction ==
  ASSUME NEW S \in SUBSET Nat, 0 \in S, \A n \in S : n + 1 \in S
  PROVE  S = Nat
<1> DEFINE T == Nat \ S
<1> SUFFICES ASSUME T # {} PROVE FALSE
  OBVIOUS
<1>1. PICK least \in T : \A n \in T : ~(<<n, least>> \in OpToRel(<, Nat))
  <2>1. T \subseteq Nat
    OBVIOUS
  <2> HIDE DEF T
  <2> QED
    BY <2>1, WFMin, NatLessThanWellFounded
<1>2. ASSUME NEW n \in Nat, n < least PROVE n \notin T
  <2>1. <<n, least>> \in {pair \in Nat \X Nat : pair[1] < pair[2]}
    BY <1>2
  <2> QED
    BY <1>1, <2>1 DEF OpToRel
<1>3. least # 0 /\ least \in Nat
  OBVIOUS
<1>4. least - 1 \in Nat /\ least - 1 < least /\ least - 1 \in S
  BY <1>2, <1>3
<1> QED
  BY <1>4

\* Excluding is computed a picture at a time: the function its definition chooses exists.
LEMMA ExcludingStep ==
  ASSUME NEW pictures, Len(pictures) \in Nat, NEW ids
  PROVE  \E kept :
           /\ kept = [n \in 0..Len(pictures) |->
                       IF n = 0 THEN << >>
                       ELSE IF pictures[n].id \in ids THEN kept[n - 1]
                            ELSE Append(kept[n - 1], pictures[n])]
           /\ Excluding(pictures, ids) = kept[Len(pictures)]
<1> DEFINE Upto(m, kept) ==
             kept = [n \in 0..m |->
                      IF n = 0 THEN << >>
                      ELSE IF pictures[n].id \in ids THEN kept[n - 1]
                           ELSE Append(kept[n - 1], pictures[n])]
           Lengths == {m \in Nat : \E kept : Upto(m, kept)}
<1>1. 0 \in Lengths
  <2>1. Upto(0, [n \in 0..0 |-> << >>])
    OBVIOUS
  <2> QED
    BY <2>1
<1>2. ASSUME NEW m \in Lengths PROVE m + 1 \in Lengths
  <2>1. PICK kept : Upto(m, kept)
    OBVIOUS
  <2> DEFINE passed == IF pictures[m + 1].id \in ids THEN kept[m] ELSE Append(kept[m], pictures[m + 1])
             more == [n \in 0..(m + 1) |-> IF n = m + 1 THEN passed ELSE kept[n]]
  <2>2. ASSUME NEW n \in 0..(m + 1)
        PROVE more[n] = IF n = 0 THEN << >>
                        ELSE IF pictures[n].id \in ids THEN more[n - 1]
                             ELSE Append(more[n - 1], pictures[n])
    <3>1. CASE n = m + 1
      BY <3>1
    <3>2. CASE n \in 0..m
      <4>1. more[n] = kept[n] /\ (n # 0 => n - 1 \in 0..m /\ more[n - 1] = kept[n - 1])
        BY <3>2
      <4>2. kept[n] = IF n = 0 THEN << >>
                      ELSE IF pictures[n].id \in ids THEN kept[n - 1]
                           ELSE Append(kept[n - 1], pictures[n])
        BY <2>1, <3>2
      <4> QED
        BY <4>1, <4>2
    <3> QED
      BY <3>1, <3>2
  <2>3. Upto(m + 1, more)
    BY <2>2
  <2> HIDE DEF Upto, more
  <2> QED
    BY <2>3
<1>3. Lengths = Nat
  <2> HIDE DEF Lengths
  <2> QED
    BY <1>1, <1>2, SetInduction DEF Lengths
<1>4. \E kept : Upto(Len(pictures), kept)
  BY <1>3
<1> DEFINE it == CHOOSE kept : Upto(Len(pictures), kept)
<1>5. Upto(Len(pictures), it)
  BY <1>4
<1>6. Excluding(pictures, ids) = it[Len(pictures)]
  BY DEF Excluding
<1> QED
  BY <1>5, <1>6

\* No id twice.
Distinct(pictures) == \A i, j \in DOMAIN pictures : pictures[i].id = pictures[j].id => i = j

\* A picture added to a list is one of its elements, and if its id is new the list still
\* names each picture once.
LEMMA AppendElements ==
  ASSUME NEW S, NEW s \in Seq(S), NEW x \in S
  PROVE  /\ Append(s, x) \in Seq(S)
         /\ ToSet(Append(s, x)) = ToSet(s) \cup {x}
         /\ Distinct(s) /\ (\A p \in ToSet(s) : p.id # x.id) => Distinct(Append(s, x))
<1>1. /\ Append(s, x) \in Seq(S) /\ Len(s) \in Nat /\ DOMAIN s = 1..Len(s)
      /\ DOMAIN Append(s, x) = 1..(Len(s) + 1)
      /\ \A i \in 1..Len(s) : Append(s, x)[i] = s[i]
      /\ Append(s, x)[Len(s) + 1] = x
  OBVIOUS
<1>2. ToSet(Append(s, x)) = ToSet(s) \cup {x}
  BY <1>1 DEF ToSet
<1>3. ASSUME Distinct(s), \A p \in ToSet(s) : p.id # x.id PROVE Distinct(Append(s, x))
  BY <1>1, <1>3 DEF Distinct, ToSet
<1> QED
  BY <1>1, <1>2, <1>3

\* Excluding drops the pictures with those ids and no other (ImageStore::forget and the
\* retain of State::shed_unplaced_images).
LEMMA ExcludingElements ==
  ASSUME NEW S, NEW pictures \in Seq(S), NEW ids
  PROVE  /\ Excluding(pictures, ids) \in Seq(S)
         /\ ToSet(Excluding(pictures, ids)) = {p \in ToSet(pictures) : p.id \notin ids}
         /\ Distinct(pictures) => Distinct(Excluding(pictures, ids))
<1>0. Len(pictures) \in Nat /\ DOMAIN pictures = 1..Len(pictures)
      /\ \A i \in 1..Len(pictures) : pictures[i] \in S
  OBVIOUS
<1>1. PICK kept :
        /\ kept = [n \in 0..Len(pictures) |->
                    IF n = 0 THEN << >>
                    ELSE IF pictures[n].id \in ids THEN kept[n - 1]
                         ELSE Append(kept[n - 1], pictures[n])]
        /\ Excluding(pictures, ids) = kept[Len(pictures)]
  BY <1>0, ExcludingStep
<1> DEFINE From(n) == {i \in 1..n : pictures[i].id \notin ids}
           Right(n) == /\ kept[n] \in Seq(S)
                       /\ ToSet(kept[n]) = {pictures[i] : i \in From(n)}
                       /\ Distinct(pictures) => Distinct(kept[n])
           Lengths == {n \in Nat : n <= Len(pictures) => Right(n)}
<1>2. 0 \in Lengths
  <2>1. kept[0] = << >>
    BY <1>0, <1>1
  <2>2. << >> \in Seq(S) /\ ToSet(<< >>) = {} /\ Distinct(<< >>) /\ From(0) = {}
    BY DEF ToSet, Distinct
  <2> QED
    BY <2>1, <2>2
<1>3. ASSUME NEW m \in Lengths PROVE m + 1 \in Lengths
  <2> SUFFICES ASSUME m + 1 <= Len(pictures) PROVE Right(m + 1)
    OBVIOUS
  <2>0. m \in Nat /\ m + 1 \in 1..Len(pictures) /\ m + 1 \in 0..Len(pictures) /\ m + 1 # 0
    BY <1>0
  <2>1. /\ m \in Nat /\ Right(m) /\ m + 1 \in 1..Len(pictures) /\ pictures[m + 1] \in S
        /\ kept[m + 1] = IF pictures[m + 1].id \in ids THEN kept[m]
                         ELSE Append(kept[m], pictures[m + 1])
    <3>1. Right(m)
      <4> HIDE DEF Right
      <4> QED
        BY <1>0
    <3>2. kept[m + 1] = IF pictures[m + 1].id \in ids THEN kept[m]
                        ELSE Append(kept[m], pictures[m + 1])
      <4> HIDE DEF Right
      <4>1. \A n \in 0..Len(pictures) :
              kept[n] = IF n = 0 THEN << >>
                        ELSE IF pictures[n].id \in ids THEN kept[n - 1]
                             ELSE Append(kept[n - 1], pictures[n])
        BY <1>1
      <4>2. ASSUME NEW n \in 0..Len(pictures), n = m + 1
            PROVE  kept[n] = IF pictures[n].id \in ids THEN kept[m]
                             ELSE Append(kept[m], pictures[n])
        <5>1. n # 0 /\ n - 1 = m
          BY <2>0, <4>2
        <5> QED
          BY <4>1, <5>1
      <4> QED
        BY <2>0, <4>2
    <3> QED
      BY <1>0, <2>0, <3>1, <3>2
  <2>2. CASE pictures[m + 1].id \in ids
    <3>1. From(m + 1) = From(m)
      BY <2>1, <2>2
    <3> QED
      BY <2>1, <2>2, <3>1
  <2>3. CASE pictures[m + 1].id \notin ids
    <3>1. From(m + 1) = From(m) \cup {m + 1}
      BY <2>1, <2>3
    <3>2. Append(kept[m], pictures[m + 1]) \in Seq(S)
          /\ ToSet(kept[m + 1]) = ToSet(kept[m]) \cup {pictures[m + 1]}
      BY <2>1, <2>3, AppendElements
    <3>3. ASSUME Distinct(pictures) PROVE Distinct(kept[m + 1])
      <4>1. \A p \in ToSet(kept[m]) : p.id # pictures[m + 1].id
        BY <1>0, <2>1, <3>3 DEF Distinct
      <4> QED
        BY <2>1, <2>3, <3>3, <4>1, AppendElements
    <3> QED
      BY <2>1, <2>3, <3>1, <3>2, <3>3
  <2> QED
    BY <2>2, <2>3
<1>4. Lengths = Nat
  <2> HIDE DEF Lengths
  <2> QED
    BY <1>2, <1>3, SetInduction DEF Lengths
<1>5. Right(Len(pictures))
  <2> HIDE DEF Right
  <2>1. Len(pictures) \in Lengths
    <3> HIDE DEF Lengths
    <3> QED
      BY <1>0, <1>4
  <2> QED
    BY <2>1
<1>6. {pictures[i] : i \in From(Len(pictures))} = {p \in ToSet(pictures) : p.id \notin ids}
  BY <1>0 DEF ToSet
<1> QED
  BY <1>1, <1>5, <1>6

-----------------------------------------------------------------------------
(* The inductive invariant *)

\* A picture, and the shapes of the states.
Picture == [id : Nat \ {0}, content : Bytes]

IsKitty(k) == k \in [pending : {k.pending}, body : Bytes, named : {k.named}]
IsTerm(t) ==
  /\ t \in [kitty : {t.kitty}, store : Seq(Picture), next : {t.next}, queue : Seq(Picture),
             grid : [Place -> Nat], scrolled : {t.scrolled}, damage : SUBSET Place]
  /\ IsKitty(t.kitty)

(* Of the pictures the emulator and Emacs (known) speak of: an id is given *)
(* once, and to one picture.                                               *)
Mentioned(t, known) == ToSet(t.store) \cup ToSet(t.queue) \cup known
GivenOnce(t, upTo, known) ==
  /\ \A p \in Mentioned(t, known) : p.id \in Nat /\ p.id < upTo
  /\ \A p, q \in Mentioned(t, known) : p.id = q.id => p.content = q.content

(* An emulator in front of an Emacs that has, or has been sent, the bytes  *)
(* of the ids in held.                                                     *)
Sound(t, upTo, held, known) ==
  /\ IsTerm(t) /\ upTo \in Nat \ {0} /\ Distinct(t.store)
  /\ GivenOnce(t, upTo, known)
  /\ Ids(t.store) \subseteq held \cup Ids(t.queue)
  /\ BoundImages(t.kitty) \subseteq Ids(t.store)

Agrees(t, held, known) == Sound(t, t.next, held, known)

(* Whatever the screen or the lines on their way still show can be drawn.  *)
Drawable(t, held) ==
  /\ \A s \in Place : t.grid[s] # 0 => t.grid[s] \in held \cup Ids(t.queue)
  /\ t.scrolled \subseteq held \cup Ids(t.queue)

\* What Emacs shows, and of that what is a picture with its bytes.
Seen == history \cup {shown[s] : s \in Place}
Rendered == {p \in Seen : p.content # Hole /\ p.id # 0}
\* The ids Emacs has the bytes of, or has taken; and every picture its side speaks of.
Held == Ids(data) \cup Ids(batch.images)
Spoken == ToSet(data) \cup ToSet(batch.images) \cup Rendered

\* Emacs' half: it has the bytes of every picture it shows.
EmacsOK ==
  /\ session \in Sessions
  /\ data \in Seq(Picture) /\ batch.images \in Seq(Picture)
  /\ ~batch.taken => batch = Applied
  /\ shown = [s \in Place |-> shown[s]]
  /\ {p.id : p \in Rendered} \subseteq Ids(data)

\* The two halves while Emacs drops nothing: what is on its way can be drawn too.
Undropped ==
  session.cap = 0 /\ ~session.drops =>
    /\ Drawable(Term, Held) /\ NoHole
    /\ batch.scrolled \subseteq Held
    /\ \A s \in DOMAIN batch.rows : batch.rows[s] \in Held \cup {0}

\* The inductive invariant.
PicturesInv == Agrees(Term, Held, Spoken) /\ EmacsOK /\ Undropped

-----------------------------------------------------------------------------
(* The graphics protocol *)

\* The same of the ids.
LEMMA ExcludingPictures ==
  ASSUME NEW pictures \in Seq(Picture), NEW ids
  PROVE  /\ Excluding(pictures, ids) \in Seq(Picture)
         /\ ToSet(Excluding(pictures, ids)) = {p \in ToSet(pictures) : p.id \notin ids}
         /\ Ids(Excluding(pictures, ids)) = Ids(pictures) \ ids
         /\ Distinct(pictures) => Distinct(Excluding(pictures, ids))
BY ExcludingElements DEF Ids

\* The elements of a list of pictures are pictures.
LEMMA ToSetPictures ==
  ASSUME NEW pictures \in Seq(Picture)
  PROVE  ToSet(pictures) \subseteq Picture
BY DEF ToSet

\* What Emacs draws for want of a picture's bytes is no picture's bytes.
LEMMA BytesAreDrawn == Hole \notin Bytes
<1> SUFFICES ASSUME Hole \in Bytes PROVE FALSE
  OBVIOUS
<1>1. Hole[1] \in STRING \ {"hole"}
  BY DEF Hole, Bytes
<1> QED
  BY <1>1 DEF Hole

\* Chunks of a payload make a payload.
LEMMA BodiesJoin ==
  ASSUME NEW a \in Bytes, NEW b \in Bytes
  PROVE  a \o b \in Bytes /\ << >> \in Bytes
BY DEF Bytes

\* What the protocol makes of a command: no new names, and payloads handed on are payloads.
Kept(k, r) ==
  /\ IsKitty(r.kitty) /\ BoundImages(r.kitty) \subseteq BoundImages(k)
  /\ r.outcome.does = "image" => r.outcome.content \in Bytes

\* Forgetting clients' names leaves the rest of the protocol's state (Kitty::forget).
LEMMA UnnameKeeps ==
  ASSUME NEW k, IsKitty(k), NEW names
  PROVE  /\ IsKitty(Unname(k, names)) /\ Unname(k, names).pending = k.pending
         /\ DOMAIN Unname(k, names).named = DOMAIN k.named \ names
         /\ \A n \in DOMAIN k.named \ names : Unname(k, names).named[n] = k.named[n]
         /\ BoundImages(Unname(k, names)) = {k.named[n] : n \in DOMAIN k.named \ names}
BY DEF IsKitty, Unname, BoundImages

\* The protocol with this transfer in flight.
Holding(k, cmd, payload) == [k EXCEPT !.pending = cmd, !.body = payload]

\* Holding a payload back, or letting go of one, leaves the clients' names.
LEMMA HoldingKeeps ==
  ASSUME NEW k, IsKitty(k), NEW cmd, NEW payload
  PROVE  /\ payload \in Bytes => IsKitty(Holding(k, cmd, payload))
         /\ BoundImages(Holding(k, cmd, payload)) = BoundImages(k)
         /\ Holding(k, cmd, payload).pending = cmd
<1>1. payload \in Bytes => IsKitty(Holding(k, cmd, payload))
  BY DEF IsKitty, Holding
<1>2. Holding(k, cmd, payload).pending = cmd /\ Holding(k, cmd, payload).named = k.named
  BY DEF IsKitty, Holding
<1> QED
  BY <1>1, <1>2 DEF BoundImages

\* A refusal changes nothing.
LEMMA RefusedKeeps ==
  ASSUME NEW k, IsKitty(k), NEW cmd
  PROVE  Kept(k, Refused(k, cmd)) /\ Kept(k, Result(k, NothingToDo, Response(cmd, TRUE)))
         /\ Kept(k, Result(k, NothingToDo, << >>))
BY DEF Kept, Refused, Result, NothingToDo

\* A command without a payload adds no name (a=q, a=d, a=p).
LEMMA StandaloneKeeps ==
  ASSUME NEW k, IsKitty(k), NEW cmd
  PROVE  Kept(k, Standalone(k, cmd))
<1>1. CASE cmd.refused
  BY <1>1, RefusedKeeps DEF Standalone
<1>2. CASE ~cmd.refused /\ Action(cmd) = "q"
  BY <1>2, RefusedKeeps DEF Standalone
<1>3. CASE ~cmd.refused /\ Action(cmd) = "d"
  BY <1>3, UnnameKeeps DEF Standalone, Kept, Result, NothingToDo, BoundImages
<1>4. CASE ~cmd.refused /\ Action(cmd) = "p"
  BY <1>4, RefusedKeeps DEF Standalone, Kept, Result, Placed
<1>5. CASE ~cmd.refused /\ Action(cmd) \notin {"q", "d", "p"}
  BY <1>5, RefusedKeeps DEF Standalone
<1> QED
  BY <1>1, <1>2, <1>3, <1>4, <1>5

\* Nor does a chunk, and what a finished transfer hands on is a payload (Kitty::finish).
LEMMA GatherKeeps ==
  ASSUME NEW k, IsKitty(k), NEW opened, NEW payload \in Bytes, NEW more
  PROVE  Kept(k, Gather(k, opened, payload, more))
<1> DEFINE whole == k.body \o payload
           free == Holding(k, Idle, << >>)
<1>1. whole \in Bytes /\ << >> \in Bytes
  BY BodiesJoin DEF IsKitty
<1>2. IsKitty(free) /\ BoundImages(free) = BoundImages(k)
  BY <1>1, HoldingKeeps
<1>3. CASE Len(whole) > MaxPayload
  <2>1. Gather(k, opened, payload, more) = Refused(free, opened)
    BY <1>3 DEF Gather, Holding
  <2> HIDE DEF free
  <2> QED
    BY <1>2, <2>1, RefusedKeeps DEF Kept
<1>4. CASE ~(Len(whole) > MaxPayload) /\ more
  <2> DEFINE waits == Holding(k, opened, whole)
  <2>1. Gather(k, opened, payload, more) = Result(waits, NothingToDo, << >>)
    BY <1>4 DEF Gather, Holding
  <2>2. IsKitty(waits) /\ BoundImages(waits) = BoundImages(k)
    BY <1>1, HoldingKeeps
  <2> HIDE DEF waits
  <2> QED
    BY <2>1, <2>2, RefusedKeeps DEF Kept
<1>5. CASE ~(Len(whole) > MaxPayload) /\ ~more
  <2>1. Gather(k, opened, payload, more) = Finish(free, opened, whole)
    BY <1>5 DEF Gather, Holding
  <2> HIDE DEF free, whole
  <2>2. CASE ~Decodes(whole) \/ (whole = << >> /\ ~opened.png)
    BY <1>2, <2>1, <2>2, RefusedKeeps DEF Kept, Finish
  <2>3. CASE ~(~Decodes(whole) \/ (whole = << >> /\ ~opened.png))
    BY <1>1, <1>2, <2>1, <2>3 DEF Kept, Finish, Result, Taken
  <2> QED
    BY <2>2, <2>3
<1> QED
  BY <1>3, <1>4, <1>5

\* Nor does a command with no transfer in flight.
LEMMA BeginKeeps ==
  ASSUME NEW k, IsKitty(k), NEW cmd, cmd.body \in Bytes
  PROVE  Kept(k, Begin(k, cmd))
<1>1. CASE cmd.refused
  BY <1>1, RefusedKeeps DEF Begin
<1>2. CASE ~cmd.refused /\ Action(cmd) \in {"t", "T"}
  BY <1>2, GatherKeeps DEF Begin
<1>3. CASE ~cmd.refused /\ Action(cmd) \notin {"t", "T"}
  BY <1>3, StandaloneKeeps DEF Begin
<1> QED
  BY <1>1, <1>2, <1>3

\* Nor does any command, whatever is in flight: names are bound by the terminal alone.
LEMMA FeedKeeps ==
  ASSUME NEW k, IsKitty(k), NEW cmd, cmd.body \in Bytes
  PROVE  Kept(k, Feed(k, cmd))
<1>1. CASE ~InFlight(k)
  BY <1>1, BeginKeeps DEF Feed
<1>2. CASE InFlight(k) /\ cmd.act \in {"q", "d", "p"}
  BY <1>2, StandaloneKeeps DEF Feed
<1>3. CASE InFlight(k) /\ cmd.act \notin {"q", "d", "p"} /\ cmd.id \notin {Absent, ClientId(k.pending)}
  <2> DEFINE free == Holding(k, Idle, << >>)
             begun == Begin(free, cmd)
  <2>1. IsKitty(free) /\ BoundImages(free) = BoundImages(k)
    BY BodiesJoin, HoldingKeeps
  <2>2. Kept(k, begun)
    <3> HIDE DEF free
    <3> QED
      BY <2>1, BeginKeeps DEF Kept
  <2>3. Feed(k, cmd) = [begun EXCEPT !.answers = Response(k.pending, FALSE) \o @]
    BY <1>3 DEF Feed, Holding
  <2>4. begun = [kitty |-> begun.kitty, outcome |-> begun.outcome, answers |-> begun.answers]
    <3> HIDE DEF free
    <3> QED
      BY DEF Begin, Refused, Result, Gather, Finish, Standalone
  <2> HIDE DEF begun
  <2> QED
    BY <2>2, <2>3, <2>4 DEF Kept
<1>4. CASE InFlight(k) /\ cmd.act \notin {"q", "d", "p"} /\ cmd.id \in {Absent, ClientId(k.pending)}
  BY <1>4, GatherKeeps DEF Feed
<1> QED
  BY <1>1, <1>2, <1>3, <1>4

\* At most one answer.
Short(said) == said = << >> \/ \E a : said = << a >>

\* A command is owed one answer at most.
LEMMA ResponseIsShort ==
  ASSUME NEW cmd, NEW ok
  PROVE  Short(Response(cmd, ok))
BY DEF Short, Response

\* A command with no transfer in flight is given no more.
LEMMA BeginIsShort ==
  ASSUME NEW k, NEW cmd
  PROVE  Short(Begin(k, cmd).answers)
<1>1. \A j, c, outcome, ok : /\ Short(Result(j, outcome, Response(c, ok)).answers)
                             /\ Short(Result(j, outcome, << >>).answers)
                             /\ Short(Refused(j, c).answers)
  <2>1. \A c, ok : Short(Response(c, ok)) /\ Short(<< >>)
    BY ResponseIsShort DEF Short
  <2> QED
    BY <2>1 DEF Result, Refused
<1>2. CASE cmd.refused
  BY <1>1, <1>2 DEF Begin
<1>3. CASE ~cmd.refused /\ Action(cmd) \in {"t", "T"}
  <2>1. Begin(k, cmd) = Gather(k, cmd, cmd.body, cmd.more)
    BY <1>3 DEF Begin
  <2>2. \A j, payload : Short(Finish(j, cmd, payload).answers)
    BY <1>1 DEF Finish
  <2> QED
    BY <1>1, <2>1, <2>2 DEF Gather, Holding
<1>4. CASE ~cmd.refused /\ Action(cmd) \notin {"t", "T"}
  <2>1. Begin(k, cmd) = Standalone(k, cmd)
    BY <1>4 DEF Begin
  <2>2. CASE Action(cmd) = "q"
    BY <1>1, <1>4, <2>1, <2>2 DEF Standalone
  <2>3. CASE Action(cmd) = "d"
    BY <1>1, <1>4, <2>1, <2>3 DEF Standalone
  <2>4. CASE Action(cmd) = "p"
    BY <1>1, <1>4, <2>1, <2>4 DEF Standalone
  <2>5. CASE Action(cmd) \notin {"q", "d", "p"}
    BY <1>1, <1>4, <2>1, <2>5 DEF Standalone
  <2> QED
    BY <2>2, <2>3, <2>4, <2>5
<1> QED
  BY <1>2, <1>3, <1>4

\* The first of two answers is among them.
LEMMA FirstIsTold ==
  ASSUME NEW x, NEW rest, Short(rest)
  PROVE  x \in ToSet(<< x >>) /\ x \in ToSet(<< x >> \o rest)
<1>1. ASSUME NEW S, NEW said \in Seq(S), Len(said) >= 1, said[1] = x PROVE x \in ToSet(said)
  <2>1. 1 \in DOMAIN said
    BY <1>1
  <2> QED
    BY <1>1, <2>1 DEF ToSet
<1>2. PICK S : << x >> \in Seq(S) /\ rest \in Seq(S)
  <2>1. CASE rest = << >>
    <3>1. << x >> \in Seq({x}) /\ rest \in Seq({x})
      BY <2>1
    <3> QED
      BY <3>1
  <2>2. CASE \E a : rest = << a >>
    <3>1. PICK a : rest = << a >>
      BY <2>2
    <3>2. << x >> \in Seq({x, a}) /\ rest \in Seq({x, a})
      BY <3>1
    <3> QED
      BY <3>2
  <2> QED
    BY <2>1, <2>2 DEF Short
<1>3. /\ << x >> \o rest \in Seq(S) /\ Len(<< x >> \o rest) >= 1 /\ (<< x >> \o rest)[1] = x
      /\ Len(<< x >>) >= 1 /\ << x >>[1] = x
  BY <1>2
<1> QED
  BY <1>1, <1>2, <1>3

\* A command that ends the transfer in flight, finished, refused or displaced, answers the
\* command that opened it, if that one asked for answers and can be addressed.
LEMMA FeedAnswers ==
  ASSUME NEW k, IsKitty(k), NEW cmd, InFlight(k),
         Feed(k, cmd).kitty.pending # k.pending, k.pending.quiet = 0, ClientId(k.pending) # 0
  PROVE  \E a \in ToSet(Feed(k, cmd).answers) : a.id = ClientId(k.pending)
<1> DEFINE opened == k.pending
           answer(ok) == [id |-> ClientId(opened), ok |-> ok]
<1>1. \A ok : Response(opened, ok) = << answer(ok) >> /\ answer(ok).id = ClientId(opened)
  BY DEF Response
<1>2. ASSUME NEW ok, NEW rest, Short(rest) PROVE answer(ok) \in ToSet(Response(opened, ok) \o rest)
  BY <1>1, <1>2, FirstIsTold
<1>3. ASSUME NEW ok PROVE answer(ok) \in ToSet(Response(opened, ok))
  BY <1>1, FirstIsTold DEF Short
<1> HIDE DEF answer
<1>4. ~(cmd.act \in {"q", "d", "p"})
  <2> SUFFICES ASSUME cmd.act \in {"q", "d", "p"} PROVE Standalone(k, cmd).kitty.pending = k.pending
    BY DEF Feed
  <2>1. Action(cmd) \in {"q", "d", "p"}
    BY DEF Action
  <2> QED
    BY <2>1, UnnameKeeps DEF Standalone, Refused, Result
<1>5. CASE cmd.id \notin {Absent, ClientId(k.pending)}
  <2> DEFINE begun == Begin([k EXCEPT !.pending = Idle, !.body = << >>], cmd)
  <2>1. Feed(k, cmd) = [begun EXCEPT !.answers = Response(opened, FALSE) \o @]
    BY <1>4, <1>5 DEF Feed
  <2>2. begun = [kitty |-> begun.kitty, outcome |-> begun.outcome, answers |-> begun.answers]
    BY DEF Begin, Refused, Result, Gather, Finish, Standalone
  <2>3. Short(begun.answers)
    BY BeginIsShort
  <2> HIDE DEF begun
  <2>4. Feed(k, cmd).answers = Response(opened, FALSE) \o begun.answers
    BY <2>1, <2>2
  <2> QED
    BY <1>1, <1>2, <2>3, <2>4
<1>6. CASE cmd.id \in {Absent, ClientId(k.pending)}
  <2> DEFINE whole == k.body \o cmd.body
             free == Holding(k, Idle, << >>)
  <2>1. Feed(k, cmd) = Gather(k, opened, cmd.body, cmd.more)
    BY <1>4, <1>6 DEF Feed
  <2>2. ~(Len(whole) > MaxPayload) => ~cmd.more
    <3> SUFFICES ASSUME ~(Len(whole) > MaxPayload), cmd.more PROVE FALSE
      OBVIOUS
    <3>1. Gather(k, opened, cmd.body, cmd.more)
          = Result(Holding(k, opened, whole), NothingToDo, << >>)
      BY DEF Gather, Holding
    <3>2. Holding(k, opened, whole).pending = opened
      BY HoldingKeeps
    <3>3. Feed(k, cmd).kitty = Holding(k, opened, whole)
      <4>1. \A j : Result(j, NothingToDo, << >>).kitty = j
        BY DEF Result
      <4> QED
        BY <2>1, <3>1, <4>1
    <3> QED
      BY <3>2, <3>3
  <2>3. PICK ok : Feed(k, cmd).answers = Response(opened, ok)
    <3>1. \A j, payload : \E ok : Finish(j, opened, payload).answers = Response(opened, ok)
      BY DEF Finish, Refused, Result
    <3>2. CASE Len(whole) > MaxPayload
      <4>1. Feed(k, cmd) = Refused(free, opened)
        BY <2>1, <3>2 DEF Gather, Holding
      <4>2. Feed(k, cmd).answers = Response(opened, FALSE)
        BY <4>1 DEF Refused, Result
      <4> QED
        BY <4>2
    <3>3. CASE ~(Len(whole) > MaxPayload)
      <4>1. Feed(k, cmd) = Finish(free, opened, whole)
        BY <2>1, <2>2, <3>3 DEF Gather, Holding
      <4> QED
        BY <3>1, <4>1
    <3> QED
      BY <3>2, <3>3
  <2> QED
    BY <1>1, <1>3, <2>3
<1> QED
  BY <1>5, <1>6

-----------------------------------------------------------------------------
(* The emulator *)

\* Forgetting pictures drops them and the names that placed them (State::intern_image, Term::forget_image).
LEMMA ForgetFields ==
  ASSUME NEW t, IsTerm(t), NEW ids
  PROVE  LET f == ForgetImages(t, ids) IN
         /\ IsTerm(f) /\ f.store = Excluding(t.store, ids)
         /\ BoundImages(f.kitty) = BoundImages(t.kitty) \ ids
         /\ f.kitty.pending = t.kitty.pending
         /\ f.next = t.next /\ f.queue = t.queue /\ f.grid = t.grid
         /\ f.scrolled = t.scrolled /\ f.damage = t.damage
<1> DEFINE names == {n \in DOMAIN t.kitty.named : t.kitty.named[n] \in ids}
           f == [t EXCEPT !.store = Excluding(@, ids), !.kitty = Unname(@, names)]
<1>1. ForgetImages(t, ids) = f
  BY DEF ForgetImages
<1>2. /\ IsKitty(Unname(t.kitty, names)) /\ Excluding(t.store, ids) \in Seq(Picture)
      /\ BoundImages(Unname(t.kitty, names)) = BoundImages(t.kitty) \ ids
      /\ Unname(t.kitty, names).pending = t.kitty.pending
  <2>1. IsKitty(t.kitty) /\ t.store \in Seq(Picture)
    BY DEF IsTerm
  <2>2. Excluding(t.store, ids) \in Seq(Picture)
    BY <2>1, ExcludingPictures
  <2>3. BoundImages(Unname(t.kitty, names)) = {t.kitty.named[n] : n \in DOMAIN t.kitty.named \ names}
    BY <2>1, UnnameKeeps
  <2>4. {t.kitty.named[n] : n \in DOMAIN t.kitty.named \ names} = BoundImages(t.kitty) \ ids
    BY DEF BoundImages
  <2> HIDE DEF names
  <2> QED
    BY <2>1, <2>2, <2>3, <2>4, UnnameKeeps
<1> HIDE DEF names
<1>3. /\ f.kitty = Unname(t.kitty, names) /\ f.store = Excluding(t.store, ids)
      /\ f.next = t.next /\ f.queue = t.queue /\ f.grid = t.grid
      /\ f.scrolled = t.scrolled /\ f.damage = t.damage
  BY DEF IsTerm
<1>4. IsTerm(f)
  BY <1>2 DEF IsTerm
<1> HIDE DEF f
<1> QED
  BY <1>1, <1>2, <1>3, <1>4

\* Forgetting is sound whatever Emacs has dropped of the ids forgotten.
LEMMA ForgetKeeps ==
  ASSUME NEW t, NEW upTo, NEW held, NEW known, Sound(t, upTo, held, known), NEW ids,
         NEW held2, held \ ids \subseteq held2, NEW known2, known2 \subseteq known
  PROVE  /\ Sound(ForgetImages(t, ids), upTo, held2, known2)
         /\ Drawable(t, held) /\ held \subseteq held2 => Drawable(ForgetImages(t, ids), held2)
<1> DEFINE f == ForgetImages(t, ids)
<1>1. /\ IsTerm(f) /\ f.store = Excluding(t.store, ids)
      /\ BoundImages(f.kitty) = BoundImages(t.kitty) \ ids
      /\ f.queue = t.queue /\ f.grid = t.grid /\ f.scrolled = t.scrolled
  BY ForgetFields DEF Sound
<1>2. /\ ToSet(f.store) \subseteq ToSet(t.store) /\ Ids(f.store) = Ids(t.store) \ ids
      /\ Distinct(t.store) => Distinct(f.store)
  BY <1>1, ExcludingPictures DEF Sound, IsTerm
<1> HIDE DEF f
<1>3. Mentioned(f, known2) \subseteq Mentioned(t, known)
  BY <1>1, <1>2 DEF Mentioned
<1>4. Sound(f, upTo, held2, known2)
  BY <1>1, <1>2, <1>3 DEF Sound, GivenOnce
<1>5. Drawable(t, held) /\ held \subseteq held2 => Drawable(f, held2)
  BY <1>1 DEF Drawable
<1> QED
  BY <1>4, <1>5 DEF f

\* The emulator with one part replaced.
Queueing(t, waiting) == [t EXCEPT !.queue = waiting]
Tracking(t, tracked) == [t EXCEPT !.store = tracked]
Naming(t, k) == [t EXCEPT !.kitty = k]

\* Changing the queue changes nothing else.
LEMMA QueueingFields ==
  ASSUME NEW t, IsTerm(t), NEW waiting
  PROVE  /\ waiting \in Seq(Picture) => IsTerm(Queueing(t, waiting))
         /\ Queueing(t, waiting).queue = waiting
         /\ Queueing(t, waiting).kitty = t.kitty /\ Queueing(t, waiting).store = t.store
         /\ Queueing(t, waiting).next = t.next /\ Queueing(t, waiting).grid = t.grid
         /\ Queueing(t, waiting).scrolled = t.scrolled
BY DEF IsTerm, Queueing

\* Changing the tracked list changes nothing else.
LEMMA TrackingFields ==
  ASSUME NEW t, IsTerm(t), NEW tracked
  PROVE  /\ tracked \in Seq(Picture) => IsTerm(Tracking(t, tracked))
         /\ Tracking(t, tracked).store = tracked
         /\ Tracking(t, tracked).kitty = t.kitty /\ Tracking(t, tracked).queue = t.queue
         /\ Tracking(t, tracked).next = t.next /\ Tracking(t, tracked).grid = t.grid
         /\ Tracking(t, tracked).scrolled = t.scrolled
BY DEF IsTerm, Tracking

\* Changing the protocol's state changes nothing else.
LEMMA NamingFields ==
  ASSUME NEW t, IsTerm(t), NEW k
  PROVE  /\ IsKitty(k) => IsTerm(Naming(t, k))
         /\ Naming(t, k).kitty = k
         /\ Naming(t, k).store = t.store /\ Naming(t, k).queue = t.queue
         /\ Naming(t, k).next = t.next /\ Naming(t, k).grid = t.grid
         /\ Naming(t, k).scrolled = t.scrolled
BY DEF IsTerm, Naming

\* Shedding the queued bytes nothing shows is sound, keeps everything drawable, and touches
\* no picture that was not queued (State::shed_unplaced_images).
LEMMA ShedKeeps ==
  ASSUME NEW t, NEW upTo, NEW held, NEW known, Sound(t, upTo, held, known)
  PROVE  LET u == Shed(t) IN
         /\ Sound(u, upTo, held, known)
         /\ Drawable(t, held) => Drawable(u, held)
         /\ u.next = t.next /\ u.grid = t.grid /\ u.scrolled = t.scrolled
         /\ u.kitty.pending = t.kitty.pending
         /\ ToSet(u.queue) \subseteq ToSet(t.queue)
         /\ Ids(t.store) \ Ids(t.queue) \subseteq Ids(u.store)
<1> DEFINE shed == Ids(t.queue) \ Live(t)
           quiet == Queueing(t, Excluding(t.queue, shed))
           u == Shed(t)
<1>1. u = ForgetImages(quiet, shed)
  BY DEF Shed, Queueing
<1> HIDE DEF u
<1>0. IsTerm(t) /\ t.store \in Seq(Picture) /\ t.queue \in Seq(Picture)
  BY DEF Sound, IsTerm
<1>2. /\ Excluding(t.queue, shed) \in Seq(Picture)
      /\ Ids(Excluding(t.queue, shed)) = Ids(t.queue) \ shed
      /\ ToSet(Excluding(t.queue, shed)) \subseteq ToSet(t.queue)
  BY <1>0, ExcludingPictures
<1>3. /\ IsTerm(quiet) /\ quiet.queue = Excluding(t.queue, shed)
      /\ quiet.kitty = t.kitty /\ quiet.store = t.store /\ quiet.next = t.next
      /\ quiet.grid = t.grid /\ quiet.scrolled = t.scrolled
  BY <1>0, <1>2, QueueingFields
<1> HIDE DEF quiet, shed
<1>4. /\ IsTerm(u) /\ u.store = Excluding(t.store, shed)
      /\ BoundImages(u.kitty) = BoundImages(t.kitty) \ shed /\ u.kitty.pending = t.kitty.pending
      /\ u.next = t.next /\ u.queue = Excluding(t.queue, shed)
      /\ u.grid = t.grid /\ u.scrolled = t.scrolled
  BY <1>1, <1>3, ForgetFields
<1>5. /\ ToSet(u.store) \subseteq ToSet(t.store) /\ Ids(u.store) = Ids(t.store) \ shed
      /\ Distinct(t.store) => Distinct(u.store)
  BY <1>0, <1>4, ExcludingPictures
<1>6. Mentioned(u, known) \subseteq Mentioned(t, known)
  BY <1>2, <1>4, <1>5 DEF Mentioned
<1>7. Sound(u, upTo, held, known)
  BY <1>2, <1>4, <1>5, <1>6 DEF Sound, GivenOnce
<1>8. ASSUME Drawable(t, held) PROVE Drawable(u, held)
  <2>1. ASSUME NEW s \in Place PROVE t.grid[s] \in Live(t)
    <3>1. ToSet([r \in Place |-> t.grid[r]]) = {t.grid[r] : r \in Place}
      BY DEF ToSet
    <3> QED
      BY <3>1 DEF Live
  <2>2. t.scrolled \subseteq Live(t)
    BY DEF Live
  <2> QED
    BY <1>2, <1>4, <1>8, <2>1, <2>2 DEF Drawable, shed
<1>9. ToSet(u.queue) \subseteq ToSet(t.queue) /\ Ids(t.store) \ Ids(t.queue) \subseteq Ids(u.store)
  BY <1>2, <1>4, <1>5 DEF shed
<1> QED
  BY <1>4, <1>7, <1>8, <1>9 DEF u

\* The count cap retires the oldest, never the picture just used (ImageStore::evict).
LEMMA RetiresOthers ==
  ASSUME NEW tracked \in Seq(Picture), Distinct(tracked), Len(tracked) >= 1
  PROVE  tracked[Len(tracked)].id \notin Retired(tracked)
<1> SUFFICES ASSUME Len(tracked) > MaxTracked
             PROVE  tracked[Len(tracked)].id \notin Ids(SubSeq(tracked, 1, Len(tracked) - MaxTracked))
  BY PicturesAssumption DEF Retired
<1> DEFINE kept == Len(tracked) - MaxTracked
           front == SubSeq(tracked, 1, kept)
<1>1. kept \in Nat /\ kept < Len(tracked) /\ Len(tracked) \in Nat /\ DOMAIN tracked = 1..Len(tracked)
  BY PicturesAssumption
<1>2. DOMAIN front = 1..kept /\ \A i \in 1..kept : front[i] = tracked[i]
  BY <1>1
<1> HIDE DEF front, kept
<1>3. ToSet(front) = {tracked[i] : i \in 1..kept}
  BY <1>2 DEF ToSet
<1>4. \A i \in 1..kept : tracked[i].id # tracked[Len(tracked)].id
  BY <1>1 DEF Distinct
<1> QED
  BY <1>3, <1>4 DEF Ids, front, kept

\* Using a picture that Emacs has or will have is sound, and leaves it tracked.
LEMMA TrackKeeps ==
  ASSUME NEW t, NEW upTo, NEW held, NEW known, Sound(t, upTo, held, known),
         NEW p \in Picture, p.id \in held \cup Ids(t.queue), p.id < upTo,
         \A q \in Mentioned(t, known) : q.id = p.id => q.content = p.content
  PROVE  LET tracked == Append(Excluding(t.store, {p.id}), p)
             u == ForgetImages(Tracking(t, tracked), Retired(tracked)) IN
         /\ Sound(u, upTo, held, known) /\ p.id \in Ids(u.store)
         /\ u.queue = t.queue /\ u.next = t.next /\ u.kitty.pending = t.kitty.pending
         /\ Drawable(t, held) => Drawable(u, held)
<1> DEFINE others == Excluding(t.store, {p.id})
           tracked == Append(others, p)
           v == Tracking(t, tracked)
           u == ForgetImages(v, Retired(tracked))
<1>0. IsTerm(t) /\ t.store \in Seq(Picture) /\ Distinct(t.store)
  BY DEF Sound, IsTerm
<1>1. /\ others \in Seq(Picture) /\ ToSet(others) = {q \in ToSet(t.store) : q.id # p.id}
      /\ Ids(others) = Ids(t.store) \ {p.id} /\ Distinct(others)
  BY <1>0, ExcludingPictures
<1> HIDE DEF others
<1>2. /\ tracked \in Seq(Picture) /\ ToSet(tracked) = ToSet(others) \cup {p} /\ Distinct(tracked)
      /\ Len(tracked) >= 1 /\ tracked[Len(tracked)] = p
  <2>1. \A q \in ToSet(others) : q.id # p.id
    BY <1>1
  <2>2. /\ Append(others, p) \in Seq(Picture) /\ ToSet(Append(others, p)) = ToSet(others) \cup {p}
        /\ Distinct(Append(others, p))
    BY <1>1, <2>1, AppendElements
  <2> QED
    BY <1>1, <2>2
<1>3. Ids(tracked) = Ids(t.store) \cup {p.id}
  BY <1>1, <1>2 DEF Ids
<1> HIDE DEF tracked
<1>4. /\ IsTerm(v) /\ v.store = tracked /\ v.kitty = t.kitty /\ v.queue = t.queue
      /\ v.next = t.next /\ v.grid = t.grid /\ v.scrolled = t.scrolled
  BY <1>0, <1>2, TrackingFields
<1> HIDE DEF v
<1>5. Sound(v, upTo, held, known)
  <2>1. Mentioned(v, known) \subseteq Mentioned(t, known) \cup {p}
    BY <1>1, <1>2, <1>4 DEF Mentioned
  <2>2. GivenOnce(v, upTo, known)
    BY <2>1 DEF GivenOnce, Sound, Picture
  <2> QED
    BY <1>2, <1>3, <1>4, <2>2 DEF Sound
<1>6. Drawable(t, held) => Drawable(v, held)
  BY <1>4 DEF Drawable
<1>7. Sound(u, upTo, held, known) /\ (Drawable(v, held) => Drawable(u, held))
  BY <1>5, ForgetKeeps
<1>8. /\ u.store = Excluding(tracked, Retired(tracked)) /\ u.queue = t.queue /\ u.next = t.next
      /\ u.kitty.pending = t.kitty.pending
  BY <1>4, ForgetFields
<1>9. p.id \in Ids(u.store)
  <2>1. p.id \in Ids(tracked) /\ p.id \notin Retired(tracked)
    BY <1>2, <1>3, RetiresOthers
  <2> QED
    BY <1>2, <1>8, <2>1, ExcludingPictures
<1> QED
  BY <1>6, <1>7, <1>8, <1>9 DEF u, v, tracked, others

\* The emulator with a new picture queued.
Admitting(t, p) == [t EXCEPT !.next = @ + 1, !.queue = Append(@, p)]

\* Queueing a new picture changes the queue and the next id.
LEMMA AdmittingFields ==
  ASSUME NEW t, IsTerm(t), NEW p \in Picture
  PROVE  /\ IsTerm(Admitting(t, p)) /\ Admitting(t, p).queue = Append(t.queue, p)
         /\ Admitting(t, p).next = t.next + 1
         /\ Admitting(t, p).kitty = t.kitty /\ Admitting(t, p).store = t.store
         /\ Admitting(t, p).grid = t.grid /\ Admitting(t, p).scrolled = t.scrolled
<1>1. Append(t.queue, p) \in Seq(Picture)
  BY DEF IsTerm
<1> QED
  BY <1>1 DEF IsTerm, Admitting

\* Taking bytes in is sound, known or new: the id returned is tracked (State::intern_image).
LEMMA InternKeeps ==
  ASSUME NEW t, NEW held, NEW known, Agrees(t, held, known), NEW content \in Bytes
  PROVE  LET in == Intern(t, content) IN
         /\ Agrees(in.term, held, known) /\ in.id \in Ids(in.term.store)
         /\ in.term.kitty.pending = t.kitty.pending
         /\ Drawable(t, held) => Drawable(in.term, held)
<1> DEFINE old == Known(t, content)
           p == IF old = {} THEN [id |-> t.next, content |-> content] ELSE CHOOSE o \in old : TRUE
           tracked == Append(Excluding(t.store, {p.id}), p)
           named == ForgetImages(Tracking(t, tracked), Retired(tracked))
           roomy == IF Len(t.queue) >= 2 THEN Shed(named) ELSE named
           in == Intern(t, content)
<1>1. /\ in.id = p.id
      /\ old # {} => in.term = named
      /\ old = {} => in.term = Admitting(roomy, p)
  BY DEF Intern, Tracking, Admitting
<1>2. IsTerm(t) /\ t.store \in Seq(Picture) /\ t.queue \in Seq(Picture) /\ t.next \in Nat \ {0}
  BY DEF Agrees, Sound, IsTerm
<1> HIDE DEF in
<1>3. CASE old # {}
  <2>1. p \in ToSet(t.store) /\ p \in Picture
    BY <1>2, <1>3, ToSetPictures DEF Known
  <2> HIDE DEF p
  <2>2. p.id \in held \cup Ids(t.queue)
    BY <2>1 DEF Agrees, Sound, Ids
  <2>3. p.id < t.next /\ \A q \in Mentioned(t, known) : q.id = p.id => q.content = p.content
    BY <2>1 DEF Agrees, Sound, GivenOnce, Mentioned
  <2>4. /\ Sound(named, t.next, held, known) /\ p.id \in Ids(named.store)
        /\ named.next = t.next /\ named.kitty.pending = t.kitty.pending
        /\ Drawable(t, held) => Drawable(named, held)
    BY <2>1, <2>2, <2>3, TrackKeeps DEF Agrees
  <2> HIDE DEF named
  <2> QED
    BY <1>1, <1>3, <2>4 DEF in, Agrees
<1>4. CASE old = {}
  <2> DEFINE held2 == held \cup {p.id}
             known2 == known \cup {p}
             next2 == t.next + 1
  <2>1. p \in Picture /\ p.id = t.next /\ p.content = content
    BY <1>2, <1>4 DEF Picture
  <2> HIDE DEF p
  <2>2. \A q \in Mentioned(t, known) : q.id < p.id
    BY <2>1 DEF Agrees, Sound, GivenOnce
  <2>3. Sound(t, next2, held2, known2)
    <3>1. Mentioned(t, known2) = Mentioned(t, known) \cup {p}
      BY DEF Mentioned
    <3>2. \A q \in Mentioned(t, known) : q.id \in Nat
      BY DEF Agrees, Sound, GivenOnce
    <3>3. \A q \in Mentioned(t, known2) : q.id \in Nat /\ q.id < next2
      BY <1>2, <2>1, <2>2, <3>1, <3>2
    <3>4. ASSUME NEW q \in Mentioned(t, known2), NEW r \in Mentioned(t, known2), q.id = r.id PROVE q.content = r.content
      <4>1. CASE q \in Mentioned(t, known) /\ r \in Mentioned(t, known)
        BY <3>4, <4>1 DEF Agrees, Sound, GivenOnce
      <4>2. CASE ~(q \in Mentioned(t, known) /\ r \in Mentioned(t, known))
        <5>1. \A o \in Mentioned(t, known) : o.id # p.id
          BY <1>2, <2>1, <2>2, <3>2
        <5>2. q = p /\ r = p
          BY <3>1, <3>4, <4>2, <5>1
        <5> QED
          BY <5>2
      <4> QED
        BY <4>1, <4>2
    <3>5. GivenOnce(t, next2, known2)
      BY <3>3, <3>4 DEF GivenOnce
    <3> QED
      BY <1>2, <3>5 DEF Agrees, Sound
  <2>4. p.id \in held2 /\ p.id < next2 /\ \A q \in Mentioned(t, known2) : q.id = p.id => q.content = p.content
    BY <1>2, <2>1, <2>2 DEF Mentioned
  <2> HIDE DEF held2, known2, next2
  <2>5. /\ Sound(named, next2, held2, known2) /\ p.id \in Ids(named.store)
        /\ named.queue = t.queue /\ named.next = t.next /\ named.kitty.pending = t.kitty.pending
        /\ Drawable(t, held2) => Drawable(named, held2)
    BY <2>1, <2>3, <2>4, TrackKeeps
  <2> HIDE DEF named
  <2>6. p.id \notin Ids(named.queue)
    BY <2>2, <2>5, <1>2, <2>1 DEF Mentioned, Ids
  <2>7. /\ Sound(roomy, next2, held2, known2) /\ p.id \in Ids(roomy.store)
        /\ roomy.next = t.next /\ roomy.kitty.pending = t.kitty.pending
        /\ Drawable(named, held2) => Drawable(roomy, held2)
    <3>1. CASE Len(t.queue) >= 2
      BY <2>5, <2>6, <3>1, ShedKeeps
    <3>2. CASE ~(Len(t.queue) >= 2)
      BY <2>5, <3>2
    <3> QED
      BY <3>1, <3>2
  <2> HIDE DEF roomy
  <2> DEFINE u == Admitting(roomy, p)
  <2>8. /\ IsTerm(u) /\ u.queue = Append(roomy.queue, p) /\ u.next = next2
        /\ u.kitty = roomy.kitty /\ u.store = roomy.store
        /\ u.grid = roomy.grid /\ u.scrolled = roomy.scrolled
    BY <2>1, <2>7, AdmittingFields DEF Sound, next2
  <2>9. ToSet(u.queue) = ToSet(roomy.queue) \cup {p} /\ Ids(u.queue) = Ids(roomy.queue) \cup {p.id}
    <3>1. roomy.queue \in Seq(Picture)
      BY <2>7 DEF Sound, IsTerm
    <3>2. ToSet(u.queue) = ToSet(roomy.queue) \cup {p}
      BY <2>1, <2>8, <3>1, AppendElements
    <3> QED
      BY <3>2 DEF Ids
  <2> HIDE DEF u
  <2>10. Sound(u, next2, held, known)
    <3>1. Mentioned(u, known) = Mentioned(roomy, known2)
      BY <2>8, <2>9 DEF Mentioned, known2
    <3> QED
      BY <2>7, <2>8, <2>9, <3>1 DEF Sound, GivenOnce, held2
  <2>11. Drawable(t, held) => Drawable(u, held)
    <3>1. Drawable(t, held) => Drawable(t, held2)
      BY DEF Drawable, held2
    <3>2. Drawable(roomy, held2) => Drawable(u, held)
      BY <2>8, <2>9 DEF Drawable, held2
    <3> QED
      BY <2>5, <2>7, <3>1, <3>2
  <2>12. in.term = u /\ in.id = p.id
    BY <1>1, <1>4 DEF u
  <2> QED
    BY <2>7, <2>8, <2>10, <2>11, <2>12 DEF in, Agrees
<1> QED
  BY <1>3, <1>4

\* Binding a client's name adds the one picture to what names can place (Kitty::bind).
LEMMA BindKeeps ==
  ASSUME NEW k, IsKitty(k), NEW client, NEW ours
  PROVE  /\ IsKitty(Bind(k, client, ours)) /\ Bind(k, client, ours).pending = k.pending
         /\ BoundImages(Bind(k, client, ours)) \subseteq BoundImages(k) \cup {ours}
<1>1. CASE client = 0
  BY <1>1 DEF Bind
<1>2. CASE client # 0
  <2> DEFINE names == [n \in DOMAIN k.named \cup {client} |-> IF n = client THEN ours ELSE k.named[n]]
             bound == [k EXCEPT !.named = names]
  <2>1. Bind(k, client, ours) = bound
    BY <1>2 DEF Bind
  <2>2. {names[n] : n \in DOMAIN names} \subseteq BoundImages(k) \cup {ours}
    BY DEF BoundImages
  <2> HIDE DEF names
  <2>3. bound.named = names /\ bound.pending = k.pending /\ IsKitty(bound)
    BY DEF IsKitty
  <2> HIDE DEF bound
  <2> QED
    BY <2>1, <2>2, <2>3 DEF BoundImages
<1> QED
  BY <1>1, <1>2

\* Protocol state that names tracked pictures only is sound.
LEMMA NamingKeeps ==
  ASSUME NEW t, NEW held, NEW known, Agrees(t, held, known),
         NEW k, IsKitty(k), BoundImages(k) \subseteq Ids(t.store)
  PROVE  /\ Agrees(Naming(t, k), held, known)
         /\ Drawable(t, held) => Drawable(Naming(t, k), held)
<1> DEFINE u == Naming(t, k)
<1>1. /\ IsTerm(u) /\ u.kitty = k /\ u.store = t.store /\ u.queue = t.queue
      /\ u.next = t.next /\ u.grid = t.grid /\ u.scrolled = t.scrolled
  BY NamingFields DEF Agrees, Sound
<1> HIDE DEF u
<1>2. Mentioned(u, known) = Mentioned(t, known)
  BY <1>1 DEF Mentioned
<1>3. Agrees(u, held, known)
  BY <1>1, <1>2 DEF Agrees, Sound, GivenOnce
<1>4. Drawable(t, held) => Drawable(u, held)
  BY <1>1 DEF Drawable
<1> QED
  BY <1>3, <1>4 DEF u

\* Two states that differ in what is drawn, and in nothing else.
Drawing(t, u) ==
  /\ IsTerm(u) /\ u.kitty = t.kitty /\ u.store = t.store /\ u.queue = t.queue /\ u.next = t.next

\* Drawing on the screen is sound.
LEMMA DrawingKeeps ==
  ASSUME NEW t, NEW held, NEW known, Agrees(t, held, known), NEW u, Drawing(t, u)
  PROVE  Agrees(u, held, known)
<1>1. Mentioned(u, known) = Mentioned(t, known)
  BY DEF Mentioned, Drawing
<1> QED
  BY <1>1 DEF Agrees, Sound, GivenOnce, Drawing

\* Laying out a picture, or ignoring one that is not tracked, is sound (State::place_image).
LEMMA LayKeeps ==
  ASSUME NEW t, NEW held, NEW known, Agrees(t, held, known), NEW id, NEW s \in Place
  PROVE  /\ Agrees(Lay(t, id, s), held, known) /\ Lay(t, id, s).kitty = t.kitty
         /\ Drawable(t, held) => Drawable(Lay(t, id, s), held)
<1>1. CASE id \notin Ids(t.store)
  BY <1>1 DEF Lay
<1>2. CASE id \in Ids(t.store)
  <2> DEFINE u == [t EXCEPT !.grid[s] = id, !.damage = @ \cup {s}]
  <2>1. Lay(t, id, s) = u
    BY <1>2 DEF Lay
  <2>2. IsTerm(t) /\ t.store \in Seq(Picture) /\ id \in held \cup Ids(t.queue)
    BY <1>2 DEF Agrees, Sound, IsTerm
  <2>3. id \in Nat
    BY <1>2, <2>2, ToSetPictures DEF Ids, Picture
  <2>4. Drawing(t, u) /\ u.grid = [t.grid EXCEPT ![s] = id] /\ u.scrolled = t.scrolled
    BY <2>2, <2>3 DEF Drawing, IsTerm
  <2> HIDE DEF u
  <2>5. Agrees(u, held, known)
    BY <2>4, DrawingKeeps
  <2>6. Drawable(t, held) => Drawable(u, held)
    BY <2>2, <2>4 DEF Drawable, IsTerm, Drawing
  <2> QED
    BY <2>1, <2>4, <2>5, <2>6 DEF Drawing
<1> QED
  BY <1>1, <1>2

\* So is erasing one.
LEMMA EraseKeeps ==
  ASSUME NEW t, NEW held, NEW known, Agrees(t, held, known), NEW s \in Place
  PROVE  /\ Agrees(Erase(t, s), held, known) /\ Erase(t, s).kitty = t.kitty
         /\ Drawable(t, held) => Drawable(Erase(t, s), held)
<1> DEFINE u == Erase(t, s)
<1>1. IsTerm(t)
  BY DEF Agrees, Sound
<1>2. Drawing(t, u) /\ u.grid = [t.grid EXCEPT ![s] = 0] /\ u.scrolled = t.scrolled
  BY <1>1 DEF Drawing, IsTerm, Erase
<1> HIDE DEF u
<1>3. Agrees(u, held, known)
  BY <1>2, DrawingKeeps
<1>4. Drawable(t, held) => Drawable(u, held)
  BY <1>1, <1>2 DEF Drawable, IsTerm, Drawing
<1> QED
  BY <1>2, <1>3, <1>4 DEF u, Drawing

\* So is scrolling one off: a picture on its way to the scrollback is still drawable.
LEMMA ScrollUpKeeps ==
  ASSUME NEW t, NEW held, NEW known, Agrees(t, held, known)
  PROVE  /\ Agrees(ScrollUp(t), held, known) /\ ScrollUp(t).kitty = t.kitty
         /\ Drawable(t, held) => Drawable(ScrollUp(t), held)
<1> DEFINE u == ScrollUp(t)
           up == [s \in Place |-> IF s = Slots THEN 0 ELSE t.grid[s + 1]]
<1>1. IsTerm(t) /\ t.grid \in [Place -> Nat]
  BY DEF Agrees, Sound, IsTerm
<1>2. 1 \in Place /\ \A s \in Place : s # Slots => s + 1 \in Place
  BY PicturesAssumption DEF Place
<1>3. up \in [Place -> Nat]
  BY <1>1, <1>2
<1>4. Drawing(t, u) /\ u.grid = up /\ u.scrolled = t.scrolled \cup ({t.grid[1]} \ {0})
  BY <1>1, <1>3 DEF Drawing, IsTerm, ScrollUp
<1> HIDE DEF u
<1>5. Agrees(u, held, known)
  BY <1>4, DrawingKeeps
<1>6. Drawable(t, held) => Drawable(u, held)
  BY <1>1, <1>2, <1>4 DEF Drawable, Drawing
<1> QED
  BY <1>4, <1>5, <1>6 DEF u, Drawing

\* An inline picture is taken in and laid out in one go.
LEMMA InlineKeeps ==
  ASSUME NEW t, NEW held, NEW known, Agrees(t, held, known), NEW content \in Bytes, NEW s \in Place
  PROVE  /\ Agrees(Inline(t, content, s), held, known)
         /\ Inline(t, content, s).kitty.pending = t.kitty.pending
         /\ Drawable(t, held) => Drawable(Inline(t, content, s), held)
<1>1. Inline(t, content, s) = Lay(Intern(t, content).term, Intern(t, content).id, s)
  BY DEF Inline
<1> QED
  BY <1>1, InternKeeps, LayKeeps

\* A graphics command is sound, and leaves in flight what the protocol leaves in flight
\* (State::apc).
LEMMA ApcKeeps ==
  ASSUME NEW t, NEW held, NEW known, Agrees(t, held, known), NEW cmd, cmd.body \in Bytes, NEW s \in Place
  PROVE  /\ Agrees(Apc(t, cmd, s), held, known)
         /\ Apc(t, cmd, s).kitty.pending = Feed(t.kitty, cmd).kitty.pending
         /\ Drawable(t, held) => Drawable(Apc(t, cmd, s), held)
<1> DEFINE fed == Feed(t.kitty, cmd)
           t1 == Naming(t, fed.kitty)
<1>1. Kept(t.kitty, fed)
  BY FeedKeeps DEF Agrees, Sound, IsTerm
<1>2. Agrees(t1, held, known) /\ (Drawable(t, held) => Drawable(t1, held)) /\ t1.kitty = fed.kitty
  BY <1>1, NamingKeeps, NamingFields DEF Kept, Agrees, Sound
<1>3. CASE fed.outcome.does = "image"
  <2> DEFINE in == Intern(t1, fed.outcome.content)
             bound == Bind(in.term.kitty, fed.outcome.name, in.id)
             t2 == Naming(in.term, bound)
  <2>1. Apc(t, cmd, s) = IF fed.outcome.display THEN Lay(t2, in.id, s) ELSE t2
    BY <1>3 DEF Apc, Naming
  <2> HIDE DEF t1, fed
  <2>2. /\ Agrees(in.term, held, known) /\ in.id \in Ids(in.term.store)
        /\ in.term.kitty.pending = t1.kitty.pending
        /\ Drawable(t1, held) => Drawable(in.term, held)
    BY <1>1, <1>2, <1>3, InternKeeps DEF Kept
  <2> HIDE DEF in
  <2>3. /\ IsKitty(bound) /\ bound.pending = in.term.kitty.pending
        /\ BoundImages(bound) \subseteq Ids(in.term.store)
    BY <2>2, BindKeeps DEF Agrees, Sound, IsTerm
  <2>4. /\ Agrees(t2, held, known) /\ (Drawable(in.term, held) => Drawable(t2, held))
        /\ t2.kitty.pending = in.term.kitty.pending
    <3> HIDE DEF bound
    <3>1. Agrees(t2, held, known) /\ (Drawable(in.term, held) => Drawable(t2, held))
      BY <2>2, <2>3, NamingKeeps
    <3>2. t2.kitty = bound
      BY <2>2, NamingFields DEF Agrees, Sound
    <3> QED
      BY <2>3, <3>1, <3>2
  <2> HIDE DEF t2
  <2> QED
    BY <1>2, <2>1, <2>2, <2>4, LayKeeps DEF fed
<1>4. CASE fed.outcome.does = "place"
  <2>1. Apc(t, cmd, s) = Lay(t1, fed.outcome.id, s)
    BY <1>4 DEF Apc, Naming
  <2> HIDE DEF t1, fed
  <2> QED
    BY <1>2, <2>1, LayKeeps DEF fed
<1>5. CASE fed.outcome.does \notin {"image", "place"}
  <2>1. Apc(t, cmd, s) = t1
    BY <1>5 DEF Apc, Naming
  <2> QED
    BY <1>2, <2>1
<1> QED
  BY <1>3, <1>4, <1>5

-----------------------------------------------------------------------------
(* Emacs *)

\* The elements of two lists joined are those of the two.
LEMMA JoinElements ==
  ASSUME NEW S, NEW a \in Seq(S), NEW b \in Seq(S)
  PROVE  a \o b \in Seq(S) /\ ToSet(a \o b) = ToSet(a) \cup ToSet(b)
<1>1. /\ a \o b \in Seq(S) /\ Len(a) \in Nat /\ Len(b) \in Nat
      /\ DOMAIN a = 1..Len(a) /\ DOMAIN b = 1..Len(b) /\ DOMAIN (a \o b) = 1..(Len(a) + Len(b))
      /\ \A i \in 1..(Len(a) + Len(b)) : (a \o b)[i] = IF i <= Len(a) THEN a[i] ELSE b[i - Len(a)]
  OBVIOUS
<1>2. ASSUME NEW x \in ToSet(a \o b) PROVE x \in ToSet(a) \cup ToSet(b)
  <2>1. PICK i \in 1..(Len(a) + Len(b)) : x = (a \o b)[i]
    BY <1>1 DEF ToSet
  <2>2. CASE i <= Len(a)
    BY <1>1, <2>1, <2>2 DEF ToSet
  <2>3. CASE i > Len(a)
    <3>1. i - Len(a) \in 1..Len(b) /\ x = b[i - Len(a)]
      BY <1>1, <2>1, <2>3
    <3> QED
      BY <1>1, <3>1 DEF ToSet
  <2> QED
    BY <1>1, <2>2, <2>3
<1>3. ASSUME NEW x \in ToSet(a) PROVE x \in ToSet(a \o b)
  <2>1. PICK i \in 1..Len(a) : x = a[i]
    BY <1>1 DEF ToSet
  <2>2. i \in 1..(Len(a) + Len(b)) /\ (a \o b)[i] = x
    BY <1>1, <2>1
  <2> QED
    BY <1>1, <2>2 DEF ToSet
<1>4. ASSUME NEW x \in ToSet(b) PROVE x \in ToSet(a \o b)
  <2>1. PICK i \in 1..Len(b) : x = b[i]
    BY <1>1 DEF ToSet
  <2>2. Len(a) + i \in 1..(Len(a) + Len(b)) /\ (a \o b)[Len(a) + i] = x
    BY <1>1, <2>1
  <2> QED
    BY <1>1, <2>2 DEF ToSet
<1> QED
  BY <1>1, <1>2, <1>3, <1>4

\* What Emacs installs is what it had and what arrived (cooked--install-images).
LEMMA InstallElements ==
  ASSUME data \in Seq(Picture), NEW images \in Seq(Picture)
  PROVE  /\ Install(images) \in Seq(Picture)
         /\ ToSet(Install(images)) \subseteq ToSet(data) \cup ToSet(images)
         /\ Ids(Install(images)) = Ids(data) \cup Ids(images)
<1> DEFINE new == Excluding(images, Ids(data))
<1>1. /\ new \in Seq(Picture) /\ ToSet(new) \subseteq ToSet(images)
      /\ Ids(new) = Ids(images) \ Ids(data)
  BY ExcludingPictures
<1> HIDE DEF new
<1>2. data \o new \in Seq(Picture) /\ ToSet(data \o new) = ToSet(data) \cup ToSet(new)
  BY <1>1, JoinElements
<1>3. Ids(data \o new) = Ids(data) \cup Ids(new)
  BY <1>2 DEF Ids
<1>4. Install(images) = data \o new
  BY DEF Install, new
<1> QED
  BY <1>1, <1>2, <1>3, <1>4

\* The oldest of some pictures are among them.
LEMMA OldestElements ==
  ASSUME NEW pictures \in Seq(Picture), NEW n \in Nat
  PROVE  Oldest(pictures, n) \subseteq Ids(pictures) /\ (n = 0 => Oldest(pictures, n) = {})
<1> DEFINE m == IF n < Len(pictures) THEN n ELSE Len(pictures)
           front == SubSeq(pictures, 1, m)
<1>1. m \in Nat /\ m <= Len(pictures) /\ DOMAIN pictures = 1..Len(pictures) /\ (n = 0 => m = 0)
  OBVIOUS
<1>2. DOMAIN front = 1..m /\ \A i \in 1..m : front[i] = pictures[i]
  BY <1>1
<1> HIDE DEF m, front
<1>3. ToSet(front) = {pictures[i] : i \in 1..m} /\ ToSet(front) \subseteq ToSet(pictures)
  BY <1>1, <1>2 DEF ToSet
<1>4. n = 0 => ToSet(front) = {}
  BY <1>1, <1>3
<1> QED
  BY <1>3, <1>4 DEF Oldest, Ids, front, m

\* Nothing displayed and nothing that just arrived is spent, and nothing at all without a
\* cap (cooked--evict-images).
LEMMA SpentElements ==
  ASSUME session \in Sessions, NEW pictures \in Seq(Picture), NEW arriving
  PROVE  /\ Spent(pictures, arriving) \cap (arriving \cup Displayed) = {}
         /\ session.cap = 0 => Spent(pictures, arriving) = {}
<1> DEFINE others == Excluding(pictures, arriving \cup Displayed)
<1>1. others \in Seq(Picture) /\ Ids(others) = Ids(pictures) \ (arriving \cup Displayed)
  BY ExcludingPictures
<1>2. Overrun(pictures) \in Nat /\ (session.cap = 0 => Overrun(pictures) = 0)
  <2>1. session.cap \in Nat /\ Len(pictures) \in Nat
    BY PicturesAssumption
  <2> QED
    BY <2>1 DEF Overrun
<1> HIDE DEF others
<1>3. /\ Oldest(others, Overrun(pictures)) \subseteq Ids(others)
      /\ session.cap = 0 => Oldest(others, Overrun(pictures)) = {}
  BY <1>1, <1>2, OldestElements
<1> QED
  BY <1>1, <1>3 DEF Spent, others

\* What Emacs draws is a picture it has, and it draws every picture it has.
LEMMA DrawnElements ==
  ASSUME NEW pictures \in Seq(Picture), NEW id
  PROVE  /\ Drawn(pictures, id).content # Hole /\ Drawn(pictures, id).id # 0
               => Drawn(pictures, id) \in ToSet(pictures)
         /\ id \in Ids(pictures) \cup {0} => Drawn(pictures, id).content # Hole
<1>1. CASE id = 0
  BY <1>1 DEF Drawn, Nowhere, Hole
<1>2. CASE id # 0 /\ id \notin Ids(pictures)
  BY <1>2 DEF Drawn
<1>3. CASE id # 0 /\ id \in Ids(pictures)
  <2> DEFINE it == CHOOSE p \in ToSet(pictures) : p.id = id
  <2>1. it \in ToSet(pictures) /\ it.id = id
    BY <1>3 DEF Ids
  <2>2. it \in Picture
    BY <2>1, ToSetPictures
  <2>3. Drawn(pictures, id) = [id |-> id, content |-> it.content]
    BY <1>3 DEF Drawn
  <2> HIDE DEF it
  <2>4. Drawn(pictures, id) = it /\ it.content # Hole
    BY <2>1, <2>2, <2>3, BytesAreDrawn DEF Picture
  <2> QED
    BY <2>1, <2>4
<1> QED
  BY <1>1, <1>2, <1>3

\* A new emulator is sound in front of any Emacs that shows nothing.
LEMMA NewFits ==
  ASSUME NEW held
  PROVE  Agrees(NewTerm, held, {}) /\ Drawable(NewTerm, held)
<1>1. << >> \in Seq(Picture) /\ ToSet(<< >>) = {} /\ Distinct(<< >>) /\ << >> \in Bytes
  BY DEF ToSet, Distinct, Bytes
<1>2. IsKitty(NewKitty) /\ BoundImages(NewKitty) = {}
  BY <1>1 DEF IsKitty, NewKitty, BoundImages
<1>3. IsTerm(NewTerm)
  BY <1>1, <1>2 DEF IsTerm, NewTerm
<1>4. /\ NewTerm.store = << >> /\ NewTerm.queue = << >> /\ NewTerm.next = 1
      /\ NewTerm.kitty = NewKitty /\ NewTerm.scrolled = {}
      /\ \A s \in Place : NewTerm.grid[s] = 0
  BY DEF NewTerm
<1>5. Mentioned(NewTerm, {}) = {} /\ Ids(<< >>) = {}
  BY <1>1, <1>4 DEF Mentioned, Ids
<1> QED
  BY <1>1, <1>2, <1>3, <1>4, <1>5 DEF Agrees, Sound, GivenOnce, Drawable

-----------------------------------------------------------------------------
(* The steps *)

\* The parts of the emulator's state.
LEMMA TermFields ==
  /\ Term.kitty = kitty /\ Term.store = store /\ Term.next = nextImage /\ Term.queue = queue
  /\ Term.grid = grid /\ Term.scrolled = scrolled /\ Term.damage = damage
BY DEF Term

\* After a step that says so the emulator's state is the record it says.
LEMMA TermIsNow ==
  ASSUME NEW t, IsTerm(t), TermBecomes(t)
  PROVE  Term' = t
BY DEF Term, TermBecomes, IsTerm

\* An empty slot shows no picture and lacks no bytes.
LEMMA NowhereIsNothing == Nowhere.id = 0 /\ Nowhere.content # Hole
BY DEF Nowhere, Hole

\* The invariant holds of a new session.
LEMMA PicturesStart == PicturesInit => PicturesInv
<1> SUFFICES ASSUME PicturesInit PROVE PicturesInv
  OBVIOUS
<1>1. Term = NewTerm
  BY DEF PicturesInit, Term, NewTerm
<1>2. /\ data = << >> /\ batch = Applied /\ history = {} /\ session \in Sessions
      /\ shown = [s \in Place |-> Nowhere]
  BY DEF PicturesInit
<1>3. batch.images = << >> /\ batch.scrolled = {} /\ batch.rows = << >>
  BY <1>2 DEF Applied
<1>4. Seen \subseteq {Nowhere} /\ Rendered = {}
  BY <1>2, NowhereIsNothing DEF Seen, Rendered
<1>5. Spoken = {} /\ << >> \in Seq(Picture)
  BY <1>2, <1>3, <1>4 DEF Spoken, ToSet
<1>6. EmacsOK
  BY <1>2, <1>3, <1>4, <1>5 DEF EmacsOK
<1>7. NoHole /\ DOMAIN << >> = {}
  BY <1>2, NowhereIsNothing DEF NoHole
<1>8. Agrees(Term, Held, Spoken) /\ Drawable(Term, Held)
  BY <1>1, <1>5, NewFits
<1>9. Undropped
  BY <1>3, <1>7, <1>8 DEF Undropped
<1> QED
  BY <1>6, <1>8, <1>9 DEF PicturesInv

\* A sound change of the emulator alone preserves the invariant.
LEMMA ChildKeeps ==
  ASSUME PicturesInv, NEW t, Child(t), Agrees(t, Held, Spoken), Drawable(Term, Held) => Drawable(t, Held)
  PROVE  PicturesInv'
<1>1. Term' = t
  BY TermIsNow DEF Child, Agrees, Sound
<1>2. UNCHANGED <<session, batch, data, shown, history>>
  BY DEF Child, Spends, emacs
<1>3. Seen' = Seen
  BY <1>2 DEF Seen
<1>4. Rendered' = Rendered
  BY <1>3 DEF Rendered
<1>5. Held' = Held /\ Spoken' = Spoken
  BY <1>2, <1>4 DEF Held, Spoken
<1>6. EmacsOK'
  BY <1>2, <1>4 DEF PicturesInv, EmacsOK
<1>7. NoHole' = NoHole
  BY <1>2 DEF NoHole
<1>8. Undropped'
  BY <1>1, <1>2, <1>5, <1>7 DEF PicturesInv, Undropped
<1>9. Agrees(Term, Held, Spoken)'
  BY <1>1, <1>5
<1> QED
  BY <1>6, <1>8, <1>9 DEF PicturesInv

\* The emulator after a drain.
Emptied(t) == [t EXCEPT !.queue = << >>, !.scrolled = {}, !.damage = {}]

\* The drain takes the queue, the lines and the damage, and leaves the rest.
LEMMA EmptiedFields ==
  ASSUME NEW t, IsTerm(t)
  PROVE  /\ IsTerm(Emptied(t)) /\ Emptied(t).kitty = t.kitty /\ Emptied(t).store = t.store
         /\ Emptied(t).next = t.next /\ Emptied(t).queue = << >> /\ Emptied(t).grid = t.grid
         /\ Emptied(t).scrolled = {}
<1>1. << >> \in Seq(Picture)
  OBVIOUS
<1> QED
  BY <1>1 DEF IsTerm, Emptied

\* A drain preserves the invariant: what leaves the queue is in the update.
LEMMA DrainKeeps ==
  ASSUME PicturesInv, Drain
  PROVE  PicturesInv'
<1> DEFINE shed == Shed(Term)
           u == Emptied(shed)
<1>1. /\ Agrees(Term, Held, Spoken) /\ IsTerm(Term) /\ Term.next = nextImage
      /\ session \in Sessions /\ data \in Seq(Picture)
  BY TermFields DEF PicturesInv, Agrees, Sound, EmacsOK
<1>2. batch.images = << >> /\ Held = Ids(data) /\ Spoken = ToSet(data) \cup Rendered
  <2>1. batch = Applied
    BY DEF Drain, PicturesInv, EmacsOK
  <2>2. batch.images = << >>
    BY <2>1 DEF Applied
  <2>3. ToSet(<< >>) = {} /\ Ids(<< >>) = {}
    BY DEF ToSet, Ids
  <2> QED
    BY <2>2, <2>3 DEF Held, Spoken
<1>3. /\ Sound(shed, nextImage, Held, Spoken)
      /\ Drawable(Term, Held) => Drawable(shed, Held)
      /\ shed.next = nextImage /\ shed.grid = grid /\ shed.scrolled = scrolled
  BY <1>1, ShedKeeps, TermFields DEF Agrees
<1> HIDE DEF shed
<1>4. /\ IsTerm(u) /\ u.kitty = shed.kitty /\ u.store = shed.store /\ u.next = nextImage
      /\ u.queue = << >> /\ u.grid = grid /\ u.scrolled = {}
  BY <1>3, EmptiedFields DEF Sound
<1>5. TermBecomes(u) /\ batch' = [taken |-> TRUE, images |-> shed.queue, scrolled |-> scrolled,
                                 rows |-> [s \in damage |-> shed.grid[s]]]
  BY DEF Drain, shed, Emptied
<1>6. UNCHANGED <<session, data, shown, history>>
  BY DEF Drain, Spends
<1> HIDE DEF u
<1>7. Term' = u
  BY <1>4, <1>5, TermIsNow
<1>8. /\ batch'.taken /\ batch'.images = shed.queue /\ batch'.scrolled = scrolled
      /\ batch'.rows = [s \in damage |-> shed.grid[s]]
  BY <1>5
<1>9. Seen' = Seen
  BY <1>6 DEF Seen
<1>10. Rendered' = Rendered
  BY <1>9 DEF Rendered
<1>11. Held' = Held \cup Ids(shed.queue) /\ Spoken' = Spoken \cup ToSet(shed.queue)
  BY <1>2, <1>6, <1>8, <1>10 DEF Held, Spoken
<1>12. Mentioned(u, Spoken') = Mentioned(shed, Spoken)
  <2>1. ToSet(u.queue) = {}
    BY <1>4 DEF ToSet
  <2> QED
    BY <1>4, <1>11, <2>1 DEF Mentioned
<1>13. Agrees(u, Held', Spoken')
  BY <1>3, <1>4, <1>11, <1>12 DEF Agrees, Sound, GivenOnce
<1>14. EmacsOK'
  BY <1>3, <1>6, <1>8, <1>10 DEF PicturesInv, EmacsOK, Sound, IsTerm
<1>15. Undropped'
  <2>1. SUFFICES ASSUME (session.cap = 0 /\ ~session.drops)'
                 PROVE  /\ Drawable(u, Held') /\ NoHole' /\ batch'.scrolled \subseteq Held'
                        /\ \A s \in DOMAIN batch'.rows : batch'.rows[s] \in Held' \cup {0}
    BY <1>7 DEF Undropped
  <2>2. Drawable(shed, Held) /\ NoHole
    BY <1>3, <1>6, <2>1 DEF PicturesInv, Undropped
  <2>3. NoHole'
    BY <1>6, <2>2 DEF NoHole
  <2>4. damage \subseteq Place
    BY <1>1, TermFields DEF IsTerm
  <2> QED
    BY <1>3, <1>4, <1>8, <1>11, <2>2, <2>3, <2>4 DEF Drawable
<1> QED
  BY <1>7, <1>13, <1>14, <1>15 DEF PicturesInv

\* Applying an update preserves the invariant: what the cap spends is nothing the buffer or
\* the update shows, and the emulator forgets it in the same breath (cooked--apply).
LEMMA ApplyKeeps ==
  ASSUME PicturesInv, Apply
  PROVE  PicturesInv'
<1> DEFINE arriving == Ids(batch.images)
           held == Install(batch.images)
           spent == Spent(held, arriving)
           kept == Excluding(held, spent)
           u == ForgetImages(Term, spent)
<1>1. /\ Agrees(Term, Held, Spoken) /\ IsTerm(Term)
      /\ session \in Sessions /\ data \in Seq(Picture) /\ batch.images \in Seq(Picture)
  BY DEF PicturesInv, Agrees, Sound, EmacsOK
<1>2. /\ held \in Seq(Picture) /\ Ids(held) = Held
      /\ ToSet(held) \subseteq ToSet(data) \cup ToSet(batch.images)
  BY <1>1, InstallElements DEF Held
<1>3. TermBecomes(u) /\ data' = kept /\ batch' = Applied
  BY DEF Apply
<1>4. /\ shown' = [s \in Place |-> IF s \in DOMAIN batch.rows THEN Drawn(kept, batch.rows[s]) ELSE shown[s]]
      /\ history' = history \cup {Drawn(kept, id) : id \in batch.scrolled}
      /\ session' = session
  BY DEF Apply
<1> HIDE DEF held
<1>5. spent \cap (arriving \cup Displayed) = {} /\ (session.cap = 0 => spent = {})
  BY <1>1, <1>2, SpentElements
<1> HIDE DEF spent, arriving
<1>6. /\ kept \in Seq(Picture) /\ Ids(kept) = Held \ spent
      /\ ToSet(kept) \subseteq ToSet(data) \cup ToSet(batch.images)
  BY <1>2, ExcludingPictures
<1> HIDE DEF kept
<1>7. batch'.images = << >> /\ batch'.scrolled = {} /\ batch'.rows = << >>
  BY <1>3 DEF Applied
<1>8. Held' = Ids(kept) /\ Spoken' = ToSet(kept) \cup Rendered'
  <2>1. ToSet(<< >>) = {} /\ Ids(<< >>) = {}
    BY DEF ToSet, Ids
  <2> QED
    BY <1>3, <1>7, <2>1 DEF Held, Spoken
<1>9. Rendered' \subseteq Rendered \cup ToSet(kept)
  <2> SUFFICES ASSUME NEW p \in Seen', p.content # Hole, p.id # 0
               PROVE  p \in Rendered \cup ToSet(kept)
    BY DEF Rendered
  <2>1. CASE p \in history
    BY <2>1 DEF Rendered, Seen
  <2>2. CASE \E id : p = Drawn(kept, id)
    BY <1>6, <2>2, DrawnElements
  <2>3. CASE \E s \in Place : p = shown[s]
    BY <2>3 DEF Rendered, Seen
  <2>4. p \in history' \/ \E s \in Place : p = shown'[s]
    BY DEF Seen
  <2> QED
    BY <1>4, <2>1, <2>2, <2>3, <2>4
<1>10. {p.id : p \in Rendered'} \subseteq Ids(kept)
  <2>1. ASSUME NEW p \in Rendered PROVE p.id \in Ids(kept)
    <3>1. p.id \in Held
      BY DEF PicturesInv, EmacsOK, Held
    <3>2. p.id \in Displayed
      BY DEF Rendered, Seen, Displayed
    <3> QED
      BY <1>5, <1>6, <3>1, <3>2
  <2>2. ASSUME NEW p \in ToSet(kept) PROVE p.id \in Ids(kept)
    BY DEF Ids
  <2> QED
    BY <1>9, <2>1, <2>2
<1>11. Spoken' \subseteq Spoken /\ Held \ spent \subseteq Held'
  BY <1>6, <1>8, <1>9 DEF Spoken
<1>12. /\ Sound(u, Term.next, Held', Spoken')
       /\ Drawable(Term, Held) /\ Held \subseteq Held' => Drawable(u, Held')
  BY <1>1, <1>11, ForgetKeeps DEF Agrees
<1>13. u.next = Term.next
  BY <1>1, ForgetFields
<1> HIDE DEF u
<1>14. Term' = u
  BY <1>3, <1>12, TermIsNow DEF Sound
<1>15. Agrees(Term, Held, Spoken)'
  BY <1>12, <1>13, <1>14 DEF Agrees
<1>16. EmacsOK'
  <2>1. << >> \in Seq(Picture)
    OBVIOUS
  <2> QED
    BY <1>1, <1>3, <1>4, <1>6, <1>7, <1>10, <2>1 DEF EmacsOK
<1>17. Undropped'
  <2> SUFFICES ASSUME session.cap = 0, ~session.drops
               PROVE  /\ Drawable(u, Held') /\ NoHole' /\ batch'.scrolled \subseteq Held'
                      /\ \A s \in DOMAIN batch'.rows : batch'.rows[s] \in Held' \cup {0}
    BY <1>4, <1>14 DEF Undropped
  <2>1. /\ Drawable(Term, Held) /\ NoHole /\ batch.scrolled \subseteq Held
        /\ \A s \in DOMAIN batch.rows : batch.rows[s] \in Held \cup {0}
    BY DEF PicturesInv, Undropped
  <2>2. Ids(kept) = Held /\ Held' = Held
    BY <1>5, <1>6, <1>8
  <2>3. \A id \in Held \cup {0} : Drawn(kept, id).content # Hole
    BY <1>6, <2>2, DrawnElements
  <2>4. \A p \in history' : p.content # Hole
    BY <1>4, <2>1, <2>3 DEF NoHole
  <2>5. \A s \in Place : shown'[s].content # Hole
    BY <1>4, <2>1, <2>3 DEF NoHole
  <2>6. NoHole'
    BY <2>4, <2>5 DEF NoHole
  <2> QED
    BY <1>7, <1>12, <2>1, <2>2, <2>6
<1> QED
  BY <1>15, <1>16, <1>17 DEF PicturesInv

\* So does the collector, which takes only what nothing shows.
LEMMA CollectKeeps ==
  ASSUME PicturesInv, CollectGarbage
  PROVE  PicturesInv'
<1>1. UNCHANGED <<session, kitty, store, nextImage, queue, grid, scrolled, damage, batch, data, shown, history>>
  BY DEF CollectGarbage, emulator
<1>2. Term' = Term /\ Seen' = Seen /\ NoHole' = NoHole
  BY <1>1 DEF Term, Seen, NoHole
<1>3. Rendered' = Rendered
  BY <1>2 DEF Rendered
<1>4. Held' = Held /\ Spoken' = Spoken
  BY <1>1, <1>3 DEF Held, Spoken
<1>5. EmacsOK'
  BY <1>1, <1>3 DEF PicturesInv, EmacsOK
<1> QED
  BY <1>1, <1>2, <1>4, <1>5 DEF PicturesInv, Undropped

\* So does deleting the scrollback: pictures the screen shows too are kept.
LEMMA ClearKeeps ==
  ASSUME PicturesInv, Clear
  PROVE  PicturesInv'
<1> DEFINE gone == {p.id : p \in history} \ InText(shown, {})
           dropped == gone \cap Ids(data)
           u == ForgetImages(Term, dropped)
<1>1. Agrees(Term, Held, Spoken) /\ IsTerm(Term) /\ data \in Seq(Picture) /\ batch = Applied
  BY DEF PicturesInv, Agrees, Sound, EmacsOK, Clear
<1>2. /\ TermBecomes(u) /\ data' = Excluding(data, gone) /\ history' = {} /\ session.drops
      /\ UNCHANGED <<session, batch, shown>>
  BY DEF Clear, Spends
<1>3. batch.images = << >> /\ ToSet(<< >>) = {} /\ Ids(<< >>) = {}
  BY <1>1 DEF Applied, ToSet, Ids
<1>4. /\ data' \in Seq(Picture) /\ ToSet(data') \subseteq ToSet(data)
      /\ Ids(data)' = Ids(data) \ gone
  <2>1. /\ Excluding(data, gone) \in Seq(Picture)
        /\ ToSet(Excluding(data, gone)) \subseteq ToSet(data)
        /\ Ids(Excluding(data, gone)) = Ids(data) \ gone
    BY <1>1, ExcludingPictures
  <2> QED
    BY <1>2, <2>1
<1>5. Rendered' \subseteq Rendered /\ \A p \in Rendered' : p.id \notin gone
  <2>1. Seen' \subseteq Seen /\ \A p \in Seen' : p.id \in InText(shown, {})
    BY <1>2 DEF Seen, InText
  <2> QED
    BY <2>1 DEF Rendered
<1> HIDE DEF gone
<1>6. {p.id : p \in Rendered'} \subseteq Ids(data)'
  BY <1>4, <1>5 DEF PicturesInv, EmacsOK
<1>7. Held = Ids(data) /\ Held' = Ids(data) \ gone /\ Spoken' \subseteq Spoken
  BY <1>2, <1>3, <1>4, <1>5 DEF Held, Spoken
<1>8. Sound(u, Term.next, Held', Spoken')
  BY <1>1, <1>7, ForgetKeeps DEF Agrees
<1>9. u.next = Term.next
  BY <1>1, ForgetFields
<1> HIDE DEF u
<1>10. Term' = u
  BY <1>2, <1>8, TermIsNow DEF Sound
<1>11. EmacsOK'
  BY <1>2, <1>4, <1>6 DEF PicturesInv, EmacsOK
<1> QED
  BY <1>2, <1>8, <1>9, <1>10, <1>11 DEF PicturesInv, Undropped, Agrees

\* So does a new session in the buffer, whose ids begin again.
LEMMA RestartKeeps ==
  ASSUME PicturesInv, Restart
  PROVE  PicturesInv'
<1>1. /\ TermBecomes(NewTerm) /\ data' = << >> /\ history' = {} /\ shown' = [s \in Place |-> Nowhere]
      /\ batch' = Applied /\ session' \in Sessions
  BY DEF Restart, ResetImages, Spends, PicturesInv, EmacsOK
<1>2. Agrees(NewTerm, Held', {}) /\ Drawable(NewTerm, Held')
  BY NewFits
<1>3. Term' = NewTerm
  BY <1>1, <1>2, TermIsNow DEF Agrees, Sound
<1>4. batch'.images = << >> /\ batch'.scrolled = {} /\ batch'.rows = << >> /\ DOMAIN << >> = {}
  BY <1>1 DEF Applied
<1>5. Rendered' = {}
  <2>1. Seen' \subseteq {Nowhere}
    BY <1>1 DEF Seen
  <2> QED
    BY <2>1, NowhereIsNothing DEF Rendered
<1>6. Spoken' = {} /\ << >> \in Seq(Picture)
  BY <1>1, <1>4, <1>5 DEF Spoken, ToSet
<1>7. EmacsOK'
  BY <1>1, <1>4, <1>5, <1>6 DEF EmacsOK
<1>8. NoHole'
  BY <1>1, NowhereIsNothing DEF NoHole
<1> QED
  BY <1>2, <1>3, <1>4, <1>6, <1>7, <1>8 DEF PicturesInv, Undropped

\* So does every step.
LEMMA PicturesStep == PicturesInv /\ [PicturesNext]_pictureVars => PicturesInv'
<1> SUFFICES ASSUME PicturesInv, [PicturesNext]_pictureVars PROVE PicturesInv'
  OBVIOUS
<1>1. Agrees(Term, Held, Spoken) /\ session \in Sessions
  BY DEF PicturesInv, EmacsOK
<1>2. ASSUME NEW cmd \in session.commands, NEW s \in Place, Command(cmd, s) PROVE PicturesInv'
  <2>1. cmd.body \in Bytes
    BY <1>1, PicturesAssumption
  <2>2. /\ Agrees(Apc(Term, cmd, s), Held, Spoken)
        /\ Drawable(Term, Held) => Drawable(Apc(Term, cmd, s), Held)
    BY <1>1, <2>1, ApcKeeps
  <2> QED
    BY <1>2, <2>2, ChildKeeps DEF Command
<1>3. ASSUME NEW content \in session.inline, NEW s \in Place, InlineImage(content, s) PROVE PicturesInv'
  <2>1. content \in Bytes
    BY <1>1, PicturesAssumption
  <2>2. /\ Agrees(Inline(Term, content, s), Held, Spoken)
        /\ Drawable(Term, Held) => Drawable(Inline(Term, content, s), Held)
    BY <1>1, <2>1, InlineKeeps
  <2> QED
    BY <1>3, <2>2, ChildKeeps DEF InlineImage
<1>4. ASSUME NEW s \in Place, EraseSlot(s) PROVE PicturesInv'
  BY <1>1, <1>4, EraseKeeps, ChildKeeps DEF EraseSlot
<1>5. CASE Scroll
  BY <1>1, <1>5, ScrollUpKeeps, ChildKeeps DEF Scroll
<1>6. CASE UNCHANGED pictureVars
  <2>1. UNCHANGED <<session, kitty, store, nextImage, queue, grid, scrolled, damage, batch, data, shown, history>>
    BY <1>6 DEF pictureVars, emulator, emacs
  <2>2. Term' = Term /\ Seen' = Seen /\ NoHole' = NoHole
    BY <2>1 DEF Term, Seen, NoHole
  <2>3. Rendered' = Rendered
    BY <2>2 DEF Rendered
  <2>4. Held' = Held /\ Spoken' = Spoken
    BY <2>1, <2>3 DEF Held, Spoken
  <2>5. EmacsOK'
    BY <2>1, <2>3 DEF PicturesInv, EmacsOK
  <2> QED
    BY <2>1, <2>2, <2>4, <2>5 DEF PicturesInv, Undropped
<1> QED
  BY <1>2, <1>3, <1>4, <1>5, <1>6, DrainKeeps, ApplyKeeps, CollectKeeps, ClearKeeps, RestartKeeps DEF PicturesNext

\* The invariant says that the two sides agree.
LEMMA InvAgrees == PicturesInv => PicturesAgree
<1> SUFFICES ASSUME PicturesInv PROVE PicturesAgree
  OBVIOUS
<1>1. TrackedReaches /\ NamesLive
  BY TermFields DEF PicturesInv, Agrees, Sound, Held, TrackedReaches, NamesLive
<1>2. SameBytes
  <2> SUFFICES ASSUME NEW p \in ToSet(store) \cup ToSet(queue) \cup ToSet(batch.images),
                      NEW q \in ToSet(data) \cup history \cup {shown[s] : s \in Place},
                      p.id = q.id, q.content # Hole
               PROVE  p.content = q.content
    BY DEF SameBytes
  <2>1. p \in Mentioned(Term, Spoken)
    BY TermFields DEF Mentioned, Spoken
  <2>2. p.id # 0
    <3>1. p \in Picture
      BY TermFields, ToSetPictures DEF PicturesInv, Agrees, Sound, IsTerm, EmacsOK
    <3> QED
      BY <3>1 DEF Picture
  <2>3. q \in Spoken
    BY <2>2 DEF Spoken, Rendered, Seen
  <2> QED
    BY <2>1, <2>3 DEF Mentioned, PicturesInv, Agrees, Sound, GivenOnce
<1>3. ShownRebuildable
  <2> SUFFICES ASSUME NEW id \in Displayed, id \notin lagging PROVE id \in Ids(data)
    BY DEF ShownRebuildable
  <2>1. PICK p \in Rendered : p.id = id
    BY DEF Displayed, Rendered, Seen
  <2> QED
    BY <2>1 DEF PicturesInv, EmacsOK
<1>4. NoHoleUndropped
  BY DEF PicturesInv, Undropped, NoHoleUndropped
<1> QED
  BY <1>1, <1>2, <1>3, <1>4 DEF PicturesAgree

\* In every session the emulator and Emacs agree on pictures: a tracked picture's bytes are
\* with Emacs or on their way, a client's name places a tracked picture, an id means one
\* picture on both sides, what is shown can be shown again, and nothing is shown without its
\* bytes while Emacs drops nothing (image.rs's invariant, cooked--evict-images).
THEOREM PicturesAlwaysAgree == PicturesSpec => []PicturesAgree
BY PicturesStart, PicturesStep, InvAgrees, PTL DEF PicturesSpec

-----------------------------------------------------------------------------
(* Transfers *)

\* Only a command changes which transfer is in flight, but for a restart, which ends all.
LEMMA OthersWait ==
  ASSUME PicturesInv, [PicturesNext]_pictureVars, ~Restart,
         ~ \E cmd \in session.commands, s \in Place : Command(cmd, s)
  PROVE  kitty'.pending = kitty.pending
<1>1. Agrees(Term, Held, Spoken) /\ session \in Sessions /\ IsTerm(Term) /\ Term.kitty = kitty
  BY TermFields DEF PicturesInv, EmacsOK, Agrees, Sound
<1>2. ASSUME NEW content \in session.inline, NEW s \in Place, InlineImage(content, s)
      PROVE  kitty'.pending = kitty.pending
  <2>1. content \in Bytes
    BY <1>1, PicturesAssumption
  <2>2. Inline(Term, content, s).kitty.pending = Term.kitty.pending
    BY <1>1, <2>1, InlineKeeps
  <2> QED
    BY <1>1, <1>2, <2>2 DEF InlineImage, Child, TermBecomes
<1>3. ASSUME NEW s \in Place, EraseSlot(s) PROVE kitty'.pending = kitty.pending
  <2>1. Erase(Term, s).kitty = Term.kitty
    BY <1>1, EraseKeeps
  <2> QED
    BY <1>1, <1>3, <2>1 DEF EraseSlot, Child, TermBecomes
<1>4. CASE Scroll
  <2>1. ScrollUp(Term).kitty = Term.kitty
    BY <1>1, ScrollUpKeeps
  <2> QED
    BY <1>1, <1>4, <2>1 DEF Scroll, Child, TermBecomes
<1>5. CASE Drain
  <2>1. kitty' = Emptied(Shed(Term)).kitty
    BY <1>5 DEF Drain, Emptied, TermBecomes
  <2>2. IsTerm(Shed(Term)) /\ Shed(Term).kitty.pending = Term.kitty.pending
    BY <1>1, ShedKeeps DEF Agrees, Sound
  <2> QED
    BY <1>1, <2>1, <2>2, EmptiedFields
<1>6. ASSUME NEW ids, TermBecomes(ForgetImages(Term, ids)) PROVE kitty'.pending = kitty.pending
  <2>1. ForgetImages(Term, ids).kitty.pending = Term.kitty.pending
    BY <1>1, ForgetFields
  <2> QED
    BY <1>1, <1>6, <2>1 DEF TermBecomes
<1>7. CASE Apply
  BY <1>6, <1>7 DEF Apply
<1>8. CASE Clear
  BY <1>6, <1>8 DEF Clear
<1>9. CASE CollectGarbage
  BY <1>9 DEF CollectGarbage, emulator
<1>10. CASE UNCHANGED pictureVars
  BY <1>10 DEF pictureVars, emulator
<1> QED
  BY <1>2, <1>3, <1>4, <1>5, <1>7, <1>8, <1>9, <1>10 DEF PicturesNext

\* So a step that ends a transfer answers it.
LEMMA StepAnswers ==
  ASSUME PicturesInv, [PicturesNext]_pictureVars, Owed, ~Restart
  PROVE  \E a \in ToSet(answers') : a.id = ClientId(kitty.pending)
<1>1. Agrees(Term, Held, Spoken) /\ session \in Sessions /\ IsKitty(kitty) /\ Term.kitty = kitty
  BY TermFields DEF PicturesInv, EmacsOK, Agrees, Sound, IsTerm
<1>2. PICK cmd \in session.commands, s \in Place : Command(cmd, s)
  BY OthersWait DEF Owed
<1>3. cmd.body \in Bytes
  BY <1>1, PicturesAssumption
<1>4. kitty'.pending = Feed(kitty, cmd).kitty.pending /\ answers' = Feed(kitty, cmd).answers
  <2>1. Apc(Term, cmd, s).kitty.pending = Feed(Term.kitty, cmd).kitty.pending
    BY <1>1, <1>3, ApcKeeps
  <2> QED
    BY <1>1, <1>2, <2>1 DEF Command, Child, TermBecomes
<1> QED
  BY <1>1, <1>4, FeedAnswers DEF Owed

\* In every session a transfer that ends, finished, refused or displaced, is answered to the
\* client that opened it, unless it asked for silence (Kitty::feed).
THEOREM TransfersAnswered == PicturesSpec => AnswersOwed
<1>1. PicturesInv /\ [PicturesNext]_pictureVars
      => [Owed /\ ~Restart => \E a \in ToSet(answers') : a.id = ClientId(kitty.pending)]_pictureVars
  BY StepAnswers
<1> QED
  BY <1>1, PicturesStart, PicturesStep, PTL DEF PicturesSpec, AnswersOwed

-----------------------------------------------------------------------------
(* Parsers as records *)

Members == {"state", "intermediates", "params", "param", "ignoring", "osc", "cuts", "oscOverflow",
           "apc", "apcOverflow", "partial", "out"}
States == {"Ground", "CsiEntry", "CsiIgnore", "CsiIntermediate", "CsiParam", "DcsEntry",
           "DcsIntermediate", "DcsParam", "DcsPassthrough", "Escape", "EscapeIntermediate",
           "OscString", "ApcString", "DcsIgnore", "SosPmApcString"}
IsSeq(x) == \E S : x \in Seq(S)

\* A parser: its fields, a state there is, and no more of a payload than is kept.
Formed(p) ==
  /\ p = [f \in Members |-> p[f]]
  /\ p.state \in States
  /\ IsSeq(p.out) /\ IsSeq(p.apc) /\ Len(p.apc) <= MaxRaw /\ p.apcOverflow \in BOOLEAN

\* A sequence one element longer.
LEMMA SeqAppend ==
  ASSUME NEW x, IsSeq(x), NEW e
  PROVE  IsSeq(Append(x, e)) /\ Len(Append(x, e)) = Len(x) + 1 /\ Len(x) \in Nat
<1>1. PICK S : x \in Seq(S)
  BY DEF IsSeq
<1>2. x \in Seq(S \cup {e}) /\ e \in S \cup {e}
  BY <1>1
<1>3. Append(x, e) \in Seq(S \cup {e}) /\ Len(Append(x, e)) = Len(x) + 1 /\ Len(x) \in Nat
  BY <1>2
<1> QED
  BY <1>3 DEF IsSeq

\* What the actions change, and what they leave alone.
Keeps(p, q) == Formed(q) /\ q.partial = p.partial

\* A change of state keeps a parser one.
LEMMA ToKeeps ==
  ASSUME NEW p, Formed(p), NEW s \in States
  PROVE  Keeps(p, To(p, s)) /\ To(p, s).state = s
<1>1. To(p, s) = [f \in Members |-> IF f = "state" THEN s ELSE p[f]]
  BY DEF Formed, To, Members
<1> QED
  BY <1>1 DEF Keeps, Formed, Members

\* So does telling the performer.
LEMMA EmitKeeps ==
  ASSUME NEW p, Formed(p), NEW e
  PROVE  Keeps(p, Emit(p, e))
<1>1. Emit(p, e) = [f \in Members |-> IF f = "out" THEN Append(p.out, e) ELSE p[f]]
  BY DEF Formed, Emit, Members
<1>2. IsSeq(Append(p.out, e))
  BY SeqAppend DEF Formed
<1> QED
  BY <1>1, <1>2 DEF Keeps, Formed, Members

\* An action that tells nothing and leaves every payload alone.
Inert(p, q) ==
  /\ q = [f \in Members |-> q[f]]
  /\ \A f \in {"state", "out", "apc", "apcOverflow", "partial"} : q[f] = p[f]

\* And so does what touches neither.
LEMMA InertKeeps ==
  ASSUME NEW p, Formed(p), NEW q, Inert(p, q)
  PROVE  Keeps(p, q)
<1>1. /\ q.state = p.state /\ q.out = p.out /\ q.apc = p.apc /\ q.apcOverflow = p.apcOverflow
      /\ q.partial = p.partial
  BY DEF Inert
<1> QED
  BY <1>1 DEF Keeps, Formed, Inert

\* One after the other.
LEMMA KeepsOn ==
  ASSUME NEW p, NEW q, NEW r, Keeps(p, q), Keeps(q, r)
  PROVE  Keeps(p, r)
  BY DEF Keeps

\* The actions that build a sequence.
LEMMA ActionsKeep ==
  ASSUME NEW p, Formed(p), NEW b
  PROVE  /\ Keeps(p, ResetParams(p)) /\ Keeps(p, Collect(p, b))
         /\ Keeps(p, Separate(p, TRUE)) /\ Keeps(p, Separate(p, FALSE))
         /\ Keeps(p, ParamNext(p)) /\ Keeps(p, LastParam(p))
<1>1. Inert(p, ResetParams(p))
  BY DEF Formed, Inert, ResetParams, Members
<1>2. Inert(p, Collect(p, b))
  BY DEF Formed, Inert, Collect, Members
<1>3. ASSUME NEW subparam \in BOOLEAN PROVE Inert(p, Separate(p, subparam))
  BY DEF Formed, Inert, Separate, Members
<1>4. Inert(p, ParamNext(p))
  BY DEF Formed, Inert, ParamNext, Members
<1>5. Inert(p, LastParam(p))
  BY DEF Formed, Inert, LastParam, Members
<1> QED
  BY <1>1, <1>2, <1>3, <1>4, <1>5, InertKeeps

\* The introducer of a sequence.
LEMMA EscapeKeeps ==
  ASSUME NEW p, Formed(p)
  PROVE  Keeps(p, Escape(p)) /\ Escape(p).state = "Escape"
<1>1. Keeps(p, ResetParams(p))
  BY ActionsKeep
<1>2. "Escape" \in States
  BY DEF States
<1> QED
  BY <1>1, <1>2, ToKeeps, KeepsOn DEF Keeps, Escape

\* A control executed on the way to a state.
LEMMA ExecuteTo ==
  ASSUME NEW p, Formed(p), NEW c, NEW s \in States
  PROVE  Keeps(p, Execute(p, c)) /\ Keeps(p, To(Execute(p, c), s))
<1>1. Keeps(p, Execute(p, c))
  BY EmitKeeps DEF Execute
<1> QED
  BY <1>1, ToKeeps, KeepsOn DEF Keeps

\* The bytes that mean the same anywhere.
LEMMA AnywhereKeeps ==
  ASSUME NEW p, Formed(p), NEW b
  PROVE  Keeps(p, Anywhere(p, b)) /\ Keeps(p, p)
<1>1. Keeps(p, p) /\ Keeps(p, Escape(p)) /\ "Ground" \in States
  BY EscapeKeeps DEF Keeps, States
<1>2. Keeps(p, To(Execute(p, <<b>>), "Ground"))
  BY <1>1, ExecuteTo
<1> QED
  BY <1>1, <1>2 DEF Anywhere

\* A byte of a sequence of parameters.
LEMMA ParameterKeeps ==
  ASSUME NEW p, Formed(p), NEW b, NEW s \in States
  PROVE  /\ Keeps(p, To(Collect(p, b), s)) /\ Keeps(p, To(ResetParams(p), s))
         /\ IsParameter(b) => Keeps(p, Parameter(p, b, s))
<1>1. ASSUME NEW q, Keeps(p, q) PROVE Keeps(p, To(q, s))
  BY <1>1, ToKeeps, KeepsOn DEF Keeps
<1>2. ASSUME IsParameter(b) PROVE Keeps(p, Parameter(p, b, s))
  <2>1. CASE b \in Digit
    BY <1>1, <2>1, ActionsKeep DEF Parameter, Digit
  <2>2. CASE b = ":"
    BY <1>1, <2>2, ActionsKeep DEF Parameter, Digit
  <2>3. CASE b = ";"
    BY <1>1, <2>3, ActionsKeep DEF Parameter, Digit
  <2> QED
    BY <1>2, <2>1, <2>2, <2>3 DEF IsParameter
<1> QED
  BY <1>1, <1>2, ActionsKeep

\* The ends of sequences.
LEMMA DispatchKeeps ==
  ASSUME NEW p, Formed(p), NEW b
  PROVE  /\ Keeps(p, CsiDispatch(p, b)) /\ Keeps(p, Hook(p, b)) /\ Keeps(p, EscDispatch(p, b))
         /\ Keeps(p, Unhook(p))
<1>1. ASSUME NEW q, Keeps(p, q), NEW e, NEW s \in States
      PROVE  Keeps(p, Emit(q, e)) /\ Keeps(p, To(Emit(q, e), s))
  <2>1. Keeps(p, Emit(q, e))
    BY <1>1, EmitKeeps, KeepsOn DEF Keeps
  <2> QED
    BY <2>1, ToKeeps, KeepsOn DEF Keeps
<1>2. Keeps(p, p) /\ Keeps(p, LastParam(p))
  BY ActionsKeep DEF Keeps
<1>3. "Ground" \in States /\ "DcsPassthrough" \in States
  BY DEF States
<1> QED
  BY <1>1, <1>2, <1>3 DEF CsiDispatch, Hook, EscDispatch, Unhook, Announce

\* The strings, as they are gathered and as they end.
LEMMA StringsKeep ==
  ASSUME NEW p, Formed(p), NEW b
  PROVE  /\ Keeps(p, OscPutParam(p)) /\ Keeps(p, OscPut(p, b)) /\ Keeps(p, OscEnd(p, b))
         /\ Keeps(p, ApcPut(p, b)) /\ Keeps(p, ApcEnd(p))
         /\ Keeps(p, [p EXCEPT !.osc = <<>>, !.cuts = <<>>, !.oscOverflow = FALSE])
         /\ Keeps(p, [p EXCEPT !.apc = <<>>, !.apcOverflow = FALSE])
         /\ Keeps(p, [p EXCEPT !.apc = <<>>])
<1>a. ASSUME NEW q, Formed(q)
      PROVE Keeps(q, [q EXCEPT !.osc = <<>>, !.cuts = <<>>, !.oscOverflow = FALSE])
  <2>1. Inert(q, [q EXCEPT !.osc = <<>>, !.cuts = <<>>, !.oscOverflow = FALSE])
    BY <1>a DEF Formed, Inert, Members
  <2> QED
    BY <1>a, <2>1, InertKeeps
<1>b. IsSeq(<<>>) /\ Len(<<>>) <= MaxRaw
  BY ParserAssumption DEF IsSeq
<1>c. ASSUME NEW q, Formed(q)
      PROVE Keeps(q, [q EXCEPT !.apc = <<>>, !.apcOverflow = FALSE]) /\ Keeps(q, [q EXCEPT !.apc = <<>>])
  BY <1>b, <1>c DEF Keeps, Formed, Members
<1>1. Keeps(p, OscPutParam(p))
  <2>1. Inert(p, OscPutParam(p))
    BY DEF OscPutParam, Formed, Inert, Members
  <2> QED
    BY <2>1, InertKeeps
<1>2. Keeps(p, OscPut(p, b))
  <2>1. Inert(p, OscPut(p, b))
    BY DEF OscPut, Formed, Inert, Members
  <2> QED
    BY <2>1, InertKeeps
<1>3. Keeps(p, OscEnd(p, b))
  <2> DEFINE q == OscPutParam(p)
             slices == [i \in DOMAIN q.cuts |-> SubSeq(q.osc, q.cuts[i][1] + 1, q.cuts[i][2])]
             told == IF q.oscOverflow THEN q ELSE Emit(q, <<"osc", slices, b = "BEL">>)
  <2>1. OscEnd(p, b) = [told EXCEPT !.osc = <<>>, !.cuts = <<>>, !.oscOverflow = FALSE]
    BY DEF OscEnd
  <2> HIDE DEF q, slices
  <2>2. Keeps(p, q)
    BY <1>1 DEF q
  <2>3. Keeps(p, told)
    BY <2>2, EmitKeeps, KeepsOn DEF Keeps
  <2> HIDE DEF told
  <2> QED
    BY <1>a, <2>1, <2>3, KeepsOn DEF Keeps
<1>4. Keeps(p, ApcPut(p, b))
  <2>1. Keeps(p, [p EXCEPT !.apcOverflow = TRUE])
    BY DEF Keeps, Formed, Members
  <2>2. ASSUME ~(Len(p.apc) >= MaxRaw) PROVE Keeps(p, [p EXCEPT !.apc = Append(@, b)])
    <3>1. IsSeq(Append(p.apc, b)) /\ Len(Append(p.apc, b)) <= MaxRaw
      <4>1. IsSeq(Append(p.apc, b)) /\ Len(Append(p.apc, b)) = Len(p.apc) + 1 /\ Len(p.apc) \in Nat
        BY SeqAppend DEF Formed
      <4> QED
        BY <2>2, <4>1, ParserAssumption
    <3>2. [p EXCEPT !.apc = Append(@, b)] = [f \in Members |-> IF f = "apc" THEN Append(p.apc, b) ELSE p[f]]
      BY DEF Formed, Members
    <3> QED
      BY <3>1, <3>2 DEF Keeps, Formed, Members
  <2> QED
    BY <2>1, <2>2 DEF ApcPut
<1>5. Keeps(p, ApcEnd(p))
  <2> DEFINE told == IF p.apcOverflow THEN p ELSE Emit(p, <<"apc", p.apc>>)
  <2>1. ApcEnd(p) = [told EXCEPT !.apc = <<>>, !.apcOverflow = FALSE]
    BY DEF ApcEnd
  <2>2. Keeps(p, told)
    BY EmitKeeps DEF Keeps
  <2> HIDE DEF told
  <2> QED
    BY <1>c, <2>1, <2>2, KeepsOn DEF Keeps
<1> QED
  BY <1>1, <1>2, <1>3, <1>4, <1>5, <1>a, <1>c

\* The states, one by one.
LEMMA AllStates ==
  /\ "Ground" \in States /\ "CsiEntry" \in States /\ "CsiIgnore" \in States
  /\ "CsiIntermediate" \in States /\ "CsiParam" \in States /\ "DcsEntry" \in States
  /\ "DcsIntermediate" \in States /\ "DcsParam" \in States /\ "DcsPassthrough" \in States
  /\ "Escape" \in States /\ "EscapeIntermediate" \in States /\ "OscString" \in States
  /\ "ApcString" \in States /\ "DcsIgnore" \in States /\ "SosPmApcString" \in States
BY DEF States

\* A byte of a control sequence.
LEMMA CsiKeeps ==
  ASSUME NEW p, Formed(p), NEW b
  PROVE  /\ Keeps(p, AdvanceCsiEntry(p, b)) /\ Keeps(p, AdvanceCsiIgnore(p, b))
         /\ Keeps(p, AdvanceCsiIntermediate(p, b)) /\ Keeps(p, AdvanceCsiParam(p, b))
<1>1. /\ Keeps(p, Execute(p, <<b>>)) /\ Keeps(p, Anywhere(p, b)) /\ Keeps(p, p)
      /\ Keeps(p, CsiDispatch(p, b)) /\ Keeps(p, Collect(p, b))
  BY ExecuteTo, AnywhereKeeps, DispatchKeeps, ActionsKeep, AllStates
<1>2. /\ Keeps(p, To(Collect(p, b), "CsiIntermediate")) /\ Keeps(p, To(Collect(p, b), "CsiParam"))
      /\ IsParameter(b) => Keeps(p, Parameter(p, b, "CsiParam"))
      /\ Keeps(p, To(p, "Ground")) /\ Keeps(p, To(p, "CsiIgnore"))
  BY ParameterKeeps, ToKeeps, AllStates
<1>3. Keeps(p, AdvanceCsiEntry(p, b))
  BY <1>1, <1>2 DEF AdvanceCsiEntry
<1>4. Keeps(p, AdvanceCsiIgnore(p, b))
  BY <1>1, <1>2 DEF AdvanceCsiIgnore
<1>5. Keeps(p, AdvanceCsiIntermediate(p, b))
  BY <1>1, <1>2 DEF AdvanceCsiIntermediate
<1>6. Keeps(p, AdvanceCsiParam(p, b))
  BY <1>1, <1>2 DEF AdvanceCsiParam
<1> QED
  BY <1>3, <1>4, <1>5, <1>6

\* A byte of a device control string.
LEMMA DcsKeeps ==
  ASSUME NEW p, Formed(p), NEW b
  PROVE  /\ Keeps(p, AdvanceDcsEntry(p, b)) /\ Keeps(p, AdvanceDcsIntermediate(p, b))
         /\ Keeps(p, AdvanceDcsParam(p, b)) /\ Keeps(p, AdvanceDcsPassthrough(p, b))
<1>1. /\ Keeps(p, Anywhere(p, b)) /\ Keeps(p, p) /\ Keeps(p, Unhook(p))
      /\ Keeps(p, Hook(p, b)) /\ Keeps(p, Collect(p, b)) /\ Keeps(p, Emit(p, <<"put", b>>))
  BY AnywhereKeeps, DispatchKeeps, ActionsKeep, EmitKeeps
<1>2. /\ Keeps(p, To(Collect(p, b), "DcsIntermediate")) /\ Keeps(p, To(Collect(p, b), "DcsParam"))
      /\ IsParameter(b) => Keeps(p, Parameter(p, b, "DcsParam"))
      /\ Keeps(p, To(p, "DcsIgnore"))
  BY ParameterKeeps, ToKeeps, AllStates
<1>3. /\ Keeps(p, To(Execute(Unhook(p), <<b>>), "Ground")) /\ Keeps(p, Escape(Unhook(p)))
      /\ Keeps(p, To(Unhook(p), "Ground"))
  <2>1. Formed(Unhook(p))
    BY <1>1 DEF Keeps
  <2>2. /\ Keeps(Unhook(p), To(Execute(Unhook(p), <<b>>), "Ground"))
        /\ Keeps(Unhook(p), Escape(Unhook(p))) /\ Keeps(Unhook(p), To(Unhook(p), "Ground"))
    BY <2>1, ExecuteTo, EscapeKeeps, ToKeeps, AllStates
  <2> QED
    BY <1>1, <2>2, KeepsOn
<1>4. Keeps(p, AdvanceDcsEntry(p, b))
  BY <1>1, <1>2 DEF AdvanceDcsEntry
<1>5. Keeps(p, AdvanceDcsIntermediate(p, b))
  BY <1>1, <1>2 DEF AdvanceDcsIntermediate
<1>6. Keeps(p, AdvanceDcsParam(p, b))
  BY <1>1, <1>2 DEF AdvanceDcsParam
<1>7. Keeps(p, AdvanceDcsPassthrough(p, b))
  BY <1>1, <1>3 DEF AdvanceDcsPassthrough
<1> QED
  BY <1>4, <1>5, <1>6, <1>7

\* A byte after the escape.
LEMMA EscKeeps ==
  ASSUME NEW p, Formed(p), NEW b
  PROVE  Keeps(p, AdvanceEsc(p, b)) /\ Keeps(p, AdvanceEscIntermediate(p, b))
<1> DEFINE osc == [p EXCEPT !.osc = <<>>, !.cuts = <<>>, !.oscOverflow = FALSE]
           apc == [p EXCEPT !.apc = <<>>, !.apcOverflow = FALSE]
<1>1. /\ Keeps(p, Execute(p, <<b>>)) /\ Keeps(p, Anywhere(p, b)) /\ Keeps(p, p)
      /\ Keeps(p, EscDispatch(p, b)) /\ Keeps(p, Collect(p, b))
      /\ Keeps(p, To(Execute(p, <<b>>), "Ground"))
  BY ExecuteTo, AnywhereKeeps, DispatchKeeps, ActionsKeep, AllStates
<1>2. /\ Keeps(p, To(Collect(p, b), "EscapeIntermediate"))
      /\ Keeps(p, To(ResetParams(p), "DcsEntry")) /\ Keeps(p, To(ResetParams(p), "CsiEntry"))
      /\ Keeps(p, To(p, "SosPmApcString"))
  BY ParameterKeeps, ToKeeps, AllStates
<1>3. Keeps(p, To(osc, "OscString")) /\ Keeps(p, To(apc, "ApcString"))
  <2>1. Keeps(p, osc) /\ Keeps(p, apc)
    BY StringsKeep
  <2> HIDE DEF osc, apc
  <2>2. Keeps(osc, To(osc, "OscString")) /\ Keeps(apc, To(apc, "ApcString"))
    BY <2>1, ToKeeps, AllStates DEF Keeps
  <2> QED
    BY <2>1, <2>2, KeepsOn
<1>4. Keeps(p, AdvanceEsc(p, b))
  BY <1>1, <1>2, <1>3 DEF AdvanceEsc
<1>5. Keeps(p, AdvanceEscIntermediate(p, b))
  BY <1>1 DEF AdvanceEscIntermediate
<1> QED
  BY <1>4, <1>5

\* A byte of an operating system or application command.
LEMMA StringByteKeeps ==
  ASSUME NEW p, Formed(p), NEW b
  PROVE  Keeps(p, AdvanceOscString(p, b)) /\ Keeps(p, AdvanceApcString(p, b))
<1> DEFINE void == [p EXCEPT !.apc = <<>>]
<1>1. /\ Keeps(p, p) /\ Keeps(p, OscPutParam(p)) /\ Keeps(p, OscPut(p, b)) /\ Keeps(p, OscEnd(p, b))
      /\ Keeps(p, ApcPut(p, b)) /\ Keeps(p, ApcEnd(p)) /\ Keeps(p, void)
  BY StringsKeep, AnywhereKeeps
<1>2. ASSUME NEW q, Keeps(p, q)
      PROVE  Keeps(p, To(q, "Ground")) /\ Keeps(p, To(Execute(q, <<b>>), "Ground")) /\ Keeps(p, Escape(q))
  <2>0. Formed(q)
    BY <1>2 DEF Keeps
  <2>1. /\ Keeps(q, To(q, "Ground")) /\ Keeps(q, To(Execute(q, <<b>>), "Ground"))
        /\ Keeps(q, Escape(q))
    BY <2>0, ToKeeps, ExecuteTo, EscapeKeeps, AllStates
  <2> QED
    BY <1>2, <2>1, KeepsOn
<1>3. Keeps(p, AdvanceOscString(p, b))
  BY <1>1, <1>2 DEF AdvanceOscString
<1>4. Keeps(p, To(Execute(void, <<b>>), "Ground"))
  BY <1>1, <1>2
<1>5. Keeps(p, AdvanceApcString(p, b))
  BY <1>1, <1>2, <1>4 DEF AdvanceApcString
<1> QED
  BY <1>3, <1>5

\* Away from Ground a byte leaves a parser, and no character begun.
LEMMA ChangeStateKeeps ==
  ASSUME NEW p, Formed(p), p.state # "Ground", NEW b
  PROVE  Keeps(p, ChangeState(p, b))
<1>1. p.state \in States \ {"Ground"}
  BY DEF Formed
<1>2. Keeps(p, Anywhere(p, b))
  BY AnywhereKeeps
<1> QED
  BY ONLY <1>1, <1>2, CsiKeeps, DcsKeeps, EscKeeps, StringByteKeeps, Formed(p) DEF ChangeState, States

-----------------------------------------------------------------------------
(* UTF-8 *)

\* How many bytes a first byte asks for, and what its being 0, 1 or more says of it.
LEMMA Sizes ==
  ASSUME NEW b
  PROVE  /\ Size(b) \in 0..3
         /\ Size(b) = 0 <=> b \in Continuation
         /\ Size(b) > 1 => b \notin Continuation /\ b # "ESC"
         /\ b = "ESC" => Size(b) = 1
BY DEF Size, Lead2, Lead3, Continuation, Low, High

\* The greatest of a few numbers.
LEMMA Largest ==
  ASSUME NEW S, S \subseteq 1..3, 1 \in S
  PROVE  Max(S) \in S /\ \A y \in S : Max(S) >= y
<1>1. \E x \in S : \A y \in S : x >= y
  <2>1. CASE 3 \in S
    BY <2>1
  <2>2. CASE 3 \notin S /\ 2 \in S
    BY <2>2
  <2>3. CASE 3 \notin S /\ 2 \notin S
    BY <2>3
  <2> QED
    BY <2>1, <2>2, <2>3
<1> QED
  BY <1>1 DEF Max

\* The lesser of two.
LEMMA Smaller ==
  ASSUME NEW a \in Int, NEW b \in Int
  PROVE  Min({a, b}) = IF a <= b THEN a ELSE b
BY DEF Min

\* The first byte of s and the continuations that follow it, of those it asks for, are m.
Counts(s, m) ==
  /\ m \in 1..Size(s[1]) /\ m <= Len(s)
  /\ \A i \in 2..m : s[i] \in Continuation
  /\ m = Size(s[1]) \/ m = Len(s) \/ s[m + 1] \notin Continuation

\* What is used of a sequence.
LEMMA SeqFacts ==
  ASSUME NEW s, IsSeq(s)
  PROVE  Len(s) \in Nat /\ DOMAIN s = 1..Len(s) /\ (s = <<>> <=> Len(s) = 0)
BY DEF IsSeq

\* The head of a sequence is its first element.
LEMMA HeadIsFirst ==
  ASSUME NEW s, IsSeq(s), s # <<>>
  PROVE  Head(s) = s[1] /\ Len(s) >= 1
BY DEF IsSeq

\* Matched is the one length that counts.
LEMMA MatchedCounts ==
  ASSUME NEW s, IsSeq(s), s # <<>>
  PROVE  /\ Size(s[1]) = 0 => Matched(s) = 0
         /\ Size(s[1]) > 0 => Counts(s, Matched(s)) /\ \A m : Counts(s, m) => m = Matched(s)
<1> DEFINE want == Size(s[1])
           most == Min({want, Len(s)})
           ok == {n \in 1..most : \A i \in 2..n : s[i] \in Continuation}
<1>1. Matched(s) = IF want = 0 THEN 0 ELSE Max(ok)
  <2>1. Head(s) = s[1]
    BY HeadIsFirst
  <2> QED
    BY <2>1 DEF Matched
<1>2. want \in 0..3 /\ Len(s) \in Nat /\ Len(s) >= 1
  BY Sizes, SeqFacts, HeadIsFirst
<1> SUFFICES ASSUME want > 0
             PROVE  Counts(s, Max(ok)) /\ \A m : Counts(s, m) => m = Max(ok)
  <2> HIDE DEF ok
  <2> QED
    BY <1>1, <1>2
<1>3. most = IF want <= Len(s) THEN want ELSE Len(s)
  <2> HIDE DEF want
  <2> QED
    BY <1>2, Smaller
<1>4. most \in 1..3 /\ most <= want /\ most <= Len(s) /\ (most = want \/ most = Len(s))
  <2> DEFINE l == Len(s)
  <2>1. want \in 0..3 /\ want > 0 /\ l \in Nat /\ l >= 1 /\ most = IF want <= l THEN want ELSE l
    BY <1>2, <1>3
  <2> HIDE DEF want, most, l
  <2>2. most \in 1..3 /\ most <= want /\ most <= l /\ (most = want \/ most = l)
    BY ONLY <2>1
  <2> QED
    BY <2>2 DEF l
<1> HIDE DEF most
<1>5. Max(ok) \in ok /\ \A y \in ok : Max(ok) >= y
  <2>1. ok \subseteq 1..3 /\ 1 \in ok
    BY <1>4
  <2> HIDE DEF ok
  <2> QED
    BY <2>1, Largest
<1> DEFINE top == Max(ok)
<1>6. top \in 1..most /\ \A i \in 2..top : s[i] \in Continuation
  BY <1>5
<1>7. ASSUME NEW n \in 1..most, \A i \in 2..n : s[i] \in Continuation PROVE n <= top
  BY <1>5, <1>7
<1> HIDE DEF top, want
<1>8. Counts(s, top)
  <2>1. CASE top = most
    BY <1>2, <1>4, <1>6, <2>1 DEF Counts, want
  <2>2. CASE top < most
    <3>1. s[top + 1] \notin Continuation
      <4> SUFFICES ASSUME s[top + 1] \in Continuation PROVE FALSE
        OBVIOUS
      <4>1. top + 1 \in 1..most /\ \A i \in 2..(top + 1) : s[i] \in Continuation
        BY <1>4, <1>6, <2>2
      <4>2. top + 1 <= top
        BY <4>1, <1>7
      <4> QED
        BY <1>4, <1>6, <4>2
    <3> QED
      BY <1>2, <1>4, <1>6, <2>2, <3>1 DEF Counts, want
  <2> QED
    BY <1>4, <1>6, <2>1, <2>2
<1>9. ASSUME NEW m, Counts(s, m) PROVE m = top
  <2>1. m \in 1..most /\ \A i \in 2..m : s[i] \in Continuation
    BY <1>2, <1>4, <1>9 DEF Counts, want
  <2>2. m <= top
    BY <2>1, <1>7
  <2> SUFFICES ASSUME m < top PROVE FALSE
    BY <1>4, <1>6, <2>1, <2>2
  <2>3. m < want /\ m < Len(s) /\ m + 1 \in 2..top
    BY <1>2, <1>4, <1>6, <2>1
  <2>4. s[m + 1] \in Continuation
    BY <1>6, <2>3
  <2> QED
    BY <1>9, <2>3, <2>4, <2>1, <1>4, <1>2 DEF Counts, want
<1> QED
  BY <1>8, <1>9 DEF top

\* What from_utf8 makes of s, by the count.
LEMMA Verdict ==
  ASSUME NEW s, IsSeq(s), s # <<>>
  PROVE  /\ Size(s[1]) = 0 => ~Whole(s) /\ ~CutShort(s) /\ ErrorLen(s) = 1
         /\ \A m : Counts(s, m) =>
              /\ Whole(s) <=> m = Size(s[1])
              /\ CutShort(s) <=> m < Size(s[1]) /\ m = Len(s)
              /\ ErrorLen(s) = m
<1>1. Head(s) = s[1] /\ Len(s) >= 1 /\ Len(s) \in Nat /\ Size(s[1]) \in 0..3
  BY HeadIsFirst, SeqFacts, Sizes
<1>2. ASSUME Size(s[1]) = 0 PROVE ~Whole(s) /\ ~CutShort(s) /\ ErrorLen(s) = 1
  <2>1. Matched(s) = 0
    BY <1>2, MatchedCounts
  <2>2. Max({1, 0}) = 1
    BY DEF Max
  <2> QED
    BY <1>1, <2>1, <2>2 DEF Whole, CutShort, ErrorLen
<1>3. ASSUME NEW m, Counts(s, m)
      PROVE  /\ Whole(s) <=> m = Size(s[1])
             /\ CutShort(s) <=> m < Size(s[1]) /\ m = Len(s)
             /\ ErrorLen(s) = m
  <2>1. m \in 1..Size(s[1]) /\ m <= Len(s)
    BY <1>3 DEF Counts
  <2>2. Matched(s) = m
    <3>1. Size(s[1]) > 0
      BY <1>1, <2>1
    <3> QED
      BY <1>3, <3>1, MatchedCounts
  <2>3. Max({1, m}) = m
    BY <1>1, <2>1 DEF Max
  <2> QED
    BY <1>1, <2>1, <2>2, <2>3 DEF Whole, CutShort, ErrorLen
<1> QED
  BY <1>2, <1>3

\* As long as a prefix falls within the count, all of it counts.
LEMMA PrefixCounts ==
  ASSUME NEW s, IsSeq(s), NEW m, Counts(s, m), NEW j \in 1..m, NEW t, IsSeq(t), Len(t) = j,
         \A i \in 1..j : t[i] = s[i]
  PROVE  Counts(t, j)
<1>1. Size(s[1]) \in 0..3 /\ t[1] = s[1]
  BY Sizes DEF Counts
<1> QED
  BY <1>1 DEF Counts

-----------------------------------------------------------------------------
(* One byte of text *)

Associates(a, b, c) == (a \o b) \o c = a \o (b \o c)

\* Joining sequences.
LEMMA Joins ==
  ASSUME NEW a, IsSeq(a), NEW b, IsSeq(b)
  PROVE  /\ IsSeq(a \o b)
         /\ a \o <<>> = a
         /\ \A c : IsSeq(c) => Associates(a, b, c)
<1>1. PICK S : a \in Seq(S)
  BY DEF IsSeq
<1>2. PICK T : b \in Seq(T)
  BY DEF IsSeq
<1>3. a \in Seq(S \cup T) /\ b \in Seq(S \cup T)
  BY <1>1, <1>2
<1>4. a \o b \in Seq(S \cup T)
  BY <1>3
<1>5. ASSUME NEW c, IsSeq(c) PROVE Associates(a, b, c)
  <2>1. PICK U : c \in Seq(U)
    BY <1>5 DEF IsSeq
  <2>2. a \in Seq(S \cup T \cup U) /\ b \in Seq(S \cup T \cup U) /\ c \in Seq(S \cup T \cup U)
    BY <1>1, <1>2, <2>1
  <2> QED
    BY <2>2 DEF Associates
<1>6. a \o <<>> = a
  BY <1>1
<1> QED
  BY <1>4, <1>5, <1>6 DEF IsSeq

\* A sequence of one.
LEMMA OneChar ==
  ASSUME NEW c
  PROVE  /\ IsSeq(<<c>>) /\ Append(<<>>, c) = <<c>> /\ <<c>> # <<>> /\ <<c>>[1] = c
         /\ Len(<<c>>) = 1
<1>1. <<c>> \in Seq({c}) /\ <<c>> # <<>> /\ <<c>>[1] = c /\ Len(<<c>>) = 1
  OBVIOUS
<1>2. Append(<<>>, c) = <<c>>
  OBVIOUS
<1> QED
  BY <1>1, <1>2 DEF IsSeq

\* A parser with u of a character read.
Amid(q, u) == [q EXCEPT !.partial = u]

\* A parser in the middle of u, field by field.
LEMMA AmidFields ==
  ASSUME NEW q, Formed(q), NEW u
  PROVE  /\ Formed(Amid(q, u)) /\ Amid(q, u).partial = u /\ Amid(q, u).state = q.state
         /\ Amid(q, u).out = q.out
         /\ \A v : Amid(Amid(q, u), v) = Amid(q, v)
         /\ q.partial = u => Amid(q, u) = q
<1>1. Amid(q, u) = [f \in Members |-> IF f = "partial" THEN u ELSE q[f]]
  BY DEF Formed, Amid, Members
<1>2. /\ Amid(q, u).partial = u /\ Amid(q, u).state = q.state /\ Amid(q, u).out = q.out
      /\ Amid(q, u).apc = q.apc /\ Amid(q, u).apcOverflow = q.apcOverflow
  BY <1>1 DEF Members
<1>3. Formed(Amid(q, u))
  BY <1>1, <1>2 DEF Formed, Members
<1>4. ASSUME NEW v PROVE Amid(Amid(q, u), v) = Amid(q, v)
  BY <1>1 DEF Amid, Members, Formed
<1>5. q.partial = u => Amid(q, u) = q
  BY <1>1 DEF Formed, Members
<1> QED
  BY <1>2, <1>3, <1>4, <1>5

\* Printing and executing leave the character under way alone.
LEMMA DrawAmid ==
  ASSUME NEW q, Formed(q), NEW c
  PROVE  /\ Formed(Draw(q, c)) /\ Draw(q, c).partial = q.partial /\ Draw(q, c).state = q.state
         /\ Formed(Execute(q, c)) /\ Execute(q, c).partial = q.partial
         /\ Execute(q, c).state = q.state
BY EmitKeeps DEF Keeps, Draw, Execute, Emit, Formed, Members

Telling(c) == <<IF IsControl(c) THEN "execute" ELSE "print", c>>

\* What ground_dispatch tells of one run of characters and then of another.
LEMMA Dispatched ==
  ASSUME NEW q, Formed(q), NEW a, IsSeq(a)
  PROVE  /\ Formed(GroundDispatch(q, a)) /\ GroundDispatch(q, a).partial = q.partial
         /\ GroundDispatch(q, a).state = q.state
         /\ GroundDispatch(q, <<>>) = q
         /\ \A b : IsSeq(b) =>
              GroundDispatch(GroundDispatch(q, a), b) = GroundDispatch(q, a \o b)
<1> DEFINE told(c) == [i \in DOMAIN c |-> Telling(c[i])]
<1>1. ASSUME NEW r, Formed(r), NEW c, IsSeq(c)
      PROVE  /\ GroundDispatch(r, c) = [f \in Members |-> IF f = "out" THEN r.out \o told(c) ELSE r[f]]
             /\ IsSeq(told(c)) /\ IsSeq(r.out \o told(c))
  <2>1. GroundDispatch(r, c) = [f \in Members |-> IF f = "out" THEN r.out \o told(c) ELSE r[f]]
    BY <1>1 DEF GroundDispatch, Telling, Formed, Members
  <2>2. PICK n \in Nat : DOMAIN c = 1..n
    BY <1>1, SeqFacts
  <2>3. told(c) \in Seq({told(c)[i] : i \in 1..n})
    BY <2>2
  <2> HIDE DEF told
  <2>4. IsSeq(told(c)) /\ IsSeq(r.out)
    BY <1>1, <2>3 DEF IsSeq, Formed
  <2> QED
    BY <2>1, <2>4, Joins
<1> HIDE DEF told
<1>2. ASSUME NEW r, Formed(r), NEW c, IsSeq(c)
      PROVE  /\ Formed(GroundDispatch(r, c)) /\ GroundDispatch(r, c).partial = r.partial
             /\ GroundDispatch(r, c).state = r.state
             /\ GroundDispatch(r, c).out = r.out \o told(c)
  <2>1. GroundDispatch(r, c) = [f \in Members |-> IF f = "out" THEN r.out \o told(c) ELSE r[f]]
        /\ IsSeq(r.out \o told(c))
    BY <1>1, <1>2
  <2> QED
    BY <1>2, <2>1 DEF Formed, Members
<1>3. GroundDispatch(q, <<>>) = q
  <2>1. IsSeq(<<>>) /\ told(<<>>) = <<>>
    BY DEF told, IsSeq
  <2>2. q.out \o <<>> = q.out
    BY Joins, <2>1 DEF Formed
  <2>3. GroundDispatch(q, <<>>) = [f \in Members |-> IF f = "out" THEN q.out \o told(<<>>) ELSE q[f]]
    BY <1>1, <2>1
  <2>4. q = [f \in Members |-> q[f]]
    BY DEF Formed
  <2> QED
    BY <2>1, <2>2, <2>3, <2>4
<1>4. ASSUME NEW b, IsSeq(b)
      PROVE  GroundDispatch(GroundDispatch(q, a), b) = GroundDispatch(q, a \o b)
  <2>1. IsSeq(a \o b) /\ told(a \o b) = told(a) \o told(b)
    <3>1. PICK S : a \in Seq(S)
      BY DEF IsSeq
    <3>2. PICK T : b \in Seq(T)
      BY <1>4 DEF IsSeq
    <3>3. a \in Seq(S \cup T) /\ b \in Seq(S \cup T)
      BY <3>1, <3>2
    <3>4. a \o b \in Seq(S \cup T)
      BY <3>3
    <3>5. told(a \o b) = told(a) \o told(b)
      BY <3>3, SMTT(20) DEF told
    <3> QED
      BY <3>4, <3>5 DEF IsSeq
  <2>2. (q.out \o told(a)) \o told(b) = q.out \o (told(a) \o told(b))
    <3>1. IsSeq(q.out) /\ IsSeq(told(a)) /\ IsSeq(told(b))
      BY <1>1, <1>4 DEF Formed
    <3>2. Associates(q.out, told(a), told(b))
      BY <3>1, Joins
    <3> QED
      BY <3>2 DEF Associates
  <2>3. GroundDispatch(GroundDispatch(q, a), b)
          = [f \in Members |-> IF f = "out" THEN (q.out \o told(a)) \o told(b)
                               ELSE GroundDispatch(q, a)[f]]
    <3> DEFINE r == GroundDispatch(q, a)
    <3>1. Formed(r) /\ r.out = q.out \o told(a)
      BY <1>2
    <3> HIDE DEF r
    <3>2. GroundDispatch(r, b) = [f \in Members |-> IF f = "out" THEN r.out \o told(b) ELSE r[f]]
      BY <1>1, <1>4, <3>1
    <3> QED
      BY <3>1, <3>2 DEF r
  <2>4. \A f \in Members : f # "out" => GroundDispatch(q, a)[f] = q[f]
    BY <1>1
  <2>5. GroundDispatch(q, a \o b) = [f \in Members |-> IF f = "out" THEN q.out \o told(a \o b) ELSE q[f]]
    BY <1>1, <2>1
  <2> QED
    BY <2>1, <2>2, <2>3, <2>4, <2>5
<1> QED
  BY <1>2, <1>3, <1>4

\* A byte that still counts towards its character extends it, or ends it.
LEMMA CountingByte ==
  ASSUME NEW q, Formed(q), q.state = "Ground", q.partial = <<>>,
         NEW u, IsSeq(u), NEW b, b # "ESC", Counts(Append(u, b), Len(u) + 1)
  PROVE  Byte(Amid(q, u), b) =
           IF Len(u) + 1 < Size(Append(u, b)[1]) THEN Amid(q, Append(u, b))
           ELSE GroundDispatch(q, <<Append(u, b)>>)
<1> DEFINE p == Amid(q, u)
           text == Append(u, b)
<1>1. /\ Formed(p) /\ p.partial = u /\ p.state = "Ground" /\ Amid(p, <<>>) = q
      /\ Amid(p, text) = Amid(q, text)
  BY AmidFields
<1>2. IsSeq(text) /\ Len(text) = Len(u) + 1 /\ Len(u) \in Nat /\ text # <<>>
  BY SeqAppend, SeqFacts
<1>3. Counts(text, Len(u) + 1) /\ Len(u) + 1 <= Size(text[1]) /\ Size(text[1]) \in 0..3
  BY Sizes DEF Counts
<1>4. /\ Whole(text) <=> Len(u) + 1 = Size(text[1])
      /\ CutShort(text) <=> Len(u) + 1 < Size(text[1])
  BY <1>2, <1>3, Verdict
<1>5. Byte(p, b) = GroundByte(p, b)
  BY <1>1 DEF Byte
<1> HIDE DEF p
<1>6. CASE Len(u) + 1 < Size(text[1])
  <2>1. GroundByte(p, b) = [p EXCEPT !.partial = text]
    BY <1>1, <1>4, <1>6, <1>3 DEF GroundByte
  <2> QED
    BY <1>1, <1>5, <1>6, <2>1 DEF Amid, p
<1>7. CASE ~(Len(u) + 1 < Size(text[1]))
  <2>1. GroundByte(p, b) = GroundDispatch([p EXCEPT !.partial = <<>>], <<text>>)
    BY <1>1, <1>2, <1>3, <1>4, <1>7 DEF GroundByte
  <2> QED
    BY <1>1, <1>5, <1>7, <2>1 DEF Amid, p
<1> QED
  BY <1>6, <1>7

\* An escape ends a character there is no end of; so does a byte that begins another.
LEMMA EscapeByte ==
  ASSUME NEW q, Formed(q), q.state = "Ground", q.partial = <<>>, NEW u
  PROVE  Byte(Amid(q, u), "ESC") = Escape(IF u = <<>> THEN q ELSE Draw(q, Replacement))
<1> DEFINE p == Amid(q, u)
<1>1. p.partial = u /\ p.state = "Ground" /\ Amid(p, <<>>) = q /\ (u = <<>> => p = q)
  BY AmidFields
<1> HIDE DEF p
<1>2. Byte(p, "ESC") = GroundByte(p, "ESC")
  BY <1>1 DEF Byte
<1>3. GroundByte(p, "ESC") = Escape(IF u = <<>> THEN p ELSE Draw([p EXCEPT !.partial = <<>>], Replacement))
  BY <1>1 DEF GroundByte
<1> QED
  BY <1>1, <1>2, <1>3 DEF Amid, p

\* A byte with no character under way.
LEMMA LoneByte ==
  ASSUME NEW q, Formed(q), q.state = "Ground", q.partial = <<>>, NEW b, b # "ESC"
  PROVE  /\ Size(b) = 0 => Byte(q, b) = IF b \in Low THEN Execute(q, <<b>>) ELSE Draw(q, Replacement)
         /\ Size(b) = 1 => Byte(q, b) = GroundDispatch(q, <<<<b>>>>)
         /\ Size(b) > 1 => Byte(q, b) = Amid(q, <<b>>)
<1> DEFINE text == Append(q.partial, b)
<1>1. text = <<b>> /\ IsSeq(text) /\ text # <<>> /\ text[1] = b /\ Len(text) = 1
  BY OneChar
<1>2. Byte(q, b) = GroundByte(q, b) /\ Size(b) \in 0..3
  BY Sizes DEF Byte
<1>3. Amid(q, <<>>) = q
  BY AmidFields
<1>4. ASSUME Size(b) = 0 PROVE Byte(q, b) = IF b \in Low THEN Execute(q, <<b>>) ELSE Draw(q, Replacement)
  <2>1. ~Whole(text) /\ ~CutShort(text)
    BY <1>1, <1>4, Verdict
  <2>2. b \in Low \/ b \in High
    BY <1>4, Sizes DEF Continuation
  <2> HIDE DEF text
  <2>3. GroundByte(q, b) = IF b \in Low THEN Execute(q, <<b>>) ELSE Draw(q, Replacement)
    BY <1>4, <2>1, <2>2 DEF GroundByte, Low, High, text
  <2> QED
    BY <1>2, <2>3
<1>5. ASSUME Size(b) = 1 PROVE Byte(q, b) = GroundDispatch(q, <<<<b>>>>)
  <2>1. Counts(text, 1)
    BY <1>1, <1>5 DEF Counts
  <2>2. Whole(text)
    BY <1>1, <1>5, <2>1, Verdict
  <2>3. GroundByte(q, b) = GroundDispatch([q EXCEPT !.partial = <<>>], <<text>>)
    BY <2>2, <1>1, Verdict, <2>1, <1>5 DEF GroundByte
  <2> QED
    BY <1>1, <1>2, <1>3, <2>3 DEF Amid
<1>6. ASSUME Size(b) > 1 PROVE Byte(q, b) = Amid(q, <<b>>)
  <2>1. Counts(text, 1)
    <3> HIDE DEF text
    <3>1. 1 \in 1..Size(text[1]) /\ Len(text) = 1
      BY <1>1, <1>2, <1>6
    <3> QED
      BY <3>1 DEF Counts
  <2>2. CutShort(text) /\ ~Whole(text)
    <3>1. /\ Whole(text) <=> 1 = Size(text[1])
          /\ CutShort(text) <=> 1 < Size(text[1]) /\ 1 = Len(text)
      <4> HIDE DEF text
      <4> QED
        BY <1>1, <2>1, Verdict
    <3> HIDE DEF text
    <3> QED
      BY <1>1, <1>2, <1>6, <3>1
  <2>3. GroundByte(q, b) = [q EXCEPT !.partial = text]
    BY <2>2 DEF GroundByte
  <2> QED
    BY <1>1, <1>2, <2>3 DEF Amid
<1> QED
  BY <1>4, <1>5, <1>6

\* A byte that breaks the character under way: it is replaced, and the byte starts over.
LEMMA BreakingByte ==
  ASSUME NEW q, Formed(q), q.state = "Ground", q.partial = <<>>,
         NEW u, IsSeq(u), u # <<>>, Counts(u, Len(u)), Len(u) < Size(u[1]),
         NEW b, b # "ESC", b \notin Continuation
  PROVE  Byte(Amid(q, u), b) = Byte(Draw(q, Replacement), b)
<1> DEFINE p == Amid(q, u)
           text == Append(u, b)
           drawn == Draw(q, Replacement)
<1>1. p.partial = u /\ p.state = "Ground" /\ Amid(p, <<>>) = q
  BY AmidFields
<1>2. IsSeq(text) /\ Len(text) = Len(u) + 1 /\ Len(u) \in Nat /\ text # <<>>
      /\ Len(u) >= 1
  BY SeqAppend, SeqFacts, HeadIsFirst
<1>3. text[1] = u[1] /\ (\A i \in 1..Len(u) : text[i] = u[i]) /\ text[Len(u) + 1] = b
  <2>1. PICK S : u \in Seq(S)
    BY DEF IsSeq
  <2>2. u \in Seq(S \cup {b}) /\ b \in S \cup {b}
    BY <2>1
  <2>3. \A i \in 1..(Len(u) + 1) : text[i] = IF i <= Len(u) THEN u[i] ELSE b
    BY <2>2
  <2> QED
    BY <1>2, <2>3
<1>4. Counts(text, Len(u)) /\ Size(u[1]) \in 0..3
  BY <1>2, <1>3, Sizes DEF Counts
<1>5. ~Whole(text) /\ ~CutShort(text)
  <2> DEFINE m == Len(u)
  <2> HIDE DEF text
  <2>1. /\ Whole(text) <=> m = Size(text[1])
        /\ CutShort(text) <=> m < Size(text[1]) /\ m = Len(text)
    BY <1>2, <1>4, Verdict
  <2> QED
    BY <1>2, <1>3, <1>4, <2>1
<1>6. Formed(drawn) /\ drawn.partial = <<>> /\ drawn.state = "Ground"
  BY DrawAmid
<1>7. Size(b) \in 1..3
  BY Sizes
<1> HIDE DEF p, text, drawn
<1>8. Byte(p, b) = CASE Size(b) = 1 -> GroundDispatch(drawn, <<<<b>>>>)
                     [] Size(b) > 1 -> [drawn EXCEPT !.partial = <<b>>]
  <2>1. Draw([p EXCEPT !.partial = <<>>], Replacement) = drawn
    BY <1>1 DEF drawn, Amid
  <2>2. GroundByte(p, b) = CASE Size(b) = 1 -> GroundDispatch(drawn, <<<<b>>>>)
                             [] Size(b) > 1 -> [drawn EXCEPT !.partial = <<b>>]
    <3>1. b \notin Low /\ b \notin High
      BY DEF Continuation
    <3> QED
      BY <1>1, <1>5, <1>7, <2>1, <3>1 DEF GroundByte, text
  <2> QED
    BY <1>1, <2>2 DEF Byte
<1>9. Byte(drawn, b) = CASE Size(b) = 1 -> GroundDispatch(drawn, <<<<b>>>>)
                         [] Size(b) > 1 -> [drawn EXCEPT !.partial = <<b>>]
  BY <1>6, <1>7, LoneByte DEF Amid
<1> QED
  BY <1>8, <1>9 DEF p, drawn

-----------------------------------------------------------------------------
(* Text, a character at a time *)

\* The elements of a slice.
LEMMA Slice ==
  ASSUME NEW s, IsSeq(s), NEW a \in 1..(Len(s) + 1), NEW b \in Int, a - 1 <= b, b <= Len(s)
  PROVE  /\ IsSeq(SubSeq(s, a, b)) /\ Len(SubSeq(s, a, b)) = b - a + 1
         /\ \A i \in 1..(b - a + 1) : SubSeq(s, a, b)[i] = s[a + i - 1]
<1>1. PICK S : s \in Seq(S)
  BY DEF IsSeq
<1>2. Len(s) \in Nat
  BY SeqFacts
<1>3. SubSeq(s, a, b) \in Seq(S)
  BY <1>1, <1>2
<1>4. Len(SubSeq(s, a, b)) = b - a + 1
  BY <1>1, <1>2
<1>5. ASSUME NEW i \in 1..(b - a + 1) PROVE SubSeq(s, a, b)[i] = s[a + i - 1]
  BY <1>1, <1>2
<1> QED
  BY <1>3, <1>4, <1>5 DEF IsSeq

\* Sequences with the same elements are the same.
LEMMA SameSeq ==
  ASSUME NEW a, IsSeq(a), NEW b, IsSeq(b), Len(a) = Len(b), \A i \in 1..Len(a) : a[i] = b[i]
  PROVE  a = b
BY DEF IsSeq

\* What is left of s after n bytes.
From(s, n) == SubSeq(s, n + 1, Len(s))

\* The elements of what is left.
LEMMA FromFacts ==
  ASSUME NEW s, IsSeq(s), NEW n \in 0..Len(s)
  PROVE  /\ IsSeq(From(s, n)) /\ Len(From(s, n)) = Len(s) - n
         /\ \A i \in 1..(Len(s) - n) : From(s, n)[i] = s[n + i]
         /\ From(s, n) = <<>> <=> n = Len(s)
         /\ \A m \in 0..(Len(s) - n) : From(From(s, n), m) = From(s, n + m)
<1>1. Len(s) \in Nat
  BY SeqFacts
<1>2. ASSUME NEW t, IsSeq(t), NEW m \in 0..Len(t)
      PROVE  /\ IsSeq(From(t, m)) /\ Len(From(t, m)) = Len(t) - m
             /\ \A i \in 1..(Len(t) - m) : From(t, m)[i] = t[m + i]
  <2>1. Len(t) \in Nat
    BY <1>2, SeqFacts
  <2>2. m + 1 \in 1..(Len(t) + 1) /\ Len(t) \in Int /\ (m + 1) - 1 <= Len(t)
    BY <2>1
  <2>3. /\ IsSeq(From(t, m)) /\ Len(From(t, m)) = Len(t) - (m + 1) + 1
        /\ \A i \in 1..(Len(t) - (m + 1) + 1) : From(t, m)[i] = t[(m + 1) + i - 1]
    BY <1>2, <2>2, Slice DEF From
  <2>4. Len(t) - (m + 1) + 1 = Len(t) - m /\ \A i \in 1..(Len(t) - m) : (m + 1) + i - 1 = m + i
    BY <2>1
  <2> HIDE DEF From
  <2> QED
    BY <2>3, <2>4
<1>3. IsSeq(From(s, n)) /\ Len(From(s, n)) = Len(s) - n
      /\ \A i \in 1..(Len(s) - n) : From(s, n)[i] = s[n + i]
  BY <1>2
<1>4. From(s, n) = <<>> <=> n = Len(s)
  BY <1>1, <1>3, SeqFacts
<1>5. ASSUME NEW m \in 0..(Len(s) - n) PROVE From(From(s, n), m) = From(s, n + m)
  <2>1. m \in 0..Len(From(s, n)) /\ n + m \in 0..Len(s)
    BY <1>1, <1>3
  <2>2. /\ IsSeq(From(From(s, n), m)) /\ Len(From(From(s, n), m)) = Len(s) - n - m
        /\ \A i \in 1..(Len(s) - n - m) : From(From(s, n), m)[i] = From(s, n)[m + i]
    BY <1>2, <1>3, <2>1
  <2>3. /\ IsSeq(From(s, n + m)) /\ Len(From(s, n + m)) = Len(s) - (n + m)
        /\ \A i \in 1..(Len(s) - (n + m)) : From(s, n + m)[i] = s[(n + m) + i]
    BY <1>2, <2>1
  <2>4. ASSUME NEW i \in 1..(Len(s) - n - m) PROVE From(From(s, n), m)[i] = From(s, n + m)[i]
    <3>1. m + i \in 1..(Len(s) - n) /\ n + (m + i) = (n + m) + i /\ i \in 1..(Len(s) - (n + m))
      BY <1>1
    <3>2. From(From(s, n), m)[i] = From(s, n)[m + i] /\ From(s, n)[m + i] = s[n + (m + i)]
      BY <1>3, <2>2, <3>1
    <3>3. From(s, n + m)[i] = s[(n + m) + i]
      BY <2>3, <3>1
    <3> QED
      BY <3>1, <3>2, <3>3
  <2> QED
    BY <1>1, <2>2, <2>3, <2>4, SameSeq
<1> QED
  BY <1>3, <1>4, <1>5

\* A whole character is counted to its size.
LEMMA WholeCount ==
  ASSUME NEW s, IsSeq(s), Whole(s)
  PROVE  /\ Counts(s, Matched(s)) /\ Matched(s) = Size(s[1]) /\ Matched(s) \in 1..3
         /\ Matched(s) <= Len(s)
<1>1. s # <<>> /\ Matched(s) = Size(Head(s)) /\ Matched(s) > 0
  BY DEF Whole
<1>2. Head(s) = s[1] /\ Size(s[1]) \in 0..3
  BY <1>1, HeadIsFirst, Sizes
<1>3. Counts(s, Matched(s))
  BY <1>1, <1>2, MatchedCounts
<1> QED
  BY <1>1, <1>2, <1>3 DEF Counts

\* A step of Decode, from the ones after it.
Part(s, i, at) ==
  LET rest == From(s, i - 1)
      n == Matched(rest)
  IN  IF Whole(rest)
      THEN [chars |-> <<SubSeq(rest, 1, n)>> \o at[i + n].chars, rest |-> at[i + n].rest]
      ELSE [chars |-> <<>>, rest |-> rest]
Decoding(s, low, at) == at = [i \in low..(Len(s) + 1) |-> Part(s, i, at)]

\* A step of decoding looks only at the steps after it.
LEMMA PartAfter ==
  ASSUME NEW s, IsSeq(s), NEW i \in 1..(Len(s) + 1), NEW at, NEW bt,
         \A j \in (i + 1)..(Len(s) + 1) : at[j] = bt[j]
  PROVE  Part(s, i, at) = Part(s, i, bt)
<1>1. Len(s) \in Nat /\ i - 1 \in 0..Len(s)
  BY SeqFacts
<1> DEFINE rest == From(s, i - 1)
           n == Matched(rest)
<1>2. IsSeq(rest) /\ Len(rest) = Len(s) - (i - 1)
  BY <1>1, FromFacts
<1>3. ASSUME Whole(rest) PROVE at[i + n] = bt[i + n]
  <2>1. n \in 1..3 /\ n <= Len(rest)
    BY <1>2, <1>3, WholeCount
  <2> HIDE DEF n, rest
  <2>2. i + n \in (i + 1)..(Len(s) + 1)
    BY <1>1, <1>2, <2>1
  <2> QED
    BY <2>2
<1> QED
  BY <1>3 DEF Part

\* Decode is computed from the end of the text: the function its definition chooses exists.
LEMMA DecodeStep ==
  ASSUME NEW s, IsSeq(s)
  PROVE  \E at : Decoding(s, 1, at) /\ Decode(s) = at[1]
<1> DEFINE L == Len(s)
           Levels == {m \in Nat : m <= L + 1 => \E at : Decoding(s, (L + 2) - m, at)}
<1>0. L \in Nat
  BY SeqFacts
<1> HIDE DEF L
<1>1. 0 \in Levels
  <2>1. Decoding(s, (L + 2) - 0, [i \in (L + 2)..(L + 1) |-> 0])
    <3>1. (L + 2)..(L + 1) = {} /\ (L + 2) - 0 = L + 2
      BY <1>0
    <3> QED
      BY <3>1 DEF Decoding, L
  <2> QED
    BY <2>1
<1>2. ASSUME NEW m \in Levels PROVE m + 1 \in Levels
  <2> SUFFICES ASSUME m + 1 <= L + 1 PROVE \E at : Decoding(s, (L + 2) - (m + 1), at)
    OBVIOUS
  <2> DEFINE low == (L + 2) - (m + 1)
  <2>1. m \in Nat /\ low \in 1..(L + 1) /\ (L + 2) - m = low + 1
    BY <1>0
  <2>2. PICK at : Decoding(s, low + 1, at)
    BY <1>0, <2>1
  <2> HIDE DEF low
  <2> DEFINE more == [i \in low..(L + 1) |-> IF i = low THEN Part(s, low, at) ELSE at[i]]
  <2>3. ASSUME NEW i \in low..(L + 1) PROVE more[i] = Part(s, i, more)
    <3>1. \A j \in (i + 1)..(L + 1) : more[j] = at[j]
      BY <1>0, <2>1
    <3>2. Part(s, i, more) = Part(s, i, at)
      <4> HIDE DEF more
      <4>1. i \in 1..(L + 1)
        BY <1>0, <2>1
      <4> QED
        BY <3>1, <4>1, PartAfter DEF L
    <3>3. CASE i = low
      BY <3>2, <3>3
    <3>4. CASE i # low
      <4>1. i \in (low + 1)..(L + 1)
        BY <1>0, <2>1, <3>4
      <4>2. at[i] = Part(s, i, at)
        BY <2>2, <4>1 DEF Decoding, L
      <4> QED
        BY <3>2, <3>4, <4>2
    <3> QED
      BY <3>3, <3>4
  <2>4. Decoding(s, low, more)
    <3>1. more = [i \in low..(L + 1) |-> more[i]]
      OBVIOUS
    <3> HIDE DEF more
    <3> QED
      BY <2>3, <3>1 DEF Decoding, L
  <2> QED
    BY <2>4 DEF low
<1>3. L + 1 \in Levels
  <2> HIDE DEF Levels
  <2>1. Levels \in SUBSET Nat
    BY DEF Levels
  <2> QED
    BY <1>0, <1>1, <1>2, <2>1, SetInduction
<1>4. \E at : Decoding(s, 1, at)
  <2>1. (L + 2) - (L + 1) = 1
    BY <1>0
  <2> QED
    BY <1>0, <1>3, <2>1
<1> DEFINE it == CHOOSE at : Decoding(s, 1, at)
<1>5. Decoding(s, 1, it)
  BY <1>4
<1>6. Decode(s) = it[1]
  <2>1. \A i \in 1..(Len(s) + 1) : (i - 1) + 1 = i
    BY <1>0 DEF L
  <2> QED
    BY <2>1 DEF Decode, Decoding, Part, From
<1> QED
  BY <1>5, <1>6

\* Where decoding from position i stops.
Tails(s, i, d) ==
  /\ IsSeq(d.chars)
  /\ \E v \in (i - 1)..Len(s) : d.rest = From(s, v) /\ ~Whole(From(s, v))

\* The tail a step leaves.
LEMMA TailOf ==
  ASSUME NEW s, NEW i, NEW d, Tails(s, i, d)
  PROVE  IsSeq(d.chars) /\ \E w \in (i - 1)..Len(s) : d.rest = From(s, w)
BY DEF Tails

\* Every step decodes a tail of the text, to the end or to what is no character.
LEMMA DecodeTails ==
  ASSUME NEW s, IsSeq(s), NEW at, Decoding(s, 1, at)
  PROVE  \A i \in 1..(Len(s) + 1) :
           /\ at[i] = Part(s, i, at)
           /\ Tails(s, i, at[i])
<1> DEFINE L == Len(s)
           Below == {m \in Nat : \A i \in 1..(L + 1) : i >= (L + 1) - m => Tails(s, i, at[i])}
<1>0. L \in Nat
  BY SeqFacts
<1>1. \A i \in 1..(L + 1) : at[i] = Part(s, i, at)
  BY DEF Decoding
<1>2. ASSUME NEW i \in 1..(L + 1), \A j \in (i + 1)..(L + 1) : Tails(s, j, at[j])
      PROVE  Tails(s, i, at[i])
  <2> DEFINE rest == From(s, i - 1)
             n == Matched(rest)
  <2>1. i - 1 \in 0..L
    BY <1>0
  <2>2. IsSeq(rest) /\ Len(rest) = L - (i - 1)
    BY <2>1, FromFacts
  <2>3. CASE Whole(rest)
    <3>1. at[i] = [chars |-> <<SubSeq(rest, 1, n)>> \o at[i + n].chars, rest |-> at[i + n].rest]
      BY <1>1, <2>3 DEF Part
    <3>2. n \in 1..3 /\ n <= Len(rest)
      BY <2>2, <2>3, WholeCount
    <3> HIDE DEF n, rest
    <3>3. i + n \in (i + 1)..(L + 1)
      BY <1>0, <2>2, <3>2
    <3>4. Tails(s, i + n, at[i + n])
      BY <1>2, <3>3
    <3>5. IsSeq(<<SubSeq(rest, 1, n)>> \o at[i + n].chars)
      BY <3>4, OneChar, Joins DEF Tails
    <3>6. PICK v \in ((i + n) - 1)..L : at[i + n].rest = From(s, v) /\ ~Whole(From(s, v))
      BY <3>4 DEF Tails
    <3>7. v \in (i - 1)..L
      BY <1>0, <3>2, <3>3
    <3>8. at[i].rest = From(s, v) /\ at[i].chars = <<SubSeq(rest, 1, n)>> \o at[i + n].chars
      BY <3>1, <3>6
    <3> QED
      BY <3>5, <3>6, <3>7, <3>8 DEF Tails
  <2>4. CASE ~Whole(rest)
    <3>1. at[i] = [chars |-> <<>>, rest |-> rest]
      BY <1>1, <2>4 DEF Part
    <3>2. IsSeq(<<>>) /\ i - 1 \in (i - 1)..L
      BY <1>0 DEF IsSeq
    <3>3. at[i].chars = <<>> /\ at[i].rest = From(s, i - 1)
      BY <3>1
    <3> QED
      BY <2>4, <3>2, <3>3 DEF Tails
  <2> QED
    BY <2>3, <2>4
<1> HIDE DEF L
<1>3. 0 \in Below
  <2>1. ASSUME NEW i \in 1..(L + 1), i >= L + 1 PROVE Tails(s, i, at[i])
    <3>1. (i + 1)..(L + 1) = {}
      BY <1>0, <2>1
    <3> QED
      BY <1>2, <3>1
  <2> QED
    BY <1>0, <2>1
<1>4. ASSUME NEW m \in Below PROVE m + 1 \in Below
  <2>1. ASSUME NEW i \in 1..(L + 1), i >= (L + 1) - (m + 1) PROVE Tails(s, i, at[i])
    <3>1. ASSUME NEW j \in (i + 1)..(L + 1) PROVE Tails(s, j, at[j])
      <4>1. j \in 1..(L + 1) /\ j >= (L + 1) - m
        BY <1>0, <2>1
      <4> QED
        BY <4>1
    <3> QED
      BY <1>2, <3>1
  <2> QED
    BY <2>1
<1>5. L + 1 \in Below
  <2>1. Below \in SUBSET Nat
    OBVIOUS
  <2> HIDE DEF Below
  <2> QED
    BY <1>0, <1>3, <1>4, <2>1, SetInduction
<1>6. \A i \in 1..(L + 1) : Tails(s, i, at[i])
  BY <1>0, <1>5
<1> QED
  BY <1>1, <1>6 DEF L

-----------------------------------------------------------------------------
(* Text, a byte at a time *)

\* g is the parser after each byte of the text t.
Walk(t, g) == \A i \in 1..Len(t) : t[i] # "ESC" /\ g[i] = Byte(g[i - 1], t[i])

AtRest(p) == Formed(p) /\ p.state = "Ground" /\ p.partial = <<>>

\* The elements of a prefix.
LEMMA Prefix ==
  ASSUME NEW s, IsSeq(s), NEW j \in 0..Len(s)
  PROVE  /\ IsSeq(SubSeq(s, 1, j)) /\ Len(SubSeq(s, 1, j)) = j
         /\ \A i \in 1..j : SubSeq(s, 1, j)[i] = s[i]
         /\ j = 0 => SubSeq(s, 1, j) = <<>>
         /\ j = Len(s) => SubSeq(s, 1, j) = s
         /\ j > 0 => Append(SubSeq(s, 1, j - 1), s[j]) = SubSeq(s, 1, j)
<1>1. Len(s) \in Nat
  BY SeqFacts
<1>2. ASSUME NEW n \in 0..Len(s)
      PROVE  IsSeq(SubSeq(s, 1, n)) /\ Len(SubSeq(s, 1, n)) = n
             /\ \A i \in 1..n : SubSeq(s, 1, n)[i] = s[i]
  <2>1. 1 \in 1..(Len(s) + 1) /\ n \in Int /\ 1 - 1 <= n /\ n <= Len(s)
    BY <1>1
  <2>2. /\ IsSeq(SubSeq(s, 1, n)) /\ Len(SubSeq(s, 1, n)) = n - 1 + 1
        /\ \A i \in 1..(n - 1 + 1) : SubSeq(s, 1, n)[i] = s[1 + i - 1]
    BY <2>1, Slice
  <2>3. n - 1 + 1 = n /\ \A i \in 1..n : 1 + i - 1 = i
    BY <1>1
  <2> QED
    BY <2>2, <2>3
<1>3. j = 0 => SubSeq(s, 1, j) = <<>>
  BY <1>2, SeqFacts
<1>4. j = Len(s) => SubSeq(s, 1, j) = s
  BY <1>2, SameSeq
<1>5. ASSUME j > 0 PROVE Append(SubSeq(s, 1, j - 1), s[j]) = SubSeq(s, 1, j)
  <2> DEFINE u == SubSeq(s, 1, j - 1)
             t == Append(u, s[j])
  <2>1. IsSeq(u) /\ Len(u) = j - 1 /\ \A i \in 1..(j - 1) : u[i] = s[i]
    BY <1>1, <1>2, <1>5
  <2> HIDE DEF u
  <2>2. IsSeq(t) /\ Len(t) = j
    BY <1>1, <2>1, SeqAppend
  <2>3. ASSUME NEW i \in 1..j PROVE t[i] = s[i]
    <3>1. PICK S : u \in Seq(S)
      BY <2>1 DEF IsSeq
    <3>2. u \in Seq(S \cup {s[j]}) /\ s[j] \in S \cup {s[j]}
      BY <3>1
    <3>3. t[i] = IF i <= j - 1 THEN u[i] ELSE s[j]
      BY <1>1, <2>1, <3>2
    <3> QED
      BY <1>1, <2>1, <3>3
  <2> HIDE DEF t
  <2>4. t = SubSeq(s, 1, j)
    <3>1. /\ IsSeq(SubSeq(s, 1, j)) /\ Len(SubSeq(s, 1, j)) = j
          /\ \A i \in 1..j : SubSeq(s, 1, j)[i] = s[i]
      BY <1>2
    <3>2. \A i \in 1..Len(t) : t[i] = SubSeq(s, 1, j)[i]
      BY <2>2, <2>3, <3>1
    <3> QED
      BY <2>2, <3>1, <3>2, SameSeq
  <2> QED
    BY <2>4 DEF t, u
<1> QED
  BY <1>2, <1>3, <1>4, <1>5

\* Within a character the parser holds what it has of it; at its end, it has told it.
LEMMA CharWalk ==
  ASSUME NEW t, IsSeq(t), NEW g, Walk(t, g), NEW k \in 0..Len(t), AtRest(g[k]),
         NEW m, Counts(From(t, k), m)
  PROVE  \A j \in 1..m :
           g[k + j] = IF j < Size(From(t, k)[1]) THEN Amid(g[k], SubSeq(From(t, k), 1, j))
                      ELSE GroundDispatch(g[k], <<SubSeq(From(t, k), 1, j)>>)
<1> DEFINE q == g[k]
           rest == From(t, k)
           want == Size(rest[1])
<1>1. /\ Len(t) \in Nat /\ IsSeq(rest) /\ Len(rest) = Len(t) - k
      /\ \A i \in 1..(Len(t) - k) : rest[i] = t[k + i]
  BY SeqFacts, FromFacts
<1>2. want \in 0..3 /\ m \in 1..want /\ m <= Len(rest) /\ Counts(rest, m)
  BY Sizes DEF Counts
<1> HIDE DEF q, rest, want
<1>3. ASSUME NEW j \in 1..m, g[k + (j - 1)] = Amid(q, SubSeq(rest, 1, j - 1))
      PROVE  g[k + j] = IF j < want THEN Amid(q, SubSeq(rest, 1, j))
                        ELSE GroundDispatch(q, <<SubSeq(rest, 1, j)>>)
  <2> DEFINE u == SubSeq(rest, 1, j - 1)
             b == rest[j]
             text == SubSeq(rest, 1, j)
  <2>1. j \in 0..Len(rest) /\ j - 1 \in 0..Len(rest) /\ j > 0 /\ j \in 1..(Len(t) - k)
    BY <1>1, <1>2
  <2>2. IsSeq(u) /\ Len(u) = j - 1 /\ Append(u, b) = text
        /\ IsSeq(text) /\ Len(text) = j /\ \A i \in 1..j : text[i] = rest[i]
    BY <1>1, <2>1, Prefix
  <2>3. Counts(text, j)
    BY <1>1, <1>2, <2>2, PrefixCounts
  <2>4. k + j \in 1..Len(t) /\ (k + j) - 1 = k + (j - 1) /\ b = t[k + j]
    BY <1>1, <2>1
  <2>5. b # "ESC" /\ g[k + j] = Byte(Amid(q, u), b)
    BY <1>3, <2>4 DEF Walk
  <2>6. text[1] = rest[1] /\ (j - 1) + 1 = j
    BY <2>1, <2>2
  <2> HIDE DEF u, b, text
  <2>7. Formed(q) /\ q.state = "Ground" /\ q.partial = <<>>
    BY DEF AtRest, q
  <2>8. Counts(Append(u, b), Len(u) + 1)
    BY <2>2, <2>3, <2>6
  <2>9. Byte(Amid(q, u), b) =
          IF Len(u) + 1 < Size(Append(u, b)[1]) THEN Amid(q, Append(u, b))
          ELSE GroundDispatch(q, <<Append(u, b)>>)
    BY <2>2, <2>5, <2>7, <2>8, CountingByte
  <2> QED
    BY <2>2, <2>5, <2>6, <2>9 DEF text, want
<1>4. g[k + (1 - 1)] = Amid(q, SubSeq(rest, 1, 1 - 1))
  <2>1. SubSeq(rest, 1, 0) = <<>>
    BY <1>1, <1>2, Prefix
  <2>2. Amid(q, <<>>) = q
    BY AmidFields DEF AtRest, q
  <2>3. k + (1 - 1) = k /\ 1 - 1 = 0
    BY <1>1
  <2> QED
    BY <2>1, <2>2, <2>3 DEF q
<1> DEFINE Reads(j) == g[k + j] = IF j < want THEN Amid(q, SubSeq(rest, 1, j))
                                 ELSE GroundDispatch(q, <<SubSeq(rest, 1, j)>>)
<1>5. ASSUME NEW i \in 1..m, NEW j \in 1..m, i = j - 1, Reads(i) PROVE Reads(j)
  <2>1. j - 1 < want
    BY <1>2
  <2> QED
    BY <1>3, <1>5, <2>1
<1>6. ASSUME NEW j \in 1..m PROVE Reads(j)
  <2>1. 1 \in 1..m /\ j \in 1..3
    BY <1>2
  <2>2. Reads(1)
    BY <1>3, <1>4, <2>1
  <2>3. ASSUME j >= 2 PROVE Reads(2)
    <3>1. 1 \in 1..m /\ 2 \in 1..m /\ 1 = 2 - 1
      BY <1>2, <2>3
    <3> HIDE DEF Reads
    <3> QED
      BY <1>5, <2>2, <3>1
  <2>4. ASSUME j = 3 PROVE Reads(3)
    <3>1. 2 \in 1..m /\ 3 \in 1..m /\ 2 = 3 - 1
      BY <1>2, <2>4
    <3> HIDE DEF Reads
    <3> QED
      BY <1>5, <2>3, <2>4, <3>1
  <2> HIDE DEF Reads
  <2> QED
    BY <2>1, <2>2, <2>3, <2>4
<1> QED
  BY <1>6 DEF q, rest, want

\* What Decode makes of a text is what its bytes amount to.
LEMMA DecodeWalk ==
  ASSUME NEW t, IsSeq(t), NEW g, Walk(t, g), NEW at, Decoding(t, 1, at)
  PROVE  \A k \in 0..Len(t) : AtRest(g[k]) =>
           \A v \in k..Len(t) : at[k + 1].rest = From(t, v) =>
             g[v] = GroundDispatch(g[k], at[k + 1].chars)
<1> DEFINE L == Len(t)
           Right(k) == AtRest(g[k]) =>
             \A v \in k..L : at[k + 1].rest = From(t, v) => g[v] = GroundDispatch(g[k], at[k + 1].chars)
           Below == {m \in Nat : \A k \in 0..L : k >= L - m => Right(k)}
<1>0. L \in Nat
  BY SeqFacts
<1>1. \A i \in 1..(L + 1) : at[i] = Part(t, i, at) /\ Tails(t, i, at[i])
  BY DecodeTails
<1>2. ASSUME NEW k \in 0..L, \A j \in (k + 1)..L : Right(j) PROVE Right(k)
  <2> SUFFICES ASSUME AtRest(g[k]), NEW v \in k..L, at[k + 1].rest = From(t, v)
               PROVE  g[v] = GroundDispatch(g[k], at[k + 1].chars)
    OBVIOUS
  <2> DEFINE rest == From(t, k)
             n == Matched(rest)
             char == SubSeq(rest, 1, n)
  <2>1. k + 1 \in 1..(L + 1) /\ (k + 1) - 1 = k
    BY <1>0
  <2>2. IsSeq(rest) /\ Len(rest) = L - k
    BY FromFacts
  <2>3. Formed(g[k])
    BY DEF AtRest
  <2>4. CASE Whole(rest)
    <3>1. at[k + 1] = [chars |-> <<char>> \o at[(k + 1) + n].chars, rest |-> at[(k + 1) + n].rest]
      <4>1. at[k + 1] = Part(t, k + 1, at)
        BY <1>1, <2>1
      <4> QED
        BY <2>1, <2>4, <4>1 DEF Part
    <3>2. n \in 1..3 /\ n <= Len(rest) /\ Counts(rest, n) /\ n = Size(rest[1])
      BY <2>2, <2>4, WholeCount
    <3>3. g[k + n] = GroundDispatch(g[k], <<char>>)
      <4>1. \A j \in 1..n : g[k + j] = IF j < Size(rest[1]) THEN Amid(g[k], SubSeq(rest, 1, j))
                                       ELSE GroundDispatch(g[k], <<SubSeq(rest, 1, j)>>)
        BY <3>2, CharWalk
      <4>2. n \in 1..n /\ ~(n < Size(rest[1]))
        <5> HIDE DEF n
        <5> QED
          BY <3>2
      <4> HIDE DEF n, rest
      <4> QED
        BY <4>1, <4>2
    <3> HIDE DEF n, rest, char, L
    <3>4. k + n \in (k + 1)..L /\ (k + 1) + n = (k + n) + 1 /\ (k + n) + 1 \in 1..(L + 1)
      <4>1. n \in Nat /\ n >= 1 /\ n <= L - k
        BY <2>2, <3>2
      <4> QED
        BY <1>0, <4>1
    <3>5. AtRest(g[k + n])
      <4>1. IsSeq(<<char>>)
        BY OneChar
      <4> QED
        BY <2>3, <3>3, <4>1, Dispatched DEF AtRest
    <3>6. IsSeq(at[(k + n) + 1].chars) /\ \E w \in (k + n)..L : at[(k + n) + 1].rest = From(t, w)
      <4>1. Tails(t, (k + n) + 1, at[(k + n) + 1])
        BY <1>1, <3>4
      <4> DEFINE i == (k + n) + 1
      <4> HIDE DEF i
      <4>2. Tails(t, i, at[i])
        BY <4>1 DEF i
      <4>3. IsSeq(at[i].chars) /\ \E w \in (i - 1)..Len(t) : at[i].rest = From(t, w)
        BY <4>2, TailOf
      <4>4. i - 1 = k + n
        <5>1. k \in Nat /\ n \in Nat
          BY <1>0, <3>2
        <5> QED
          BY <5>1 DEF i
      <4>5. IsSeq(at[i].chars) /\ \E w \in (k + n)..L : at[i].rest = From(t, w)
        BY <4>3, <4>4 DEF L
      <4> QED
        BY <4>5 DEF i
    <3>7. at[(k + n) + 1].rest = From(t, v)
      BY <3>1, <3>4
    <3>8. v \in (k + n)..L
      <4>1. PICK w \in (k + n)..L : at[(k + n) + 1].rest = From(t, w)
        BY <3>6
      <4>2. w \in 0..L /\ v \in 0..L /\ w \in (k + n)..L
        BY <1>0, <3>4
      <4>3. Len(From(t, w)) = L - w /\ Len(From(t, v)) = L - v
        BY <4>2, FromFacts DEF L
      <4> QED
        BY <1>0, <3>7, <4>1, <4>2, <4>3
    <3>9. g[v] = GroundDispatch(g[k + n], at[(k + n) + 1].chars)
      BY <1>2, <3>4, <3>5, <3>7, <3>8
    <3>10. GroundDispatch(GroundDispatch(g[k], <<char>>), at[(k + n) + 1].chars)
             = GroundDispatch(g[k], <<char>> \o at[(k + n) + 1].chars)
      BY <2>3, <3>6, OneChar, Dispatched
    <3> QED
      BY <3>1, <3>3, <3>4, <3>9, <3>10
  <2>5. CASE ~Whole(rest)
    <3>1. at[k + 1] = [chars |-> <<>>, rest |-> rest]
      <4>1. at[k + 1] = Part(t, k + 1, at)
        BY <1>1, <2>1
      <4> QED
        BY <2>1, <2>5, <4>1 DEF Part
    <3>2. v = k
      <4>1. v \in 0..L /\ k \in 0..L
        BY <1>0
      <4>2. Len(From(t, v)) = L - v /\ Len(From(t, k)) = L - k
        BY <4>1, FromFacts
      <4>3. From(t, v) = From(t, k)
        BY <3>1
      <4> QED
        BY <1>0, <4>1, <4>2, <4>3
    <3>3. GroundDispatch(g[k], <<>>) = g[k]
      <4>1. IsSeq(<<>>)
        BY DEF IsSeq
      <4> QED
        BY <2>3, <4>1, Dispatched
    <3> QED
      BY <3>1, <3>2, <3>3
  <2> QED
    BY <2>4, <2>5
<1> HIDE DEF L, Right
<1>3. 0 \in Below
  <2>1. ASSUME NEW k \in 0..L, k >= L - 0 PROVE Right(k)
    <3>1. (k + 1)..L = {}
      BY <1>0, <2>1
    <3> QED
      BY <1>2, <3>1
  <2> QED
    BY <1>0, <2>1
<1>4. ASSUME NEW m \in Below PROVE m + 1 \in Below
  <2>1. ASSUME NEW k \in 0..L, k >= L - (m + 1) PROVE Right(k)
    <3>1. ASSUME NEW j \in (k + 1)..L PROVE Right(j)
      <4>1. j \in 0..L /\ j >= L - m
        BY <1>0, <2>1
      <4> QED
        BY <4>1
    <3> QED
      BY <1>2, <3>1
  <2> QED
    BY <2>1
<1>5. L \in Below
  <2>1. Below \in SUBSET Nat
    OBVIOUS
  <2> HIDE DEF Below
  <2> QED
    BY <1>0, <1>3, <1>4, <2>1, SetInduction
<1>6. \A k \in 0..L : Right(k)
  BY <1>0, <1>5
<1> QED
  BY <1>6 DEF Right, L

-----------------------------------------------------------------------------
(* Bytes in bulk *)

\* The least of a set is in it.
LEMMA LeastIn ==
  ASSUME NEW T, T \subseteq Nat, T # {}
  PROVE  Min(T) \in T /\ \A y \in T : Min(T) <= y
<1>1. PICK least \in T : \A n \in T : ~(<<n, least>> \in OpToRel(<, Nat))
  BY WFMin, NatLessThanWellFounded
<1>2. ASSUME NEW n \in T PROVE least <= n
  <2>1. n \in Nat /\ least \in Nat
    OBVIOUS
  <2> SUFFICES ASSUME n < least PROVE FALSE
    BY <2>1
  <2>2. <<n, least>> \in {pair \in Nat \X Nat : pair[1] < pair[2]}
    BY <2>1
  <2> QED
    BY <1>1, <2>2 DEF OpToRel
<1>3. \E x \in T : \A y \in T : x <= y
  BY <1>2
<1> QED
  BY <1>3 DEF Min

\* A run ends at the first byte that stops it.
LEMMA RunFacts ==
  ASSUME NEW s, IsSeq(s), NEW stops
  PROVE  /\ Run(s, stops) \in 0..Len(s)
         /\ \A i \in 1..Run(s, stops) : s[i] \notin stops
         /\ Run(s, stops) < Len(s) => s[Run(s, stops) + 1] \in stops
<1> DEFINE T == {i \in DOMAIN s : s[i] \in stops} \cup {Len(s) + 1}
           end == Min(T)
<1>1. Len(s) \in Nat /\ DOMAIN s = 1..Len(s)
  BY SeqFacts
<1>2. T \subseteq 1..(Len(s) + 1) /\ T \subseteq Nat /\ T # {}
  BY <1>1
<1>3. end \in T /\ \A y \in T : end <= y
  <2> HIDE DEF T
  <2> QED
    BY <1>2, LeastIn
<1>4. \A i \in 1..Len(s) : s[i] \in stops => end <= i
  BY <1>1, <1>3
<1>5. end \in 1..(Len(s) + 1) /\ (end <= Len(s) => s[end] \in stops)
  <2>1. end = Len(s) + 1 \/ s[end] \in stops
    BY <1>3
  <2> HIDE DEF end
  <2> QED
    BY <1>1, <1>2, <1>3, <2>1
<1>6. Run(s, stops) = end - 1
  BY DEF Run
<1> HIDE DEF end
<1> QED
  BY <1>1, <1>4, <1>5, <1>6

\* What advance_ground makes of s: its text t, up to the first escape, is whole
\* characters as far as v.
EndsWhole(s, t, v, told, r) ==
  /\ v = Len(t)
  /\ r = IF Len(t) < Len(s) THEN [p |-> Escape(told), n |-> Len(t) + 1]
         ELSE [p |-> told, n |-> Len(t)]
StopsAtLone(t, v, told, r) ==
  /\ v < Len(t) /\ Size(t[v + 1]) = 0
  /\ r = [p |-> IF t[v + 1] \in Low THEN Execute(told, <<t[v + 1]>>) ELSE Draw(told, Replacement),
          n |-> v + 1]
StopsAtBroken(t, v, told, r) ==
  \E m : /\ Counts(From(t, v), m) /\ m < Size(From(t, v)[1]) /\ v + m < Len(t)
         /\ r = [p |-> Draw(told, Replacement), n |-> v + m]
EndsCut(s, t, v, told, r) ==
  /\ v < Len(t) /\ Counts(From(t, v), Len(From(t, v))) /\ Len(From(t, v)) < Size(From(t, v)[1])
  /\ r = IF Len(t) < Len(s) THEN [p |-> Escape(Draw(told, Replacement)), n |-> Len(t) + 1]
         ELSE [p |-> Amid(told, From(t, v)), n |-> Len(s)]
GroundOutcome(s, t, v, told, r) ==
  \/ EndsWhole(s, t, v, told, r) \/ StopsAtLone(t, v, told, r)
  \/ StopsAtBroken(t, v, told, r) \/ EndsCut(s, t, v, told, r)

\* The arms of advance_ground, by what is left of the text.
GroundArms(s, t, rest, told) ==
  CASE rest = <<>> /\ Len(t) < Len(s) -> [p |-> Escape(told), n |-> Len(t) + 1]
    [] rest = <<>> /\ Len(t) = Len(s) -> [p |-> told, n |-> Len(t)]
    [] rest # <<>> /\ ~CutShort(rest) ->
         [p |-> IF ErrorLen(rest) = 1 /\ rest[1] \in Low THEN Execute(told, <<rest[1]>>)
                ELSE Draw(told, Replacement),
          n |-> (Len(t) - Len(rest)) + ErrorLen(rest)]
    [] rest # <<>> /\ CutShort(rest) /\ Len(t) < Len(s) ->
         [p |-> Escape(Draw(told, Replacement)), n |-> Len(t) + 1]
    [] rest # <<>> /\ CutShort(rest) /\ Len(t) = Len(s) ->
         [p |-> [told EXCEPT !.partial = rest], n |-> Len(s)]

\* The arms of AdvanceGround that follow the text, one condition each.
LEMMA ArmsTaken ==
  ASSUME NEW s, NEW t, NEW rest, NEW told, Len(t) \in Nat, Len(s) \in Nat, Len(t) <= Len(s)
  PROVE  /\ rest = <<>> => GroundArms(s, t, rest, told)
                             = IF Len(t) < Len(s) THEN [p |-> Escape(told), n |-> Len(t) + 1]
                               ELSE [p |-> told, n |-> Len(t)]
         /\ rest # <<>> /\ ~CutShort(rest) =>
              GroundArms(s, t, rest, told)
                = [p |-> IF ErrorLen(rest) = 1 /\ rest[1] \in Low THEN Execute(told, <<rest[1]>>)
                         ELSE Draw(told, Replacement),
                   n |-> (Len(t) - Len(rest)) + ErrorLen(rest)]
         /\ rest # <<>> /\ CutShort(rest) =>
              GroundArms(s, t, rest, told)
                = IF Len(t) < Len(s) THEN [p |-> Escape(Draw(told, Replacement)), n |-> Len(t) + 1]
                  ELSE [p |-> Amid(told, rest), n |-> Len(s)]
<1>1. Len(t) < Len(s) \/ Len(t) = Len(s)
  OBVIOUS
<1>2. ~(Len(t) < Len(s) /\ Len(t) = Len(s))
  OBVIOUS
<1>3. CASE rest = <<>>
  BY <1>1, <1>2, <1>3 DEF GroundArms
<1>4. CASE rest # <<>> /\ ~CutShort(rest)
  BY <1>4 DEF GroundArms
<1>5. CASE rest # <<>> /\ CutShort(rest)
  BY <1>1, <1>2, <1>5 DEF GroundArms, Amid
<1> QED
  BY <1>3, <1>4, <1>5

\* Whatever follows the text, the arm taken has the outcome it should.
LEMMA GroundCases ==
  ASSUME NEW s, NEW t, IsSeq(t), Len(s) \in Nat, Len(t) <= Len(s),
         NEW v \in 0..Len(t), ~Whole(From(t, v)), NEW told
  PROVE  GroundOutcome(s, t, v, told, GroundArms(s, t, From(t, v), told))
<1> DEFINE rest == From(t, v)
           r == GroundArms(s, t, rest, told)
           bad == rest[1]
<1>1. /\ Len(t) \in Nat /\ IsSeq(rest) /\ Len(rest) = Len(t) - v
      /\ rest = <<>> <=> v = Len(t)
      /\ v < Len(t) => bad = t[v + 1]
  BY SeqFacts, FromFacts
<1>2. /\ rest = <<>> => r = IF Len(t) < Len(s) THEN [p |-> Escape(told), n |-> Len(t) + 1]
                            ELSE [p |-> told, n |-> Len(t)]
      /\ rest # <<>> /\ ~CutShort(rest) =>
           r = [p |-> IF ErrorLen(rest) = 1 /\ bad \in Low THEN Execute(told, <<bad>>)
                      ELSE Draw(told, Replacement),
                n |-> (Len(t) - Len(rest)) + ErrorLen(rest)]
      /\ rest # <<>> /\ CutShort(rest) =>
           r = IF Len(t) < Len(s) THEN [p |-> Escape(Draw(told, Replacement)), n |-> Len(t) + 1]
               ELSE [p |-> Amid(told, rest), n |-> Len(s)]
  BY <1>1, ArmsTaken
<1> HIDE DEF rest, r
<1>3. CASE v = Len(t)
  <2>1. EndsWhole(s, t, v, told, r)
    BY <1>1, <1>2, <1>3 DEF EndsWhole
  <2> QED
    BY <2>1 DEF GroundOutcome, r, rest
<1>4. CASE v < Len(t)
  <2>1. rest # <<>> /\ bad = t[v + 1] /\ Len(rest) >= 1 /\ Len(t) - Len(rest) = v
    BY <1>1, <1>4
  <2>2. Size(bad) \in 0..3
    BY Sizes
  <2>3. CASE Size(bad) = 0
    <3>1. ~CutShort(rest) /\ ErrorLen(rest) = 1
      BY <1>1, <2>1, <2>3, Verdict
    <3>2. r = [p |-> IF bad \in Low THEN Execute(told, <<bad>>) ELSE Draw(told, Replacement),
               n |-> v + 1]
      BY <1>2, <2>1, <3>1
    <3>3. StopsAtLone(t, v, told, r)
      BY <1>4, <2>1, <2>3, <3>2 DEF StopsAtLone
    <3> QED
      BY <3>3 DEF GroundOutcome, r, rest
  <2>4. CASE Size(bad) > 0
    <3> DEFINE m == Matched(rest)
    <3>1. Counts(rest, m)
      BY <1>1, <2>1, <2>4, MatchedCounts
    <3> HIDE DEF m
    <3>2. /\ Whole(rest) <=> m = Size(bad)
          /\ CutShort(rest) <=> m < Size(bad) /\ m = Len(rest)
          /\ ErrorLen(rest) = m
      BY <1>1, <2>1, <3>1, Verdict
    <3>3. m \in 1..Size(bad) /\ m <= Len(rest)
      BY <3>1 DEF Counts
    <3>a. ~Whole(rest)
      BY DEF rest
    <3>4. m < Size(bad) /\ Size(bad) > 1
      BY <2>2, <3>2, <3>3, <3>a
    <3>5. bad \notin Low
      BY <3>4, Sizes DEF Continuation
    <3>6. CASE m < Len(rest)
      <4>1. r = [p |-> Draw(told, Replacement), n |-> v + m]
        <5>1. ~CutShort(rest)
          BY <2>2, <3>2, <3>3, <3>6, <1>1
        <5> QED
          BY <1>2, <2>1, <3>2, <3>5, <5>1
      <4>2. v + m < Len(t)
        <5> DEFINE l == Len(t)
                   w == Len(rest)
        <5>1. l \in Nat /\ w = l - v /\ m < w /\ m \in Int /\ v \in Int
          BY <1>1, <3>3, <3>6, <2>2
        <5> HIDE DEF l, w
        <5>2. v + m < l
          BY ONLY <5>1
        <5> QED
          BY <5>2 DEF l
      <4>3. StopsAtBroken(t, v, told, r)
        BY <3>1, <3>4, <4>1, <4>2 DEF StopsAtBroken, rest
      <4> QED
        BY <4>3 DEF GroundOutcome, r, rest
    <3>7. CASE m = Len(rest)
      <4>1. CutShort(rest)
        BY <3>2, <3>4, <3>7
      <4>2. r = IF Len(t) < Len(s) THEN [p |-> Escape(Draw(told, Replacement)), n |-> Len(t) + 1]
                ELSE [p |-> Amid(told, rest), n |-> Len(s)]
        BY <1>2, <2>1, <4>1
      <4>3. Counts(rest, Len(rest)) /\ Len(rest) < Size(rest[1])
        BY <3>1, <3>4, <3>7
      <4>4. EndsCut(s, t, v, told, r)
        BY <1>4, <4>2, <4>3 DEF EndsCut, rest
      <4> QED
        BY <4>4 DEF GroundOutcome, r, rest
    <3>8. m < Len(rest) \/ m = Len(rest)
      BY <1>1, <2>2, <3>3
    <3> QED
      BY <3>6, <3>7, <3>8
  <2>5. Size(bad) = 0 \/ Size(bad) > 0
    BY <2>2
  <2> QED
    BY <2>3, <2>4, <2>5
<1>5. v = Len(t) \/ v < Len(t)
  BY <1>1
<1> QED
  BY <1>3, <1>4, <1>5

\* AdvanceGround has one of the outcomes.
LEMMA GroundOutcomes ==
  ASSUME NEW p, NEW s, IsSeq(s), NEW t, IsSeq(t), t = SubSeq(s, 1, Run(s, {"ESC"})),
         Len(t) = Run(s, {"ESC"}), Len(t) <= Len(s),
         NEW v \in 0..Len(t), Decode(t).rest = From(t, v), ~Whole(From(t, v))
  PROVE  GroundOutcome(s, t, v, GroundDispatch(p, Decode(t).chars), AdvanceGround(p, s))
<1>1. AdvanceGround(p, s) = GroundArms(s, t, Decode(t).rest, GroundDispatch(p, Decode(t).chars))
  BY DEF AdvanceGround, GroundArms
<1>2. Len(s) \in Nat
  BY SeqFacts
<1> QED
  BY <1>1, <1>2, GroundCases

\* The text of s is its bytes before the first escape.
LEMMA GroundText ==
  ASSUME NEW s, IsSeq(s), NEW t, t = SubSeq(s, 1, Run(s, {"ESC"}))
  PROVE  /\ IsSeq(t) /\ Len(t) = Run(s, {"ESC"}) /\ Len(t) \in 0..Len(s) /\ Len(s) \in Nat
         /\ \A i \in 1..Len(t) : t[i] = s[i] /\ t[i] # "ESC"
         /\ Len(t) < Len(s) => s[Len(t) + 1] = "ESC"
<1>1. /\ Run(s, {"ESC"}) \in 0..Len(s) /\ \A i \in 1..Run(s, {"ESC"}) : s[i] \notin {"ESC"}
      /\ Run(s, {"ESC"}) < Len(s) => s[Run(s, {"ESC"}) + 1] \in {"ESC"}
  BY RunFacts
<1>2. IsSeq(t) /\ Len(t) = Run(s, {"ESC"}) /\ \A i \in 1..Run(s, {"ESC"}) : t[i] = s[i]
  BY <1>1, Prefix
<1> QED
  BY <1>1, <1>2, SeqFacts

\* What is decoded is followed by nothing, or by what is no character.
LEMMA GroundDecoded ==
  ASSUME NEW t, IsSeq(t)
  PROVE  \E at, v :
           /\ Decoding(t, 1, at) /\ Decode(t) = at[1] /\ v \in 0..Len(t)
           /\ at[1].rest = From(t, v) /\ ~Whole(From(t, v)) /\ IsSeq(at[1].chars)
<1>1. PICK at : Decoding(t, 1, at) /\ Decode(t) = at[1]
  BY DecodeStep
<1>2. Len(t) \in Nat /\ 1 \in 1..(Len(t) + 1)
  BY SeqFacts
<1>3. Tails(t, 1, at[1])
  BY <1>1, <1>2, DecodeTails
<1>4. IsSeq(at[1].chars) /\ \E v \in (1 - 1)..Len(t) : at[1].rest = From(t, v) /\ ~Whole(From(t, v))
  BY <1>3 DEF Tails
<1> QED
  BY <1>1, <1>4

\* What a parser holds of a character is one cut short.
Begun(p) == p.partial = <<>> \/ (IsSeq(p.partial) /\ CutShort(p.partial))
Sane(p) == Formed(p) /\ Begun(p)

\* A turn of the loop takes a byte or more, and leaves a parser.
Turn(s, r) == r.n \in 1..Len(s) /\ Sane(r.p)

\* A turn, from its two fields.
LEMMA TurnOf ==
  ASSUME NEW s, NEW q, Sane(q), NEW n \in 1..Len(s)
  PROVE  Turn(s, [p |-> q, n |-> n])
<1>1. [p |-> q, n |-> n].p = q /\ [p |-> q, n |-> n].n = n
  OBVIOUS
<1> QED
  BY <1>1 DEF Turn

\* What keeps a parser one keeps it sane.
LEMMA SaneKeeps ==
  ASSUME NEW p, Sane(p), NEW q, Keeps(p, q)
  PROVE  Sane(q)
BY DEF Sane, Keeps, Begun

\* Telling and escaping keep a parser one.
LEMMA EscapeDraw ==
  ASSUME NEW p, Formed(p), NEW c
  PROVE  /\ Keeps(p, Escape(p)) /\ Keeps(p, Draw(p, c)) /\ Keeps(p, Execute(p, c))
         /\ Keeps(p, Escape(Draw(p, c)))
<1>1. Keeps(p, Escape(p)) /\ Keeps(p, Draw(p, c)) /\ Keeps(p, Execute(p, c))
  BY EscapeKeeps, EmitKeeps DEF Draw, Execute
<1>2. Keeps(Draw(p, c), Escape(Draw(p, c)))
  BY <1>1, EscapeKeeps DEF Keeps
<1> QED
  BY <1>1, <1>2, KeepsOn

\* A turn in the ground state.
LEMMA GroundTurn ==
  ASSUME NEW p, Sane(p), NEW s, IsSeq(s), s # <<>>
  PROVE  Turn(s, AdvanceGround(p, s))
<1> DEFINE t == SubSeq(s, 1, Run(s, {"ESC"}))
           r == AdvanceGround(p, s)
<1>1. /\ IsSeq(t) /\ Len(t) = Run(s, {"ESC"}) /\ Len(t) \in 0..Len(s) /\ Len(s) \in Nat
      /\ Len(s) >= 1
  BY GroundText, HeadIsFirst
<1>2. PICK at, v :
        /\ Decoding(t, 1, at) /\ Decode(t) = at[1] /\ v \in 0..Len(t)
        /\ at[1].rest = From(t, v) /\ ~Whole(From(t, v)) /\ IsSeq(at[1].chars)
  BY <1>1, GroundDecoded
<1> DEFINE told == GroundDispatch(p, Decode(t).chars)
           rest == From(t, v)
<1>3. GroundOutcome(s, t, v, told, r)
  <2>1. Len(t) <= Len(s)
    <3> HIDE DEF t
    <3> QED
      BY <1>1
  <2> QED
    BY <1>1, <1>2, <2>1, GroundOutcomes
<1>4. Keeps(p, told)
  BY <1>2, Dispatched DEF Keeps, Sane
<1> HIDE DEF t, r, told
<1>5. /\ Sane(told) /\ Formed(told) /\ Sane(Escape(told)) /\ Sane(Draw(told, Replacement))
      /\ Sane(Execute(told, <<t[v + 1]>>)) /\ Sane(Escape(Draw(told, Replacement)))
  <2>1. Sane(told)
    BY <1>4, SaneKeeps
  <2> QED
    BY <2>1, EscapeDraw, SaneKeeps DEF Sane
<1>6. IsSeq(rest) /\ Len(rest) = Len(t) - v
  BY <1>1, <1>2, FromFacts
<1>7. ASSUME EndsWhole(s, t, v, told, r) PROVE Turn(s, r)
  <2>1. CASE Len(t) < Len(s)
    <3>1. Len(t) + 1 \in 1..Len(s) /\ r = [p |-> Escape(told), n |-> Len(t) + 1]
      BY <1>1, <1>7, <2>1 DEF EndsWhole
    <3> QED
      BY <1>5, <3>1, TurnOf
  <2>2. CASE ~(Len(t) < Len(s))
    <3>1. Len(t) \in 1..Len(s) /\ r = [p |-> told, n |-> Len(t)]
      BY <1>1, <1>7, <2>2 DEF EndsWhole
    <3> QED
      BY <1>5, <3>1, TurnOf
  <2> QED
    BY <2>1, <2>2
<1>8. ASSUME StopsAtLone(t, v, told, r) PROVE Turn(s, r)
  <2>1. v + 1 \in 1..Len(s)
    BY <1>1, <1>2, <1>8 DEF StopsAtLone
  <2>2. r = [p |-> IF t[v + 1] \in Low THEN Execute(told, <<t[v + 1]>>) ELSE Draw(told, Replacement),
             n |-> v + 1]
    BY <1>8 DEF StopsAtLone
  <2> DEFINE q == IF t[v + 1] \in Low THEN Execute(told, <<t[v + 1]>>) ELSE Draw(told, Replacement)
  <2>3. Sane(q)
    BY <1>5
  <2> HIDE DEF q
  <2>4. Turn(s, [p |-> q, n |-> v + 1])
    BY <2>1, <2>3, TurnOf
  <2> QED
    BY <2>2, <2>4 DEF q
<1>9. ASSUME StopsAtBroken(t, v, told, r) PROVE Turn(s, r)
  <2>1. PICK m : /\ Counts(rest, m) /\ v + m < Len(t)
                 /\ r = [p |-> Draw(told, Replacement), n |-> v + m]
    BY <1>9 DEF StopsAtBroken
  <2>2. m \in 1..3
    BY <2>1, Sizes DEF Counts
  <2>3. v + m \in 1..Len(s)
    BY <1>1, <1>2, <2>1, <2>2
  <2> QED
    BY <1>5, <2>1, <2>3, TurnOf
<1>10. ASSUME EndsCut(s, t, v, told, r) PROVE Turn(s, r)
  <2>1. /\ Counts(rest, Len(rest)) /\ Len(rest) < Size(rest[1])
        /\ r = IF Len(t) < Len(s) THEN [p |-> Escape(Draw(told, Replacement)), n |-> Len(t) + 1]
               ELSE [p |-> Amid(told, rest), n |-> Len(s)]
    BY <1>10 DEF EndsCut
  <2>2. Len(t) + 1 \in 1..(Len(s) + 1) /\ Len(s) \in 1..Len(s)
    BY <1>1
  <2>3. Sane(Amid(told, rest))
    <3>1. rest # <<>>
      BY <1>1, <1>2, <1>6, <1>10, SeqFacts DEF EndsCut
    <3>2. CutShort(rest)
      BY <1>6, <2>1, <3>1, Verdict
    <3> HIDE DEF rest
    <3> QED
      BY <1>5, <1>6, <3>2, AmidFields DEF Sane, Begun
  <2>4. CASE Len(t) < Len(s)
    <3>1. Len(t) + 1 \in 1..Len(s)
      BY <1>1, <2>4
    <3> QED
      BY <1>5, <2>1, <2>4, <3>1, TurnOf
  <2>5. CASE ~(Len(t) < Len(s))
    BY <2>1, <2>2, <2>3, <2>5, TurnOf
  <2> QED
    BY <2>4, <2>5
<1> QED
  BY <1>3, <1>7, <1>8, <1>9, <1>10 DEF GroundOutcome, r

\* A turn that scans a run.
LEMMA AfterRunTurn ==
  ASSUME NEW p, Sane(p), p.state # "Ground", NEW s, IsSeq(s), s # <<>>, NEW end \in 0..Len(s)
  PROVE  Turn(s, AfterRun(p, s, end))
<1>1. Len(s) \in Nat /\ Len(s) >= 1
  BY SeqFacts, HeadIsFirst
<1>2. Sane(ChangeState(p, s[end + 1]))
  BY ChangeStateKeeps, SaneKeeps DEF Sane
<1>3. CASE end = Len(s)
  BY <1>1, <1>3 DEF AfterRun, Turn
<1>4. CASE end # Len(s)
  <2>1. end + 1 \in 1..Len(s)
    BY <1>1, <1>4
  <2> QED
    BY <1>2, <1>4, <2>1 DEF AfterRun, Turn
<1> QED
  BY <1>3, <1>4

\* A run of payload bytes, passed on or stored.
Puts(s, j) == [i \in 1..j |-> <<"put", s[i]>>]
Passed(p, s, j) == [p EXCEPT !.out = @ \o Puts(s, j)]
Room(p) == MaxRaw - Len(p.apc)
TakenIn(p, j) == IF j <= Room(p) THEN j ELSE Room(p)
WithApc(p, apc, over) ==
  [f \in Members |-> CASE f = "apc" -> apc [] f = "apcOverflow" -> over [] OTHER -> p[f]]
Stored(p, s, j) == WithApc(p, p.apc \o SubSeq(s, 1, TakenIn(p, j)), p.apcOverflow \/ j > Room(p))

\* The length of a join.
LEMMA JoinLength ==
  ASSUME NEW a, IsSeq(a), NEW b, IsSeq(b)
  PROVE  IsSeq(a \o b) /\ Len(a \o b) = Len(a) + Len(b)
<1>1. PICK S : a \in Seq(S)
  BY DEF IsSeq
<1>2. PICK T : b \in Seq(T)
  BY DEF IsSeq
<1>3. a \in Seq(S \cup T) /\ b \in Seq(S \cup T)
  BY <1>1, <1>2
<1>4. a \o b \in Seq(S \cup T) /\ Len(a \o b) = Len(a) + Len(b)
  BY <1>3
<1> QED
  BY <1>4 DEF IsSeq

\* A byte more put through.
LEMMA PutsAppend ==
  ASSUME NEW s, NEW j \in Nat
  PROVE  /\ IsSeq(Puts(s, j)) /\ Puts(s, 0) = <<>>
         /\ Append(Puts(s, j), <<"put", s[j + 1]>>) = Puts(s, j + 1)
<1>1. ASSUME NEW n \in Nat PROVE IsSeq(Puts(s, n)) /\ Len(Puts(s, n)) = n
  <2>1. Puts(s, n) \in Seq({Puts(s, n)[i] : i \in 1..n}) /\ Len(Puts(s, n)) = n
    BY DEF Puts
  <2> QED
    BY <2>1 DEF IsSeq
<1>2. Puts(s, 0) = <<>>
  BY DEF Puts
<1> DEFINE x == <<"put", s[j + 1]>>
           u == Puts(s, j)
           w == Puts(s, j + 1)
<1>3. w[j + 1] = x /\ \A i \in 1..j : w[i] = u[i]
  BY DEF Puts
<1>4. IsSeq(u) /\ Len(u) = j /\ IsSeq(w) /\ Len(w) = j + 1
  BY <1>1
<1> HIDE DEF x, u, w
<1>5. Append(u, x) = w
  <2>1. PICK S : u \in Seq(S)
    BY <1>4 DEF IsSeq
  <2>2. u \in Seq(S \cup {x}) /\ x \in S \cup {x}
    BY <2>1
  <2>3. \A i \in 1..(j + 1) : Append(u, x)[i] = w[i]
    BY <1>3, <1>4, <2>2
  <2>4. IsSeq(Append(u, x)) /\ Len(Append(u, x)) = j + 1
    BY <1>4, SeqAppend
  <2> QED
    BY <1>4, <2>3, <2>4, SameSeq
<1> QED
  BY <1>1, <1>2, <1>5 DEF u, w, x

Appends(a, u, x) == Append(a \o u, x) = a \o Append(u, x)

\* A byte more at the end of a join.
LEMMA JoinAppend ==
  ASSUME NEW a, IsSeq(a), NEW u, IsSeq(u), NEW x
  PROVE  Appends(a, u, x)
<1>1. PICK S : a \in Seq(S)
  BY DEF IsSeq
<1>2. PICK T : u \in Seq(T)
  BY DEF IsSeq
<1> DEFINE V == S \cup T \cup {x}
<1>3. a \in Seq(V) /\ u \in Seq(V) /\ x \in V
  BY <1>1, <1>2
<1> HIDE DEF V
<1>4. Append(a \o u, x) = a \o Append(u, x)
  BY <1>3
<1> QED
  BY <1>4 DEF Appends

\* The parser after a run of puts, field by field.
LEMMA PassedFields ==
  ASSUME NEW p, Formed(p), NEW s, NEW j \in Nat
  PROVE  /\ Keeps(p, Passed(p, s, j)) /\ Passed(p, s, j).state = p.state
         /\ Passed(p, s, j) = [f \in Members |-> IF f = "out" THEN p.out \o Puts(s, j) ELSE p[f]]
<1>1. IsSeq(p.out \o Puts(s, j))
  BY PutsAppend, Joins DEF Formed
<1>2. Passed(p, s, j) = [f \in Members |-> IF f = "out" THEN p.out \o Puts(s, j) ELSE p[f]]
  BY DEF Passed, Formed, Members
<1>3. Keeps(p, Passed(p, s, j)) /\ Passed(p, s, j).state = p.state
  BY <1>1, <1>2 DEF Keeps, Formed, Members
<1> QED
  BY <1>2, <1>3

\* The parser after a run kept of an application command.
LEMMA StoredFields ==
  ASSUME NEW p, Formed(p), NEW s, IsSeq(s), NEW j \in 0..Len(s)
  PROVE  /\ Keeps(p, Stored(p, s, j)) /\ Stored(p, s, j).state = p.state
         /\ Len(Stored(p, s, j).apc) = Len(p.apc) + TakenIn(p, j)
<1> DEFINE more == SubSeq(s, 1, TakenIn(p, j))
<1>1. Len(s) \in Nat /\ Len(p.apc) \in Nat /\ Len(p.apc) <= MaxRaw /\ MaxRaw \in Nat
  BY SeqFacts, ParserAssumption DEF Formed
<1>2. Room(p) \in Nat
  BY <1>1 DEF Room
<1>3. TakenIn(p, j) \in 0..Len(s) /\ TakenIn(p, j) <= Room(p)
  BY <1>1, <1>2 DEF TakenIn
<1>4. Min({j, Room(p)}) = TakenIn(p, j)
  BY <1>1, <1>2, Smaller DEF TakenIn
<1>5. IsSeq(more) /\ Len(more) = TakenIn(p, j)
  BY <1>3, Prefix
<1> HIDE DEF more
<1>6. IsSeq(p.apc \o more) /\ Len(p.apc \o more) = Len(p.apc) + TakenIn(p, j)
  BY <1>5, JoinLength DEF Formed
<1>7. Stored(p, s, j) = WithApc(p, p.apc \o more, p.apcOverflow \/ j > Room(p))
  BY DEF Stored, more
<1>8. /\ Stored(p, s, j).apc = p.apc \o more /\ Stored(p, s, j).apcOverflow \in BOOLEAN
      /\ Stored(p, s, j).state = p.state /\ Stored(p, s, j).out = p.out
      /\ Stored(p, s, j).partial = p.partial
  BY <1>7 DEF WithApc, Members
<1>9. Keeps(p, Stored(p, s, j))
  <2>1. Len(p.apc \o more) <= MaxRaw
    BY <1>1, <1>2, <1>3, <1>6 DEF Room
  <2>2. Stored(p, s, j) = [f \in Members |-> Stored(p, s, j)[f]]
    BY <1>7 DEF WithApc
  <2> QED
    BY <1>6, <1>8, <2>1, <2>2 DEF Keeps, Formed
<1> QED
  BY <1>6, <1>8, <1>9

\* A run is taken whole while there is room.
LEMMA TakenFacts ==
  ASSUME NEW p, Room(p) \in Nat, NEW j \in Nat
  PROVE  /\ j >= Room(p) => TakenIn(p, j) = Room(p)
         /\ j <= Room(p) => TakenIn(p, j) = j
BY DEF TakenIn

\* The bulk scan of a command stores the run it scans.
LEMMA ApcBulkIs ==
  ASSUME NEW p, Formed(p), NEW s, IsSeq(s), NEW end \in 0..Len(s), end = Run(s, {"CAN", "ESC", "9C"})
  PROVE  AdvanceApcBulk(p, s) = AfterRun(Stored(p, s, end), s, end)
<1> DEFINE bulk(e) == [p EXCEPT !.apcOverflow = @ \/ e > MaxRaw - Len(p.apc),
                                !.apc = @ \o SubSeq(s, 1, Min({e, MaxRaw - Len(p.apc)}))]
<1>1. AdvanceApcBulk(p, s)
      = AfterRun(bulk(Run(s, {"CAN", "ESC", "9C"})), s, Run(s, {"CAN", "ESC", "9C"}))
  BY DEF AdvanceApcBulk
<1>2. Len(s) \in Nat /\ Room(p) \in Nat
  BY SeqFacts, ParserAssumption DEF Formed, Room
<1>3. Min({end, Room(p)}) = TakenIn(p, end)
  BY <1>2, Smaller DEF TakenIn
<1>4. MaxRaw - Len(p.apc) = Room(p)
  BY DEF Room
<1>5. Stored(p, s, end) = bulk(end)
  BY <1>3, <1>4 DEF Stored, WithApc, Members, Formed
<1> HIDE DEF bulk
<1> QED
  BY <1>1, <1>5

\* A turn of the loop, in any state.
LEMMA OnceTurn ==
  ASSUME NEW p, Sane(p), NEW s, IsSeq(s), s # <<>>
  PROVE  Turn(s, AdvanceOnce(p, s))
<1>1. CASE p.state = "Ground"
  BY <1>1, GroundTurn DEF AdvanceOnce
<1>2. CASE p.state = "DcsPassthrough"
  <2> DEFINE end == Run(s, Stops)
  <2>1. end \in 0..Len(s) /\ end \in Nat
    BY RunFacts, SeqFacts
  <2>2. AdvanceOnce(p, s) = AfterRun(Passed(p, s, end), s, end)
    BY <1>2 DEF AdvanceOnce, AdvanceDcsBulk, Passed, Puts
  <2> HIDE DEF end
  <2>3. Sane(Passed(p, s, end)) /\ Passed(p, s, end).state # "Ground"
    BY <1>2, <2>1, PassedFields, SaneKeeps DEF Sane
  <2> QED
    BY <2>1, <2>2, <2>3, AfterRunTurn
<1>3. CASE p.state = "ApcString"
  <2> DEFINE end == Run(s, {"CAN", "ESC", "9C"})
  <2>1. end \in 0..Len(s)
    BY RunFacts
  <2>2. AdvanceOnce(p, s) = AfterRun(Stored(p, s, end), s, end)
    <3>1. AdvanceOnce(p, s) = AdvanceApcBulk(p, s)
      BY <1>3 DEF AdvanceOnce
    <3> QED
      BY <2>1, <3>1, ApcBulkIs DEF Sane
  <2> HIDE DEF end
  <2>3. Sane(Stored(p, s, end)) /\ Stored(p, s, end).state # "Ground"
    <3>1. Formed(p)
      BY DEF Sane
    <3>2. Keeps(p, Stored(p, s, end)) /\ Stored(p, s, end).state = p.state
      BY <2>1, <3>1, StoredFields
    <3> QED
      BY <1>3, <3>2, SaneKeeps
  <2> QED
    BY <2>1, <2>2, <2>3, AfterRunTurn
<1>4. CASE p.state \notin {"Ground", "DcsPassthrough", "ApcString"}
  <2>1. AdvanceOnce(p, s) = [p |-> ChangeState(p, s[1]), n |-> 1]
    BY <1>4 DEF AdvanceOnce
  <2>2. Sane(ChangeState(p, s[1]))
    BY <1>4, ChangeStateKeeps, SaneKeeps DEF Sane
  <2>3. 1 \in 1..Len(s)
    BY SeqFacts, HeadIsFirst
  <2> QED
    BY <2>1, <2>2, <2>3 DEF Turn
<1> QED
  BY <1>1, <1>2, <1>3, <1>4

-----------------------------------------------------------------------------
(* The character a chunk ended inside *)

\* A text that goes on from one cut short counts as far at least.
LEMMA GoesOn ==
  ASSUME NEW u, IsSeq(u), u # <<>>, CutShort(u), NEW t, IsSeq(t), Len(t) >= Len(u),
         \A i \in 1..Len(u) : t[i] = u[i]
  PROVE  /\ Len(u) \in 1..2 /\ Size(t[1]) > 0 /\ Counts(t, Matched(t))
         /\ Matched(t) \in Len(u)..Len(t) /\ Matched(t) \in 1..3
<1>1. Len(u) \in Nat /\ Len(u) >= 1 /\ Len(t) \in Nat /\ t # <<>> /\ Size(u[1]) \in 0..3
  BY SeqFacts, HeadIsFirst, Sizes
<1>2. Size(u[1]) > 0 /\ Counts(u, Matched(u))
  <2>1. Size(u[1]) # 0
    BY Verdict
  <2> QED
    BY <1>1, <2>1, MatchedCounts
<1>3. Matched(u) < Size(u[1]) /\ Matched(u) = Len(u)
  BY <1>2, Verdict
<1>4. t[1] = u[1]
  BY <1>1
<1> DEFINE m == Matched(t)
<1>5. Counts(t, m)
  BY <1>1, <1>2, <1>4, MatchedCounts
<1> HIDE DEF m
<1>6. m \in 1..Size(t[1]) /\ m <= Len(t) /\ Len(u) < Size(t[1])
  BY <1>3, <1>4, <1>5 DEF Counts
<1>7. m >= Len(u)
  <2> SUFFICES ASSUME m < Len(u) PROVE FALSE
    BY <1>1, <1>4, <1>6
  <2>1. m + 1 \in 2..Len(u)
    BY <1>1, <1>4, <1>6
  <2>2. t[m + 1] \in Continuation
    <3>1. u[m + 1] \in Continuation
      BY <1>2, <1>3, <2>1 DEF Counts
    <3> QED
      BY <1>1, <2>1, <3>1
  <2>3. m # Size(t[1]) /\ m # Len(t)
    BY <1>1, <1>4, <1>6
  <2> QED
    BY <1>5, <2>2, <2>3 DEF Counts
<1> QED
  BY <1>1, <1>2, <1>3, <1>4, <1>5, <1>6, <1>7 DEF m

\* What a join starts with.
LEMMA JoinedText ==
  ASSUME NEW u, IsSeq(u), NEW a, IsSeq(a)
  PROVE  /\ IsSeq(u \o a) /\ Len(u \o a) = Len(u) + Len(a)
         /\ \A i \in 1..Len(u) : (u \o a)[i] = u[i]
<1>1. PICK S : u \in Seq(S)
  BY DEF IsSeq
<1>2. PICK T : a \in Seq(T)
  BY DEF IsSeq
<1>3. u \in Seq(S \cup T) /\ a \in Seq(S \cup T)
  BY <1>1, <1>2
<1>4. u \o a \in Seq(S \cup T) /\ Len(u \o a) = Len(u) + Len(a)
  BY <1>3
<1>5. \A i \in 1..Len(u) : (u \o a)[i] = u[i]
  BY <1>3
<1> QED
  BY <1>4, <1>5 DEF IsSeq

\* The first character of a text, and where decoding it stops.
LEMMA DecodeFirst ==
  ASSUME NEW t, IsSeq(t), t # <<>>
  PROVE  \E v \in 0..Len(t) :
           /\ Decode(t).rest = From(t, v) /\ Len(Decode(t).rest) = Len(t) - v
           /\ ~Whole(t) => v = 0
           /\ Whole(t) => v >= Matched(t) /\ Decode(t).chars[1] = SubSeq(t, 1, Matched(t))
<1>1. PICK at : Decoding(t, 1, at) /\ Decode(t) = at[1]
  BY DecodeStep
<1>2. Len(t) \in Nat /\ Len(t) >= 1
  BY SeqFacts, HeadIsFirst
<1>3. \A i \in 1..(Len(t) + 1) : at[i] = Part(t, i, at) /\ Tails(t, i, at[i])
  BY <1>1, DecodeTails
<1>4. From(t, 0) = t
  <2>1. SubSeq(t, 1, Len(t)) = t
    BY <1>2, Prefix
  <2> QED
    BY <2>1 DEF From
<1> DEFINE n == Matched(t)
<1>5. at[1] = IF Whole(t) THEN [chars |-> <<SubSeq(t, 1, n)>> \o at[1 + n].chars, rest |-> at[1 + n].rest]
              ELSE [chars |-> <<>>, rest |-> t]
  <2>1. at[1] = Part(t, 1, at) /\ 1 - 1 = 0
    BY <1>2, <1>3
  <2> QED
    BY <1>4, <2>1 DEF Part
<1>6. CASE ~Whole(t)
  <2>1. Decode(t).rest = From(t, 0) /\ Len(From(t, 0)) = Len(t) - 0 /\ 0 \in 0..Len(t)
    BY <1>1, <1>2, <1>4, <1>5, <1>6
  <2> QED
    BY <1>6, <2>1
<1>7. CASE Whole(t)
  <2>1. n \in 1..3 /\ n <= Len(t)
    BY <1>7, WholeCount
  <2> HIDE DEF n
  <2>2. 1 + n \in 1..(Len(t) + 1) /\ (1 + n) - 1 = n
    BY <1>2, <2>1
  <2>3. IsSeq(at[1 + n].chars) /\ \E v \in n..Len(t) : at[1 + n].rest = From(t, v)
    BY <1>3, <2>2 DEF Tails
  <2>4. PICK v \in n..Len(t) : at[1 + n].rest = From(t, v)
    BY <2>3
  <2>5. v \in 0..Len(t) /\ v >= n
    BY <1>2, <2>1
  <2>6. Len(From(t, v)) = Len(t) - v
    BY <2>5, FromFacts
  <2>7. at[1].chars = <<SubSeq(t, 1, n)>> \o at[1 + n].chars /\ at[1].rest = From(t, v)
    BY <1>5, <1>7, <2>4
  <2>8. at[1].chars[1] = SubSeq(t, 1, n)
    <3> DEFINE c == SubSeq(t, 1, n)
               rest == at[1 + n].chars
    <3> HIDE DEF c, rest
    <3>0. IsSeq(rest)
      BY <2>3 DEF rest
    <3>1. IsSeq(<<c>>) /\ Len(<<c>>) = 1 /\ <<c>>[1] = c
      BY OneChar
    <3>2. (<<c>> \o rest)[1] = <<c>>[1]
      BY <3>0, <3>1, JoinedText
    <3> QED
      BY <2>7, <3>1, <3>2 DEF c, rest
  <2> QED
    BY <1>1, <1>7, <2>5, <2>6, <2>7, <2>8 DEF n
<1> QED
  BY <1>6, <1>7

\* advance_partial_utf8 leaves a parser and takes no more than there is.
LEMMA PartialTurn ==
  ASSUME NEW p, Sane(p), p.partial # <<>>, NEW s, IsSeq(s)
  PROVE  AdvancePartial(p, s).n \in 0..Len(s) /\ Sane(AdvancePartial(p, s).p)
<1> DEFINE old == Len(p.partial)
           taken == SubSeq(s, 1, Min({Len(s), 4 - old}))
           text == p.partial \o taken
           d == Decode(text)
           m == Matched(text)
           r == AdvancePartial(p, s)
           drawn(c) == Draw(Amid(p, <<>>), c)
<1>1. IsSeq(p.partial) /\ CutShort(p.partial) /\ Formed(p) /\ Len(s) \in Nat
  BY SeqFacts DEF Sane, Begun
<1>2. old \in 1..2
  BY <1>1, GoesOn
<1>3. IsSeq(taken) /\ Len(taken) \in 0..Len(s)
  <2> DEFINE k == Min({Len(s), 4 - old})
  <2>1. k \in 0..Len(s)
    <3>1. 4 - old \in Nat
      <4> HIDE DEF old
      <4> QED
        BY <1>2
    <3>2. k = IF Len(s) <= 4 - old THEN Len(s) ELSE 4 - old
      BY <1>1, <3>1, Smaller
    <3> DEFINE l == Len(s)
               room == 4 - old
    <3>3. l \in Nat /\ room \in Nat /\ k = IF l <= room THEN l ELSE room
      BY <1>1, <3>1, <3>2
    <3> HIDE DEF k, l, room
    <3>4. k \in 0..l
      BY ONLY <3>3
    <3> QED
      BY <3>4 DEF l
  <2> QED
    BY <2>1, Prefix
<1>4. /\ IsSeq(text) /\ Len(text) = old + Len(taken) /\ \A i \in 1..old : text[i] = p.partial[i]
  <2> HIDE DEF taken
  <2> QED
    BY <1>1, <1>3, JoinedText
<1>5. Len(text) >= old /\ text # <<>>
  <2> HIDE DEF taken, old, text
  <2> QED
    BY <1>2, <1>3, <1>4, SeqFacts
<1>6. /\ Counts(text, m) /\ m \in old..Len(text) /\ m \in 1..3
  <2> HIDE DEF text
  <2> QED
    BY <1>1, <1>4, <1>5, GoesOn
<1>7. PICK v \in 0..Len(text) :
           /\ d.rest = From(text, v) /\ Len(d.rest) = Len(text) - v
           /\ ~Whole(text) => v = 0
           /\ Whole(text) => v >= m /\ d.chars[1] = SubSeq(text, 1, m)
  BY <1>4, <1>5, DecodeFirst
<1>8. /\ d.rest = <<>> <=> v = Len(text)
      /\ Len(text) - Len(d.rest) = v
      /\ Whole(text) => Len(d.chars[1]) = m
      /\ ErrorLen(text) = m
  <2> HIDE DEF text, m, old
  <2>1. m \in 0..Len(text) /\ Len(text) \in Nat
    <3>1. Len(text) \in Nat
      BY <1>4, SeqFacts
    <3>2. m \in 1..3 /\ m <= Len(text)
      BY <1>2, <1>6, <3>1
    <3> QED
      BY <3>1, <3>2
  <2>2. d.rest = <<>> <=> v = Len(text)
    BY <1>4, <1>7, FromFacts
  <2>3. Whole(text) => Len(d.chars[1]) = m
    BY <1>4, <1>7, <2>1, Prefix
  <2>4. ErrorLen(text) = m
    BY <1>4, <1>5, <1>6, Verdict
  <2> QED
    BY <1>7, <2>1, <2>2, <2>3, <2>4
<1>9. r = CASE d.rest = <<>> -> [p |-> drawn(d.chars[1]), n |-> Len(d.chars[1]) - old]
            [] d.rest # <<>> /\ v > 0 -> [p |-> drawn(d.chars[1]), n |-> v - old]
            [] v = 0 /\ ~CutShort(text) -> [p |-> drawn(Replacement), n |-> ErrorLen(text) - old]
            [] v = 0 /\ CutShort(text) -> [p |-> Amid(p, text), n |-> Len(taken)]
  BY <1>8 DEF AdvancePartial, Amid
<1>10. ASSUME NEW c PROVE Sane(drawn(c))
  <2>1. Formed(Amid(p, <<>>)) /\ Amid(p, <<>>).partial = <<>>
    BY <1>1, AmidFields
  <2>2. Formed(drawn(c)) /\ drawn(c).partial = <<>>
    BY <2>1, DrawAmid
  <2> QED
    BY <2>2 DEF Sane, Begun
<1> HIDE DEF drawn, d, m, text, taken, r, old
<1>11. Len(text) \in Nat /\ m - old \in 0..Len(taken) /\ Len(taken) \in 0..Len(s)
  BY <1>1, <1>2, <1>3, <1>4, <1>6
<1>12. Whole(text) => v - old \in 0..Len(taken)
  BY <1>2, <1>3, <1>4, <1>6, <1>7, <1>11
<1>13. v > 0 => Whole(text)
  BY <1>7
<1>14. CASE v = Len(text)
  <2>1. v > 0 /\ d.rest = <<>>
    BY <1>2, <1>5, <1>8, <1>14, <1>11
  <2>2. r = [p |-> drawn(d.chars[1]), n |-> Len(d.chars[1]) - old]
    BY <1>9, <2>1
  <2>3. r.n = m - old /\ r.p = drawn(d.chars[1])
    BY <1>8, <1>13, <2>1, <2>2
  <2> QED
    BY <1>10, <1>11, <2>3 DEF r
<1>15. CASE v # Len(text) /\ v > 0
  <2>1. d.rest # <<>>
    BY <1>8, <1>15
  <2>2. r = [p |-> drawn(d.chars[1]), n |-> v - old]
    BY <1>9, <1>15, <2>1
  <2>3. r.n = v - old /\ r.p = drawn(d.chars[1])
    BY <2>2
  <2> QED
    BY <1>10, <1>11, <1>12, <1>13, <1>15, <2>3 DEF r
<1>16. CASE v # Len(text) /\ v = 0
  <2>1. d.rest # <<>> /\ ~(v > 0)
    BY <1>8, <1>16
  <2>2. CASE ~CutShort(text)
    <3>1. r = [p |-> drawn(Replacement), n |-> ErrorLen(text) - old]
      BY <1>9, <1>16, <2>1, <2>2
    <3>2. r.n = m - old /\ r.p = drawn(Replacement)
      BY <1>8, <3>1
    <3> QED
      BY <1>10, <1>11, <3>2 DEF r
  <2>3. CASE CutShort(text)
    <3>1. r = [p |-> Amid(p, text), n |-> Len(taken)]
      BY <1>9, <1>16, <2>1, <2>3
    <3>2. r.n = Len(taken) /\ r.p = Amid(p, text)
      BY <3>1
    <3>3. Sane(Amid(p, text))
      BY <1>1, <1>4, <2>3, AmidFields DEF Sane, Begun
    <3> QED
      BY <1>11, <3>2, <3>3 DEF r
  <2> QED
    BY <2>2, <2>3
<1>17. v = Len(text) \/ (v # Len(text) /\ v > 0) \/ (v # Len(text) /\ v = 0)
  BY <1>11
<1> QED
  BY <1>14, <1>15, <1>16, <1>17

-----------------------------------------------------------------------------
(* In bulk, and byte by byte *)

\* g is the parser after each byte of s, from p.
Trace(p, s, g) == g[0] = p /\ \A i \in 1..Len(s) : g[i] = Byte(g[i - 1], s[i])

\* A turn that took n bytes ends as those bytes end, or no next byte can tell the two apart.
Meets(s, g, r) ==
  /\ r.n = Len(s) => r.p = g[r.n]
  /\ r.n < Len(s) => r.p.partial = <<>> /\ Byte(r.p, s[r.n + 1]) = Byte(g[r.n], s[r.n + 1])

\* A turn that ends as its bytes do.
LEMMA MeetsAt ==
  ASSUME NEW s, NEW g, NEW n, NEW q, g[n] = q, n < Len(s) => q.partial = <<>>
  PROVE  Meets(s, g, [p |-> q, n |-> n])
<1>1. [p |-> q, n |-> n].p = q /\ [p |-> q, n |-> n].n = n
  OBVIOUS
<1> QED
  BY <1>1 DEF Meets

\* A turn in the ground state meets its bytes.
LEMMA GroundMeets ==
  ASSUME NEW p, AtRest(p), NEW s, IsSeq(s), s # <<>>, NEW g, Trace(p, s, g)
  PROVE  Meets(s, g, AdvanceGround(p, s))
<1> DEFINE t == SubSeq(s, 1, Run(s, {"ESC"}))
           r == AdvanceGround(p, s)
<1>1. /\ IsSeq(t) /\ Len(t) = Run(s, {"ESC"}) /\ Len(t) \in 0..Len(s) /\ Len(s) \in Nat
      /\ Len(s) >= 1
      /\ \A i \in 1..Len(t) : t[i] = s[i] /\ t[i] # "ESC"
      /\ Len(t) < Len(s) => s[Len(t) + 1] = "ESC"
  <2>1. t = SubSeq(s, 1, Run(s, {"ESC"}))
    OBVIOUS
  <2>2. Len(s) >= 1
    BY HeadIsFirst
  <2> HIDE DEF t
  <2> QED
    BY <2>1, <2>2, GroundText
<1>2. PICK at, v :
        /\ Decoding(t, 1, at) /\ Decode(t) = at[1] /\ v \in 0..Len(t)
        /\ at[1].rest = From(t, v) /\ ~Whole(From(t, v)) /\ IsSeq(at[1].chars)
  BY <1>1, GroundDecoded
<1> DEFINE told == GroundDispatch(p, Decode(t).chars)
           rest == From(t, v)
<1>3. GroundOutcome(s, t, v, told, r)
  <2>1. Len(t) <= Len(s)
    <3> HIDE DEF t
    <3> QED
      BY <1>1
  <2> QED
    BY <1>1, <1>2, <2>1, GroundOutcomes
<1>4. AtRest(told) /\ Formed(told)
  BY <1>2, Dispatched DEF AtRest
<1>5. Walk(t, g)
  <2> HIDE DEF t
  <2>1. \A i \in 1..Len(t) : i \in 1..Len(s)
    BY <1>1
  <2> QED
    BY <1>1, <2>1 DEF Walk, Trace
<1>6. g[v] = told
  <2> HIDE DEF t
  <2>1. g[0] = p /\ 0 \in 0..Len(t) /\ 0 + 1 = 1
    BY <1>1 DEF Trace
  <2>2. AtRest(g[0])
    BY <2>1
  <2>3. \A w \in 0..Len(t) : at[0 + 1].rest = From(t, w) => g[w] = GroundDispatch(g[0], at[0 + 1].chars)
    BY <1>1, <1>2, <1>5, <2>1, <2>2, DecodeWalk
  <2> QED
    BY <1>2, <2>1, <2>3
<1> HIDE DEF t, r, told
<1>7. IsSeq(rest) /\ Len(rest) = Len(t) - v /\ \A i \in 1..(Len(t) - v) : rest[i] = t[v + i]
  BY <1>1, <1>2, FromFacts
<1>8. /\ told.partial = <<>> /\ told.state = "Ground" /\ Escape(told).partial = <<>>
      /\ Draw(told, Replacement).partial = <<>> /\ Escape(Draw(told, Replacement)).partial = <<>>
      /\ Execute(told, <<t[v + 1]>>).partial = <<>>
  BY <1>4, EscapeDraw DEF AtRest, Keeps
<1>9. ASSUME EndsWhole(s, t, v, told, r) PROVE Meets(s, g, r)
  <2>1. v = Len(t) /\ r = IF Len(t) < Len(s) THEN [p |-> Escape(told), n |-> Len(t) + 1]
                          ELSE [p |-> told, n |-> Len(t)]
    BY <1>9 DEF EndsWhole
  <2>2. CASE Len(t) < Len(s)
    <3>1. Len(t) + 1 \in 1..Len(s) /\ (Len(t) + 1) - 1 = Len(t)
      BY <1>1, <2>2
    <3>2. g[Len(t) + 1] = Byte(told, "ESC")
      BY <1>1, <1>6, <2>1, <2>2, <3>1 DEF Trace
    <3>3. Byte(told, "ESC") = Escape(told)
      <4>1. Amid(told, <<>>) = told
        BY <1>4, <1>8, AmidFields
      <4> QED
        BY <1>4, <1>8, <4>1, EscapeByte
    <3> QED
      BY <1>8, <2>1, <2>2, <3>2, <3>3, MeetsAt
  <2>3. CASE ~(Len(t) < Len(s))
    BY <1>6, <1>8, <2>1, <2>3, MeetsAt
  <2> QED
    BY <2>2, <2>3
<1>10. ASSUME StopsAtLone(t, v, told, r) PROVE Meets(s, g, r)
  <2> DEFINE b == t[v + 1]
             q == IF b \in Low THEN Execute(told, <<b>>) ELSE Draw(told, Replacement)
  <2>1. v < Len(t) /\ Size(b) = 0 /\ r = [p |-> q, n |-> v + 1]
    BY <1>10 DEF StopsAtLone
  <2>2. v + 1 \in 1..Len(t) /\ v + 1 \in 1..Len(s) /\ (v + 1) - 1 = v
    BY <1>1, <1>2, <2>1
  <2>3. g[v + 1] = Byte(told, b) /\ b # "ESC"
    BY <1>1, <1>6, <2>2 DEF Trace
  <2>4. Byte(told, b) = q
    BY <1>4, <1>8, <2>1, <2>3, LoneByte
  <2>5. q.partial = <<>>
    BY <1>8
  <2> HIDE DEF q, b
  <2> QED
    BY <2>1, <2>3, <2>4, <2>5, MeetsAt
<1>11. ASSUME StopsAtBroken(t, v, told, r) PROVE Meets(s, g, r)
  <2>1. PICK m : /\ Counts(rest, m) /\ m < Size(rest[1]) /\ v + m < Len(t)
                 /\ r = [p |-> Draw(told, Replacement), n |-> v + m]
    BY <1>11 DEF StopsAtBroken
  <2>2. m \in 1..Size(rest[1]) /\ Size(rest[1]) \in 0..3 /\ m <= Len(rest)
    BY <2>1, Sizes DEF Counts
  <2> DEFINE u == SubSeq(rest, 1, m)
             b == s[(v + m) + 1]
  <2>3. m \in 0..Len(rest) /\ m \in 1..3 /\ m < Len(rest)
    BY <1>1, <1>2, <1>7, <2>1, <2>2
  <2>4. IsSeq(u) /\ Len(u) = m /\ \A i \in 1..m : u[i] = rest[i]
    BY <1>7, <2>3, Prefix
  <2>5. g[v + m] = Amid(told, u)
    <3>1. \A j \in 1..m : g[v + j] = IF j < Size(rest[1]) THEN Amid(g[v], SubSeq(rest, 1, j))
                                     ELSE GroundDispatch(g[v], <<SubSeq(rest, 1, j)>>)
      <4>1. AtRest(g[v])
        BY <1>4, <1>6
      <4>2. IsSeq(t) /\ Walk(t, g) /\ v \in 0..Len(t) /\ Counts(From(t, v), m)
        BY <1>1, <1>2, <1>5, <2>1
      <4> QED
        BY <4>1, <4>2, CharWalk
    <3>2. m \in 1..m
      BY <2>3
    <3> HIDE DEF rest
    <3> QED
      BY <1>6, <2>1, <3>1, <3>2
  <2>6. (v + m) + 1 \in 1..Len(t) /\ m + 1 \in 1..(Len(t) - v) /\ v + (m + 1) = (v + m) + 1
    BY <1>1, <1>2, <2>1, <2>3
  <2>7. b = t[(v + m) + 1] /\ b # "ESC" /\ b = rest[m + 1]
    BY <1>1, <1>7, <2>6
  <2>8. b \notin Continuation
    <3> HIDE DEF rest, b
    <3>1. m # Size(rest[1]) /\ m # Len(rest)
      BY <1>7, <2>1, <2>2, <2>3
    <3>2. rest[m + 1] \notin Continuation
      BY <2>1, <3>1 DEF Counts
    <3> QED
      BY <2>7, <3>2
  <2>9. Counts(u, m)
    <3>1. m \in 1..m
      BY <2>3
    <3> HIDE DEF rest, u
    <3> QED
      BY <1>7, <2>1, <2>4, <3>1, PrefixCounts
  <2>10. u # <<>> /\ m < Size(u[1]) /\ Counts(u, Len(u)) /\ Len(u) < Size(u[1])
    <3>1. u[1] = rest[1] /\ Len(u) # 0
      BY <2>3, <2>4
    <3> HIDE DEF u, rest
    <3> QED
      BY <2>1, <2>4, <2>9, <3>1, SeqFacts
  <2> HIDE DEF u, b, rest
  <2>11. Byte(Amid(told, u), b) = Byte(Draw(told, Replacement), b)
    BY <1>4, <1>8, <2>4, <2>7, <2>8, <2>10, BreakingByte
  <2>12. r.p = Draw(told, Replacement) /\ r.n = v + m /\ v + m < Len(s)
    BY <1>1, <1>2, <2>1, <2>3
  <2>13. Byte(r.p, s[r.n + 1]) = Byte(g[r.n], s[r.n + 1])
    BY <2>5, <2>11, <2>12 DEF b
  <2>14. r.n # Len(s) /\ r.p.partial = <<>>
    BY <1>1, <1>2, <1>8, <2>3, <2>12
  <2> QED
    BY <2>13, <2>14 DEF Meets
<1>12. ASSUME EndsCut(s, t, v, told, r) PROVE Meets(s, g, r)
  <2> DEFINE m == Len(rest)
  <2>1. /\ v < Len(t) /\ Counts(rest, m) /\ m < Size(rest[1])
        /\ r = IF Len(t) < Len(s) THEN [p |-> Escape(Draw(told, Replacement)), n |-> Len(t) + 1]
               ELSE [p |-> Amid(told, rest), n |-> Len(s)]
    BY <1>12 DEF EndsCut
  <2>2. m \in 1..Len(rest) /\ m \in 0..Len(rest) /\ v + m = Len(t) /\ m \in 1..m
    <3>1. Len(t) \in Nat /\ v \in 0..Len(t) /\ Len(rest) = Len(t) - v /\ v < Len(t)
      BY <1>1, <1>2, <1>7, <2>1
    <3> HIDE DEF rest
    <3> QED
      BY <3>1
  <2>3. SubSeq(rest, 1, m) = rest /\ rest # <<>>
    BY <1>7, <2>2, Prefix, SeqFacts
  <2>4. g[Len(t)] = Amid(told, rest)
    <3>1. \A j \in 1..m : g[v + j] = IF j < Size(rest[1]) THEN Amid(g[v], SubSeq(rest, 1, j))
                                     ELSE GroundDispatch(g[v], <<SubSeq(rest, 1, j)>>)
      <4>1. AtRest(g[v])
        BY <1>4, <1>6
      <4>2. IsSeq(t) /\ Walk(t, g) /\ v \in 0..Len(t) /\ Counts(From(t, v), m)
        BY <1>1, <1>2, <1>5, <2>1
      <4> HIDE DEF m
      <4> QED
        BY <4>1, <4>2, CharWalk
    <3> HIDE DEF rest, m
    <3>2. g[v + m] = Amid(g[v], SubSeq(rest, 1, m))
      BY <2>1, <2>2, <3>1
    <3> QED
      BY <1>6, <2>2, <2>3, <3>2
  <2>5. CASE Len(t) < Len(s)
    <3>1. Len(t) + 1 \in 1..Len(s) /\ (Len(t) + 1) - 1 = Len(t)
      BY <1>1, <2>5
    <3>2. g[Len(t) + 1] = Byte(Amid(told, rest), "ESC")
      BY <1>1, <2>4, <2>5, <3>1 DEF Trace
    <3>3. Byte(Amid(told, rest), "ESC") = Escape(Draw(told, Replacement))
      BY <1>4, <1>8, <2>3, EscapeByte
    <3> QED
      BY <1>8, <2>1, <2>5, <3>2, <3>3, MeetsAt
  <2>6. CASE ~(Len(t) < Len(s))
    <3>1. Len(t) = Len(s) /\ ~(Len(s) < Len(s))
      BY <1>1, <2>6
    <3> HIDE DEF rest
    <3> QED
      BY <2>1, <2>4, <2>6, <3>1, MeetsAt
  <2> QED
    BY <2>5, <2>6
<1> QED
  BY <1>3, <1>9, <1>10, <1>11, <1>12 DEF GroundOutcome, r

\* A run of bytes whose parsers are known, and the byte that stops it.
LEMMA AfterRunMeets ==
  ASSUME NEW p, NEW q, Formed(q), q.state # "Ground", q.partial = <<>>, NEW s, IsSeq(s),
         NEW g, Trace(p, s, g), NEW end \in 0..Len(s), g[end] = q
  PROVE  Meets(s, g, AfterRun(q, s, end))
<1>1. Len(s) \in Nat
  BY SeqFacts
<1>2. CASE end = Len(s)
  <2>1. AfterRun(q, s, end) = [p |-> q, n |-> end]
    BY <1>2 DEF AfterRun
  <2> QED
    BY <2>1, MeetsAt
<1>3. CASE end # Len(s)
  <2> DEFINE r == ChangeState(q, s[end + 1])
  <2>1. AfterRun(q, s, end) = [p |-> r, n |-> end + 1]
    BY <1>3 DEF AfterRun
  <2>2. end + 1 \in 1..Len(s) /\ (end + 1) - 1 = end
    BY <1>1, <1>3
  <2>3. g[end + 1] = r
    BY <2>2 DEF Trace, Byte
  <2>4. r.partial = <<>>
    BY ChangeStateKeeps DEF Keeps
  <2> HIDE DEF r
  <2> QED
    BY <2>1, <2>3, <2>4, MeetsAt
<1> QED
  BY <1>2, <1>3

\* What holds at first, and of a byte if of those before it, holds all the way.
LEMMA AllTheWay ==
  ASSUME NEW end \in Nat, NEW S, 0 \in S, \A n \in 0..(end - 1) : n \in S => n + 1 \in S
  PROVE  end \in S
<1> DEFINE T == {n \in Nat : n <= end => n \in S}
<1>1. 0 \in T
  OBVIOUS
<1>2. ASSUME NEW n \in T PROVE n + 1 \in T
  <2> SUFFICES ASSUME n + 1 <= end PROVE n + 1 \in S
    OBVIOUS
  <2>1. n \in 0..(end - 1) /\ n \in S
    OBVIOUS
  <2> QED
    BY <2>1
<1>3. T \in SUBSET Nat
  OBVIOUS
<1>4. T = Nat
  <2> HIDE DEF T
  <2> QED
    BY <1>1, <1>2, <1>3, SetInduction
<1> QED
  BY <1>4

\* So does one that passes a device control string through.
LEMMA DcsMeets ==
  ASSUME NEW p, Formed(p), p.state = "DcsPassthrough", p.partial = <<>>, NEW s, IsSeq(s), s # <<>>,
         NEW g, Trace(p, s, g)
  PROVE  Meets(s, g, AdvanceDcsBulk(p, s))
<1> DEFINE end == Run(s, Stops)
           Right == {j \in 0..end : g[j] = Passed(p, s, j)}
<1>1. end \in Nat /\ end \in 0..Len(s) /\ Len(s) \in Nat /\ \A i \in 1..end : s[i] \notin Stops
  BY RunFacts, SeqFacts
<1> HIDE DEF end
<1>2. g[0] = Passed(p, s, 0)
  <2>1. p.out \o Puts(s, 0) = p.out
    BY PutsAppend, Joins DEF Formed
  <2>2. Passed(p, s, 0) = [f \in Members |-> IF f = "out" THEN p.out \o Puts(s, 0) ELSE p[f]]
    BY PassedFields
  <2>3. p = [f \in Members |-> p[f]]
    BY DEF Formed
  <2>4. Passed(p, s, 0) = p
    BY <2>1, <2>2, <2>3
  <2> QED
    BY <2>4 DEF Trace
<1>3. ASSUME NEW j \in 0..(end - 1), g[j] = Passed(p, s, j) PROVE g[j + 1] = Passed(p, s, j + 1)
  <2> DEFINE q == Passed(p, s, j)
             b == s[j + 1]
  <2>1. j \in Nat /\ j + 1 \in Nat /\ j + 1 \in 1..end /\ j + 1 \in 1..Len(s) /\ (j + 1) - 1 = j
    BY <1>1
  <2>2. q.state = "DcsPassthrough" /\ Formed(q)
    BY <2>1, PassedFields DEF Keeps
  <2>3. q = [f \in Members |-> IF f = "out" THEN p.out \o Puts(s, j) ELSE p[f]]
    BY <2>1, PassedFields
  <2> DEFINE k == j + 1
  <2>4. Passed(p, s, k) = [f \in Members |-> IF f = "out" THEN p.out \o Puts(s, k) ELSE p[f]]
    <3>1. k \in Nat
      BY <2>1
    <3> HIDE DEF k
    <3> QED
      BY <3>1, PassedFields
  <2>5. b \notin Stops
    BY <1>1, <2>1
  <2>6. g[j + 1] = Byte(q, b)
    BY <1>3, <2>1 DEF Trace
  <2>7. Append(p.out \o Puts(s, j), <<"put", b>>) = p.out \o Puts(s, j + 1)
    <3>1. Appends(p.out, Puts(s, j), <<"put", b>>)
      BY <2>1, PutsAppend, JoinAppend DEF Formed
    <3>2. Append(Puts(s, j), <<"put", b>>) = Puts(s, j + 1)
      BY <2>1, PutsAppend
    <3> QED
      BY <3>1, <3>2 DEF Appends
  <2> HIDE DEF q, b
  <2>8. Byte(q, b) = AdvanceDcsPassthrough(q, b)
    BY <2>2 DEF Byte, ChangeState
  <2>9. AdvanceDcsPassthrough(q, b) = Emit(q, <<"put", b>>)
    BY <2>5 DEF AdvanceDcsPassthrough, Stops, Continuation, Low
  <2>10. Emit(q, <<"put", b>>) = Passed(p, s, j + 1)
    <3>1. q.out = p.out \o Puts(s, j)
      BY <2>3 DEF Members
    <3>2. Emit(q, <<"put", b>>) = [q EXCEPT !.out = p.out \o Puts(s, j + 1)]
      BY <2>7, <3>1 DEF Emit
    <3> QED
      BY <2>3, <2>4, <3>2 DEF Members
  <2> QED
    BY <2>6, <2>8, <2>9, <2>10
<1>4. end \in Right
  <2>0. end \in Nat
    BY <1>1
  <2>1. 0 \in Right
    BY <1>2, <2>0
  <2>2. \A n \in 0..(end - 1) : n \in Right => n + 1 \in Right
    <3> HIDE DEF Right
    <3>1. \A n \in 0..(end - 1) : n \in 0..end /\ n + 1 \in 0..end
      BY <2>0
    <3> QED
      BY <1>3, <3>1 DEF Right
  <2> HIDE DEF Right
  <2> QED
    BY <2>1, <2>2, <2>0, AllTheWay
<1>5. g[end] = Passed(p, s, end)
  BY <1>4
<1>6. Formed(Passed(p, s, end)) /\ Passed(p, s, end).state # "Ground" /\ Passed(p, s, end).partial = <<>>
  BY <1>1, PassedFields DEF Keeps
<1>7. AdvanceDcsBulk(p, s) = AfterRun(Passed(p, s, end), s, end)
  BY DEF AdvanceDcsBulk, Passed, Puts, end
<1> QED
  BY <1>1, <1>5, <1>6, <1>7, AfterRunMeets

\* Past the room, a byte more is past it too; before it, a byte more fits.
LEMMA OneMore ==
  ASSUME NEW j \in Nat, NEW m \in Nat
  PROVE  /\ j >= m => j + 1 >= m /\ j + 1 > m
         /\ ~(j >= m) => j + 1 <= m /\ j <= m /\ ~(j + 1 > m) /\ ~(j > m)
OBVIOUS

\* So does one that stores an application command.
LEMMA ApcMeets ==
  ASSUME NEW p, Formed(p), p.state = "ApcString", p.partial = <<>>, NEW s, IsSeq(s), s # <<>>,
         NEW g, Trace(p, s, g)
  PROVE  Meets(s, g, AdvanceApcBulk(p, s))
<1> DEFINE end == Run(s, {"CAN", "ESC", "9C"})
           Right == {j \in 0..end : g[j] = Stored(p, s, j)}
           room == Room(p)
<1>1. /\ end \in Nat /\ end \in 0..Len(s) /\ Len(s) \in Nat
      /\ \A i \in 1..end : s[i] \notin {"CAN", "ESC", "9C"}
  BY RunFacts, SeqFacts
<1>2. /\ room \in Nat /\ Len(p.apc) \in Nat /\ MaxRaw \in Nat /\ room = MaxRaw - Len(p.apc)
      /\ IsSeq(p.apc) /\ p.apcOverflow \in BOOLEAN
  BY SeqFacts, ParserAssumption DEF Formed, Room
<1> HIDE DEF end, room
<1>3. g[0] = Stored(p, s, 0)
  <2>1. TakenIn(p, 0) = 0 /\ 0 \in 0..Len(s) /\ ~(0 > room)
    BY <1>1, <1>2 DEF TakenIn, room
  <2>2. SubSeq(s, 1, 0) = <<>>
    BY <2>1, Prefix
  <2>3. p.apc \o <<>> = p.apc
    BY <1>2, Joins
  <2>4. (p.apcOverflow \/ 0 > room) = p.apcOverflow
    BY <1>2, <2>1
  <2>5. Stored(p, s, 0) = WithApc(p, p.apc, p.apcOverflow)
    BY <2>1, <2>2, <2>3, <2>4 DEF Stored, room
  <2>6. WithApc(p, p.apc, p.apcOverflow) = p
    BY DEF WithApc, Formed, Members
  <2> QED
    BY <2>5, <2>6 DEF Trace
<1>4. ASSUME NEW j \in 0..(end - 1), g[j] = Stored(p, s, j) PROVE g[j + 1] = Stored(p, s, j + 1)
  <2> DEFINE q == Stored(p, s, j)
             b == s[j + 1]
             apc == p.apc \o SubSeq(s, 1, TakenIn(p, j))
             over == p.apcOverflow \/ j > room
  <2>1. /\ j \in Nat /\ j + 1 \in 0..Len(s) /\ j \in 0..Len(s) /\ j + 1 \in 1..end
        /\ j + 1 \in 1..Len(s) /\ (j + 1) - 1 = j
    BY <1>1
  <2>2. Formed(q) /\ q.state = "ApcString" /\ Len(q.apc) = Len(p.apc) + TakenIn(p, j)
    <3>1. /\ Keeps(p, Stored(p, s, j)) /\ Stored(p, s, j).state = p.state
          /\ Len(Stored(p, s, j).apc) = Len(p.apc) + TakenIn(p, j)
      BY <2>1, StoredFields
    <3> QED
      BY <3>1 DEF Keeps
  <2>3. q = WithApc(p, apc, over)
    BY DEF Stored, room
  <2>4. b \notin {"CAN", "ESC", "9C"}
    BY <1>1, <2>1
  <2>5. g[j + 1] = Byte(q, b)
    BY <1>4, <2>1 DEF Trace
  <2> HIDE DEF q, b
  <2>6. Byte(q, b) = ApcPut(q, b)
    BY <2>2, <2>4 DEF Byte, ChangeState, AdvanceApcString
  <2>7. CASE j >= room
    <3>1. TakenIn(p, j) = room /\ TakenIn(p, j + 1) = room /\ j + 1 > room
      <4>1. j \in Nat /\ j + 1 \in Nat
        BY <2>1
      <4>2. j + 1 >= room /\ j + 1 > room
        <5>1. room \in Nat
          BY <1>2
        <5> QED
          BY <4>1, <5>1, <2>7, OneMore
      <4>3. room = Room(p)
        BY DEF room
      <4> QED
        BY <1>2, <2>7, <4>1, <4>2, <4>3, TakenFacts
    <3>2. Len(q.apc) >= MaxRaw
      BY <1>2, <2>2, <3>1
    <3>3. ApcPut(q, b) = [q EXCEPT !.apcOverflow = TRUE]
      BY <3>2 DEF ApcPut
    <3>4. Stored(p, s, j + 1) = WithApc(p, apc, TRUE)
      BY <3>1 DEF Stored, room
    <3> HIDE DEF apc, over
    <3>5. [q EXCEPT !.apcOverflow = TRUE] = WithApc(p, apc, TRUE)
      BY <2>3 DEF WithApc, Members
    <3> QED
      BY <2>5, <2>6, <3>3, <3>4, <3>5
  <2>8. CASE ~(j >= room)
    <3>1. TakenIn(p, j) = j /\ TakenIn(p, j + 1) = j + 1 /\ ~(j + 1 > room) /\ ~(j > room)
      <4>1. j \in Nat /\ j + 1 \in Nat /\ room \in Nat
        BY <1>2, <2>1
      <4>2. j + 1 <= room /\ j <= room /\ ~(j + 1 > room) /\ ~(j > room)
        BY <2>8, <4>1, OneMore
      <4>3. room = Room(p)
        BY DEF room
      <4> QED
        BY <4>1, <4>2, <4>3, TakenFacts
    <3>2. ~(Len(q.apc) >= MaxRaw)
      BY <1>2, <2>1, <2>2, <2>8, <3>1
    <3>3. ApcPut(q, b) = [q EXCEPT !.apc = Append(@, b)]
      BY <3>2 DEF ApcPut
    <3>4. over = p.apcOverflow /\ (p.apcOverflow \/ j + 1 > room) = p.apcOverflow
      BY <1>2, <3>1
    <3>5. Append(apc, b) = p.apc \o SubSeq(s, 1, j + 1)
      <4> DEFINE u == SubSeq(s, 1, j)
      <4>1. IsSeq(u)
        BY <2>1, Prefix
      <4>2. Append(u, b) = SubSeq(s, 1, j + 1)
        <5>1. j + 1 > 0
          BY <2>1
        <5>2. Append(SubSeq(s, 1, (j + 1) - 1), s[j + 1]) = SubSeq(s, 1, j + 1)
          BY <2>1, <5>1, Prefix
        <5> QED
          BY <2>1, <5>2 DEF b
      <4>3. apc = p.apc \o u
        BY <3>1
      <4> HIDE DEF u, apc
      <4>4. Appends(p.apc, u, b)
        BY <1>2, <4>1, JoinAppend
      <4> QED
        BY <4>2, <4>3, <4>4 DEF Appends
    <3>6. Stored(p, s, j + 1) = WithApc(p, p.apc \o SubSeq(s, 1, j + 1), p.apcOverflow)
      BY <3>1, <3>4 DEF Stored, room
    <3>7. q = WithApc(p, apc, p.apcOverflow)
      BY <2>3, <3>4
    <3> HIDE DEF apc, over
    <3>8. [q EXCEPT !.apc = Append(@, b)] = WithApc(p, Append(apc, b), p.apcOverflow)
      BY <3>7 DEF WithApc, Members
    <3> QED
      BY <2>5, <2>6, <3>3, <3>5, <3>6, <3>8
  <2> QED
    BY <2>7, <2>8
<1>5. end \in Right
  <2>1. 0 \in Right
    BY <1>1, <1>3
  <2>2. \A n \in 0..(end - 1) : n \in Right => n + 1 \in Right
    BY <1>1, <1>4
  <2>3. end \in Nat
    BY <1>1
  <2> HIDE DEF Right
  <2> QED
    BY <2>1, <2>2, <2>3, AllTheWay
<1>6. g[end] = Stored(p, s, end)
  BY <1>5
<1>7. Formed(Stored(p, s, end)) /\ Stored(p, s, end).state # "Ground" /\ Stored(p, s, end).partial = <<>>
  <2>1. Keeps(p, Stored(p, s, end)) /\ Stored(p, s, end).state = p.state
    BY <1>1, StoredFields
  <2> QED
    BY <2>1 DEF Keeps
<1>8. AdvanceApcBulk(p, s) = AfterRun(Stored(p, s, end), s, end)
  BY <1>1, ApcBulkIs DEF end
<1> QED
  BY <1>1, <1>6, <1>7, <1>8, AfterRunMeets

\* So does a turn in any state: what it scans in bulk comes to what its bytes do.
LEMMA OnceMeets ==
  ASSUME NEW p, Formed(p), p.partial = <<>>, NEW s, IsSeq(s), s # <<>>, NEW g, Trace(p, s, g)
  PROVE  Meets(s, g, AdvanceOnce(p, s))
<1>1. CASE p.state = "Ground"
  BY <1>1, GroundMeets DEF AdvanceOnce, AtRest
<1>2. CASE p.state = "DcsPassthrough"
  BY <1>2, DcsMeets DEF AdvanceOnce
<1>3. CASE p.state = "ApcString"
  BY <1>3, ApcMeets DEF AdvanceOnce
<1>4. CASE p.state \notin {"Ground", "DcsPassthrough", "ApcString"}
  <2> DEFINE q == ChangeState(p, s[1])
  <2>1. AdvanceOnce(p, s) = [p |-> q, n |-> 1]
    BY <1>4 DEF AdvanceOnce
  <2>2. 1 \in 1..Len(s) /\ 1 - 1 = 0
    BY SeqFacts, HeadIsFirst
  <2>3. g[1] = q
    BY <1>4, <2>2 DEF Trace, Byte
  <2>4. q.partial = <<>>
    BY <1>4, ChangeStateKeeps DEF Keeps
  <2> HIDE DEF q
  <2> QED
    BY <2>1, <2>3, <2>4, MeetsAt
<1> QED
  BY <1>1, <1>2, <1>3, <1>4

-----------------------------------------------------------------------------
(* A read *)

\* Where the loop of Parser::advance starts, and one turn of it.
First(p, s) == IF p.partial # <<>> THEN AdvancePartial(p, s) ELSE [p |-> p, n |-> 0]
Pass(done, s) ==
  LET turn == AdvanceOnce(done.p, SubSeq(s, done.n + 1, Len(s)))
  IN  IF done.n = Len(s) THEN done ELSE [p |-> turn.p, n |-> done.n + turn.n]

\* The loop is run a turn at a time: the function its definition chooses exists.
LEMMA AdvancePasses ==
  ASSUME NEW p, NEW s, Len(s) \in Nat
  PROVE  \E after :
           /\ after = [i \in 0..Len(s) |-> IF i = 0 THEN First(p, s) ELSE Pass(after[i - 1], s)]
           /\ Advance(p, s) = after[Len(s)].p
<1> DEFINE Upto(m, after) ==
             after = [i \in 0..m |-> IF i = 0 THEN First(p, s) ELSE Pass(after[i - 1], s)]
           Lengths == {m \in Nat : \E after : Upto(m, after)}
<1>1. 0 \in Lengths
  <2>1. Upto(0, [i \in 0..0 |-> First(p, s)])
    OBVIOUS
  <2> QED
    BY <2>1
<1>2. ASSUME NEW m \in Lengths PROVE m + 1 \in Lengths
  <2>1. PICK after : Upto(m, after)
    OBVIOUS
  <2> DEFINE more == [i \in 0..(m + 1) |-> IF i = m + 1 THEN Pass(after[m], s) ELSE after[i]]
  <2>2. ASSUME NEW i \in 0..(m + 1)
        PROVE more[i] = IF i = 0 THEN First(p, s) ELSE Pass(more[i - 1], s)
    <3>1. CASE i = m + 1
      BY <3>1
    <3>2. CASE i \in 0..m
      <4>1. more[i] = after[i] /\ (i # 0 => i - 1 \in 0..m /\ more[i - 1] = after[i - 1])
        BY <3>2
      <4>2. after[i] = IF i = 0 THEN First(p, s) ELSE Pass(after[i - 1], s)
        BY <2>1, <3>2
      <4> QED
        BY <4>1, <4>2
    <3> QED
      BY <3>1, <3>2
  <2>3. Upto(m + 1, more)
    BY <2>2
  <2> HIDE DEF Upto, more
  <2> QED
    BY <2>3
<1>3. Lengths = Nat
  <2> HIDE DEF Lengths
  <2> QED
    BY <1>1, <1>2, SetInduction DEF Lengths
<1>4. \E after : Upto(Len(s), after)
  BY <1>3
<1> DEFINE it == CHOOSE after : Upto(Len(s), after)
<1>5. Upto(Len(s), it)
  BY <1>4
<1>6. Advance(p, s) = it[Len(s)].p
  BY DEF Advance, First, Pass
<1> QED
  BY <1>5, <1>6

\* As far as a read has got: within the input, with a parser that can go on.
Within(s, done) == done.n \in 0..Len(s) /\ Sane(done.p)

\* A read starts within its input.
LEMMA FirstWithin ==
  ASSUME NEW p, Sane(p), NEW s, IsSeq(s)
  PROVE  Within(s, First(p, s))
<1>1. Len(s) \in Nat
  BY SeqFacts
<1>2. CASE p.partial # <<>>
  BY <1>2, PartialTurn DEF First, Within
<1>3. CASE p.partial = <<>>
  <2>1. First(p, s) = [p |-> p, n |-> 0]
    BY <1>3 DEF First
  <2>2. First(p, s).p = p /\ First(p, s).n = 0
    BY <2>1
  <2> QED
    BY <1>1, <2>2 DEF Within
<1> QED
  BY <1>2, <1>3

\* A turn goes on, and stays within it.
LEMMA PassWithin ==
  ASSUME NEW s, IsSeq(s), NEW done, Within(s, done)
  PROVE  /\ Within(s, Pass(done, s))
         /\ done.n # Len(s) => Pass(done, s).n > done.n
<1> DEFINE rest == From(s, done.n)
           turn == AdvanceOnce(done.p, rest)
<1>1. Len(s) \in Nat /\ done.n \in 0..Len(s) /\ Sane(done.p)
  BY SeqFacts DEF Within
<1>2. CASE done.n = Len(s)
  BY <1>1, <1>2 DEF Pass
<1>3. CASE done.n # Len(s)
  <2>1. IsSeq(rest) /\ Len(rest) = Len(s) - done.n /\ rest # <<>>
    BY <1>1, <1>3, FromFacts
  <2> HIDE DEF rest
  <2>2. Turn(rest, turn)
    BY <1>1, <2>1, OnceTurn
  <2>3. Pass(done, s) = [p |-> turn.p, n |-> done.n + turn.n]
    BY <1>3 DEF Pass, From, rest
  <2> HIDE DEF turn
  <2>4. turn.n \in 1..Len(rest) /\ Sane(turn.p)
    BY <2>2 DEF Turn
  <2>5. done.n + turn.n \in 0..Len(s) /\ done.n + turn.n > done.n
    BY <1>1, <2>1, <2>4
  <2>6. Pass(done, s).p = turn.p /\ Pass(done, s).n = done.n + turn.n
    BY <2>3
  <2> QED
    BY <2>4, <2>5, <2>6 DEF Within
<1> QED
  BY <1>2, <1>3

\* A read leaves a parser that can go on.
LEMMA AdvanceSane ==
  ASSUME NEW p, Sane(p), NEW s, IsSeq(s)
  PROVE  Sane(Advance(p, s))
<1>1. Len(s) \in Nat
  BY SeqFacts
<1>2. PICK after :
        /\ after = [i \in 0..Len(s) |-> IF i = 0 THEN First(p, s) ELSE Pass(after[i - 1], s)]
        /\ Advance(p, s) = after[Len(s)].p
  BY <1>1, AdvancePasses
<1> DEFINE Right == {i \in 0..Len(s) : Within(s, after[i])}
<1>3. after[0] = First(p, s)
  BY <1>1, <1>2
<1>4. 0 \in Right
  BY <1>1, <1>3, FirstWithin
<1>5. ASSUME NEW i \in 0..(Len(s) - 1), i \in Right PROVE i + 1 \in Right
  <2>1. i + 1 \in 0..Len(s) /\ i + 1 # 0 /\ (i + 1) - 1 = i
    BY <1>1
  <2>2. after[i + 1] = Pass(after[i], s)
    BY <1>2, <2>1
  <2> QED
    BY <1>5, <2>1, <2>2, PassWithin
<1> HIDE DEF Right
<1>6. Len(s) \in Right
  BY <1>1, <1>4, <1>5, AllTheWay
<1> QED
  BY <1>2, <1>6 DEF Right, Within

\* As far as a read has got, beside the same bytes one at a time: the rest of them leads
\* the two to the same parser.
Level(s, g, done) ==
  /\ Within(s, done)
  /\ done.n = Len(s) => done.p = g[Len(s)]
  /\ done.n # Len(s) =>
       /\ done.p.partial = <<>>
       /\ Byte(done.p, s[done.n + 1]) = g[done.n + 1]

\* A turn leaves the two level.
LEMMA PassLevel ==
  ASSUME NEW p, NEW s, IsSeq(s), NEW g, Trace(p, s, g), NEW done, Level(s, g, done)
  PROVE  Level(s, g, Pass(done, s))
<1>1. Len(s) \in Nat /\ done.n \in 0..Len(s) /\ Formed(done.p) /\ Within(s, done)
  BY SeqFacts DEF Level, Within, Sane
<1>2. CASE done.n = Len(s)
  BY <1>2 DEF Pass
<1>3. CASE done.n # Len(s)
  <2> DEFINE n == done.n
             rest == From(s, n)
             h == [j \in 0..Len(rest) |-> IF j = 0 THEN done.p ELSE g[n + j]]
             turn == AdvanceOnce(done.p, rest)
  <2>1. /\ IsSeq(rest) /\ Len(rest) = Len(s) - n /\ rest # <<>>
        /\ \A i \in 1..(Len(s) - n) : rest[i] = s[n + i]
    BY <1>1, <1>3, FromFacts
  <2>2. Pass(done, s) = [p |-> turn.p, n |-> n + turn.n]
    BY <1>3 DEF Pass, From
  <2>3. done.p.partial = <<>> /\ Byte(done.p, s[n + 1]) = g[n + 1]
    BY <1>3 DEF Level
  <2>4. Within(s, Pass(done, s)) /\ Pass(done, s).n > n
    BY <1>1, <1>3, PassWithin
  <2> HIDE DEF rest, turn
  <2>5. n \in Nat /\ n < Len(s) /\ Len(rest) \in Nat
    BY <1>1, <1>3, <2>1
  <2>6. h[0] = done.p /\ \A j \in 1..Len(rest) : h[j] = g[n + j]
    BY <2>5
  <2> HIDE DEF n, h
  <2>7. ASSUME NEW j \in 1..Len(rest) PROVE h[j] = Byte(h[j - 1], rest[j])
    <3>1. rest[j] = s[n + j] /\ n + j \in 1..Len(s)
      BY <1>1, <2>1, <2>5
    <3>2. CASE j = 1
      BY <2>3, <2>6, <3>1, <3>2
    <3>3. CASE j # 1
      <4>1. j - 1 \in 1..Len(rest) /\ n + (j - 1) = (n + j) - 1
        BY <2>5, <3>3
      <4>2. g[n + j] = Byte(g[(n + j) - 1], s[n + j])
        BY <3>1 DEF Trace
      <4> QED
        BY <2>6, <3>1, <4>1, <4>2
    <3> QED
      BY <3>2, <3>3
  <2>8. Trace(done.p, rest, h)
    BY <2>6, <2>7 DEF Trace
  <2>9. Meets(rest, h, turn)
    BY <1>1, <2>1, <2>3, <2>8, OnceMeets DEF turn
  <2>10. turn.n \in 1..Len(rest)
    <3>1. Sane(done.p)
      BY <1>1 DEF Within
    <3> QED
      BY <2>1, <3>1, OnceTurn DEF Turn, turn
  <2>11. Pass(done, s).p = turn.p /\ Pass(done, s).n = n + turn.n
    BY <2>2 DEF n
  <2>12. h[turn.n] = g[n + turn.n]
    BY <2>6, <2>10
  <2>13. CASE turn.n = Len(rest)
    <3>1. n + turn.n = Len(s)
      BY <1>1, <2>1, <2>5, <2>13
    <3>2. turn.p = g[Len(s)]
      BY <2>9, <2>12, <2>13, <3>1 DEF Meets
    <3> QED
      BY <2>4, <2>11, <3>1, <3>2 DEF Level
  <2>14. CASE turn.n # Len(rest)
    <3> DEFINE k == turn.n
    <3>1. /\ k \in Nat /\ k < Len(rest) /\ n + k # Len(s) /\ (n + k) + 1 = n + (k + 1)
          /\ k + 1 \in 1..(Len(s) - n) /\ (n + k) + 1 \in 1..Len(s) /\ ((n + k) + 1) - 1 = n + k
      BY <1>1, <2>1, <2>5, <2>10, <2>14
    <3> HIDE DEF k
    <3>2. turn.p.partial = <<>> /\ Byte(turn.p, rest[k + 1]) = Byte(h[k], rest[k + 1])
      BY <2>9, <3>1 DEF Meets, k
    <3>3. rest[k + 1] = s[(n + k) + 1]
      BY <2>1, <3>1
    <3>4. g[(n + k) + 1] = Byte(g[n + k], s[(n + k) + 1])
      BY <3>1 DEF Trace
    <3>5. h[k] = g[n + k] /\ Pass(done, s).n = n + k
      BY <2>11, <2>12 DEF k
    <3> QED
      BY <2>4, <2>11, <3>1, <3>2, <3>3, <3>4, <3>5 DEF Level
  <2> QED
    BY <2>13, <2>14
<1> QED
  BY <1>2, <1>3

\* A read of whole characters leaves the parser its bytes leave one at a time.
LEMMA AdvanceLevel ==
  ASSUME NEW p, Sane(p), p.partial = <<>>, NEW s, IsSeq(s), NEW g, Trace(p, s, g)
  PROVE  Advance(p, s) = g[Len(s)]
<1>1. Len(s) \in Nat
  BY SeqFacts
<1>2. PICK after :
        /\ after = [i \in 0..Len(s) |-> IF i = 0 THEN First(p, s) ELSE Pass(after[i - 1], s)]
        /\ Advance(p, s) = after[Len(s)].p
  BY <1>1, AdvancePasses
<1> DEFINE Right == {i \in 0..Len(s) : Level(s, g, after[i]) /\ after[i].n >= i}
<1>3. 0 \in Right
  <2>1. after[0] = First(p, s) /\ First(p, s) = [p |-> p, n |-> 0]
    BY <1>1, <1>2 DEF First
  <2>2. after[0].p = p /\ after[0].n = 0
    BY <2>1
  <2>3. g[0] = p /\ (0 # Len(s) => g[0 + 1] = Byte(p, s[0 + 1]))
    <3>1. 0 # Len(s) => 0 + 1 \in 1..Len(s) /\ (0 + 1) - 1 = 0
      BY <1>1
    <3> QED
      BY <3>1 DEF Trace
  <2>4. Within(s, after[0])
    BY <2>1, FirstWithin
  <2>5. Level(s, g, after[0])
    BY <2>2, <2>3, <2>4 DEF Level
  <2> QED
    BY <1>1, <2>2, <2>5
<1>4. ASSUME NEW i \in 0..(Len(s) - 1), i \in Right PROVE i + 1 \in Right
  <2>1. i + 1 \in 0..Len(s) /\ i + 1 # 0 /\ (i + 1) - 1 = i /\ i + 1 <= Len(s)
    BY <1>1
  <2>2. after[i + 1] = Pass(after[i], s)
    BY <1>2, <2>1
  <2>3. Level(s, g, after[i]) /\ after[i].n >= i
    BY <1>4
  <2>4. Level(s, g, after[i + 1])
    BY <2>2, <2>3, PassLevel
  <2>5. after[i + 1].n >= i + 1
    <3>1. /\ after[i].n \in 0..Len(s) /\ after[i + 1].n \in 0..Len(s)
          /\ after[i].n # Len(s) => after[i + 1].n > after[i].n
          /\ after[i].n = Len(s) => after[i + 1].n = Len(s)
      <4>1. Within(s, after[i]) /\ Within(s, after[i + 1])
        BY <2>3, <2>4 DEF Level
      <4>2. after[i].n # Len(s) => after[i + 1].n > after[i].n
        BY <2>2, <4>1, PassWithin
      <4>3. after[i].n = Len(s) => after[i + 1].n = Len(s)
        BY <2>2 DEF Pass
      <4> QED
        BY <4>1, <4>2, <4>3 DEF Within
    <3> DEFINE a == after[i].n
               b == after[i + 1].n
    <3>2. a \in 0..Len(s) /\ b \in 0..Len(s) /\ a >= i /\ (a # Len(s) => b > a) /\ (a = Len(s) => b = Len(s))
      BY <2>3, <3>1
    <3> HIDE DEF a, b
    <3>3. b >= i + 1
      BY <1>1, <2>1, <3>2
    <3> QED
      BY <3>3 DEF b
  <2> QED
    BY <2>1, <2>4, <2>5
<1> HIDE DEF Right
<1>5. Len(s) \in Right
  BY <1>1, <1>3, <1>4, AllTheWay
<1>6. Level(s, g, after[Len(s)]) /\ after[Len(s)].n >= Len(s)
  BY <1>5 DEF Right
<1>7. after[Len(s)].n = Len(s)
  <2> DEFINE a == after[Len(s)].n
  <2>1. a \in 0..Len(s) /\ a >= Len(s)
    BY <1>6 DEF Level, Within
  <2> HIDE DEF a
  <2>2. a = Len(s)
    BY <1>1, <2>1
  <2> QED
    BY <2>2 DEF a
<1> QED
  BY <1>2, <1>6, <1>7 DEF Level

-----------------------------------------------------------------------------
(* Where the chunks end *)

\* One byte after another leads from p to q.
Leads(p, s, q) == \E g : Trace(p, s, g) /\ g[Len(s)] = q

\* A first byte.
LEMMA LeadsOne ==
  ASSUME NEW p, NEW b
  PROVE  Leads(p, Append(<<>>, b), Byte(p, b))
<1> DEFINE g == [i \in 0..1 |-> IF i = 0 THEN p ELSE Byte(p, b)]
           s == Append(<<>>, b)
<1>1. Len(s) = 1 /\ s[1] = b
  OBVIOUS
<1>2. g[0] = p /\ g[1] = Byte(p, b)
  OBVIOUS
<1> HIDE DEF g, s
<1>3. \A i \in 1..Len(s) : g[i] = Byte(g[i - 1], s[i])
  <2>1. \A i \in 1..Len(s) : i = 1 /\ i - 1 = 0
    BY <1>1
  <2> QED
    BY <1>1, <1>2, <2>1
<1>4. Leads(p, s, Byte(p, b))
  BY <1>1, <1>2, <1>3 DEF Leads, Trace
<1> QED
  BY <1>4 DEF s

\* A byte more.
LEMMA LeadsOn ==
  ASSUME NEW p, NEW s, IsSeq(s), NEW q, Leads(p, s, q), NEW b
  PROVE  Leads(p, Append(s, b), Byte(q, b))
<1>1. PICK g : Trace(p, s, g) /\ g[Len(s)] = q
  BY DEF Leads
<1> DEFINE n == Len(s)
           t == Append(s, b)
           h == [i \in 0..(n + 1) |-> IF i = n + 1 THEN Byte(q, b) ELSE g[i]]
<1>2. n \in Nat /\ Len(t) = n + 1
  BY SeqAppend
<1>3. t[n + 1] = b /\ \A i \in 1..n : t[i] = s[i]
  BY DEF IsSeq
<1>4. h[n + 1] = Byte(q, b) /\ \A i \in 0..n : h[i] = g[i]
  BY <1>2
<1> HIDE DEF t, h
<1>5. ASSUME NEW i \in 1..(n + 1) PROVE h[i] = Byte(h[i - 1], t[i])
  <2>1. CASE i = n + 1
    <3>1. i - 1 = n /\ n \in 0..n
      BY <1>2, <2>1
    <3> QED
      BY <1>1, <1>3, <1>4, <2>1, <3>1
  <2>2. CASE i # n + 1
    <3>1. i \in 1..n /\ i \in 0..n /\ i - 1 \in 0..n
      BY <1>2, <2>2
    <3>2. g[i] = Byte(g[i - 1], s[i])
      BY <1>1, <3>1 DEF Trace
    <3> QED
      BY <1>3, <1>4, <3>1, <3>2
  <2> QED
    BY <2>1, <2>2
<1>6. h[0] = p
  BY <1>1, <1>2, <1>4 DEF Trace
<1>7. Trace(p, t, h) /\ h[Len(t)] = Byte(q, b)
  <2> HIDE DEF n
  <2> QED
    BY <1>2, <1>4, <1>5, <1>6 DEF Trace
<1>8. Leads(p, t, Byte(q, b))
  BY <1>7 DEF Leads
<1> QED
  BY <1>8 DEF t

\* Nothing told yet is as sane.
LEMMA SilentSane ==
  ASSUME NEW p, Sane(p)
  PROVE  Sane(Silent(p)) /\ Silent(p).partial = p.partial
<1>1. Silent(p) = [f \in Members |-> IF f = "out" THEN <<>> ELSE p[f]]
  BY DEF Sane, Formed, Silent, Members
<1>2. IsSeq(<<>>)
  BY DEF IsSeq
<1> QED
  BY <1>1, <1>2 DEF Sane, Formed, Begun, Members

\* A new parser is one.
LEMMA NewIsSane == Sane(NewParser)
<1>1. IsSeq(<<>>)
  BY DEF IsSeq
<1>2. Len(<<>>) = 0 /\ MaxRaw \in Nat
  BY ParserAssumption
<1> QED
  BY <1>1, <1>2 DEF Sane, Formed, Begun, NewParser, Members, States

\* What holds between reads and during one: the bytes not read lead from the parser the
\* reader has to the one told of each, unless the reader's has the start of a character.
InStep ==
  /\ Sane(parser) /\ IsSeq(unread)
  /\ unread # <<>> /\ parser.partial = <<>> => Leads(parser, unread, each)
  /\ unread = <<>> /\ ~torn => parser = each

\* Wherever its reads end, the parser the reader feeds in bulk is left as one told of every
\* byte as it is written, and has told the same, unless a read ended inside a character.
THEOREM ChunksInvisible == StreamSpec => []CutsInvisible
<1>1. StreamInit => InStep
  <2>1. IsSeq(<<>>)
    BY DEF IsSeq
  <2> QED
    BY <2>1, NewIsSane DEF StreamInit, InStep
<1>2. InStep /\ [StreamNext]_streamVars => InStep'
  <2> SUFFICES ASSUME InStep, [StreamNext]_streamVars PROVE InStep'
    OBVIOUS
  <2>1. ASSUME NEW b \in repertoire.bytes, Write(b) PROVE InStep'
    <3>1. unread' = Append(unread, b) /\ IsSeq(unread') /\ unread' # <<>>
      <4>1. IsSeq(Append(unread, b)) /\ Len(Append(unread, b)) = Len(unread) + 1 /\ Len(unread) \in Nat
        BY SeqAppend DEF InStep
      <4>2. Append(unread, b) # <<>>
        BY <4>1
      <4> QED
        BY <2>1, <4>1, <4>2 DEF Write
    <3>2. CASE unread = <<>>
      <4>1. parser' = Silent(parser) /\ each' = Byte(Silent(parser), b)
        BY <2>1, <3>2 DEF Write, Base
      <4>2. Sane(parser')
        BY <4>1, SilentSane DEF InStep
      <4>3. Leads(parser', unread', each')
        BY <3>1, <3>2, <4>1, LeadsOne
      <4> QED
        BY <3>1, <4>2, <4>3 DEF InStep
    <3>3. CASE unread # <<>>
      <4>1. parser' = parser /\ each' = Byte(each, b)
        BY <2>1, <3>3 DEF Write, Base
      <4>2. parser.partial = <<>> => Leads(parser, unread', each')
        BY <3>1, <3>3, <4>1, LeadsOn DEF InStep
      <4> QED
        BY <3>1, <4>1, <4>2 DEF InStep
    <3> QED
      BY <3>2, <3>3
  <2>2. CASE Read
    <3>1. /\ unread # <<>> /\ unread' = <<>> /\ parser' = Advance(parser, unread)
          /\ torn' = (parser.partial # <<>>) /\ each' = each
      BY <2>2 DEF Read
    <3>2. Sane(parser')
      BY <3>1, AdvanceSane DEF InStep
    <3>3. IsSeq(unread')
      BY <3>1 DEF IsSeq
    <3>4. ASSUME parser.partial = <<>> PROVE parser' = each
      <4>1. PICK g : Trace(parser, unread, g) /\ g[Len(unread)] = each
        BY <3>1, <3>4 DEF InStep, Leads
      <4> QED
        BY <3>1, <3>4, <4>1, AdvanceLevel DEF InStep
    <3> QED
      BY <3>1, <3>2, <3>3, <3>4 DEF InStep
  <2>3. CASE UNCHANGED streamVars
    BY <2>3 DEF InStep, streamVars
  <2> QED
    BY <2>1, <2>2, <2>3 DEF StreamNext
<1>3. InStep => CutsInvisible
  BY DEF InStep, CutsInvisible
<1> QED
  BY <1>1, <1>2, <1>3, PTL DEF StreamSpec

=============================================================================
