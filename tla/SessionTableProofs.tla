-------------------------- MODULE SessionTableProofs --------------------------
(***************************************************************************)
(* Proofs about SessionTable for every set of keys and descriptors, every  *)
(* size and every hash function.                                           *)
(*                                                                         *)
(* That a walk meets the session it looks for is reachability.  It is      *)
(* stated without recursion: n is reachable from c when every set of cells *)
(* that contains c and is closed under the pointers contains n.            *)
(***************************************************************************)
EXTENDS SessionTable, FiniteSetTheorems, TLAPS

ClosedUnder(S, p) == \A c \in S : p[c] # Null => p[c] \in S

Reach(p, c, n) == \A S \in SUBSET Cells : c \in S /\ ClosedUnder(S, p) => n \in S

Pointers == [Cells -> Fds \cup {Null}]
KeyMaps  == [Fds -> Keys \cup {Null}]
Nodes(k) == {n \in Fds : k[n] # Null}

\* The bucket in whose chain a cell lies.
Home(c, k) == IF c \in Buckets THEN c ELSE Hash[k[c]]

\* The chains: memory that is free points nowhere and is not pointed to, every
\* node has at most one predecessor, which lies in its own bucket, is reachable
\* from the head of that bucket, and has a key of its own.
FreeIsCut(p, k)    == \A n \in Fds : k[n] = Null => p[n] = Null
LeadsToNodes(p, k) == \A c \in Cells : p[c] # Null => p[c] \in Nodes(k)
OneWayIn(p)        == \A c, d \in Cells : p[c] = p[d] /\ p[c] # Null => c = d
InItsBucket(p, k)  == \A c \in Cells : p[c] # Null => Hash[k[p[c]]] = Home(c, k)
Reachable(p, k)    == \A n \in Nodes(k) : Reach(p, Hash[k[n]], n)
KeysDiffer(k)      == \A m, n \in Nodes(k) : k[m] = k[n] => m = n

WellFormed(p, k) ==
  /\ FreeIsCut(p, k) /\ LeadsToNodes(p, k) /\ OneWayIn(p)
  /\ InItsBucket(p, k) /\ Reachable(p, k) /\ KeysDiffer(k)

\* What is left of the chains while engine_stop frees bucket b and is about to
\* free node a: the heads of earlier buckets are empty, that of b is not looked
\* at any more, and the later buckets are as before.
Kept(k, b) == Nodes(k) \cup {c \in Buckets : c > b}

StopFormed(p, k, b, a) ==
  /\ FreeIsCut(p, k)
  /\ \A c \in Buckets : c < b => p[c] = Null
  /\ \A c \in Kept(k, b) : p[c] # Null => p[c] \in Nodes(k) /\ p[c] # a
  /\ \A c, d \in Kept(k, b) : p[c] = p[d] /\ p[c] # Null => c = d
  /\ a # Null => a \in Nodes(k)
  /\ \A n \in Nodes(k) :
       \/ Hash[k[n]] > b /\ Reach(p, Hash[k[n]], n)
       \/ Hash[k[n]] = b /\ a # Null /\ Reach(p, a, n)
  /\ KeysDiffer(k)

Afters == {"keep", "remove", "replace", "create"}

\* The operation under way, and how far its walk has come: what it looks for
\* lies ahead.
Idling == op = Quiet /\ at = Null

Finding ==
  /\ op \in [kind : {"find"}, arg : Keys, after : Afters]
  /\ at # Null => at \in Live
  /\ \A n \in Live : key[n] = op.arg => at # Null /\ Reach(ptr, at, n)

FindingByFd ==
  /\ op \in [kind : {"findByFd"}, arg : Fds, after : {"keep", "remove"}]
  /\ at # Null => at \in Live
  /\ op.arg \in Live =>
       \/ Hash[key[op.arg]] > bucket
       \/ Hash[key[op.arg]] = bucket /\ at # Null /\ Reach(ptr, at, op.arg)

Removing ==
  /\ op \in [kind : {"remove"}, target : Fds, new : Keys \cup {Null}]
  /\ at \in Cells /\ (at \in Fds => at \in Live)
  /\ op.target \in Live /\ at # op.target /\ Reach(ptr, at, op.target)
  /\ op.new # Null => key[op.target] = op.new

Creating ==
  /\ op \in [kind : {"create"}, new : Keys] /\ at = Null
  /\ \A n \in Live : key[n] # op.new

Cleaning ==
  /\ op \in [kind : {"cleanup"}, idle : SUBSET Fds]
  /\ at \in Cells /\ (at \in Fds => at \in Live)
  /\ \A n \in Live \cap op.idle :
       \/ Hash[key[n]] > bucket
       \/ Hash[key[n]] = bucket /\ at # n /\ Reach(ptr, at, n)

Stopping ==
  /\ op = [kind |-> "stop"]
  /\ StopFormed(ptr, key, bucket, at)

IInv ==
  /\ ptr \in Pointers /\ key \in KeyMaps
  /\ at \in Cells \cup {Null} /\ bucket \in Buckets
  /\ \/ Stopping
     \/ /\ WellFormed(ptr, key)
        /\ \/ Idling
           \/ Finding \/ FindingByFd \/ Removing \/ Creating \/ Cleaning

-----------------------------------------------------------------------------
\* Reachability.

\* A cell reaches itself.
LEMMA ReachSelf == ASSUME NEW p, NEW c PROVE Reach(p, c, c)
BY DEF Reach

\* What is reachable from a cell and is not the cell is reachable from where
\* the cell points.
LEMMA ReachNext ==
  ASSUME NEW p \in Pointers, NEW c \in Cells, NEW n \in Cells, c # n, Reach(p, c, n)
  PROVE  p[c] \in Fds /\ Reach(p, p[c], n)
<1>1. p[c] # Null
  <2> SUFFICES ASSUME p[c] = Null PROVE FALSE
    OBVIOUS
  <2>1. {c} \in SUBSET Cells /\ c \in {c} /\ ClosedUnder({c}, p)
    BY DEF ClosedUnder
  <2> QED BY <2>1 DEF Reach
<1>2. ASSUME NEW S \in SUBSET Cells, p[c] \in S, ClosedUnder(S, p)
      PROVE  n \in S
  <2>1. S \cup {c} \in SUBSET Cells /\ c \in S \cup {c}
    OBVIOUS
  <2>2. ClosedUnder(S \cup {c}, p)
    BY <1>2 DEF ClosedUnder
  <2>3. n \in S \cup {c}
    BY <2>1, <2>2 DEF Reach
  <2> QED BY <2>3
<1> QED BY <1>1, <1>2 DEF Reach, Pointers

\* What is reachable from another cell is pointed to by a third.
LEMMA ReachFrom ==
  ASSUME NEW p \in Pointers, NEW c \in Cells, NEW n \in Fds, c # n, Reach(p, c, n)
  PROVE  \E d \in Cells : d # n /\ p[d] = n
<1> SUFFICES ASSUME \A d \in Cells : d # n => p[d] # n PROVE FALSE
  OBVIOUS
<1> DEFINE S == Cells \ {n}
<1>1. S \in SUBSET Cells /\ c \in S
  OBVIOUS
<1>2. ClosedUnder(S, p)
  BY DEF ClosedUnder, Pointers, Cells
<1> QED BY <1>1, <1>2 DEF Reach

\* A walk that goes one step follows a session it has not met.
LEMMA ReachStep ==
  ASSUME NEW p \in Pointers, NEW c \in Cells, NEW n \in Cells, p[c] # Null,
         Reach(p, p[c], n)
  PROVE  Reach(p, c, n)
<1> SUFFICES ASSUME NEW S \in SUBSET Cells, c \in S, ClosedUnder(S, p) PROVE n \in S
  BY DEF Reach
<1>1. p[c] \in S
  BY DEF ClosedUnder
<1> QED BY <1>1 DEF Reach

-----------------------------------------------------------------------------
\* Well-formed chains.

\* No node points to itself.
LEMMA NoSelfLoop ==
  ASSUME NEW p \in Pointers, NEW k \in KeyMaps, WellFormed(p, k), NEW n \in Nodes(k)
  PROVE  p[n] # n
<1>1. n \in Fds /\ Hash[k[n]] \in Buckets /\ Hash[k[n]] # n
  BY SessionTableConstants DEF Nodes, KeyMaps
<1>2. PICK d \in Cells : d # n /\ p[d] = n
  <2>1. Reach(p, Hash[k[n]], n)
    BY DEF WellFormed, Reachable
  <2> QED BY <1>1, <2>1, ReachFrom DEF Cells
<1> QED BY <1>1, <1>2, SessionTableConstants DEF WellFormed, OneWayIn, Cells

\* A new session at the head of its bucket.
LEMMA LinkKeeps ==
  ASSUME NEW p \in Pointers, NEW k \in KeyMaps, WellFormed(p, k),
         NEW n \in Fds \ Nodes(k), NEW x \in Keys, \A m \in Nodes(k) : k[m] # x,
         NEW q, q = [p EXCEPT ![n] = p[Hash[x]], ![Hash[x]] = n],
         NEW l, l = [k EXCEPT ![n] = x]
  PROVE  q \in Pointers /\ l \in KeyMaps /\ WellFormed(q, l)
<1> DEFINE h == Hash[x]
<1>1. /\ h \in Buckets /\ h \in Cells /\ n \in Cells /\ h # n /\ h \notin Fds
      /\ k[n] = Null /\ x # Null /\ n # Null
  BY SessionTableConstants DEF Nodes, KeyMaps, Cells
<1>2. p[n] = Null
  BY <1>1 DEF WellFormed, FreeIsCut
<1>3. \A c \in Cells : p[c] # n
  BY <1>1 DEF WellFormed, LeadsToNodes, Nodes
<1>4. q \in Pointers /\ l \in KeyMaps
  BY <1>1, SessionTableConstants DEF Pointers, KeyMaps
<1>5. /\ \A c \in Cells : q[c] = IF c = h THEN n ELSE IF c = n THEN p[h] ELSE p[c]
      /\ \A m \in Fds : l[m] = IF m = n THEN x ELSE k[m]
  BY <1>1 DEF Pointers, KeyMaps
<1>6. Nodes(l) = Nodes(k) \cup {n}
  BY <1>1, <1>5 DEF Nodes
<1> HIDE DEF h
<1>7. FreeIsCut(q, l)
  BY <1>1, <1>5 DEF WellFormed, FreeIsCut, Cells
<1>8. LeadsToNodes(q, l)
  BY <1>1, <1>5, <1>6 DEF WellFormed, LeadsToNodes
<1>9. OneWayIn(q)
  BY <1>1, <1>2, <1>3, <1>5 DEF WellFormed, OneWayIn
<1>10. InItsBucket(q, l)
  <2> SUFFICES ASSUME NEW c \in Cells, q[c] # Null
               PROVE  Hash[l[q[c]]] = Home(c, l)
    BY DEF InItsBucket
  <2>1. CASE c = h
    <3>1. q[c] = n /\ l[n] = x /\ Home(c, l) = h
      BY <2>1, <1>1, <1>5 DEF Home
    <3> QED BY <3>1 DEF h
  <2>2. CASE c = n
    <3>1. p[h] # Null /\ p[h] \in Nodes(k) /\ q[c] = p[h] /\ p[h] # n
      BY <2>2, <1>1, <1>3, <1>5 DEF WellFormed, LeadsToNodes
    <3>2. Hash[k[p[h]]] = h
      BY <3>1, <1>1 DEF WellFormed, InItsBucket, Home
    <3>3. l[q[c]] = k[p[h]]
      BY <3>1, <1>5 DEF Nodes
    <3>4. Home(c, l) = h
      BY <2>2, <1>1, <1>5, SessionTableConstants DEF Home, h
    <3> QED BY <3>2, <3>3, <3>4
  <2>3. CASE c # h /\ c # n
    <3>1. q[c] = p[c] /\ p[c] \in Nodes(k) /\ p[c] # n
      BY <2>3, <1>3, <1>5 DEF WellFormed, LeadsToNodes
    <3>2. Hash[k[p[c]]] = Home(c, k)
      BY <3>1, SessionTableConstants DEF WellFormed, InItsBucket, Nodes
    <3>3. Home(c, l) = Home(c, k)
      BY <2>3, <1>5 DEF Home, Cells
    <3> QED BY <3>1, <3>2, <3>3, <1>5 DEF Nodes
  <2> QED BY <2>1, <2>2, <2>3
<1>11. Reachable(q, l)
  <2> SUFFICES ASSUME NEW m \in Nodes(l), NEW S \in SUBSET Cells,
                      Hash[l[m]] \in S, ClosedUnder(S, q)
               PROVE  m \in S
    BY DEF Reachable, Reach
  <2>1. CASE m = n
    <3>1. l[m] = x /\ q[h] = n
      BY <2>1, <1>1, <1>5
    <3>2. h \in S
      BY <3>1 DEF h
    <3> QED BY <2>1, <3>1, <3>2, <1>1 DEF ClosedUnder
  <2>2. CASE m # n
    <3>1. m \in Nodes(k) /\ l[m] = k[m]
      BY <2>2, <1>5, <1>6 DEF Nodes
    <3>2. ClosedUnder(S, p)
      <4> SUFFICES ASSUME NEW c \in S, p[c] # Null PROVE p[c] \in S
        BY DEF ClosedUnder
      <4>1. CASE c = h
        <5>1. n \in S
          BY <4>1, <1>1, <1>5 DEF ClosedUnder
        <5> QED BY <5>1, <4>1, <1>1, <1>5 DEF ClosedUnder
      <4>2. CASE c # h
        BY <4>2, <1>2, <1>5 DEF ClosedUnder
      <4> QED BY <4>1, <4>2
    <3>3. Reach(p, Hash[k[m]], m)
      BY <3>1 DEF WellFormed, Reachable
    <3> QED BY <3>1, <3>2, <3>3 DEF Reach
  <2> QED BY <2>1, <2>2
<1>12. KeysDiffer(l)
  BY <1>5, <1>6 DEF WellFormed, KeysDiffer, Nodes
<1> QED BY <1>4, <1>7, <1>8, <1>9, <1>10, <1>11, <1>12 DEF WellFormed

Cut(p, c, t) == [p EXCEPT ![c] = p[t], ![t] = Null]
Freed(k, t)  == [k EXCEPT ![t] = Null]

\* A node cut out of its chain through the one cell that points to it.
LEMMA UnlinkKeeps ==
  ASSUME NEW p \in Pointers, NEW k \in KeyMaps, WellFormed(p, k),
         NEW c \in Cells, NEW t \in Fds, p[c] = t
  PROVE  /\ t \in Nodes(k) /\ c # t
         /\ Cut(p, c, t) \in Pointers /\ Freed(k, t) \in KeyMaps
         /\ WellFormed(Cut(p, c, t), Freed(k, t))
         /\ Nodes(Freed(k, t)) = Nodes(k) \ {t}
         /\ \A m \in Nodes(Freed(k, t)) : Freed(k, t)[m] = k[m]
         /\ \A a \in Cells \ {t}, m \in Nodes(Freed(k, t)) :
              Reach(p, a, m) => Reach(Cut(p, c, t), a, m)
<1>0. PICK q, l : q = Cut(p, c, t) /\ l = Freed(k, t)
  OBVIOUS
<1>1. t \in Nodes(k) /\ t \in Fds /\ t \in Cells /\ t # Null /\ k[t] # Null
  BY SessionTableConstants DEF WellFormed, LeadsToNodes, Nodes, Cells
<1>2. c # t
  BY <1>1, NoSelfLoop
<1>3. q \in Pointers /\ l \in KeyMaps
  BY <1>0, <1>1 DEF Pointers, KeyMaps, Cut, Freed
<1>4. /\ \A d \in Cells : q[d] = IF d = t THEN Null ELSE IF d = c THEN p[t] ELSE p[d]
      /\ \A m \in Fds : l[m] = IF m = t THEN Null ELSE k[m]
  BY <1>0, <1>1, <1>2 DEF Pointers, KeyMaps, Cut, Freed
<1>5. Nodes(l) = Nodes(k) \ {t} /\ \A m \in Nodes(l) : l[m] = k[m]
  BY <1>1, <1>4 DEF Nodes
<1>6. \A d \in Cells : d # c => p[d] # t
  BY <1>1 DEF WellFormed, OneWayIn
<1>7. p[t] # t
  BY <1>1, <1>2, <1>6
<1>8. ASSUME NEW a \in Cells \ {t}, NEW m \in Nodes(l), Reach(p, a, m)
      PROVE  Reach(q, a, m)
  <2> SUFFICES ASSUME NEW S \in SUBSET Cells, a \in S, ClosedUnder(S, q)
               PROVE  m \in S
    BY DEF Reach
  <2>0. m # t
    BY <1>5
  <2>1. CASE c \in S
    <3>1. ClosedUnder(S \cup {t}, p)
      <4> SUFFICES ASSUME NEW d \in S \cup {t}, p[d] # Null PROVE p[d] \in S \cup {t}
        BY DEF ClosedUnder
      <4>1. CASE d = t
        <5>1. q[c] = p[t]
          BY <1>2, <1>4
        <5> QED BY <4>1, <5>1, <2>1 DEF ClosedUnder
      <4>2. CASE d = c
        BY <4>2
      <4>3. CASE d # t /\ d # c
        <5>1. d \in S /\ q[d] = p[d]
          BY <4>3, <1>4
        <5> QED BY <5>1 DEF ClosedUnder
      <4> QED BY <4>1, <4>2, <4>3
    <3>2. S \cup {t} \in SUBSET Cells /\ a \in S \cup {t}
      BY <1>1
    <3>3. m \in S \cup {t}
      BY <3>1, <3>2, <1>8 DEF Reach
    <3> QED BY <3>3, <2>0
  <2>2. CASE c \notin S
    <3>1. ClosedUnder(S \ {t}, p)
      BY <2>2, <1>4, <1>6 DEF ClosedUnder
    <3>2. S \ {t} \in SUBSET Cells /\ a \in S \ {t}
      OBVIOUS
    <3> QED BY <3>1, <3>2, <1>8 DEF Reach
  <2> QED BY <2>1, <2>2
<1>9. FreeIsCut(q, l)
  <2> SUFFICES ASSUME NEW m \in Fds, l[m] = Null PROVE q[m] = Null
    BY DEF FreeIsCut
  <2>1. m \in Cells
    BY DEF Cells
  <2>2. CASE m = t
    BY <2>1, <2>2, <1>4
  <2>3. CASE m # t
    <3>1. k[m] = Null /\ p[m] = Null
      BY <2>3, <1>4 DEF WellFormed, FreeIsCut
    <3>2. m # c
      BY <1>1, <3>1
    <3> QED BY <2>1, <2>3, <3>1, <3>2, <1>4
  <2> QED BY <2>2, <2>3
<1>10. LeadsToNodes(q, l)
  <2> SUFFICES ASSUME NEW d \in Cells, q[d] # Null PROVE q[d] \in Nodes(l)
    BY DEF LeadsToNodes
  <2>1. d # t
    BY <1>4
  <2>2. CASE d = c
    <3>1. q[d] = p[t] /\ p[t] \in Nodes(k)
      BY <2>1, <2>2, <1>1, <1>4 DEF WellFormed, LeadsToNodes
    <3> QED BY <3>1, <1>5, <1>7
  <2>3. CASE d # c
    <3>1. q[d] = p[d] /\ p[d] \in Nodes(k)
      BY <2>1, <2>3, <1>4 DEF WellFormed, LeadsToNodes
    <3> QED BY <2>3, <3>1, <1>5, <1>6
  <2> QED BY <2>2, <2>3
<1>11. OneWayIn(q)
  BY <1>1, <1>4 DEF WellFormed, OneWayIn
<1>12. InItsBucket(q, l)
  <2> SUFFICES ASSUME NEW d \in Cells, q[d] # Null
               PROVE  Hash[l[q[d]]] = Home(d, l)
    BY DEF InItsBucket
  <2>1. d # t /\ Home(d, l) = Home(d, k)
    <3>1. d # t
      BY <1>4
    <3>2. d \notin Buckets => d \in Fds
      BY DEF Cells
    <3> QED BY <3>1, <3>2, <1>4 DEF Home
  <2>2. q[d] \in Nodes(l) /\ q[d] \in Nodes(k) /\ l[q[d]] = k[q[d]]
    BY <1>5, <1>10 DEF LeadsToNodes
  <2>3. CASE d = c
    <3>1. q[d] = p[t]
      BY <2>3, <1>2, <1>4
    <3>2. Hash[k[p[t]]] = Home(t, k) /\ Hash[k[t]] = Home(c, k)
      BY <3>1, <1>1 DEF WellFormed, InItsBucket
    <3>3. Home(t, k) = Hash[k[t]]
      BY <1>1, SessionTableConstants DEF Home
    <3> QED BY <2>1, <2>2, <2>3, <3>1, <3>2, <3>3
  <2>4. CASE d # c
    <3>1. q[d] = p[d]
      BY <2>1, <2>4, <1>4
    <3>2. Hash[k[p[d]]] = Home(d, k)
      BY <3>1 DEF WellFormed, InItsBucket
    <3> QED BY <2>1, <2>2, <3>1, <3>2
  <2> QED BY <2>3, <2>4
<1>13. Reachable(q, l)
  <2> SUFFICES ASSUME NEW m \in Nodes(l) PROVE Reach(q, Hash[l[m]], m)
    BY DEF Reachable
  <2>1. m \in Nodes(k) /\ l[m] = k[m] /\ Reach(p, Hash[k[m]], m)
    BY <1>5 DEF WellFormed, Reachable
  <2>2. Hash[k[m]] \in Cells \ {t}
    BY <2>1, <1>1, SessionTableConstants DEF Nodes, KeyMaps, Cells
  <2> QED BY <2>1, <2>2, <1>8
<1>14. KeysDiffer(l)
  BY <1>5 DEF WellFormed, KeysDiffer
<1> QED
  BY <1>0, <1>1, <1>2, <1>3, <1>5, <1>8, <1>9, <1>10, <1>11, <1>12, <1>13, <1>14 DEF WellFormed

-----------------------------------------------------------------------------
\* engine_stop.

\* Before the first bucket nothing is gone.
LEMMA StopBegins ==
  ASSUME NEW p \in Pointers, NEW k \in KeyMaps, WellFormed(p, k)
  PROVE  StopFormed(p, k, 0, p[0])
<1>1. 0 \in Buckets /\ 0 \in Cells /\ 0 \notin Fds /\ Kept(k, 0) \subseteq Cells \ {0}
  BY SessionTableConstants DEF Buckets, Cells, Kept, Nodes
<1>2. \A c \in Kept(k, 0) : p[c] # Null => p[c] \in Nodes(k) /\ p[c] # p[0]
  BY <1>1 DEF WellFormed, LeadsToNodes, OneWayIn
<1>3. \A c, d \in Kept(k, 0) : p[c] = p[d] /\ p[c] # Null => c = d
  BY <1>1 DEF WellFormed, OneWayIn
<1>4. p[0] # Null => p[0] \in Nodes(k)
  BY <1>1 DEF WellFormed, LeadsToNodes
<1>5. ASSUME NEW n \in Nodes(k)
      PROVE  \/ Hash[k[n]] > 0 /\ Reach(p, Hash[k[n]], n)
             \/ Hash[k[n]] = 0 /\ p[0] # Null /\ Reach(p, p[0], n)
  <2>1. Hash[k[n]] \in Buckets /\ Reach(p, Hash[k[n]], n) /\ n \in Fds
    BY SessionTableConstants DEF WellFormed, Reachable, Nodes, KeyMaps
  <2>2. CASE Hash[k[n]] = 0
    <3>1. p[0] \in Fds /\ Reach(p, p[0], n)
      BY <1>1, <2>1, <2>2, ReachNext DEF Cells
    <3> QED BY <2>2, <3>1, SessionTableConstants
  <2>3. CASE Hash[k[n]] # 0
    BY <2>1, <2>3 DEF Buckets
  <2> QED BY <2>2, <2>3
<1>6. \A c \in Buckets : ~(c < 0)
  BY DEF Buckets
<1> QED BY <1>2, <1>3, <1>4, <1>5, <1>6 DEF StopFormed, WellFormed

\* Freeing the node at which the walk stands, whose successor was read first.
LEMMA StopKeeps ==
  ASSUME NEW p \in Pointers, NEW k \in KeyMaps, NEW b \in Buckets, NEW a \in Fds,
         StopFormed(p, k, b, a),
         NEW q, q = [p EXCEPT ![a] = Null],
         NEW l, l = [k EXCEPT ![a] = Null]
  PROVE  /\ q \in Pointers /\ l \in KeyMaps
         /\ StopFormed(q, l, b, p[a])
<1>1. a \in Cells /\ a \in Nodes(k) /\ a # Null /\ k[a] # Null /\ a \notin Buckets
  BY SessionTableConstants DEF StopFormed, Nodes, Cells
<1>2. q \in Pointers /\ l \in KeyMaps
  BY <1>1 DEF Pointers, KeyMaps
<1>3. /\ \A c \in Cells : q[c] = IF c = a THEN Null ELSE p[c]
      /\ \A m \in Fds : l[m] = IF m = a THEN Null ELSE k[m]
  BY <1>1 DEF Pointers, KeyMaps
<1>4. /\ Nodes(l) = Nodes(k) \ {a} /\ \A m \in Nodes(l) : l[m] = k[m]
      /\ Kept(l, b) = Kept(k, b) \ {a} /\ Kept(k, b) \subseteq Cells /\ a \in Kept(k, b)
  BY <1>1, <1>3 DEF Nodes, Kept, Cells
<1>5. /\ \A c \in Kept(k, b) : p[c] # Null => p[c] \in Nodes(k) /\ p[c] # a
      /\ \A c, d \in Kept(k, b) : p[c] = p[d] /\ p[c] # Null => c = d
  BY <1>1 DEF StopFormed
<1>6. FreeIsCut(q, l)
  BY <1>1, <1>3 DEF StopFormed, FreeIsCut, Cells
<1>7. \A c \in Buckets : c < b => q[c] = Null
  BY <1>1, <1>3 DEF StopFormed, Cells
<1>8. \A c \in Kept(l, b) : c \in Kept(k, b) /\ c # a /\ q[c] = p[c]
  BY <1>3, <1>4
<1>9. /\ \A c \in Kept(l, b) : q[c] # Null => q[c] \in Nodes(l) /\ q[c] # p[a]
      /\ \A c, d \in Kept(l, b) : q[c] = q[d] /\ q[c] # Null => c = d
  BY <1>4, <1>5, <1>8, ZenonT(60)
<1>10. p[a] # Null => p[a] \in Nodes(l)
  BY <1>4, <1>5
\* A later bucket's chain does not meet a.
<1>11. ASSUME NEW m \in Nodes(l)
       PROVE  \/ Hash[l[m]] > b /\ Reach(q, Hash[l[m]], m)
              \/ Hash[l[m]] = b /\ p[a] # Null /\ Reach(q, p[a], m)
  <2>0. m \in Nodes(k) /\ m \in Fds /\ l[m] = k[m] /\ m # a /\ m \in Cells
    BY <1>4 DEF Nodes, Cells
  <2>1. ASSUME NEW c \in Cells \ {a}, Reach(p, c, m), c \in Kept(k, b)
        PROVE  Reach(q, c, m)
    <3> SUFFICES ASSUME NEW S \in SUBSET Cells, c \in S, ClosedUnder(S, q)
                 PROVE  m \in S
      BY DEF Reach
    <3> DEFINE T == (S \cap Kept(k, b)) \ {a}
    <3>1. T \in SUBSET Cells /\ c \in T
      BY <2>1
    <3>2. ClosedUnder(T, p)
      <4> SUFFICES ASSUME NEW d \in T, p[d] # Null PROVE p[d] \in T
        BY DEF ClosedUnder
      <4>1. q[d] = p[d] /\ p[d] \in S
        BY <1>3 DEF ClosedUnder
      <4>2. p[d] \in Nodes(k) /\ p[d] # a
        BY <1>5
      <4> QED BY <4>1, <4>2 DEF Kept
    <3>3. m \in T
      BY <3>1, <3>2, <2>1 DEF Reach
    <3> QED BY <3>3
  <2>2. CASE Hash[k[m]] > b /\ Reach(p, Hash[k[m]], m)
    <3>1. Hash[k[m]] \in Buckets
      BY <2>0, SessionTableConstants DEF Nodes, KeyMaps
    <3>2. Hash[k[m]] \in Cells \ {a} /\ Hash[k[m]] \in Kept(k, b)
      BY <3>1, <2>2, <1>1 DEF Kept, Cells
    <3> QED BY <2>0, <2>1, <2>2, <3>2
  <2>3. CASE Hash[k[m]] = b /\ Reach(p, a, m)
    <3>1. p[a] \in Fds /\ Reach(p, p[a], m)
      BY <2>0, <2>3, <1>1, ReachNext
    <3>2. p[a] # Null
      BY <3>1, SessionTableConstants
    <3>3. p[a] \in Nodes(k) /\ p[a] # a
      BY <3>2, <1>4, <1>5
    <3>4. p[a] \in Cells \ {a} /\ p[a] \in Kept(k, b)
      BY <3>1, <3>3 DEF Kept, Cells
    <3> QED BY <2>0, <2>1, <2>3, <3>1, <3>2, <3>4
  <2> QED BY <2>0, <2>2, <2>3 DEF StopFormed
<1>12. KeysDiffer(l)
  BY <1>4 DEF StopFormed, KeysDiffer
<1> QED
  BY <1>2, <1>6, <1>7, <1>8, <1>9, <1>10, <1>11, <1>12 DEF StopFormed

\* A bucket whose nodes are freed is emptied, and the next one is begun.
LEMMA StopGoesOn ==
  ASSUME NEW p \in Pointers, NEW k \in KeyMaps, NEW b \in Buckets, b < Size - 1,
         StopFormed(p, k, b, Null),
         NEW q, q = [p EXCEPT ![b] = Null]
  PROVE  /\ q \in Pointers
         /\ StopFormed(q, k, b + 1, p[b + 1])
<1>1. b + 1 \in Buckets /\ b \in Cells /\ b + 1 \in Cells /\ b # b + 1
  BY SessionTableConstants DEF Buckets, Cells
<1>2. q \in Pointers /\ \A c \in Cells : q[c] = IF c = b THEN Null ELSE p[c]
  BY <1>1 DEF Pointers
<1>3. /\ Kept(k, b + 1) \subseteq Kept(k, b) /\ b + 1 \in Kept(k, b)
      /\ b + 1 \notin Kept(k, b + 1) /\ Kept(k, b) \subseteq Cells /\ b \notin Kept(k, b)
  BY <1>1, SessionTableConstants DEF Kept, Nodes, Buckets, Cells
<1>4. /\ \A c \in Kept(k, b) : q[c] = p[c]
      /\ \A n \in Fds : q[n] = p[n]
  BY <1>2, <1>3, SessionTableConstants DEF Cells
<1>5. /\ \A c \in Kept(k, b) : p[c] # Null => p[c] \in Nodes(k)
      /\ \A c, d \in Kept(k, b) : p[c] = p[d] /\ p[c] # Null => c = d
  BY DEF StopFormed
<1>6. FreeIsCut(q, k)
  BY <1>4 DEF StopFormed, FreeIsCut
<1>7. \A c \in Buckets : c < b + 1 => q[c] = Null
  BY <1>2 DEF StopFormed, Cells, Buckets
<1>8. \A c \in Kept(k, b + 1) : q[c] # Null => q[c] \in Nodes(k) /\ q[c] # p[b + 1]
  BY <1>3, <1>4, <1>5
<1>9. \A c, d \in Kept(k, b + 1) : q[c] = q[d] /\ q[c] # Null => c = d
  BY <1>3, <1>4, <1>5
<1>10. p[b + 1] # Null => p[b + 1] \in Nodes(k)
  BY <1>3, <1>5
<1>11. ASSUME NEW n \in Nodes(k)
       PROVE  \/ Hash[k[n]] > b + 1 /\ Reach(q, Hash[k[n]], n)
              \/ Hash[k[n]] = b + 1 /\ p[b + 1] # Null /\ Reach(q, p[b + 1], n)
  <2>0. n \in Fds /\ n \in Cells /\ Hash[k[n]] \in Buckets
    BY SessionTableConstants DEF Nodes, KeyMaps, Cells
  <2>1. Hash[k[n]] > b /\ Reach(p, Hash[k[n]], n)
    BY DEF StopFormed
  <2>2. Reach(q, Hash[k[n]], n)
    <3> SUFFICES ASSUME NEW S \in SUBSET Cells, Hash[k[n]] \in S, ClosedUnder(S, q)
                 PROVE  n \in S
      BY DEF Reach
    <3> DEFINE T == S \cap Kept(k, b)
    <3>1. T \in SUBSET Cells /\ Hash[k[n]] \in T
      BY <2>0, <2>1 DEF Kept
    <3>2. ClosedUnder(T, p)
      <4> SUFFICES ASSUME NEW d \in T, p[d] # Null PROVE p[d] \in T
        BY DEF ClosedUnder
      <4>1. q[d] = p[d] /\ p[d] \in S
        BY <1>4 DEF ClosedUnder
      <4>2. p[d] \in Nodes(k)
        BY <1>5
      <4> QED BY <4>1, <4>2 DEF Kept
    <3>3. n \in T
      BY <3>1, <3>2, <2>1 DEF Reach
    <3> QED BY <3>3
  <2>3. CASE Hash[k[n]] > b + 1
    BY <2>2, <2>3
  <2>4. CASE Hash[k[n]] = b + 1
    <3>0. b + 1 # n /\ Reach(q, b + 1, n)
      BY <1>1, <2>0, <2>2, <2>4, SessionTableConstants
    <3>1. q[b + 1] \in Fds /\ Reach(q, q[b + 1], n)
      BY <1>1, <1>2, <2>0, <3>0, ReachNext
    <3> QED BY <1>3, <1>4, <2>4, <3>1, SessionTableConstants
  <2> QED BY <2>0, <2>1, <2>3, <2>4 DEF Buckets
<1>12. KeysDiffer(k)
  BY DEF StopFormed
<1> QED
  BY <1>2, <1>6, <1>7, <1>8, <1>9, <1>10, <1>11, <1>12 DEF StopFormed

\* After the last bucket the table is empty, and its chains are well formed.
LEMMA StopEnds ==
  ASSUME NEW p \in Pointers, NEW k \in KeyMaps, NEW b \in Buckets, ~(b < Size - 1),
         StopFormed(p, k, b, Null),
         NEW q, q = [p EXCEPT ![b] = Null]
  PROVE  q \in Pointers /\ WellFormed(q, k)
<1>1. b \in Cells /\ \A c \in Buckets : c = b \/ c < b
  BY SessionTableConstants DEF Buckets, Cells
<1>2. q \in Pointers /\ \A c \in Cells : q[c] = IF c = b THEN Null ELSE p[c]
  BY <1>1 DEF Pointers
<1>3. Nodes(k) = {}
  <2> SUFFICES ASSUME NEW n \in Nodes(k) PROVE FALSE
    OBVIOUS
  <2>1. Hash[k[n]] \in Buckets
    BY SessionTableConstants DEF Nodes, KeyMaps
  <2>2. Hash[k[n]] > b
    BY DEF StopFormed
  <2> QED BY <2>1, <2>2, SessionTableConstants DEF Buckets
<1>4. \A c \in Cells : q[c] = Null
  <2> SUFFICES ASSUME NEW c \in Cells PROVE q[c] = Null
    OBVIOUS
  <2>1. CASE c \in Buckets
    BY <2>1, <1>1, <1>2 DEF StopFormed
  <2>2. CASE c \in Fds
    <3>1. k[c] = Null
      BY <2>2, <1>3 DEF Nodes
    <3> QED BY <3>1, <2>2, <1>2 DEF StopFormed, FreeIsCut
  <2> QED BY <2>1, <2>2 DEF Cells
<1> QED
  BY <1>2, <1>3, <1>4 DEF WellFormed, FreeIsCut, LeadsToNodes, OneWayIn, InItsBucket,
     Reachable, KeysDiffer, Cells

-----------------------------------------------------------------------------
\* The inductive invariant.

\* Which operation is under way tells which part of the invariant holds.
LEMMA KindTells ==
  ASSUME IInv
  PROVE  /\ Is("none") => WellFormed(ptr, key) /\ op = Quiet
         /\ Is("find") => WellFormed(ptr, key) /\ Finding
         /\ Is("findByFd") => WellFormed(ptr, key) /\ FindingByFd
         /\ Is("remove") => WellFormed(ptr, key) /\ Removing
         /\ Is("create") => WellFormed(ptr, key) /\ Creating
         /\ Is("cleanup") => WellFormed(ptr, key) /\ Cleaning
         /\ Is("stop") => Stopping
         /\ ~Is("stop") => WellFormed(ptr, key)
         /\ op.kind \in {"none", "find", "findByFd", "remove", "create", "cleanup", "stop"}
BY DEF IInv, Is, Idling, Quiet, Finding, FindingByFd, Removing, Creating, Cleaning, Stopping

\* The sessions of the table are the nodes of its chains, each of which is
\* reachable from the head of its bucket.
LEMMA LiveNodes ==
  ASSUME ptr \in Pointers, key \in KeyMaps, WellFormed(ptr, key)
  PROVE  /\ Live = Nodes(key) /\ Live \subseteq Fds /\ Live \subseteq Cells
         /\ Buckets \subseteq Cells /\ Fds \subseteq Cells /\ Null \notin Cells \ Buckets
         /\ \A c \in Cells : ptr[c] # Null => ptr[c] \in Live
         /\ \A n \in Live : /\ Hash[key[n]] \in Buckets /\ Reach(ptr, Hash[key[n]], n)
                            /\ key[n] \in Keys /\ n \notin Buckets
BY SessionTableConstants
   DEF Live, Nodes, Cells, WellFormed, LeadsToNodes, Reachable, KeyMaps, Pointers

\* The empty table.
LEMMA InitSound == Init => IInv
<1> SUFFICES ASSUME Init PROVE IInv
  OBVIOUS
<1>1. Nodes(key) = {} /\ \A c \in Cells : ptr[c] = Null
  BY DEF Init, Nodes
<1>2. ptr \in Pointers /\ key \in KeyMaps /\ bucket \in Buckets
  BY SessionTableConstants DEF Init, Pointers, KeyMaps, Buckets
<1>3. WellFormed(ptr, key)
  BY <1>1 DEF WellFormed, FreeIsCut, LeadsToNodes, OneWayIn, InItsBucket, Reachable,
     KeysDiffer, Cells
<1> QED BY <1>2, <1>3 DEF Init, IInv, Idling

\* A lookup begins: what it looks for lies behind the head of its bucket.
LEMMA FindSound ==
  ASSUME IInv, NEW k \in Keys, NEW after \in Afters, Find(k, after)
  PROVE  IInv'
<1>1. WellFormed(ptr, key) /\ ptr \in Pointers /\ key \in KeyMaps
  BY KindTells DEF Find, IInv
<1>2. Hash[k] \in Buckets /\ at' = ptr[Hash[k]] /\ Live' = Live
  BY SessionTableConstants DEF Find, Live
<1>3. at' \in Cells \cup {Null} /\ (at' # Null => at' \in Live)
  BY <1>1, <1>2, LiveNodes
<1>4. ASSUME NEW n \in Live, key[n] = k PROVE at' # Null /\ Reach(ptr, at', n)
  <2>1. Reach(ptr, Hash[k], n) /\ Hash[k] # n
    BY <1>1, <1>2, <1>4, LiveNodes
  <2>2. ptr[Hash[k]] \in Fds /\ Reach(ptr, ptr[Hash[k]], n)
    BY <1>1, <1>2, <2>1, LiveNodes, ReachNext
  <2> QED BY <1>2, <2>2, SessionTableConstants
<1>5. op' \in [kind : {"find"}, arg : Keys, after : Afters] /\ op'.arg = k
  BY DEF Find
<1>6. Finding'
  BY <1>2, <1>3, <1>4, <1>5 DEF Finding, Find
<1> QED BY <1>1, <1>3, <1>6 DEF IInv, Find

\* The call that starts tcp_find_by_fd or udp_find_by_fd.
LEMMA FindByFdSound ==
  ASSUME IInv, NEW fd \in Fds, NEW after \in {"keep", "remove"}, FindByFd(fd, after)
  PROVE  IInv'
<1>1. WellFormed(ptr, key) /\ ptr \in Pointers /\ key \in KeyMaps
  BY KindTells DEF FindByFd, IInv
<1>2. 0 \in Buckets /\ at' = ptr[0] /\ bucket' = 0 /\ Live' = Live
  BY SessionTableConstants DEF FindByFd, Live, Buckets
<1>3. at' \in Cells \cup {Null} /\ (at' # Null => at' \in Live)
  BY <1>1, <1>2, LiveNodes
<1>4. ASSUME fd \in Live
      PROVE  \/ Hash[key[fd]] > 0
             \/ Hash[key[fd]] = 0 /\ at' # Null /\ Reach(ptr, at', fd)
  <2>1. Hash[key[fd]] \in Buckets /\ Reach(ptr, Hash[key[fd]], fd) /\ 0 # fd
    BY <1>1, <1>2, <1>4, LiveNodes
  <2>2. CASE Hash[key[fd]] = 0
    <3>1. ptr[0] \in Fds /\ Reach(ptr, ptr[0], fd)
      BY <1>1, <1>2, <2>1, <2>2, LiveNodes, ReachNext
    <3> QED BY <1>2, <2>2, <3>1, SessionTableConstants
  <2> QED BY <2>1, <2>2 DEF Buckets
<1>5. op' \in [kind : {"findByFd"}, arg : Fds, after : {"keep", "remove"}] /\ op'.arg = fd
  BY DEF FindByFd
<1>6. FindingByFd'
  BY <1>2, <1>3, <1>4, <1>5 DEF FindingByFd, FindByFd
<1> QED BY <1>1, <1>2, <1>3, <1>6 DEF IInv, FindByFd

\* A walk passes a node: what it looks for is behind it.
LEMMA NextNodeSound == ASSUME IInv, NextNode PROVE IInv'
<1>1. WellFormed(ptr, key) /\ ptr \in Pointers /\ key \in KeyMaps
  BY KindTells DEF NextNode, Looking, IInv
<1>2. at \in Live /\ at \in Cells /\ at' = ptr[at] /\ Live' = Live
  BY <1>1, KindTells, LiveNodes DEF NextNode, Looking, Finding, FindingByFd, Live
<1>3. at' \in Cells \cup {Null} /\ (at' # Null => at' \in Live)
  BY <1>1, <1>2, LiveNodes
<1>4. ASSUME NEW n \in Live, n # at, Reach(ptr, at, n) PROVE at' # Null /\ Reach(ptr, at', n)
  BY <1>1, <1>2, <1>4, LiveNodes, ReachNext, SessionTableConstants
<1>5. CASE Is("find")
  <2>1. Finding /\ key[at] # op.arg
    BY <1>5, KindTells DEF NextNode, Matches
  <2>2. Finding'
    BY <1>2, <1>3, <1>4, <2>1 DEF Finding, NextNode
  <2> QED BY <1>1, <1>3, <2>2 DEF IInv, NextNode
<1>6. CASE Is("findByFd")
  <2>1. FindingByFd /\ at # op.arg
    BY <1>6, KindTells DEF NextNode, Matches, Is
  <2>2. FindingByFd'
    BY <1>2, <1>3, <1>4, <2>1 DEF FindingByFd, NextNode
  <2> QED BY <1>1, <1>3, <2>2 DEF IInv, NextNode
<1> QED BY <1>5, <1>6 DEF NextNode, Looking

\* The search by descriptor goes on to the next bucket.
LEMMA NextBucketSound == ASSUME IInv, NextBucket PROVE IInv'
<1>1. WellFormed(ptr, key) /\ ptr \in Pointers /\ key \in KeyMaps /\ FindingByFd
  BY KindTells DEF NextBucket, IInv
<1>2. /\ bucket' = bucket + 1 /\ bucket' \in Buckets /\ at' = ptr[bucket'] /\ Live' = Live
      /\ bucket \in Buckets /\ op' = op
  BY SessionTableConstants DEF NextBucket, Live, Buckets, IInv
<1>3. at' \in Cells \cup {Null} /\ (at' # Null => at' \in Live)
  BY <1>1, <1>2, LiveNodes
<1>4. ASSUME op.arg \in Live
      PROVE  \/ Hash[key[op.arg]] > bucket'
             \/ Hash[key[op.arg]] = bucket' /\ at' # Null /\ Reach(ptr, at', op.arg)
  <2>1. Hash[key[op.arg]] \in Buckets /\ Reach(ptr, Hash[key[op.arg]], op.arg)
        /\ bucket' # op.arg /\ op.arg \in Cells
    BY <1>1, <1>2, <1>4, LiveNodes
  <2>2. Hash[key[op.arg]] > bucket
    BY <1>1, <1>4 DEF FindingByFd, NextBucket
  <2>3. CASE Hash[key[op.arg]] = bucket'
    <3>1. ptr[bucket'] \in Fds /\ Reach(ptr, ptr[bucket'], op.arg)
      BY <1>1, <1>2, <2>1, <2>3, LiveNodes, ReachNext
    <3> QED BY <1>2, <2>3, <3>1, SessionTableConstants
  <2> QED BY <1>2, <2>1, <2>2, <2>3 DEF Buckets
<1>5. FindingByFd'
  BY <1>1, <1>2, <1>3, <1>4 DEF FindingByFd, NextBucket
<1> QED BY <1>1, <1>2, <1>3, <1>5 DEF IInv, NextBucket

\* The walk has ended: on the session, or on NULL when there is none.
LEMMA FoundSound == ASSUME IInv, Found PROVE IInv'
<1>1. WellFormed(ptr, key) /\ ptr \in Pointers /\ key \in KeyMaps
  BY KindTells DEF Found, Looking, IInv
<1>2. /\ ptr' = ptr /\ key' = key /\ Live' = Live /\ bucket' \in Buckets
      /\ at # Null => at \in Live
  BY KindTells, SessionTableConstants
     DEF Found, Looking, Finding, FindingByFd, Live, Buckets
<1>3. CASE at # Null /\ op.after \in {"remove", "replace"}
  <2>1. /\ op' = [kind |-> "remove", target |-> at, new |->
                    IF op.after = "replace" THEN op.arg ELSE Null]
        /\ at' = Hash[key[at]]
    BY <1>3 DEF Found
  <2>2. at' \in Buckets /\ at' \in Cells /\ at' \notin Fds /\ Reach(ptr, at', at)
    BY <1>1, <1>2, <1>3, <2>1, LiveNodes, SessionTableConstants
  <2>3. op.after = "replace" => Is("find") /\ op.arg \in Keys /\ key[at] = op.arg
    BY <1>3, KindTells DEF Found, Looking, Matches, Finding, FindingByFd, Is
  <2>4. Removing'
    BY <1>1, <1>2, <1>3, <2>1, <2>2, <2>3, LiveNodes DEF Removing
  <2> QED BY <1>1, <1>2, <2>2, <2>4 DEF IInv
<1>4. CASE ~(at # Null /\ op.after \in {"remove", "replace"})
  <2>1. /\ at' = Null
        /\ op' = IF at = Null /\ op.after \in {"replace", "create"}
                 THEN [kind |-> "create", new |-> op.arg] ELSE Quiet
    BY <1>4 DEF Found
  <2>2. CASE at = Null /\ op.after \in {"replace", "create"}
    <3>1. Finding
      BY <2>2, KindTells DEF Found, Looking, FindingByFd
    <3>2. op' \in [kind : {"create"}, new : Keys] /\ op'.new = op.arg
      BY <2>1, <2>2, <3>1 DEF Finding
    <3>3. Creating'
      BY <1>2, <2>1, <2>2, <3>1, <3>2 DEF Creating, Finding
    <3> QED BY <1>1, <1>2, <2>1, <3>3 DEF IInv
  <2>3. CASE ~(at = Null /\ op.after \in {"replace", "create"})
    BY <1>1, <1>2, <2>1, <2>3 DEF IInv, Idling
  <2> QED BY <2>2, <2>3
<1> QED BY <1>3, <1>4

\* tcp_remove has the node it looks for ahead of it, and never meets NULL.
LEMMA RemoveAhead ==
  ASSUME IInv, Is("remove")
  PROVE  /\ WellFormed(ptr, key) /\ Removing
         /\ ptr[at] \in Live /\ Reach(ptr, ptr[at], op.target)
<1>1. WellFormed(ptr, key) /\ Removing /\ ptr \in Pointers /\ key \in KeyMaps
  BY KindTells DEF IInv
<1>2. ptr[at] \in Fds /\ Reach(ptr, ptr[at], op.target)
  BY <1>1, LiveNodes, ReachNext DEF Removing
<1> QED BY <1>1, <1>2, LiveNodes, SessionTableConstants DEF Removing

\* tcp_remove steps over another session.
LEMMA RemoveSkipsSound == ASSUME IInv, RemoveSkips PROVE IInv'
<1>1. /\ WellFormed(ptr, key) /\ Removing /\ Live' = Live
      /\ at' = ptr[at] /\ at' \in Live /\ Reach(ptr, at', op.target)
  BY RemoveAhead DEF RemoveSkips, Live
<1>2. at' \in Cells /\ at' # op.target
  BY <1>1, LiveNodes DEF RemoveSkips, IInv
<1>3. Removing'
  BY <1>1, <1>2 DEF Removing, RemoveSkips
<1> QED BY <1>1, <1>2, <1>3 DEF IInv, RemoveSkips

\* tcp_remove unlinks and frees the session it stands at.
LEMMA RemoveSound == ASSUME IInv, Remove PROVE IInv'
<1>1. /\ WellFormed(ptr, key) /\ Removing /\ ptr[at] = op.target /\ ptr[at] # Null
      /\ ptr \in Pointers /\ key \in KeyMaps /\ at \in Cells /\ op.target \in Fds
  BY RemoveAhead, SessionTableConstants DEF Remove, Live, Removing, IInv
<1>2. ptr' = Cut(ptr, at, op.target) /\ key' = Freed(key, op.target)
  BY <1>1 DEF Remove, Unlinked, Cut, Freed
<1>3. /\ ptr' \in Pointers /\ key' \in KeyMaps /\ WellFormed(ptr', key')
      /\ Nodes(key') = Nodes(key) \ {op.target}
      /\ \A m \in Nodes(key') : key'[m] = key[m]
  BY <1>1, <1>2, UnlinkKeeps
<1>4. CASE op.new = Null
  BY <1>3, <1>4 DEF Remove, IInv, Idling
<1>5. CASE op.new # Null
  <2>1. op' \in [kind : {"create"}, new : Keys] /\ op'.new = op.new
    BY <1>1, <1>5 DEF Remove, Removing
  <2>2. op.target \in Nodes(key) /\ key[op.target] = op.new
    BY <1>1, <1>5, LiveNodes DEF Removing
  <2>3. \A n \in Nodes(key') : key'[n] # op.new
    BY <1>1, <1>3, <2>2 DEF WellFormed, KeysDiffer
  <2>4. Live' = Nodes(key')
    BY DEF Live, Nodes
  <2>5. Creating'
    BY <2>1, <2>3, <2>4 DEF Creating, Remove
  <2> QED BY <1>3, <2>5 DEF Remove, IInv
<1> QED BY <1>4, <1>5

\* A new session is linked in at the head of its bucket.
LEMMA CreateSound == ASSUME IInv, Create PROVE IInv'
<1>1. WellFormed(ptr, key) /\ Creating /\ ptr \in Pointers /\ key \in KeyMaps
  BY KindTells DEF Create, IInv
<1>2. at' \in Cells \cup {Null} /\ bucket' \in Buckets /\ Idling'
  BY SessionTableConstants DEF Create, Finish, Buckets, Idling
<1>3. CASE UNCHANGED <<ptr, key>>
  BY <1>1, <1>2, <1>3 DEF IInv
<1>4. CASE \E n \in Fds \ Live : ptr' = Linked(n, op.new) /\ key' = [key EXCEPT ![n] = op.new]
  <2>1. PICK n \in Fds \ Live : ptr' = Linked(n, op.new) /\ key' = [key EXCEPT ![n] = op.new]
    BY <1>4
  <2>2. /\ n \in Fds \ Nodes(key) /\ op.new \in Keys
        /\ \A m \in Nodes(key) : key[m] # op.new
    BY <1>1, <2>1, LiveNodes DEF Creating
  <2>3. ptr' = [ptr EXCEPT ![n] = ptr[Hash[op.new]], ![Hash[op.new]] = n]
    BY <2>1 DEF Linked
  <2>4. ptr' \in Pointers /\ key' \in KeyMaps /\ WellFormed(ptr', key')
    BY <1>1, <2>1, <2>2, <2>3, LinkKeeps, ZenonT(60)
  <2> QED BY <1>2, <2>4 DEF IInv
<1> QED BY <1>3, <1>4 DEF Create

\* The call that starts cleanup.
LEMMA CleanupSound ==
  ASSUME IInv, NEW idle \in SUBSET Live, Cleanup(idle)
  PROVE  IInv'
<1>1. WellFormed(ptr, key) /\ ptr \in Pointers /\ key \in KeyMaps
  BY KindTells DEF Cleanup, IInv
<1>2. /\ at' = 0 /\ bucket' = 0 /\ 0 \in Buckets /\ 0 \in Cells /\ 0 \notin Fds
      /\ ptr' = ptr /\ key' = key /\ Live' = Live
  BY SessionTableConstants DEF Cleanup, Live, Buckets, Cells
<1>3. op' \in [kind : {"cleanup"}, idle : SUBSET Fds]
  BY <1>1, LiveNodes DEF Cleanup
<1>4. ASSUME NEW n \in Live
      PROVE  \/ Hash[key[n]] > 0
             \/ Hash[key[n]] = 0 /\ 0 # n /\ Reach(ptr, 0, n)
  BY <1>1, <1>2, LiveNodes DEF Buckets
<1>5. Cleaning'
  BY <1>2, <1>3, <1>4 DEF Cleaning
<1> QED BY <1>1, <1>2, <1>5 DEF IInv

\* The cleanup frees an idle session or steps over another.
LEMMA CleanupNodeSound == ASSUME IInv, CleanupNode PROVE IInv'
<1>0. PICK s : s = ptr[at]
  OBVIOUS
<1>1. /\ WellFormed(ptr, key) /\ Cleaning /\ ptr \in Pointers /\ key \in KeyMaps
      /\ at \in Cells /\ s = ptr[at] /\ s # Null /\ op' = op /\ bucket' = bucket /\ bucket \in Buckets
  BY <1>0, KindTells DEF CleanupNode, IInv, Cleaning
<1>2. s \in Live /\ s \in Cells /\ s \in Fds
  BY <1>1, LiveNodes
<1>3. CASE s \in op.idle
  <2>1. ptr' = Cut(ptr, at, s) /\ key' = Freed(key, s) /\ at' = at
    BY <1>0, <1>3 DEF CleanupNode, Unlinked, Stays, Cut, Freed
  <2>2. /\ at # s
        /\ ptr' \in Pointers /\ key' \in KeyMaps /\ WellFormed(ptr', key')
        /\ Nodes(key') = Nodes(key) \ {s}
        /\ \A m \in Nodes(key') : key'[m] = key[m]
        /\ \A a \in Cells \ {s}, m \in Nodes(key') : Reach(ptr, a, m) => Reach(ptr', a, m)
    BY <1>1, <1>2, <2>1, UnlinkKeeps
  <2>3. Live' = Nodes(key') /\ Live = Nodes(key)
    BY DEF Live, Nodes
  <2>4. Cleaning'
    BY <1>1, <2>1, <2>2, <2>3 DEF Cleaning
  <2> QED BY <1>1, <2>1, <2>2, <2>4 DEF IInv
<1>4. CASE s \notin op.idle
  <2>1. ptr' = ptr /\ key' = key /\ at' = s /\ Live' = Live
    BY <1>0, <1>4 DEF CleanupNode, Live
  <2>2. ASSUME NEW n \in Live \cap op.idle
        PROVE  \/ Hash[key[n]] > bucket
               \/ Hash[key[n]] = bucket /\ s # n /\ Reach(ptr, s, n)
    <3>1. CASE Hash[key[n]] = bucket /\ at # n /\ Reach(ptr, at, n)
      <4>1. n \in Cells
        BY <1>1, LiveNodes
      <4>2. Reach(ptr, s, n)
        BY <1>1, <3>1, <4>1, ReachNext
      <4> QED BY <1>4, <3>1, <4>2
    <3> QED BY <1>1, <3>1 DEF Cleaning
  <2>3. Cleaning'
    BY <1>1, <1>2, <2>1, <2>2 DEF Cleaning
  <2> QED BY <1>1, <1>2, <2>1, <2>3 DEF IInv
<1> QED BY <1>3, <1>4

\* At the end of a chain no idle session of the bucket is left.
LEMMA BucketIsClean ==
  ASSUME IInv, CleanupBucket, NEW n \in Live \cap op.idle
  PROVE  Hash[key[n]] > bucket
<1>1. WellFormed(ptr, key) /\ Cleaning /\ ptr \in Pointers /\ key \in KeyMaps
  BY KindTells DEF CleanupBucket, IInv
<1>2. n \in Cells
  BY <1>1, LiveNodes
<1>3. ~(at # n /\ Reach(ptr, at, n))
  BY <1>1, <1>2, ReachNext, SessionTableConstants DEF CleanupBucket, Cleaning
<1> QED BY <1>1, <1>3 DEF Cleaning

\* The cleanup goes on to the next bucket, or is done.
LEMMA CleanupBucketSound == ASSUME IInv, CleanupBucket PROVE IInv'
<1>1. /\ WellFormed(ptr, key) /\ Cleaning /\ ptr \in Pointers /\ key \in KeyMaps
      /\ bucket \in Buckets /\ ptr' = ptr /\ key' = key /\ Live' = Live
  BY KindTells DEF CleanupBucket, IInv, Live
<1>2. CASE bucket < Size - 1
  <2>1. /\ op' = op /\ bucket' = bucket + 1 /\ at' = bucket'
        /\ bucket' \in Buckets /\ bucket' \in Cells /\ bucket' \notin Fds
    BY <1>1, <1>2, SessionTableConstants DEF CleanupBucket, Buckets, Cells
  <2>2. ASSUME NEW n \in Live \cap op.idle
        PROVE  \/ Hash[key[n]] > bucket'
               \/ Hash[key[n]] = bucket' /\ bucket' # n /\ Reach(ptr, bucket', n)
    <3>1. Hash[key[n]] > bucket
      BY BucketIsClean
    <3>2. Hash[key[n]] \in Buckets /\ Reach(ptr, Hash[key[n]], n) /\ n \in Fds
      BY <1>1, LiveNodes
    <3> QED BY <1>1, <2>1, <3>1, <3>2 DEF Buckets
  <2>3. Cleaning'
    BY <1>1, <2>1, <2>2 DEF Cleaning
  <2> QED BY <1>1, <2>1, <2>3 DEF IInv
<1>3. CASE ~(bucket < Size - 1)
  BY <1>1, <1>3, SessionTableConstants DEF CleanupBucket, Finish, IInv, Idling, Buckets
<1> QED BY <1>2, <1>3

\* The call that starts the freeing of engine_stop.
LEMMA StopSound == ASSUME IInv, Stop PROVE IInv'
<1>1. /\ WellFormed(ptr, key) /\ ptr \in Pointers /\ key \in KeyMaps
      /\ ptr' = ptr /\ key' = key /\ at' = ptr[0] /\ bucket' = 0
  BY KindTells DEF Stop, IInv
<1>2. StopFormed(ptr', key', bucket', at')
  BY <1>1, StopBegins
<1>3. Stopping'
  BY <1>2 DEF Stopping, Stop
<1>4. 0 \in Buckets /\ at' \in Cells \cup {Null}
  BY <1>1, SessionTableConstants DEF Buckets, Cells, Pointers
<1> QED BY <1>1, <1>3, <1>4 DEF IInv

\* engine_stop frees the session it stands at.
LEMMA StopNodeSound == ASSUME IInv, StopNode PROVE IInv'
<1>1. /\ Stopping /\ ptr \in Pointers /\ key \in KeyMaps /\ bucket \in Buckets
      /\ op' = op /\ bucket' = bucket
      /\ ptr' = [ptr EXCEPT ![at] = Null] /\ key' = [key EXCEPT ![at] = Null] /\ at' = ptr[at]
  BY KindTells DEF StopNode, IInv
<1>2. at \in Fds /\ StopFormed(ptr, key, bucket, at)
  BY <1>1 DEF StopNode, Stopping, StopFormed, Nodes
<1>3. ptr' \in Pointers /\ key' \in KeyMaps /\ StopFormed(ptr', key', bucket, ptr[at])
  BY <1>1, <1>2, StopKeeps
<1>4. at' \in Cells \cup {Null}
  BY <1>1, <1>2 DEF Pointers, Cells
<1> QED BY <1>1, <1>3, <1>4 DEF IInv, Stopping

\* engine_stop empties a bucket and goes on, or is done.
LEMMA StopBucketSound == ASSUME IInv, StopBucket PROVE IInv'
<1>1. /\ Stopping /\ ptr \in Pointers /\ key \in KeyMaps /\ bucket \in Buckets
      /\ ptr' = [ptr EXCEPT ![bucket] = Null] /\ key' = key
      /\ StopFormed(ptr, key, bucket, Null)
  BY KindTells DEF StopBucket, IInv, Emptied, Stopping
<1>2. CASE bucket < Size - 1
  <2>1. /\ bucket' = bucket + 1 /\ at' = ptr[bucket + 1] /\ op' = op
        /\ bucket' \in Buckets /\ bucket + 1 \in Cells
    BY <1>1, <1>2, SessionTableConstants DEF StopBucket, Buckets, Cells
  <2>2. ptr' \in Pointers /\ StopFormed(ptr', key, bucket + 1, ptr[bucket + 1])
    BY <1>1, <1>2, StopGoesOn
  <2>3. at' \in Cells \cup {Null}
    BY <1>1, <2>1 DEF Pointers, Cells
  <2> QED BY <1>1, <2>1, <2>2, <2>3 DEF IInv, Stopping
<1>3. CASE ~(bucket < Size - 1)
  <2>1. op' = Quiet /\ at' = Null /\ bucket' = 0 /\ 0 \in Buckets
    BY <1>3, SessionTableConstants DEF StopBucket, Finish, Buckets
  <2>2. ptr' \in Pointers /\ WellFormed(ptr', key)
    BY <1>1, <1>3, StopEnds
  <2> QED BY <1>1, <2>1, <2>2 DEF IInv, Idling
<1> QED BY <1>2, <1>3

\* Every step of every operation preserves the invariant.
LEMMA StepSound == ASSUME IInv, [Next]_vars PROVE IInv'
<1>1. ASSUME NEW k \in Keys, NEW after \in Afters, Find(k, after) PROVE IInv'
  BY <1>1, FindSound
<1>2. ASSUME NEW fd \in Fds, NEW after \in {"keep", "remove"}, FindByFd(fd, after) PROVE IInv'
  BY <1>2, FindByFdSound
<1>3. ASSUME NEW idle \in SUBSET Live, Cleanup(idle) PROVE IInv'
  BY <1>3, CleanupSound
<1>4. CASE Step
  BY <1>4, NextNodeSound, NextBucketSound, FoundSound, RemoveSkipsSound, RemoveSound,
     CreateSound, CleanupNodeSound, CleanupBucketSound, StopNodeSound, StopBucketSound DEF Step
<1>5. CASE UNCHANGED vars
  <2>1. Live' = Live
    BY <1>5 DEF vars, Live
  <2> QED
    BY <1>5, <2>1 DEF vars, IInv, Idling, Stopping, Finding, FindingByFd, Removing, Creating, Cleaning
<1> QED BY <1>1, <1>2, <1>3, <1>4, <1>5, StopSound DEF Next, Call, Afters

\* The invariant holds in every reachable state.
LEMMA AlwaysSound == Spec => []IInv
<1> QED BY InitSound, StepSound, PTL DEF Spec

-----------------------------------------------------------------------------
\* The table is well formed between any two steps of an operation, whatever
\* the keys, their hashes and the size of the table (session_add, tcp_remove,
\* cleanup, engine_stop).
LEMMA SoundMeans == IInv => TableSound
<1> SUFFICES ASSUME IInv PROVE TableSound
  OBVIOUS
<1>1. TypeOK
  BY KindTells DEF TypeOK, IInv, Pointers, KeyMaps
<1>2. NothingDangles
  <2> SUFFICES ASSUME ~Is("stop") PROVE NothingDangles
    BY DEF NothingDangles
  <2>1. WellFormed(ptr, key) /\ ptr \in Pointers /\ key \in KeyMaps
    BY KindTells DEF IInv
  <2>2. \A c \in Buckets \cup Live : ptr[c] \in Live \cup {Null}
    BY <2>1, LiveNodes
  <2>3. at \in Fds => at \in Live
    BY KindTells, SessionTableConstants
       DEF IInv, Stopping, Idling, Quiet, Finding, FindingByFd, Removing, Creating, Cleaning, Is
  <2>4. Is("remove") => op.target \in Live
    BY KindTells DEF Removing
  <2> QED BY <2>2, <2>3, <2>4 DEF NothingDangles
<1>3. LinkedOnce
  <2> SUFFICES ASSUME ~Is("stop"), NEW n \in Live
               PROVE  /\ Cardinality({c \in Buckets \cup Live : ptr[c] = n}) = 1
                      /\ \A c \in Buckets \cup Live : ptr[c] = n =>
                           Hash[key[n]] = IF c \in Buckets THEN c ELSE Hash[key[c]]
    BY DEF LinkedOnce
  <2>1. WellFormed(ptr, key) /\ ptr \in Pointers /\ key \in KeyMaps
    BY KindTells DEF IInv
  <2>2. PICK d \in Cells : d # n /\ ptr[d] = n
    <3>1. /\ Hash[key[n]] \in Cells /\ Hash[key[n]] # n
          /\ Reach(ptr, Hash[key[n]], n) /\ n \in Fds
      BY <2>1, LiveNodes
    <3> QED BY <2>1, <3>1, ReachFrom
  <2>3. n # Null
    BY <2>1, LiveNodes, SessionTableConstants DEF Live
  <2>4. d \in Buckets \cup Live
    <3> SUFFICES ASSUME d \in Fds PROVE key[d] # Null
      BY DEF Cells, Live
    <3> QED BY <2>1, <2>2, <2>3 DEF WellFormed, FreeIsCut
  <2>5. \A c \in Buckets \cup Live : ptr[c] = n => c = d
    BY <2>1, <2>2, <2>3, LiveNodes DEF WellFormed, OneWayIn
  <2>6. {c \in Buckets \cup Live : ptr[c] = n} = {d}
    BY <2>2, <2>4, <2>5
  <2>7. \A c \in Buckets \cup Live : ptr[c] = n => Hash[key[n]] = Home(c, key)
    BY <2>1, <2>3, LiveNodes DEF WellFormed, InItsBucket
  <2> QED BY <2>6, <2>7, FS_Singleton DEF Home
<1> QED BY <1>1, <1>2, <1>3 DEF TableSound

\* No operation leaves a pointer to freed memory, a session linked twice or not
\* at all, or one in another key's bucket.
THEOREM TableIsSound == Spec => []TableSound
BY AlwaysSound, SoundMeans, PTL

\* One step of cleanup removes idle sessions only, and the last one leaves none.
LEMMA CleanupStep ==
  ASSUME IInv, [Next]_vars, Is("cleanup")
  PROVE  /\ Live \ Live' \subseteq op.idle
         /\ op'.kind # "cleanup" => Live' \cap op.idle = {}
<1>1. CASE CleanupNode
  <2>1. op'.kind = "cleanup"
    BY <1>1 DEF CleanupNode, Is
  <2>2. Live \ Live' \subseteq op.idle
    <3>1. \A s \in op.idle : key' = [key EXCEPT ![s] = Null] => Live \ Live' \subseteq {s}
      BY DEF Live, IInv, KeyMaps
    <3>2. key' = key => Live' = Live
      BY DEF Live
    <3> QED BY <1>1, <3>1, <3>2 DEF CleanupNode
  <2> QED BY <2>1, <2>2
<1>2. CASE CleanupBucket
  <2>1. Live' = Live
    BY <1>2 DEF CleanupBucket, Live
  <2>2. ASSUME op'.kind # "cleanup", NEW n \in Live \cap op.idle PROVE FALSE
    <3>1. ~(bucket < Size - 1)
      BY <1>2, <2>2 DEF CleanupBucket, Is
    <3>2. Hash[key[n]] > bucket
      BY <1>2, BucketIsClean
    <3>3. Hash[key[n]] \in Buckets /\ bucket \in Buckets
      BY KindTells, LiveNodes DEF IInv
    <3> QED BY <3>1, <3>2, <3>3, SessionTableConstants DEF Buckets
  <2> QED BY <2>1, <2>2
<1>3. CASE UNCHANGED vars
  BY <1>3 DEF vars, Live, Is
<1> QED
  BY <1>1, <1>2, <1>3 DEF Next, Call, Step, Is, Looking, Find, FindByFd, Cleanup, Stop,
     NextNode, NextBucket, Found, RemoveSkips, Remove, Create, StopNode, StopBucket

\* cleanup removes every session that is idle and no other,
\* although they cut the chain they walk.
THEOREM CleanupExact == Spec => CleanupIsExact
<1>1. IInv /\ [Next]_vars =>
        [Is("cleanup") =>
           /\ Live \ Live' \subseteq op.idle
           /\ op'.kind # "cleanup" => Live' \cap op.idle = {}]_vars
  BY CleanupStep
<1> QED BY <1>1, AlwaysSound, PTL DEF Spec, CleanupIsExact

-----------------------------------------------------------------------------
\* The refinement.

SessionsOf(k) == [x \in Keys |-> {n \in Fds : k[n] = x}]

\* A session that is freed was the only one of its key.
LEMMA FreeingDrops ==
  ASSUME NEW k \in KeyMaps, KeysDiffer(k), NEW n \in Nodes(k),
         NEW l, l = [k EXCEPT ![n] = Null]
  PROVE  /\ k[n] \in Keys
         /\ SessionsOf(l) = [SessionsOf(k) EXCEPT ![k[n]] = {}]
<1>1. n \in Fds /\ k[n] \in Keys /\ \A x \in Keys : x # Null
  BY SessionTableConstants DEF Nodes, KeyMaps
<1>2. \A m \in Fds : l[m] = IF m = n THEN Null ELSE k[m]
  BY <1>1 DEF KeyMaps
<1>3. \A m \in Fds : k[m] = k[n] => m = n
  BY <1>1 DEF KeysDiffer, Nodes
<1>4. ASSUME NEW x \in Keys
      PROVE  SessionsOf(l)[x] = [SessionsOf(k) EXCEPT ![k[n]] = {}][x]
  <2>1. CASE x = k[n]
    <3>1. {m \in Fds : l[m] = x} = {}
      BY <2>1, <1>1, <1>2, <1>3
    <3> QED BY <2>1, <3>1 DEF SessionsOf
  <2>2. CASE x # k[n]
    <3>1. {m \in Fds : l[m] = x} = {m \in Fds : k[m] = x}
      BY <2>2, <1>1, <1>2
    <3> QED BY <2>2, <3>1 DEF SessionsOf
  <2> QED BY <2>1, <2>2
<1> QED BY <1>1, <1>4 DEF SessionsOf

\* No two sessions have one key, also while engine_stop frees them.
LEMMA AlwaysDiffer == ASSUME IInv PROVE KeysDiffer(key) /\ key \in KeyMaps
BY DEF IInv, WellFormed, Stopping, StopFormed

\* A lookup's last step answers what the map answers.
LEMMA FoundRefines ==
  ASSUME IInv, Found
  PROVE  \/ \E k \in Keys : Map!Find(k)
         \/ \E fd \in Fds : Map!FindByFd(fd)
<1>1. WellFormed(ptr, key) /\ ptr \in Pointers /\ key \in KeyMaps /\ KeysDiffer(key)
  BY KindTells, AlwaysDiffer DEF Found, Looking, IInv
<1>2. /\ answer' = [asked |-> {op.arg}, found |-> {at} \ {Null}]
      /\ key' = key
  BY DEF Found
<1>3. CASE Is("find")
  <2>1. op.arg \in Keys /\ Finding /\ (at = Null \/ key[at] = op.arg)
    BY <1>3, KindTells DEF Found, Matches, Finding
  <2>2. {n \in Fds : key[n] = op.arg} = {at} \ {Null}
    <3>1. op.arg # Null
      BY <2>1, SessionTableConstants
    <3>2. CASE at = Null
      BY <2>1, <3>1, <3>2 DEF Finding, Live
    <3>3. CASE at # Null
      <4>1. at \in Fds /\ key[at] = op.arg
        BY <2>1, <3>3 DEF Finding, Live
      <4> QED BY <1>1, <3>1, <3>3, <4>1 DEF KeysDiffer, Nodes
    <3> QED BY <3>2, <3>3
  <2>3. Map!Find(op.arg)
    BY <1>2, <2>1, <2>2 DEF Map!Find
  <2> QED BY <2>1, <2>3
<1>4. CASE Is("findByFd")
  <2>1. op.arg \in Fds /\ FindingByFd
    BY <1>4, KindTells DEF FindingByFd
  <2>2. IF at = Null THEN bucket = Size - 1 ELSE at = op.arg
    BY <1>4 DEF Found, Matches, Is
  <2>3. {op.arg} \cap Live = {at} \ {Null}
    <3>1. CASE at = Null
      <4> SUFFICES ASSUME op.arg \in Live PROVE FALSE
        BY <3>1
      <4>1. Hash[key[op.arg]] \in Buckets /\ Hash[key[op.arg]] > bucket
        BY <1>1, <2>1, <3>1, LiveNodes DEF FindingByFd
      <4> QED BY <2>2, <3>1, <4>1, SessionTableConstants DEF Buckets
    <3>2. CASE at # Null
      BY <2>1, <2>2, <3>2 DEF FindingByFd
    <3> QED BY <3>1, <3>2
  <2>4. UNION {SessionsOf(key)[k] : k \in Keys} = Live
    BY <1>1, SessionTableConstants DEF SessionsOf, Live, KeyMaps
  <2>5. Map!FindByFd(op.arg)
    BY <1>2, <2>3, <2>4 DEF Map!FindByFd, SessionsOf
  <2> QED BY <2>1, <2>5
<1> QED BY <1>3, <1>4 DEF Found, Looking

\* Every step of the table is a step of the map, or none.
LEMMA StepRefines ==
  ASSUME IInv, [Next]_vars
  PROVE  [Map!Next]_<<SessionsOf(key), answer>>
<1>0. KeysDiffer(key) /\ key \in KeyMaps
  BY AlwaysDiffer
<1>1. CASE UNCHANGED <<key, answer>>
  BY <1>1 DEF SessionsOf
<1>2. CASE Found
  BY <1>2, FoundRefines DEF Map!Next
<1>3. ASSUME NEW n \in Nodes(key), key' = [key EXCEPT ![n] = Null], answer' = answer
      PROVE  Map!Next
  <2>1. key[n] \in Keys /\ SessionsOf(key') = [SessionsOf(key) EXCEPT ![key[n]] = {}]
    BY <1>0, <1>3, FreeingDrops
  <2> QED BY <1>3, <2>1 DEF Map!Next, Map!Drop, SessionsOf
<1>4. CASE Remove
  <2>1. op.target \in Nodes(key)
    BY <1>4, KindTells DEF Remove, Removing, Live, Nodes
  <2> QED BY <1>3, <1>4, <2>1 DEF Remove
<1>5. CASE Create
  <2> SUFFICES ASSUME NEW n \in Fds \ Live, key' = [key EXCEPT ![n] = op.new]
               PROVE  Map!Next
    BY <1>1, <1>5 DEF Create
  <2>1. Creating /\ op.new \in Keys /\ answer' = answer
    BY <1>5, KindTells DEF Create, Creating
  <2>2. \A m \in Fds : key'[m] = IF m = n THEN op.new ELSE key[m]
    BY <1>0 DEF KeyMaps
  <2>3. /\ SessionsOf(key)[op.new] = {}
        /\ \A x \in Keys : n \notin SessionsOf(key)[x]
    BY <2>1, SessionTableConstants DEF Creating, SessionsOf, Live
  <2>4. SessionsOf(key') = [SessionsOf(key) EXCEPT ![op.new] = {n}]
    <3>1. ASSUME NEW x \in Keys
          PROVE  SessionsOf(key')[x] = IF x = op.new THEN {n} ELSE SessionsOf(key)[x]
      <4>1. /\ SessionsOf(key')[x] = {m \in Fds : key'[m] = x}
            /\ SessionsOf(key)[x] = {m \in Fds : key[m] = x}
            /\ n \notin SessionsOf(key)[x] /\ n \in Fds
        BY <2>3 DEF SessionsOf
      <4>2. CASE x = op.new
        <5>1. \A m \in Fds : key[m] # x
          BY <2>1, <2>3, <4>1, <4>2
        <5>2. {m \in Fds : key'[m] = x} = {n}
          BY <2>2, <4>1, <4>2, <5>1
        <5> QED BY <4>1, <4>2, <5>2
      <4>3. CASE x # op.new
        <5>1. {m \in Fds : key'[m] = x} = {m \in Fds : key[m] = x}
          BY <2>2, <4>1, <4>3
        <5> QED BY <4>1, <4>3, <5>1
      <4> QED BY <4>2, <4>3
    <3> QED BY <3>1 DEF SessionsOf
  <2> QED BY <2>1, <2>3, <2>4 DEF Map!Next, Map!Put, SessionsOf
<1>6. CASE CleanupNode
  <2>1. ptr[at] \in Nodes(key)
    BY <1>6, KindTells, LiveNodes DEF CleanupNode, Cleaning, IInv
  <2> QED BY <1>1, <1>3, <1>6, <2>1 DEF CleanupNode
<1>7. CASE StopNode
  <2>1. at \in Nodes(key)
    BY <1>7, KindTells DEF StopNode, Stopping, StopFormed
  <2> QED BY <1>3, <1>7, <2>1 DEF StopNode
<1> QED
  BY <1>1, <1>2, <1>4, <1>5, <1>6, <1>7 DEF Next, Call, Step, vars, Find, FindByFd, Cleanup,
     Stop, NextNode, NextBucket, RemoveSkips, CleanupBucket, StopBucket

\* The chains implement the map: every lookup finds exactly the session that
\* exists, and no key ever has two.
THEOREM ImplementsMap == Spec => IsSessionMap
<1>1. Init => Map!Init
  BY SessionTableConstants DEF Init, Map!Init
<1>2. IInv /\ [Next]_vars =>
        [Map!Next]_<<[k \in Keys |-> {n \in Fds : key[n] = k}], answer>>
  BY StepRefines DEF SessionsOf
<1> QED BY <1>1, <1>2, AlwaysSound, PTL DEF Spec, IsSessionMap, Map!Spec

=============================================================================
