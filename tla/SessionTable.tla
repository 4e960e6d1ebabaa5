----------------------------- MODULE SessionTable -----------------------------
(***************************************************************************)
(* The hash table of sessions, tcp_table or udp_table: buckets of singly   *)
(* linked nodes, walked one link at a time.  Each operation runs under the *)
(* table's lock, so one is under way at a time; a step is one turn of its  *)
(* loop.  A session is named by its descriptor.                            *)
(*                                                                         *)
(* ptr[x] is the pointer a cell x holds: the head of a bucket, or the next *)
(* field of a node.  That is what a "pp" of the code points to.            *)
(***************************************************************************)
EXTENDS Integers, FiniteSets

CONSTANTS
  Keys,         (* 4-tuples                                                *)
  Fds,          (* descriptors, hence sessions                             *)
  Size,         (* SESSION_TABLE_SIZE                                      *)
  Hash,         (* session_hash: key -> bucket                             *)
  Null          (* NULL, and the key of memory that is not a session       *)

Buckets == 0 .. Size - 1

ASSUME SessionTableConstants ==
  /\ Size \in Nat \ {0}
  /\ Hash \in [Keys -> Buckets]
  /\ Null \notin Keys \cup Fds
  /\ Fds \cap Buckets = {}

VARIABLES
  ptr,      (* cell -> the node it points to, or Null                      *)
  key,      (* node -> its session's key, Null when it is not allocated    *)
  op,       (* the operation under way                                     *)
  at,       (* its position: the node s, or the cell pp                    *)
  bucket,   (* its loop counter i                                          *)
  answer    (* the last lookup and what it found                           *)

vars == <<ptr, key, op, at, bucket, answer>>

Cells  == Buckets \cup Fds
Live   == {n \in Fds : key[n] # Null}
Quiet  == [kind |-> "none"]
Is(kind) == op.kind = kind

Init ==
  /\ ptr = [c \in Cells |-> Null]
  /\ key = [n \in Fds |-> Null]
  /\ op = Quiet /\ at = Null /\ bucket = 0
  /\ answer = [asked |-> {}, found |-> {}]

Finish == op' = Quiet /\ at' = Null /\ bucket' = 0

\* A key is looked up, for a handler that then (after) replaces the session,
\* removes it, leaves it alone, or creates one that is missing (UDP).
Find(k, after) ==
  /\ Is("none")
  /\ op' = [kind |-> "find", arg |-> k, after |-> after]
  /\ at' = ptr[Hash[k]]
  /\ UNCHANGED <<ptr, key, bucket, answer>>

FindByFd(fd, after) ==
  /\ Is("none")
  /\ op' = [kind |-> "findByFd", arg |-> fd, after |-> after]
  /\ at' = ptr[0] /\ bucket' = 0
  /\ UNCHANGED <<ptr, key, answer>>

\* Fault: two 4-tuples of one bucket are not told apart.
MatchesBucket(n) ==
  IF Is("find") THEN Hash[key[n]] = Hash[op.arg] ELSE n = op.arg

Matches(n) == IF Is("find") THEN key[n] = op.arg ELSE n = op.arg

Looking == Is("find") \/ Is("findByFd")

NextNode ==
  /\ Looking /\ at # Null /\ ~Matches(at)
  /\ at' = ptr[at]
  /\ UNCHANGED <<ptr, key, op, bucket, answer>>

NextBucket ==
  /\ Is("findByFd") /\ at = Null /\ bucket < Size - 1
  /\ bucket' = bucket + 1
  /\ at' = ptr[bucket + 1]
  /\ UNCHANGED <<ptr, key, op, answer>>

\* The walk ends on the session or on NULL, and the handler goes on with it.
\* tcp_remove walks the bucket again, from its head.
Found ==
  /\ Looking
  /\ IF at = Null THEN Is("find") \/ bucket = Size - 1 ELSE Matches(at)
  /\ answer' = [asked |-> {op.arg}, found |-> {at} \ {Null}]
  /\ bucket' = 0
  /\ IF at # Null /\ op.after \in {"remove", "replace"}
     THEN /\ op' = [kind |-> "remove", target |-> at, new |->
                      IF op.after = "replace" THEN op.arg ELSE Null]
          /\ at' = Hash[key[at]]
     ELSE /\ op' = IF at = Null /\ op.after \in {"replace", "create"}
                   THEN [kind |-> "create", new |-> op.arg] ELSE Quiet
          /\ at' = Null
  /\ UNCHANGED <<ptr, key>>

\* Fault: pp does not move on.
RemoveSkipsNowhere ==
  /\ Is("remove") /\ ptr[at] \notin {op.target, Null}
  /\ UNCHANGED vars

RemoveSkips ==
  /\ Is("remove") /\ ptr[at] \notin {op.target, Null}
  /\ at' = ptr[at]
  /\ UNCHANGED <<ptr, key, op, bucket, answer>>

Unlinked(cell, n) == [ptr EXCEPT ![cell] = ptr[n], ![n] = Null]

\* The node is freed whether or not the walk met it.
Remove ==
  /\ Is("remove") /\ ptr[at] \in {op.target, Null}
  /\ ptr' = IF ptr[at] = op.target THEN Unlinked(at, op.target) ELSE ptr
  /\ key' = [key EXCEPT ![op.target] = Null]
  /\ op' = IF op.new = Null THEN Quiet ELSE [kind |-> "create", new |-> op.new]
  /\ at' = Null
  /\ UNCHANGED <<bucket, answer>>

\* Fault: the rest of the bucket is forgotten.
LinkedAlone(n, k) == [ptr EXCEPT ![Hash[k]] = n]

Linked(n, k) == [ptr EXCEPT ![n] = ptr[Hash[k]], ![Hash[k]] = n]

\* socket() and protect() may fail; a new session goes to its bucket's head.
Create ==
  /\ Is("create")
  /\ \/ \E n \in Fds \ Live :
          /\ ptr' = Linked(n, op.new)
          /\ key' = [key EXCEPT ![n] = op.new]
     \/ UNCHANGED <<ptr, key>>
  /\ Finish
  /\ UNCHANGED answer

\* cleanup: the sessions idle for too long, and only they, go.
Cleanup(idle) ==
  /\ Is("none")
  /\ op' = [kind |-> "cleanup", idle |-> idle]
  /\ at' = 0 /\ bucket' = 0
  /\ UNCHANGED <<ptr, key, answer>>

\* Fault: pp moves on although the node after it was not looked at.
StaysNot(cell, n) == IF ptr[n] = Null THEN cell ELSE ptr[n]

\* After a removal the cell already holds the next node.
Stays(cell, n) == cell

CleanupNode ==
  /\ Is("cleanup") /\ ptr[at] # Null
  /\ LET s == ptr[at] IN
     IF s \in op.idle
     THEN ptr' = Unlinked(at, s) /\ key' = [key EXCEPT ![s] = Null] /\ at' = Stays(at, s)
     ELSE at' = s /\ UNCHANGED <<ptr, key>>
  /\ UNCHANGED <<op, bucket, answer>>

CleanupBucket ==
  /\ Is("cleanup") /\ ptr[at] = Null
  /\ IF bucket < Size - 1
     THEN bucket' = bucket + 1 /\ at' = bucket + 1 /\ UNCHANGED op
     ELSE Finish
  /\ UNCHANGED <<ptr, key, answer>>

\* engine_stop: nx is read before its node is freed; the buckets are emptied
\* one by one, and until then their heads point to freed memory.
Stop ==
  /\ Is("none")
  /\ op' = [kind |-> "stop"]
  /\ at' = ptr[0] /\ bucket' = 0
  /\ UNCHANGED <<ptr, key, answer>>

StopNode ==
  /\ Is("stop") /\ at # Null
  /\ key' = [key EXCEPT ![at] = Null]
  /\ at' = ptr[at] /\ ptr' = [ptr EXCEPT ![at] = Null]
  /\ UNCHANGED <<op, bucket, answer>>

Emptied(b) == [ptr EXCEPT ![b] = Null]

StopBucket ==
  /\ Is("stop") /\ at = Null
  /\ ptr' = Emptied(bucket)
  /\ IF bucket < Size - 1
     THEN bucket' = bucket + 1 /\ at' = ptr[bucket + 1] /\ UNCHANGED op
     ELSE Finish
  /\ UNCHANGED <<key, answer>>

Call ==
  \/ \E k \in Keys, after \in {"keep", "remove", "replace", "create"} : Find(k, after)
  \/ \E fd \in Fds, after \in {"keep", "remove"} : FindByFd(fd, after)
  \/ \E idle \in SUBSET Live : Cleanup(idle)
  \/ Stop

Step ==
  \/ NextNode \/ NextBucket \/ Found \/ RemoveSkips \/ Remove \/ Create
  \/ CleanupNode \/ CleanupBucket \/ StopNode \/ StopBucket

Next == Call \/ Step

\* A call that has begun goes on: it holds the lock and waits for nothing.
Spec == Init /\ [][Next]_vars /\ WF_vars(Step)

-----------------------------------------------------------------------------

TypeOK ==
  /\ ptr \in [Cells -> Fds \cup {Null}]
  /\ key \in [Fds -> Keys \cup {Null}]
  /\ at \in Cells \cup {Null}
  /\ bucket \in Buckets
  /\ op.kind \in {"none", "find", "findByFd", "remove", "create", "cleanup", "stop"}

\* Outside engine_stop no cell of the table, and no position of a walk, leads
\* to freed memory; and a walk that looks for a place to cut stands in the
\* table (tcp_remove, cleanup).
NothingDangles ==
  ~Is("stop") =>
    /\ \A c \in Buckets \cup Live : ptr[c] \in Live \cup {Null}
    /\ at \in Fds => at \in Live
    /\ Is("remove") => op.target \in Live

\* Every session is linked exactly once, in the bucket of its key: nothing
\* leaks, and no chain runs into another or into itself.
LinkedOnce ==
  ~Is("stop") =>
    \A n \in Live :
      /\ Cardinality({c \in Buckets \cup Live : ptr[c] = n}) = 1
      /\ \A c \in Buckets \cup Live : ptr[c] = n =>
           Hash[key[n]] = IF c \in Buckets THEN c ELSE Hash[key[c]]

\* The table is well formed between any two steps of an operation.
TableSound == TypeOK /\ NothingDangles /\ LinkedOnce

\* cleanup takes every idle session and no other, although it cuts the chain
\* it walks.
CleanupIsExact ==
  [][Is("cleanup") =>
       /\ Live \ Live' \subseteq op.idle
       /\ op'.kind # "cleanup" => Live' \cap op.idle = {}]_vars

\* No operation walks for ever with the lock held.
OperationsEnd == op # Quiet ~> op = Quiet

\* The table is a map from keys to sessions: every lookup finds exactly the
\* session that exists, and there is never a second one for a key.
Map == INSTANCE SessionMap WITH map <- [k \in Keys |-> {n \in Fds : key[n] = k}]

\* Every operation of the chains (session_find .. tcp_remove) does what the map
\* says, at one of its steps.
IsSessionMap == Map!Spec

=============================================================================
