------------------------------ MODULE SessionMap ------------------------------
(***************************************************************************)
(* What a session table promises, as the handlers use it: for a key (a     *)
(* 4-tuple) there is at most one session, a session is found by its key    *)
(* and by its descriptor while it exists and by neither afterwards.        *)
(***************************************************************************)
CONSTANTS Keys, Fds

VARIABLES
  map,      (* key -> the descriptors of the sessions it has               *)
  answer    (* the last lookup: what was asked and the sessions it found   *)

Init ==
  /\ map = [k \in Keys |-> {}]
  /\ answer = [asked |-> {}, found |-> {}]

Find(k) ==
  /\ answer' = [asked |-> {k}, found |-> map[k]]
  /\ UNCHANGED map

FindByFd(fd) ==
  /\ answer' = [asked |-> {fd}, found |-> {fd} \cap UNION {map[k] : k \in Keys}]
  /\ UNCHANGED map

Put(k, fd) ==
  /\ map[k] = {} /\ \A j \in Keys : fd \notin map[j]
  /\ map' = [map EXCEPT ![k] = {fd}]
  /\ UNCHANGED answer

Drop(k) ==
  /\ map' = [map EXCEPT ![k] = {}]
  /\ UNCHANGED answer

Next ==
  \/ \E k \in Keys : Find(k) \/ Drop(k)
  \/ \E fd \in Fds : FindByFd(fd)
  \/ \E k \in Keys, fd \in Fds : Put(k, fd)

Spec == Init /\ [][Next]_<<map, answer>>

=============================================================================
