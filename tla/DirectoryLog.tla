---------------------------- MODULE DirectoryLog ----------------------------
(***************************************************************************)
(* What keyword synchronisation promises: generations, each with a fixed   *)
(* hash and an append-only list of added keys, and replicas that hold a    *)
(* prefix of one generation and only move forward.                         *)
(***************************************************************************)
EXTENDS Integers, Sequences, SequencesExt

CONSTANTS Keys, Clients, Versions, Nothing

VARIABLES
  log,      \* per version the hash and the keys added to it, Nothing before it exists
  replica   \* per client a version and a prefix of its list, Nothing at first

Generation(hash, delta) == [hash |-> hash, delta |-> delta]

Init ==
  /\ log = [v \in Versions |-> Nothing]
  /\ replica = [c \in Clients |-> Nothing]

\* A generation opens after the ones before it, or the newest one grows.
Record(v) ==
  /\ \A u \in Versions : u > v => log[u] = Nothing
  /\ log'[v] # Nothing
  /\ log[v] # Nothing =>
       log'[v].hash = log[v].hash /\ IsPrefix(log[v].delta, log'[v].delta)
  /\ \A u \in Versions \ {v} : log'[u] = log[u]
  /\ DOMAIN log' = Versions
  /\ UNCHANGED replica

Ahead(r, v, n) == r = Nothing \/ v > r.version \/ (v = r.version /\ n >= Len(r.delta))

CatchUp(c) ==
  \E v \in Versions :
    /\ log[v] # Nothing
    /\ \E n \in 0 .. Len(log[v].delta) :
         /\ Ahead(replica[c], v, n)
         /\ replica' = [replica EXCEPT ![c] =
              [version |-> v, hash |-> log[v].hash, delta |-> SubSeq(log[v].delta, 1, n)]]
    /\ UNCHANGED log

Next == (\E v \in Versions : Record(v)) \/ \E c \in Clients : CatchUp(c)

Spec == Init /\ [][Next]_<<log, replica>>
=============================================================================
