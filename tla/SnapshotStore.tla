--------------------------- MODULE SnapshotStore ---------------------------
(***************************************************************************)
(* What the refreshed server promises its clients: one store, replaced as  *)
(* a whole.  A batch of reads is answered from one version of it, and the  *)
(* store may be out of service but never half replaced.                    *)
(***************************************************************************)
EXTENDS PirData

CONSTANTS Clients, Batches

VARIABLES
  store,  \* the payloads being served, Placeholder while there are none
  reply

Init ==
  /\ store = Placeholder
  /\ reply = [c \in Clients |-> Nothing]

Publish ==
  /\ store' \in Stored
  /\ UNCHANGED reply

Read(c, batch) ==
  /\ batch # {} => store # Placeholder
  /\ reply' = [reply EXCEPT ![c] = [i \in batch |-> store[i]]]
  /\ UNCHANGED store

Next == Publish \/ \E c \in Clients, batch \in Batches : Read(c, batch)

Spec == Init /\ [][Next]_<<store, reply>>
=============================================================================
