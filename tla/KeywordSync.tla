---------------------------- MODULE KeywordSync ----------------------------
(***************************************************************************)
(* Keeping client copies of a KeywordDirectory in step with the server's.  *)
(* The server pushes keys and re-derives the hash (a new version); clients *)
(* fetch the whole blob, or a delta envelope from the position they hold.  *)
(* Envelopes and blobs may be lost, delayed, duplicated, reordered and cut *)
(* short.  The server process may stop and restart from the blob it last   *)
(* wrote with write_to.                                                    *)
(*                                                                         *)
(* The records the indices point at are the caller's, who keeps to what    *)
(* push and rebuilt ask for: look whether a new key's record is there      *)
(* already, write the record of a pushed key, rewrite all records after a  *)
(* re-derivation and only then publish.  Two more rules are the            *)
(* deployment's: it answers only from a state it has written, and a client *)
(* takes a blob only when it is of a later version than its own.  Nothing  *)
(* in the code holds a deployment to them: restarted from an older blob,   *)
(* a server could continue one version in two ways.                        *)
(***************************************************************************)
EXTENDS KeywordDirectory

CONSTANTS
  Clients,
  Base,        \* the key set of version 0
  Capacities,  \* what KeywordDirectory::capacity may be
  Threshold,   \* delta size at which the server re-derives
  MaxVersion,  \* bound on re-derivations
  MaxInFlight, \* bound on the envelopes, and on the blobs, in flight
  Nothing

VARIABLES
  server,     \* the server's directory
  storage,    \* the version the records are laid out for, and the key of each record
  saved,      \* the blob the server restarts from, Nothing before the first
  client,     \* each client's directory, Nothing before its first download
  envelopes,  \* envelopes in flight
  blobs,      \* whole directories in flight
  history     \* per version, the newest directory that was saved

vars == <<server, storage, saved, client, envelopes, blobs, history>>

ASSUME SyncAssumption ==
  /\ Base \subseteq Keys /\ Base # {} /\ IsFiniteSet(Keys)
  /\ \A capacity \in Capacities : capacity \in Nat /\ Cardinality(Base) <= capacity
  /\ Threshold \in Nat /\ MaxVersion \in Nat /\ MaxInFlight \in Nat

Versions == 0 .. MaxVersion

\* Directories as records, whether or not their fields fit together
Directories ==
  [base : SUBSET Keys, slot : [Keys -> Nat], delta : Seq(Keys),
   lookup : UNION {[S -> Nat] : S \in SUBSET Keys}, version : Versions, capacity : Capacities]

ASSUME NothingAssumption ==
  /\ Nothing \notin Directories
  /\ Nothing \notin [hash : [Keys -> Nat], delta : Seq(Keys)]

\* Every record at the index the directory gives its key
Layout(d) ==
  [version |-> d.version,
   key |-> [i \in 0 .. d.capacity - 1 |->
     IF \E k \in Known(d) : IndexOf(d, k) = i
     THEN CHOOSE k \in Known(d) : IndexOf(d, k) = i ELSE Nothing]]

Init ==
  /\ \E slot \in Mphfs(Base), capacity \in Capacities :
       server = NewDirectory(Base, slot, capacity, 0)
  /\ storage = Layout(server)
  /\ saved = Nothing
  /\ client = [c \in Clients |-> Nothing]
  /\ envelopes = {}
  /\ blobs = {}
  /\ history = [v \in Versions |-> Nothing]

-----------------------------------------------------------------------------
(* The server *)

\* push cannot tell a key the hash was built over from a new one, but its record can.
IsNovel(k) == storage.version = server.version /\ storage.key[IndexOf(server, k)] # k

PushKey(k) ==
  /\ IsNovel(k)
  /\ CanPush(server, k)
  /\ server' = Push(server, k)
  /\ UNCHANGED <<storage, saved, client, envelopes, blobs, history>>

\* One entry, no refill
WriteRecord(k) ==
  /\ storage.version = server.version
  /\ k \in DOMAIN server.lookup /\ storage.key[IndexOf(server, k)] # k
  /\ storage' = [storage EXCEPT !.key[IndexOf(server, k)] = k]
  /\ UNCHANGED <<server, saved, client, envelopes, blobs, history>>

\* All records against the re-derived directory
RewriteRecords ==
  /\ storage.version # server.version
  /\ storage' = Layout(server)
  /\ UNCHANGED <<server, saved, client, envelopes, blobs, history>>

\* Mutant: the re-derived directory keeps its version number.
RebuildKeepsVersion ==
  /\ NeedsRebuildAt(server, Threshold)
  /\ CanRebuild(server, Known(server))
  /\ server.version < MaxVersion
  /\ \E slot \in Mphfs(Known(server)) :
       server' = [Rebuilt(server, Known(server), slot) EXCEPT !.version = server.version]
  /\ UNCHANGED <<storage, saved, client, envelopes, blobs, history>>

Rebuild ==
  /\ NeedsRebuildAt(server, Threshold)
  /\ CanRebuild(server, Known(server))
  /\ server.version < MaxVersion
  /\ \E slot \in Mphfs(Known(server)) : server' = Rebuilt(server, Known(server), slot)
  /\ UNCHANGED <<storage, saved, client, envelopes, blobs, history>>

RecordsWritten ==
  /\ storage.version = server.version
  /\ \A k \in Known(server) : storage.key[IndexOf(server, k)] = k

\* write_to to stable storage, which publishes the directory
Save ==
  /\ saved # server
  /\ RecordsWritten
  /\ saved' = server
  /\ history' = [history EXCEPT ![server.version] = server]
  /\ UNCHANGED <<server, storage, client, envelopes, blobs>>

\* read_from after a crash; the records were in memory and are laid out again.
Restart ==
  /\ saved # Nothing
  /\ server' = Transferred(saved)
  /\ storage' = Layout(server')
  /\ UNCHANGED <<saved, client, envelopes, blobs, history>>

SendEnvelope(have) ==
  /\ saved = server
  /\ CanWriteEnvelope(server, have)
  /\ Cardinality(envelopes) < MaxInFlight
  /\ envelopes' = envelopes \cup {Envelope(server, have)}
  /\ UNCHANGED <<server, storage, saved, client, blobs, history>>

SendBlob ==
  /\ saved = server
  /\ Cardinality(blobs) < MaxInFlight
  /\ blobs' = blobs \cup {server}
  /\ UNCHANGED <<server, storage, saved, client, envelopes, history>>

LoseEnvelope(e) ==
  /\ envelopes' = envelopes \ {e}
  /\ UNCHANGED <<server, storage, saved, client, blobs, history>>

LoseBlob(b) ==
  /\ blobs' = blobs \ {b}
  /\ UNCHANGED <<server, storage, saved, client, envelopes, history>>

-----------------------------------------------------------------------------
(* A client *)

ReceiveEnvelope(c, e, arrived) ==
  /\ client[c] # Nothing
  /\ client' = [client EXCEPT ![c] = ApplyEnvelope(client[c], e, arrived)]
  /\ UNCHANGED <<server, storage, saved, envelopes, blobs, history>>

\* A blob that arrives short is an error of read_from and changes nothing.
ReceiveBlob(c, b) ==
  /\ client[c] # Nothing => b.version > client[c].version
  /\ client' = [client EXCEPT ![c] = Transferred(b)]
  /\ UNCHANGED <<server, storage, saved, envelopes, blobs, history>>

Next ==
  \/ \E k \in Keys : PushKey(k) \/ WriteRecord(k)
  \/ RewriteRecords \/ Rebuild \/ Save \/ Restart
  \/ \E have \in 0 .. server.capacity : SendEnvelope(have)
  \/ SendBlob
  \/ \E e \in envelopes : LoseEnvelope(e)
  \/ \E b \in blobs : LoseBlob(b)
  \/ \E c \in Clients, e \in envelopes : \E arrived \in 0 .. Len(e.keys) : ReceiveEnvelope(c, e, arrived)
  \/ \E c \in Clients, b \in blobs : ReceiveBlob(c, b)

Spec == Init /\ [][Next]_vars

\* A client that keeps asking is answered again and again, and of the answers to
\* the position it is at one arrives whole in the end.  A message does not stay in
\* flight forever.
AskedTail(c) == client[c] # Nothing /\ SendEnvelope(Len(client[c].delta))
GotTail(c) ==
  /\ client[c] # Nothing
  /\ \E e \in envelopes : AcceptsEnvelope(client[c], e) /\ ReceiveEnvelope(c, e, Len(e.keys))
GotBlob(c) == server \in blobs /\ ReceiveBlob(c, server)

FairSpec ==
  /\ Spec
  /\ WF_vars(Save) /\ WF_vars(RewriteRecords) /\ WF_vars(\E k \in Keys : WriteRecord(k))
  /\ SF_vars(SendBlob)
  /\ WF_vars(\E e \in envelopes : LoseEnvelope(e))
  /\ WF_vars(\E b \in blobs : LoseBlob(b))
  /\ \A c \in Clients : SF_vars(AskedTail(c)) /\ SF_vars(GotTail(c)) /\ SF_vars(GotBlob(c))

-----------------------------------------------------------------------------
(* Properties *)

Directory(d) ==
  /\ d.base \subseteq Keys
  /\ d.slot \in Mphfs(d.base)
  /\ d.delta \in Seq(Keys)
  /\ d.lookup \in [DOMAIN d.lookup -> Nat] /\ DOMAIN d.lookup \subseteq Keys
  /\ d.version \in Versions
  /\ d.capacity = server.capacity

TypeOK ==
  /\ Directory(server)
  /\ saved # Nothing => Directory(saved)
  /\ storage \in [version : Versions, key : [0 .. server.capacity - 1 -> Keys \cup {Nothing}]]
  /\ \A c \in Clients : client[c] # Nothing => Directory(client[c])

Copies == {server} \cup {client[c] : c \in {x \in Clients : client[x] # Nothing}}

\* Every directory, the server's and every client's, gives the keys it knows
\* indices of their own, within the storage it may address.
OneKeyPerIndex ==
  \A d \in Copies :
    /\ \A k \in Known(d) : IndexOf(d, k) < DirectoryLen(d)
    /\ \A k, l \in Known(d) : IndexOf(d, k) = IndexOf(d, l) => k = l
    /\ DirectoryLen(d) <= d.capacity

\* A client that knows a key asks for the index at which the server of the same
\* version stores it, whatever envelopes it has seen, and while the records are of that
\* version it finds the key's own record there, whichever keys were pushed meanwhile.
ClientsFindRecords ==
  \A c \in Clients : client[c] # Nothing =>
    LET d == client[c]
        published == history[d.version]
    IN /\ published # Nothing
       /\ \A k \in Known(d) :
            /\ IndexOf(d, k) = IndexOf(published, k)
            /\ d.version = storage.version => storage.key[IndexOf(d, k)] = k

\* Synchronisation implements append-only generations with replicas that are
\* prefixes and move forward.
AbstractLog == [v \in Versions |->
  IF history[v] = Nothing THEN Nothing
  ELSE [hash |-> history[v].slot, delta |-> history[v].delta]]
AbstractReplica == [c \in Clients |->
  IF client[c] = Nothing THEN Nothing
  ELSE [version |-> client[c].version, hash |-> client[c].slot, delta |-> client[c].delta]]

Log == INSTANCE DirectoryLog WITH log <- AbstractLog, replica <- AbstractReplica
ImplementsLog == Log!Spec

\* A client catches up: whenever the key set stops changing, every client ends up
\* resolving every key as the server does.
CatchesUp ==
  \A c \in Clients :
    <>[][UNCHANGED <<server, saved>>]_vars =>
      <>[](client[c] # Nothing /\ client[c].version = server.version
           /\ client[c].delta = server.delta)
=============================================================================
