------------------------- MODULE KeywordSync_proofs -------------------------
(***************************************************************************)
(* Proofs about KeywordSync, for any keys, capacities, numbers of clients  *)
(* and of messages in flight, and any number of re-derivations.            *)
(*                                                                         *)
(* The argument: a version has one newest saved directory, history[v]; the *)
(* server's, if of that version, continues it, and every directory and     *)
(* envelope a client has or may receive is a part of it.                   *)
(***************************************************************************)
EXTENDS KeywordSync, FiniteSetTheorems, TLAPS

-----------------------------------------------------------------------------
(* The invariant *)

\* The reverse map is that of the list, which therefore repeats no key; no key of the
\* base is in the list; everything has its place in the storage.
WellFormed(d) ==
  /\ d \in Directories
  /\ d.slot \in Mphfs(d.base)
  /\ DOMAIN d.lookup = ToSet(d.delta)
  /\ \A j \in 1 .. Len(d.delta) : d.lookup[d.delta[j]] = j - 1
  /\ d.base \cap ToSet(d.delta) = {}
  /\ DirectoryLen(d) <= d.capacity

\* d is p as it was some pushes ago.
PartOf(d, p) ==
  /\ d.base = p.base /\ d.slot = p.slot /\ d.version = p.version /\ d.capacity = p.capacity
  /\ Len(d.delta) <= Len(p.delta)
  /\ \A j \in 1 .. Len(d.delta) : d.delta[j] = p.delta[j]

\* e carries keys of p, from the position it names on.
SegmentOf(e, p) ==
  /\ e.version = p.version /\ e.baseLen = BaseLen(p) /\ e.capacity = p.capacity
  /\ e.start \in Nat /\ e.keys \in Seq(Keys)
  /\ e.start + Len(e.keys) <= Len(p.delta)
  /\ \A j \in 1 .. Len(e.keys) : e.keys[j] = p.delta[e.start + j]

\* A directory some server of that version has saved, or a prefix of one
Published(d) ==
  /\ WellFormed(d)
  /\ history[d.version] # Nothing
  /\ PartOf(d, history[d.version])

HistoryInv ==
  /\ history \in [Versions -> Directories \cup {Nothing}]
  /\ \A v \in Versions : history[v] # Nothing =>
       WellFormed(history[v]) /\ history[v].version = v /\ history[v].capacity = server.capacity

ServerInv ==
  /\ WellFormed(server)
  /\ history[server.version] # Nothing => PartOf(history[server.version], server)

SavedInv ==
  IF saved = Nothing THEN \A v \in Versions : history[v] = Nothing
  ELSE /\ saved.version \in Versions /\ saved.version <= server.version
       /\ saved = history[saved.version]
       /\ \A v \in Versions : v > saved.version => history[v] = Nothing

RecordsOf(d) == \A k \in Known(d) : storage.key[IndexOf(d, k)] = k

StorageInv ==
  /\ storage \in [version : Versions, key : [0 .. server.capacity - 1 -> Keys \cup {Nothing}]]
  /\ storage.version <= server.version
  /\ storage.version = server.version => \A k \in server.base : storage.key[server.slot[k]] = k
  /\ history[storage.version] # Nothing => RecordsOf(history[storage.version])

CopiesInv ==
  /\ client \in [Clients -> Directories \cup {Nothing}]
  /\ \A c \in Clients : client[c] # Nothing => Published(client[c])
  /\ \A b \in blobs : Published(b)
  /\ \A e \in envelopes :
       e.version \in Versions /\ history[e.version] # Nothing /\ SegmentOf(e, history[e.version])

IInv == HistoryInv /\ ServerInv /\ SavedInv /\ StorageInv /\ CopiesInv

-----------------------------------------------------------------------------
(* Directories *)

\* Numbers of keys are natural numbers.
LEMMA Counting ==
  ASSUME NEW B \in SUBSET Keys
  PROVE  Cardinality(B) \in Nat
BY SyncAssumption, FS_Subset, FS_CardinalityType

\* The fields of a well-formed directory
LEMMA Fields ==
  ASSUME NEW d, WellFormed(d)
  PROVE  /\ d.base \in SUBSET Keys /\ d.slot \in [Keys -> Nat]
         /\ d.delta \in Seq(Keys) /\ Len(d.delta) \in Nat
         /\ \A j \in 1 .. Len(d.delta) : d.delta[j] \in Keys
         /\ ToSet(d.delta) = {d.delta[j] : j \in 1 .. Len(d.delta)}
         /\ DOMAIN d.lookup = ToSet(d.delta) /\ d.lookup \in [ToSet(d.delta) -> Nat]
         /\ d.version \in Versions /\ d.capacity \in Nat /\ BaseLen(d) \in Nat
         /\ d = [base |-> d.base, slot |-> d.slot, delta |-> d.delta, lookup |-> d.lookup,
                 version |-> d.version, capacity |-> d.capacity]
<1>1. d \in Directories
  BY DEF WellFormed
<1>2. /\ d.base \in SUBSET Keys /\ d.slot \in [Keys -> Nat] /\ d.delta \in Seq(Keys)
      /\ d.lookup \in UNION {[S -> Nat] : S \in SUBSET Keys}
      /\ d.version \in Versions /\ d.capacity \in Capacities
      /\ d = [base |-> d.base, slot |-> d.slot, delta |-> d.delta, lookup |-> d.lookup,
              version |-> d.version, capacity |-> d.capacity]
  BY <1>1 DEF Directories
<1>3. d.capacity \in Nat
  BY <1>2, SyncAssumption
<1>4. Len(d.delta) \in Nat /\ DOMAIN d.delta = 1 .. Len(d.delta)
      /\ \A j \in 1 .. Len(d.delta) : d.delta[j] \in Keys
  BY <1>2
<1>5. ToSet(d.delta) = {d.delta[j] : j \in 1 .. Len(d.delta)}
  BY <1>4 DEF ToSet
<1>6. BaseLen(d) \in Nat
  BY <1>2, Counting DEF BaseLen
<1>7. DOMAIN d.lookup = ToSet(d.delta)
  BY DEF WellFormed
<1>8. d.lookup \in [ToSet(d.delta) -> Nat]
  BY <1>2, <1>7
<1> QED
  BY <1>2, <1>3, <1>4, <1>5, <1>6, <1>7, <1>8

\* No key is twice in the list.
LEMMA DeltaInjective ==
  ASSUME NEW d, WellFormed(d), NEW i \in 1 .. Len(d.delta), NEW j \in 1 .. Len(d.delta),
         d.delta[i] = d.delta[j]
  PROVE  i = j
<1>1. d.lookup[d.delta[i]] = i - 1 /\ d.lookup[d.delta[j]] = j - 1
  BY DEF WellFormed
<1> QED
  BY <1>1

\* A key of the base has its hash for an index, a pushed key a place behind the base.
LEMMA Indices ==
  ASSUME NEW d, WellFormed(d)
  PROVE  /\ \A k \in d.base : IndexOf(d, k) = d.slot[k] /\ d.slot[k] \in 0 .. BaseLen(d) - 1
         /\ \A j \in 1 .. Len(d.delta) : IndexOf(d, d.delta[j]) = BaseLen(d) + j - 1
         /\ \A k \in Known(d) : k \in d.base \/ \E j \in 1 .. Len(d.delta) : k = d.delta[j]
<1>1. /\ d.base \in SUBSET Keys /\ BaseLen(d) \in Nat
      /\ DOMAIN d.lookup = {d.delta[j] : j \in 1 .. Len(d.delta)}
      /\ ToSet(d.delta) = {d.delta[j] : j \in 1 .. Len(d.delta)}
  BY Fields
<1>2. d.slot \in [Keys -> 0 .. BaseLen(d) - 1]
  BY DEF WellFormed, Mphfs, BaseLen
<1>3. ASSUME NEW k \in d.base
      PROVE  IndexOf(d, k) = d.slot[k] /\ d.slot[k] \in 0 .. BaseLen(d) - 1
  <2>1. k \notin DOMAIN d.lookup
    BY DEF WellFormed
  <2> QED
    BY <1>1, <1>2, <2>1 DEF IndexOf
<1>4. ASSUME NEW j \in 1 .. Len(d.delta)
      PROVE  IndexOf(d, d.delta[j]) = BaseLen(d) + j - 1
  <2>1. d.delta[j] \in DOMAIN d.lookup /\ d.lookup[d.delta[j]] = j - 1
    BY <1>1 DEF WellFormed
  <2> QED
    BY <1>1, <2>1 DEF IndexOf
<1>5. ASSUME NEW k \in Known(d)
      PROVE  k \in d.base \/ \E j \in 1 .. Len(d.delta) : k = d.delta[j]
  BY <1>1 DEF Known
<1> QED
  BY <1>3, <1>4, <1>5

\* The keys a directory knows have indices of their own within the storage.
LEMMA KeysHaveOwnIndex ==
  ASSUME NEW d, WellFormed(d)
  PROVE  /\ \A k \in Known(d) : IndexOf(d, k) \in 0 .. DirectoryLen(d) - 1
         /\ \A k, l \in Known(d) : IndexOf(d, k) = IndexOf(d, l) => k = l
<1>1. BaseLen(d) \in Nat /\ Len(d.delta) \in Nat
  BY Fields
<1>2. ASSUME NEW k \in Known(d)
      PROVE  IndexOf(d, k) \in 0 .. DirectoryLen(d) - 1
  <2>1. CASE k \in d.base
    BY <1>1, <2>1, Indices DEF DirectoryLen
  <2>2. ASSUME NEW j \in 1 .. Len(d.delta), k = d.delta[j]
        PROVE  IndexOf(d, k) \in 0 .. DirectoryLen(d) - 1
    <3>1. IndexOf(d, k) = BaseLen(d) + j - 1
      BY <2>2, Indices
    <3> QED
      BY <1>1, <3>1 DEF DirectoryLen
  <2> QED
    BY <2>1, <2>2, Indices
<1>3. ASSUME NEW k \in Known(d), NEW l \in Known(d), IndexOf(d, k) = IndexOf(d, l)
      PROVE  k = l
  <2>1. CASE k \in d.base /\ l \in d.base
    <3>1. d.slot[k] = d.slot[l]
      BY <1>3, <2>1, Indices
    <3> QED
      BY <2>1, <3>1 DEF WellFormed, Mphfs
  <2>2. ASSUME NEW i \in 1 .. Len(d.delta), k = d.delta[i],
               NEW j \in 1 .. Len(d.delta), l = d.delta[j]
        PROVE  k = l
    <3>1. IndexOf(d, k) = BaseLen(d) + i - 1 /\ IndexOf(d, l) = BaseLen(d) + j - 1
      BY <2>2, Indices
    <3>2. BaseLen(d) + i - 1 = BaseLen(d) + j - 1
      BY <1>3, <2>2, <3>1
    <3>3. i = j
      BY <1>1, <3>2
    <3> QED
      BY <2>2, <3>3
  <2>3. ASSUME NEW m \in d.base, NEW j \in 1 .. Len(d.delta)
        PROVE  IndexOf(d, m) # IndexOf(d, d.delta[j])
    <3>1. IndexOf(d, m) \in 0 .. BaseLen(d) - 1
      BY Indices
    <3>2. IndexOf(d, d.delta[j]) = BaseLen(d) + j - 1
      BY Indices
    <3> QED
      BY <1>1, <3>1, <3>2
  <2> QED
    BY <1>3, <2>1, <2>2, <2>3, Indices
<1> QED
  BY <1>2, <1>3

\* The keys of a list after another one
LEMMA ConcatFacts ==
  ASSUME NEW s \in Seq(Keys), NEW t \in Seq(Keys)
  PROVE  /\ s \o t \in Seq(Keys) /\ Len(s \o t) = Len(s) + Len(t)
         /\ \A i \in 1 .. Len(s) : (s \o t)[i] = s[i]
         /\ \A i \in 1 .. Len(t) : (s \o t)[Len(s) + i] = t[i]
         /\ ToSet(s \o t) = ToSet(s) \cup ToSet(t)
<1>1. /\ s \o t \in Seq(Keys) /\ Len(s \o t) = Len(s) + Len(t)
      /\ Len(s) \in Nat /\ Len(t) \in Nat
      /\ DOMAIN (s \o t) = 1 .. Len(s) + Len(t)
      /\ DOMAIN s = 1 .. Len(s) /\ DOMAIN t = 1 .. Len(t)
  OBVIOUS
<1>2. \A i \in 1 .. Len(s) : (s \o t)[i] = s[i]
  OBVIOUS
<1>3. \A i \in 1 .. Len(t) : (s \o t)[Len(s) + i] = t[i]
  OBVIOUS
<1>4. ToSet(s \o t) \subseteq ToSet(s) \cup ToSet(t)
  <2> SUFFICES ASSUME NEW i \in 1 .. Len(s) + Len(t)
               PROVE  (s \o t)[i] \in ToSet(s) \cup ToSet(t)
    BY <1>1 DEF ToSet
  <2>1. CASE i <= Len(s)
    BY <1>1, <1>2, <2>1 DEF ToSet
  <2>2. CASE ~(i <= Len(s))
    <3>1. i - Len(s) \in 1 .. Len(t) /\ Len(s) + (i - Len(s)) = i
      BY <1>1, <2>2
    <3>2. (s \o t)[i] = t[i - Len(s)]
      BY <1>3, <3>1
    <3> QED
      BY <1>1, <3>1, <3>2 DEF ToSet
  <2> QED
    BY <2>1, <2>2
<1>5. ToSet(s) \cup ToSet(t) \subseteq ToSet(s \o t)
  <2>1. ASSUME NEW i \in 1 .. Len(s) PROVE s[i] \in ToSet(s \o t)
    <3>1. i \in DOMAIN (s \o t) /\ (s \o t)[i] = s[i]
      BY <1>1, <1>2
    <3> QED
      BY <3>1 DEF ToSet
  <2>2. ASSUME NEW i \in 1 .. Len(t) PROVE t[i] \in ToSet(s \o t)
    <3>1. Len(s) + i \in DOMAIN (s \o t) /\ (s \o t)[Len(s) + i] = t[i]
      BY <1>1, <1>3
    <3> QED
      BY <3>1 DEF ToSet
  <2> QED
    BY <1>1, <2>1, <2>2 DEF ToSet
<1> QED
  BY <1>1, <1>2, <1>3, <1>4, <1>5

\* New keys in the list and in the reverse map
LEMMA ExtendWellFormed ==
  ASSUME NEW d, WellFormed(d), NEW tail \in Seq(Keys),
         \A j \in 1 .. Len(tail) : tail[j] \notin Known(d),
         \A i, j \in 1 .. Len(tail) : tail[i] = tail[j] => i = j,
         DirectoryLen(d) + Len(tail) <= d.capacity
  PROVE  /\ WellFormed(Extend(d, tail))
         /\ Extend(d, tail).base = d.base /\ Extend(d, tail).slot = d.slot
         /\ Extend(d, tail).version = d.version /\ Extend(d, tail).capacity = d.capacity
         /\ Extend(d, tail).delta = d.delta \o tail
<1> DEFINE x == Extend(d, tail)
           place(k) == IF k \in DOMAIN d.lookup THEN d.lookup[k]
                       ELSE Len(d.delta) + (CHOOSE j \in 1 .. Len(tail) : tail[j] = k) - 1
           lookup == [k \in DOMAIN d.lookup \cup ToSet(tail) |-> place(k)]
<1>1. /\ x.base = d.base /\ x.slot = d.slot /\ x.version = d.version /\ x.capacity = d.capacity
      /\ x.delta = d.delta \o tail /\ x.lookup = lookup
      /\ x = [base |-> d.base, slot |-> d.slot, delta |-> d.delta \o tail, lookup |-> lookup,
              version |-> d.version, capacity |-> d.capacity]
  <2>1. x = [d EXCEPT !.delta = d.delta \o tail, !.lookup = lookup]
    BY DEF Extend
  <2>2. d = [base |-> d.base, slot |-> d.slot, delta |-> d.delta, lookup |-> d.lookup,
             version |-> d.version, capacity |-> d.capacity]
    BY Fields
  <2> HIDE DEF x, lookup
  <2> QED
    BY <2>1, <2>2
<1>2. Len(tail) \in Nat /\ DOMAIN tail = 1 .. Len(tail)
      /\ ToSet(tail) = {tail[j] : j \in 1 .. Len(tail)} /\ ToSet(tail) \subseteq Keys
  BY DEF ToSet
<1>3. /\ x.delta \in Seq(Keys) /\ Len(x.delta) = Len(d.delta) + Len(tail)
      /\ ToSet(x.delta) = ToSet(d.delta) \cup ToSet(tail)
      /\ \A i \in 1 .. Len(d.delta) : x.delta[i] = d.delta[i]
      /\ \A i \in 1 .. Len(tail) : x.delta[Len(d.delta) + i] = tail[i]
  BY SMTT(30), <1>1, Fields, ConcatFacts
<1>4. /\ d.base \in SUBSET Keys /\ d.slot \in [Keys -> Nat] /\ d.delta \in Seq(Keys)
      /\ Len(d.delta) \in Nat /\ BaseLen(d) \in Nat
      /\ \A j \in 1 .. Len(d.delta) : d.delta[j] \in Keys
      /\ ToSet(d.delta) = {d.delta[j] : j \in 1 .. Len(d.delta)}
      /\ DOMAIN d.lookup = ToSet(d.delta) /\ d.lookup \in [ToSet(d.delta) -> Nat]
      /\ d.version \in Versions /\ d.capacity \in Capacities
  BY Fields DEF WellFormed, Directories
<1> HIDE DEF x
<1>5. ASSUME NEW j \in 1 .. Len(tail)
      PROVE  tail[j] \notin DOMAIN d.lookup /\ place(tail[j]) = Len(d.delta) + j - 1
  <2>1. tail[j] \notin DOMAIN d.lookup
    BY <1>4 DEF Known
  <2>2. (CHOOSE i \in 1 .. Len(tail) : tail[i] = tail[j]) = j
    OBVIOUS
  <2> QED
    BY <2>1, <2>2
<1>6. \A k \in DOMAIN d.lookup \cup ToSet(tail) : place(k) \in Nat
  <2> SUFFICES ASSUME NEW k \in DOMAIN d.lookup \cup ToSet(tail) PROVE place(k) \in Nat
    OBVIOUS
  <2>1. CASE k \in DOMAIN d.lookup
    BY <1>4, <2>1
  <2>2. CASE k \notin DOMAIN d.lookup
    <3>1. PICK j \in 1 .. Len(tail) : k = tail[j]
      BY <1>2, <2>2
    <3>2. place(k) = Len(d.delta) + j - 1
      BY <1>5, <3>1
    <3> HIDE DEF place
    <3> QED
      BY <1>2, <1>4, <3>1, <3>2
  <2> QED
    BY <2>1, <2>2
<1>7. lookup \in [ToSet(x.delta) -> Nat] /\ ToSet(x.delta) \in SUBSET Keys
  <2>1. lookup \in [DOMAIN d.lookup \cup ToSet(tail) -> Nat]
    BY <1>6
  <2>2. ToSet(d.delta) \in SUBSET Keys
    BY <1>4
  <2> QED
    BY <1>2, <1>3, <1>4, <2>1, <2>2
<1>8. x \in Directories
  <2>1. lookup \in UNION {[S -> Nat] : S \in SUBSET Keys}
    BY <1>7
  <2> HIDE DEF lookup
  <2>2. d.delta \o tail \in Seq(Keys)
    BY <1>1, <1>3
  <2> QED
    BY <1>1, <1>4, <2>1, <2>2 DEF Directories
<1>9. ASSUME NEW i \in 1 .. Len(x.delta)
      PROVE  x.lookup[x.delta[i]] = i - 1
  <2>1. CASE i <= Len(d.delta)
    <3>1. i \in 1 .. Len(d.delta) /\ x.delta[i] = d.delta[i]
      BY SMTT(30), <1>3, <1>4, <2>1
    <3>2. d.delta[i] \in DOMAIN d.lookup /\ d.lookup[d.delta[i]] = i - 1
      BY <1>4, <3>1 DEF WellFormed
    <3> QED
      BY <1>1, <3>1, <3>2
  <2>2. CASE ~(i <= Len(d.delta))
    <3> DEFINE j == i - Len(d.delta)
    <3>1. j \in 1 .. Len(tail) /\ i = Len(d.delta) + j
      BY <1>2, <1>3, <1>4, <2>2
    <3> HIDE DEF j
    <3>2. x.delta[i] = tail[j] /\ tail[j] \in ToSet(tail)
      BY <1>2, <1>3, <3>1
    <3>3. lookup[tail[j]] = place(tail[j])
      BY <3>2
    <3>4. place(tail[j]) = Len(d.delta) + j - 1
      BY <1>5, <3>1
    <3> HIDE DEF place, lookup
    <3>5. x.lookup[x.delta[i]] = lookup[tail[j]]
      BY <1>1, <3>2
    <3>6. Len(d.delta) + j - 1 = i - 1
      BY <1>2, <1>4, <3>1
    <3> QED
      BY <3>3, <3>4, <3>5, <3>6
  <2> QED
    BY <2>1, <2>2
<1>10. x.base \cap ToSet(x.delta) = {}
  <2>1. d.base \cap ToSet(tail) = {}
    BY <1>2 DEF Known
  <2>2. d.base \cap ToSet(d.delta) = {}
    BY DEF WellFormed
  <2> QED
    BY <1>1, <1>3, <2>1, <2>2
<1>11. x.slot \in Mphfs(x.base)
  BY <1>1 DEF WellFormed
<1>12. DirectoryLen(x) <= x.capacity
  BY <1>1, <1>2, <1>3, <1>4 DEF DirectoryLen, BaseLen
<1>13. WellFormed(x)
  BY <1>1, <1>7, <1>8, <1>9, <1>10, <1>11, <1>12 DEF WellFormed
<1> QED
  BY <1>1, <1>13 DEF x

\* Keys that are all new are all read.
LEMMA AllEntriesRead ==
  ASSUME NEW d, NEW keys \in Seq(Keys),
         \A j \in 1 .. Len(keys) : keys[j] \notin DOMAIN d.lookup,
         \A i, j \in 1 .. Len(keys) : keys[i] = keys[j] => i = j
  PROVE  NewEntries(d, keys) = keys
<1> DEFINE Stops(n) ==
             /\ \A a \in 1 .. n : keys[a] \notin DOMAIN d.lookup
                                  /\ \A b \in 1 .. a - 1 : keys[b] # keys[a]
             /\ n < Len(keys) =>
                  keys[n + 1] \in DOMAIN d.lookup \cup {keys[b] : b \in 1 .. n}
<1>1. Len(keys) \in Nat
  OBVIOUS
<1>2. Stops(Len(keys))
  BY <1>1
<1>3. ASSUME NEW n \in 0 .. Len(keys), Stops(n) PROVE n = Len(keys)
  <2> SUFFICES ASSUME n < Len(keys) PROVE FALSE
    BY <1>1
  <2>1. n + 1 \in 1 .. Len(keys)
    BY <1>1
  <2>2. PICK b \in 1 .. n : keys[n + 1] = keys[b]
    BY <1>3, <2>1
  <2>3. b = n + 1
    BY <1>1, <2>1, <2>2
  <2> QED
    BY <2>2, <2>3
<1> HIDE DEF Stops
<1>4. (CHOOSE n \in 0 .. Len(keys) : Stops(n)) = Len(keys)
  BY <1>1, <1>2, <1>3
<1>5. NewEntries(d, keys) = SubSeq(keys, 1, CHOOSE n \in 0 .. Len(keys) : Stops(n))
  BY DEF NewEntries, Stops
<1>6. SubSeq(keys, 1, Len(keys)) = keys
  OBVIOUS
<1> QED
  BY <1>4, <1>5, <1>6

\* A new directory without pushed keys
LEMMA NewWellFormed ==
  ASSUME NEW base \in SUBSET Keys, NEW slot \in Mphfs(base), NEW capacity \in Capacities,
         NEW version \in Versions, Cardinality(base) <= capacity
  PROVE  WellFormed(NewDirectory(base, slot, capacity, version))
<1> DEFINE d == NewDirectory(base, slot, capacity, version)
<1>1. /\ d.base = base /\ d.slot = slot /\ d.delta = << >> /\ d.lookup = << >>
      /\ d.version = version /\ d.capacity = capacity
      /\ d = [base |-> base, slot |-> slot, delta |-> << >>, lookup |-> << >>,
              version |-> version, capacity |-> capacity]
  BY DEF NewDirectory
<1> HIDE DEF d
<1>2. Cardinality(base) \in Nat
  BY Counting
<1>3. slot \in [Keys -> Nat]
  BY <1>2 DEF Mphfs
<1>4. << >> \in [{} -> Nat] /\ DOMAIN << >> = {} /\ << >> \in Seq(Keys) /\ Len(<< >>) = 0
  OBVIOUS
<1>5. << >> \in UNION {[S -> Nat] : S \in SUBSET Keys}
  BY <1>4
<1>6. ToSet(d.delta) = {}
  BY <1>1, <1>4 DEF ToSet
<1>7. d \in Directories
  BY <1>1, <1>3, <1>4, <1>5 DEF Directories
<1>8. DirectoryLen(d) <= d.capacity
  BY <1>1, <1>2, <1>4 DEF DirectoryLen, BaseLen
<1> QED
  BY <1>1, <1>4, <1>6, <1>7, <1>8 DEF WellFormed, d

\* What read_from makes of write_to's bytes is the directory that was written, the
\* reverse map included.
LEMMA TransferredSame ==
  ASSUME NEW d, WellFormed(d)
  PROVE  Transferred(d) = d
<1> DEFINE new == NewDirectory(d.base, d.slot, d.capacity, d.version)
           x == Extend(new, d.delta)
<1>1. /\ d.base \in SUBSET Keys /\ d.delta \in Seq(Keys) /\ Len(d.delta) \in Nat
      /\ BaseLen(d) \in Nat /\ d.capacity \in Nat /\ d.version \in Versions
      /\ ToSet(d.delta) = {d.delta[j] : j \in 1 .. Len(d.delta)}
      /\ DOMAIN d.lookup = ToSet(d.delta) /\ d.lookup \in [ToSet(d.delta) -> Nat]
  BY Fields
<1>2. d.slot \in Mphfs(d.base) /\ d.capacity \in Capacities /\ DirectoryLen(d) <= d.capacity
  BY DEF WellFormed, Directories
<1>3. WellFormed(new)
  BY <1>1, <1>2, NewWellFormed DEF DirectoryLen, BaseLen
<1>4. /\ new.base = d.base /\ new.slot = d.slot /\ new.delta = << >> /\ new.lookup = << >>
      /\ new.version = d.version /\ new.capacity = d.capacity
  BY DEF NewDirectory
<1> HIDE DEF new
<1>5. DirectoryLen(new) + Len(d.delta) = DirectoryLen(d) /\ DOMAIN new.lookup = {}
      /\ Known(new) = d.base
  BY <1>1, <1>4 DEF DirectoryLen, BaseLen, Known, ToSet
<1>6. \A i, j \in 1 .. Len(d.delta) : d.delta[i] = d.delta[j] => i = j
  BY DeltaInjective
<1>7. \A j \in 1 .. Len(d.delta) : d.delta[j] \notin Known(new)
  BY <1>1, <1>5 DEF WellFormed
<1>8. NewEntries(new, d.delta) = d.delta
  BY <1>1, <1>5, <1>6, AllEntriesRead
<1>9. Transferred(d) = x
  <2>1. ~(DirectoryLen(new) + Len(d.delta) > new.capacity)
    BY <1>1, <1>2, <1>4, <1>5 DEF DirectoryLen
  <2> QED
    BY <1>8, <2>1 DEF Transferred, ReadEntries, new
<1>10. /\ WellFormed(x) /\ x.base = new.base /\ x.slot = new.slot /\ x.version = new.version
       /\ x.capacity = new.capacity /\ x.delta = new.delta \o d.delta
  <2>1. DirectoryLen(new) + Len(d.delta) <= new.capacity
    BY <1>2, <1>4, <1>5
  <2> QED
    BY <1>1, <1>3, <1>6, <1>7, <2>1, ExtendWellFormed
<1> HIDE DEF x
<1>11. << >> \o d.delta = d.delta
  BY <1>1
<1>12. /\ x.base = d.base /\ x.slot = d.slot /\ x.delta = d.delta
       /\ x.version = d.version /\ x.capacity = d.capacity
  BY <1>4, <1>10, <1>11
<1>13. x.lookup = d.lookup
  <2>1. x.lookup \in [ToSet(d.delta) -> Nat]
    BY <1>10, <1>12, Fields
  <2>2. \A j \in 1 .. Len(d.delta) : x.lookup[d.delta[j]] = j - 1 /\ d.lookup[d.delta[j]] = j - 1
    BY <1>10, <1>12 DEF WellFormed
  <2>3. \A k \in ToSet(d.delta) : x.lookup[k] = d.lookup[k]
    BY <1>1, <2>2
  <2> QED
    BY <1>1, <2>1, <2>3
<1>14. /\ x = [base |-> x.base, slot |-> x.slot, delta |-> x.delta, lookup |-> x.lookup,
               version |-> x.version, capacity |-> x.capacity]
       /\ d = [base |-> d.base, slot |-> d.slot, delta |-> d.delta, lookup |-> d.lookup,
               version |-> d.version, capacity |-> d.capacity]
  BY <1>10, Fields
<1>15. x = d
  BY <1>12, <1>13, <1>14
<1> QED
  BY <1>9, <1>15
-----------------------------------------------------------------------------
(* One directory a part of another *)

\* A directory is a part of itself.
LEMMA PartOfSelf ==
  ASSUME NEW d, WellFormed(d)
  PROVE  PartOf(d, d)
BY Fields DEF PartOf

\* A part of a part is a part.
LEMMA PartOfTransitive ==
  ASSUME NEW d, WellFormed(d), NEW p, WellFormed(p), NEW q, WellFormed(q),
         PartOf(d, p), PartOf(p, q)
  PROVE  PartOf(d, q)
<1>1. Len(d.delta) \in Nat /\ Len(p.delta) \in Nat /\ Len(q.delta) \in Nat
  BY Fields
<1> QED
  BY <1>1 DEF PartOf

\* What a part knows is known to the whole, at the same index.
LEMMA SameIndex ==
  ASSUME NEW d, WellFormed(d), NEW p, WellFormed(p), PartOf(d, p), NEW k \in Known(d)
  PROVE  k \in Known(p) /\ IndexOf(d, k) = IndexOf(p, k)
<1>1. Len(d.delta) \in Nat /\ Len(p.delta) \in Nat /\ BaseLen(d) = BaseLen(p)
      /\ ToSet(p.delta) = {p.delta[j] : j \in 1 .. Len(p.delta)}
  BY Fields DEF PartOf, BaseLen
<1>2. CASE k \in d.base
  <2>1. k \in p.base /\ d.slot[k] = p.slot[k]
    BY <1>2 DEF PartOf
  <2> QED
    BY <1>2, <2>1, Indices DEF Known
<1>3. ASSUME NEW j \in 1 .. Len(d.delta), k = d.delta[j]
      PROVE  k \in Known(p) /\ IndexOf(d, k) = IndexOf(p, k)
  <2>1. j \in 1 .. Len(p.delta) /\ k = p.delta[j]
    BY <1>1, <1>3 DEF PartOf
  <2>2. IndexOf(d, k) = BaseLen(d) + j - 1 /\ IndexOf(p, k) = BaseLen(p) + j - 1
    BY <1>3, <2>1, Indices
  <2> QED
    BY <1>1, <2>1, <2>2 DEF Known
<1> QED
  BY <1>2, <1>3, Indices

\* An envelope that is written carries a segment of the list.
LEMMA EnvelopeIsSegment ==
  ASSUME NEW d, WellFormed(d), NEW have \in Nat, CanWriteEnvelope(d, have)
  PROVE  SegmentOf(Envelope(d, have), d)
<1> DEFINE e == Envelope(d, have)
<1>1. /\ e.version = d.version /\ e.baseLen = BaseLen(d) /\ e.start = have
      /\ e.capacity = d.capacity /\ e.keys = SubSeq(d.delta, have + 1, Len(d.delta))
  BY DEF Envelope
<1> HIDE DEF e
<1>2. d.delta \in Seq(Keys) /\ Len(d.delta) \in Nat /\ have <= Len(d.delta)
  BY Fields DEF CanWriteEnvelope
<1>3. /\ e.keys \in Seq(Keys) /\ Len(e.keys) = Len(d.delta) - have
      /\ \A j \in 1 .. Len(d.delta) - have : e.keys[j] = d.delta[have + j]
  BY <1>1, <1>2
<1> QED
  BY <1>1, <1>2, <1>3 DEF SegmentOf, e

\* A segment of a part is a segment of the whole.
LEMMA SegmentOfWhole ==
  ASSUME NEW e, NEW p, WellFormed(p), NEW q, WellFormed(q), SegmentOf(e, p), PartOf(p, q)
  PROVE  SegmentOf(e, q)
<1>1. Len(p.delta) \in Nat /\ Len(q.delta) \in Nat /\ Len(e.keys) \in Nat /\ e.start \in Nat
      /\ BaseLen(p) = BaseLen(q)
  BY Fields DEF PartOf, SegmentOf, BaseLen
<1>2. ASSUME NEW j \in 1 .. Len(e.keys) PROVE e.keys[j] = q.delta[e.start + j]
  <2>1. e.start + j \in 1 .. Len(p.delta)
    BY <1>1 DEF SegmentOf
  <2> QED
    BY <2>1 DEF SegmentOf, PartOf
<1> QED
  BY <1>1, <1>2 DEF SegmentOf, PartOf

\* What fits with all of an envelope fits with the part that arrived.
LEMMA Room ==
  ASSUME NEW a \in Nat, NEW b \in Nat, NEW c \in Nat, NEW n \in Nat, n <= b, a + b <= c
  PROVE  a + n <= c /\ a + n \in Nat
OBVIOUS

\* A part that reads what has arrived of a segment is a part still, and no smaller,
\* wherever the envelope was cut.
LEMMA ApplyKeepsPart ==
  ASSUME NEW d, WellFormed(d), NEW p, WellFormed(p), PartOf(d, p),
         NEW e, SegmentOf(e, p), NEW arrived \in 0 .. Len(e.keys)
  PROVE  LET x == ApplyEnvelope(d, e, arrived) IN
         WellFormed(x) /\ PartOf(x, p) /\ x.version = d.version /\ Len(x.delta) >= Len(d.delta)
<1> DEFINE keys == SubSeq(e.keys, 1, arrived)
<1>1. /\ Len(d.delta) \in Nat /\ Len(p.delta) \in Nat /\ d.delta \in Seq(Keys)
      /\ BaseLen(d) \in Nat /\ BaseLen(d) = BaseLen(p) /\ d.base = p.base
      /\ d.capacity \in Nat /\ d.capacity = p.capacity
      /\ ToSet(d.delta) = {d.delta[j] : j \in 1 .. Len(d.delta)}
      /\ ToSet(p.delta) = {p.delta[j] : j \in 1 .. Len(p.delta)}
      /\ DOMAIN d.lookup = ToSet(d.delta)
  BY Fields DEF PartOf, BaseLen
<1>2. /\ e.keys \in Seq(Keys) /\ Len(e.keys) \in Nat /\ e.start \in Nat
      /\ e.start + Len(e.keys) <= Len(p.delta)
      /\ \A j \in 1 .. Len(e.keys) : e.keys[j] = p.delta[e.start + j]
  BY DEF SegmentOf
<1>3. /\ keys \in Seq(Keys) /\ Len(keys) = arrived /\ arrived \in Nat
      /\ Len(keys) \in Nat /\ Len(keys) <= Len(e.keys)
      /\ \A j \in 1 .. Len(keys) : j \in 1 .. Len(e.keys) /\ keys[j] = e.keys[j]
  BY <1>2
<1> HIDE DEF keys
<1>4. CASE ~AcceptsEnvelope(d, e)
  BY <1>1, <1>4 DEF ApplyEnvelope
<1>5. CASE AcceptsEnvelope(d, e)
  <2>0. e.start = Len(d.delta)
    BY <1>5 DEF AcceptsEnvelope
  <2>1. Len(d.delta) + Len(e.keys) <= Len(p.delta)
    BY <1>2, <2>0
  <2>2. ASSUME NEW j \in 1 .. Len(keys)
        PROVE  Len(d.delta) + j \in 1 .. Len(p.delta) /\ keys[j] = p.delta[Len(d.delta) + j]
    <3>1. j \in 1 .. Len(e.keys) /\ j \in Nat /\ j >= 1 /\ j <= Len(e.keys)
      BY <1>2, <1>3
    <3>2. keys[j] = p.delta[Len(d.delta) + j]
      BY <1>2, <1>3, <2>0, <3>1
    <3>3. Len(d.delta) + j <= Len(p.delta) /\ Len(d.delta) + j \in Nat
      BY <1>1, <1>2, <2>1, <3>1, Room
    <3>4. Len(d.delta) + j >= 1
      BY <1>1, <3>1
    <3> QED
      BY <1>1, <3>2, <3>3, <3>4
  <2>3. ASSUME NEW j \in 1 .. Len(keys) PROVE keys[j] \notin Known(d)
    <3>1. keys[j] \notin d.base
      <4>1. d.base = p.base /\ p.base \cap ToSet(p.delta) = {}
        BY <1>1 DEF WellFormed
      <4>2. keys[j] \in ToSet(p.delta)
        BY <1>1, <2>2
      <4> QED
        BY <4>1, <4>2
    <3>2. ASSUME NEW i \in 1 .. Len(d.delta) PROVE keys[j] # d.delta[i]
      <4>1. i \in 1 .. Len(p.delta) /\ d.delta[i] = p.delta[i] /\ i # Len(d.delta) + j
        BY <1>1, <1>3 DEF PartOf
      <4> QED
        BY <2>2, <4>1, DeltaInjective
    <3> QED
      BY <1>1, <3>1, <3>2 DEF Known
  <2>4. ASSUME NEW i \in 1 .. Len(keys), NEW j \in 1 .. Len(keys), keys[i] = keys[j]
        PROVE  i = j
    <3>1. Len(d.delta) + i = Len(d.delta) + j
      BY <2>2, <2>4, DeltaInjective
    <3> QED
      BY <1>1, <1>3, <3>1
  <2>5. NewEntries(d, keys) = keys
    BY <1>1, <1>3, <2>3, <2>4, AllEntriesRead DEF Known
  <2>6. DirectoryLen(d) + Len(e.keys) <= d.capacity /\ DirectoryLen(d) + Len(keys) <= d.capacity
        /\ DirectoryLen(d) \in Nat
    <3>1. BaseLen(d) + Len(p.delta) <= d.capacity
      BY <1>1 DEF WellFormed, DirectoryLen
    <3> DEFINE n == Len(d.delta)
               m == Len(p.delta)
               all == Len(e.keys)
               some == Len(keys)
    <3>2. /\ BaseLen(d) \in Nat /\ Len(d.delta) \in Nat /\ Len(p.delta) \in Nat
          /\ d.capacity \in Nat /\ Len(e.keys) \in Nat /\ Len(keys) \in Nat
          /\ Len(keys) <= Len(e.keys)
      BY <1>1, <1>2, <1>3
    <3>3. n + all <= m /\ BaseLen(d) + m <= d.capacity /\ DirectoryLen(d) = BaseLen(d) + n
      BY <2>1, <3>1 DEF DirectoryLen
    <3>4. /\ n \in Nat /\ m \in Nat /\ all \in Nat /\ some \in Nat /\ some <= all
          /\ BaseLen(d) \in Nat /\ d.capacity \in Nat
      BY <3>2
    <3> HIDE DEF n, m, all, some
    <3>5. DirectoryLen(d) + all <= d.capacity /\ DirectoryLen(d) + some <= d.capacity
          /\ DirectoryLen(d) \in Nat
      BY <3>3, <3>4
    <3> QED
      BY <3>5 DEF all, some
  <2>7. ApplyEnvelope(d, e, arrived) = Extend(d, keys)
    <3>1. ~(DirectoryLen(d) + Len(e.keys) > d.capacity)
      <4>1. DirectoryLen(d) \in Nat /\ Len(e.keys) \in Nat /\ d.capacity \in Nat
        BY <1>1, <1>2, <2>6
      <4> QED
        BY <2>6, <4>1
    <3>2. ApplyEnvelope(d, e, arrived) = ReadEntries(d, Len(e.keys), keys)
      BY <1>5 DEF ApplyEnvelope, keys
    <3> QED
      BY <2>5, <3>1, <3>2 DEF ReadEntries
  <2> DEFINE x == Extend(d, keys)
  <2>8. /\ WellFormed(x) /\ x.base = d.base /\ x.slot = d.slot /\ x.version = d.version
        /\ x.capacity = d.capacity /\ x.delta = d.delta \o keys
    BY <1>3, <2>3, <2>4, <2>6, ExtendWellFormed
  <2> HIDE DEF x
  <2>9. /\ Len(x.delta) = Len(d.delta) + Len(keys)
        /\ \A i \in 1 .. Len(d.delta) : x.delta[i] = d.delta[i]
        /\ \A i \in 1 .. Len(keys) : x.delta[Len(d.delta) + i] = keys[i]
    <3>1. d.delta \in Seq(Keys) /\ keys \in Seq(Keys)
      BY <1>1, <1>3
    <3> QED
      BY <2>8, <3>1, ConcatFacts
  <2>10. ASSUME NEW i \in 1 .. Len(x.delta) PROVE x.delta[i] = p.delta[i]
    <3>1. CASE i <= Len(d.delta)
      BY <1>1, <2>9, <3>1 DEF PartOf
    <3>2. CASE ~(i <= Len(d.delta))
      <4>1. i - Len(d.delta) \in 1 .. Len(keys) /\ Len(d.delta) + (i - Len(d.delta)) = i
        BY <1>1, <1>3, <2>9, <3>2
      <4> QED
        BY <2>2, <2>9, <4>1
    <3> QED
      BY <3>1, <3>2
  <2>11. PartOf(x, p)
    <3>1. Len(x.delta) <= Len(p.delta)
      <4>1. /\ Len(d.delta) \in Nat /\ Len(p.delta) \in Nat /\ Len(e.keys) \in Nat
            /\ Len(keys) \in Nat /\ Len(keys) <= Len(e.keys)
        BY <1>1, <1>2, <1>3
      <4>2. Len(x.delta) = Len(d.delta) + Len(keys)
        BY <2>9
      <4>3. Len(d.delta) + Len(keys) <= Len(p.delta)
        BY <2>1, <4>1, Room
      <4> QED
        BY <4>2, <4>3
    <3> QED
      BY <2>8, <2>10, <3>1 DEF PartOf
  <2> QED
    BY <1>1, <1>3, <2>7, <2>8, <2>9, <2>11 DEF x
<1> QED
  BY <1>4, <1>5
-----------------------------------------------------------------------------
(* The records *)

\* After records are laid out for a directory, each key's record is at its index.
LEMMA LaidOut ==
  ASSUME NEW d, WellFormed(d)
  PROVE  /\ Layout(d) \in [version : Versions, key : [0 .. d.capacity - 1 -> Keys \cup {Nothing}]]
         /\ Layout(d).version = d.version
         /\ \A k \in Known(d) : Layout(d).key[IndexOf(d, k)] = k
<1> DEFINE indices == 0 .. d.capacity - 1
           entry(i) == IF \E k \in Known(d) : IndexOf(d, k) = i
                       THEN CHOOSE k \in Known(d) : IndexOf(d, k) = i ELSE Nothing
           key == [i \in indices |-> entry(i)]
<1>1. Layout(d) = [version |-> d.version, key |-> key]
  BY DEF Layout
<1>2. /\ d.version \in Versions /\ d.capacity \in Nat /\ Known(d) \subseteq Keys
      /\ BaseLen(d) \in Nat /\ Len(d.delta) \in Nat
  <2>1. /\ d.base \subseteq Keys /\ ToSet(d.delta) = {d.delta[j] : j \in 1 .. Len(d.delta)}
        /\ \A j \in 1 .. Len(d.delta) : d.delta[j] \in Keys
    BY Fields
  <2> QED
    BY <2>1, Fields DEF Known
<1>3. \A i \in indices : entry(i) \in Keys \cup {Nothing}
  BY <1>2
<1>4. key \in [indices -> Keys \cup {Nothing}]
  BY <1>3
<1>5. ASSUME NEW k \in Known(d)
      PROVE  IndexOf(d, k) \in indices /\ key[IndexOf(d, k)] = k
  <2>1. IndexOf(d, k) \in indices
    <3>1. IndexOf(d, k) \in 0 .. DirectoryLen(d) - 1
      BY KeysHaveOwnIndex
    <3>2. DirectoryLen(d) \in Nat /\ DirectoryLen(d) <= d.capacity
      BY <1>2 DEF WellFormed, DirectoryLen
    <3> QED
      BY <1>2, <3>1, <3>2
  <2>2. \A l \in Known(d) : IndexOf(d, l) = IndexOf(d, k) => l = k
    BY KeysHaveOwnIndex
  <2> HIDE DEF indices
  <2>3. entry(IndexOf(d, k)) = k
    BY <2>2
  <2> QED
    BY <2>1, <2>3
<1> HIDE DEF key, indices
<1> QED
  BY <1>1, <1>2, <1>4, <1>5 DEF indices

\* A key whose record is not at the index the server's directory gives is a new key, and
\* pushed it gets a place of its own behind all others.
LEMMA PushedDirectory ==
  ASSUME WellFormed(server), StorageInv, NEW k \in Keys, IsNovel(k), CanPush(server, k)
  PROVE  WellFormed(Push(server, k)) /\ PartOf(server, Push(server, k))
<1> DEFINE d == server
           tail == <<k>>
           x == Push(d, k)
<1>1. /\ d.base \in SUBSET Keys /\ d.delta \in Seq(Keys) /\ Len(d.delta) \in Nat
      /\ BaseLen(d) \in Nat /\ d.capacity \in Nat
      /\ ToSet(d.delta) = DOMAIN d.lookup
  BY Fields
<1>2. k \notin ToSet(d.delta) /\ DirectoryLen(d) + 1 <= d.capacity
  <2>1. k \notin DOMAIN d.lookup /\ DirectoryLen(d) < d.capacity
    BY DEF CanPush
  <2>2. DirectoryLen(d) \in Nat
    BY <1>1 DEF DirectoryLen
  <2> QED
    BY <1>1, <2>1, <2>2
<1>3. k \notin d.base
  <2> SUFFICES ASSUME k \in d.base PROVE FALSE
    OBVIOUS
  <2>1. IndexOf(d, k) = d.slot[k]
    BY Indices
  <2>2. storage.key[d.slot[k]] = k
    BY DEF StorageInv, IsNovel
  <2> QED
    BY <2>1, <2>2 DEF IsNovel
<1>4. tail \in Seq(Keys) /\ Len(tail) = 1 /\ \A j \in 1 .. Len(tail) : j = 1 /\ tail[j] = k
  OBVIOUS
<1>5. k \notin Known(d)
  BY <1>2, <1>3 DEF Known
<1>6. x = Extend(d, tail)
  BY DEF Push
<1> HIDE DEF d, tail, x
<1>7. /\ WellFormed(x) /\ x.base = d.base /\ x.slot = d.slot /\ x.version = d.version
      /\ x.capacity = d.capacity /\ x.delta = d.delta \o tail
  <2>1. WellFormed(d)
    BY DEF d
  <2>2. \A j \in 1 .. Len(tail) : tail[j] \notin Known(d)
    BY <1>4, <1>5
  <2>3. \A i, j \in 1 .. Len(tail) : tail[i] = tail[j] => i = j
    BY <1>4
  <2>4. DirectoryLen(d) + Len(tail) <= d.capacity
    BY <1>2, <1>4
  <2> QED
    BY <1>4, <1>6, <2>1, <2>2, <2>3, <2>4, ExtendWellFormed
<1>8. Len(x.delta) = Len(d.delta) + 1 /\ \A i \in 1 .. Len(d.delta) : x.delta[i] = d.delta[i]
  BY <1>1, <1>4, <1>7, ConcatFacts
<1>9. Len(d.delta) <= Len(x.delta)
  BY <1>1, <1>8
<1> QED
  BY <1>7, <1>8, <1>9 DEF PartOf, d, x
-----------------------------------------------------------------------------
(* Every step keeps the invariant *)

\* At first nothing is saved, nothing is known to clients and nothing is under way.
LEMMA InitInvariant ==
  ASSUME Init
  PROVE  IInv
<1>1. PICK slot \in Mphfs(Base), capacity \in Capacities :
        server = NewDirectory(Base, slot, capacity, 0)
  BY DEF Init
<1>2. /\ storage = Layout(server) /\ saved = Nothing /\ client = [c \in Clients |-> Nothing]
      /\ envelopes = {} /\ blobs = {} /\ history = [v \in Versions |-> Nothing]
  BY DEF Init
<1>3. WellFormed(server)
  <2>1. Base \in SUBSET Keys /\ 0 \in Versions /\ Cardinality(Base) <= capacity
    BY SyncAssumption DEF Versions
  <2> QED
    BY <1>1, <2>1, NewWellFormed
<1>4. server.version \in Versions /\ \A v \in Versions : history[v] = Nothing
  BY <1>2, <1>3, Fields
<1>5. StorageInv
  <2>1. \A k \in server.base : k \in Known(server) /\ IndexOf(server, k) = server.slot[k]
    BY <1>3, Indices DEF Known
  <2> QED
    BY <1>2, <1>3, <1>4, <2>1, LaidOut DEF StorageInv, Versions
<1> QED
  BY <1>2, <1>3, <1>4, <1>5 DEF IInv, HistoryInv, ServerInv, SavedInv, CopiesInv

\* What only pushes keys leaves the server's records and everyone's copies as they are.
LEMMA PushKeyInvariant ==
  ASSUME IInv, NEW k \in Keys, PushKey(k)
  PROVE  IInv'
<1>1. /\ server' = Push(server, k) /\ UNCHANGED <<storage, saved, client, envelopes, blobs, history>>
      /\ IsNovel(k) /\ CanPush(server, k)
  BY DEF PushKey
<1>2. WellFormed(server) /\ WellFormed(server') /\ PartOf(server, server')
  BY <1>1, PushedDirectory DEF IInv, ServerInv
<1>3. /\ server'.version = server.version /\ server'.capacity = server.capacity
      /\ server'.base = server.base /\ server'.slot = server.slot
  BY <1>2 DEF PartOf
<1>4. HistoryInv'
  BY <1>1, <1>3 DEF IInv, HistoryInv
<1>5. ServerInv'
  <2> SUFFICES ASSUME history[server.version] # Nothing
               PROVE  PartOf(history[server.version], server')
    BY <1>1, <1>2, <1>3 DEF ServerInv
  <2>1. PartOf(history[server.version], server) /\ WellFormed(history[server.version])
    BY <1>2, Fields DEF IInv, ServerInv, HistoryInv
  <2> QED
    BY <1>2, <2>1, PartOfTransitive
<1>6. SavedInv'
  BY <1>1, <1>3 DEF IInv, SavedInv
<1>7. StorageInv'
  BY <1>1, <1>3 DEF IInv, StorageInv, RecordsOf
<1>8. CopiesInv'
  BY <1>1 DEF IInv, CopiesInv, Published
<1> QED
  BY <1>4, <1>5, <1>6, <1>7, <1>8 DEF IInv

\* A record written at the index of its key disturbs no other key's.
LEMMA WriteRecordInvariant ==
  ASSUME IInv, NEW k \in Keys, WriteRecord(k)
  PROVE  IInv'
<1> DEFINE i == IndexOf(server, k)
<1>1. /\ storage' = [storage EXCEPT !.key[i] = k] /\ storage.version = server.version
      /\ k \in DOMAIN server.lookup
      /\ UNCHANGED <<server, saved, client, envelopes, blobs, history>>
  BY DEF WriteRecord
<1>2. WellFormed(server) /\ server.version \in Versions /\ k \in Known(server)
      /\ k \notin server.base
  BY <1>1, Fields DEF IInv, ServerInv, WellFormed, Known
<1> DEFINE indices == 0 .. server.capacity - 1
<1>3. /\ \A l \in Known(server) : IndexOf(server, l) \in indices
      /\ \A l \in Known(server) : l # k => IndexOf(server, l) # i
  <2>1. \A l \in Known(server) : IndexOf(server, l) \in 0 .. DirectoryLen(server) - 1
    BY <1>2, KeysHaveOwnIndex
  <2>2. DirectoryLen(server) <= server.capacity /\ DirectoryLen(server) \in Nat
        /\ server.capacity \in Nat
    BY <1>2, Fields DEF WellFormed, DirectoryLen
  <2> QED
    BY <1>2, <2>1, <2>2, KeysHaveOwnIndex
<1>4. /\ storage' \in [version : Versions, key : [indices -> Keys \cup {Nothing}]]
      /\ storage'.version = storage.version
      /\ storage'.key = [storage.key EXCEPT ![i] = k]
      /\ storage.key \in [indices -> Keys \cup {Nothing}]
  <2> HIDE DEF i, indices
  <2>1. storage \in [version : Versions, key : [indices -> Keys \cup {Nothing}]]
    BY DEF IInv, StorageInv, indices
  <2>2. storage'.key = [storage.key EXCEPT ![i] = k] /\ storage'.version = storage.version
        /\ storage' = [version |-> storage.version, key |-> [storage.key EXCEPT ![i] = k]]
    BY <1>1, <2>1
  <2>3. [storage.key EXCEPT ![i] = k] \in [indices -> Keys \cup {Nothing}]
    BY <2>1
  <2> QED
    BY <2>1, <2>2, <2>3
<1>5. i \in indices
  BY <1>2, <1>3
<1> HIDE DEF i, indices
<1>6. ASSUME NEW l \in Known(server), storage.key[IndexOf(server, l)] = l \/ l = k
      PROVE  storage'.key[IndexOf(server, l)] = l
  BY <1>3, <1>4, <1>5, <1>6 DEF i
<1>7. \A l \in server.base : storage'.key[server.slot[l]] = l
  <2> SUFFICES ASSUME NEW l \in server.base PROVE storage'.key[server.slot[l]] = l
    OBVIOUS
  <2>1. l \in Known(server) /\ IndexOf(server, l) = server.slot[l]
    BY <1>2, Indices DEF Known
  <2>2. storage.key[server.slot[l]] = l
    BY <1>1 DEF IInv, StorageInv
  <2> QED
    BY <1>6, <2>1, <2>2
<1>8. ASSUME history[server.version] # Nothing, NEW l \in Known(history[server.version])
      PROVE  storage'.key[IndexOf(history[server.version], l)] = l
  <2> DEFINE h == history[server.version]
  <2>1. WellFormed(h) /\ PartOf(h, server)
    BY <1>2, <1>8 DEF IInv, ServerInv, HistoryInv
  <2>2. l \in Known(server) /\ IndexOf(h, l) = IndexOf(server, l)
    BY <1>2, <1>8, <2>1, SameIndex
  <2>3. storage.key[IndexOf(h, l)] = l
    BY <1>1, <1>8 DEF IInv, StorageInv, RecordsOf
  <2> QED
    BY <1>6, <2>2, <2>3
<1>9. StorageInv'
  <2>1. history'[storage'.version] = history[server.version]
    BY <1>1, <1>4
  <2>2. storage.version <= server.version
    BY DEF IInv, StorageInv
  <2> QED
    BY <1>1, <1>4, <1>7, <1>8, <2>1, <2>2 DEF StorageInv, RecordsOf, indices
<1>10. HistoryInv' /\ ServerInv' /\ SavedInv' /\ CopiesInv'
  BY <1>1 DEF IInv, HistoryInv, ServerInv, SavedInv, CopiesInv, Published
<1> QED
  BY <1>9, <1>10 DEF IInv
\* Records laid out anew are those of every saved directory of the version.
LEMMA RewriteRecordsInvariant ==
  ASSUME IInv, RewriteRecords
  PROVE  IInv'
<1>1. storage' = Layout(server) /\ UNCHANGED <<server, saved, client, envelopes, blobs, history>>
  BY DEF RewriteRecords
<1>2. WellFormed(server) /\ server.version \in Versions
  BY Fields DEF IInv, ServerInv
<1>3. \A k \in server.base : k \in Known(server) /\ IndexOf(server, k) = server.slot[k]
  BY <1>2, Indices DEF Known
<1>4. ASSUME history[server.version] # Nothing, NEW k \in Known(history[server.version])
      PROVE  storage'.key[IndexOf(history[server.version], k)] = k
  <2> DEFINE h == history[server.version]
  <2>1. WellFormed(h) /\ PartOf(h, server)
    BY <1>2, <1>4 DEF IInv, ServerInv, HistoryInv
  <2>2. k \in Known(server) /\ IndexOf(h, k) = IndexOf(server, k)
    BY <1>2, <1>4, <2>1, SameIndex
  <2> QED
    BY <1>1, <1>2, <2>2, LaidOut
<1>5. StorageInv'
  <2>1. /\ storage' \in [version : Versions, key : [0 .. server.capacity - 1 -> Keys \cup {Nothing}]]
        /\ storage'.version = server.version /\ server.version <= server.version
        /\ \A k \in server.base : storage'.key[server.slot[k]] = k
    BY <1>1, <1>2, <1>3, LaidOut DEF Versions
  <2> QED
    BY <1>1, <1>4, <2>1 DEF StorageInv, RecordsOf
<1>6. HistoryInv' /\ ServerInv' /\ SavedInv' /\ CopiesInv'
  BY <1>1 DEF IInv, HistoryInv, ServerInv, SavedInv, CopiesInv, Published
<1> QED
  BY <1>5, <1>6 DEF IInv

\* A re-derived directory is of a version nothing has been saved of yet.
LEMMA RebuildInvariant ==
  ASSUME IInv, Rebuild
  PROVE  IInv'
<1>1. PICK slot \in Mphfs(Known(server)) :
        server' = NewDirectory(Known(server), slot, server.capacity, server.version + 1)
  BY DEF Rebuild, Rebuilt
<1>2. /\ UNCHANGED <<storage, saved, client, envelopes, blobs, history>>
      /\ Cardinality(Known(server)) <= server.capacity /\ server.version < MaxVersion
  BY DEF Rebuild, CanRebuild
<1>3. WellFormed(server) /\ server.version \in Versions /\ server.version + 1 \in Versions
      /\ Known(server) \in SUBSET Keys /\ server.capacity \in Capacities
  <2>1. WellFormed(server)
    BY DEF IInv, ServerInv
  <2>2. server.version \in Versions /\ server.version + 1 \in Versions
    BY <1>2, <2>1, Fields, SyncAssumption DEF Versions
  <2>3. /\ server.base \subseteq Keys
        /\ ToSet(server.delta) = {server.delta[j] : j \in 1 .. Len(server.delta)}
        /\ \A j \in 1 .. Len(server.delta) : server.delta[j] \in Keys
    BY <2>1, Fields
  <2> QED
    BY <2>1, <2>2, <2>3 DEF Known, WellFormed, Directories
<1>4. /\ WellFormed(server') /\ server'.version = server.version + 1
      /\ server'.capacity = server.capacity
  BY <1>1, <1>2, <1>3, NewWellFormed DEF NewDirectory
<1>5. \A v \in Versions : v > server.version => history[v] = Nothing
  BY <1>3 DEF IInv, SavedInv, Versions
<1>6. HistoryInv'
  BY <1>2, <1>4 DEF IInv, HistoryInv
<1>7. ServerInv'
  BY <1>2, <1>3, <1>4, <1>5 DEF ServerInv, Versions
<1>8. SavedInv'
  BY <1>2, <1>3, <1>4 DEF IInv, SavedInv, Versions
<1>9. StorageInv'
  <2>1. storage.version \in Versions /\ storage.version <= server.version
    BY DEF IInv, StorageInv
  <2>2. storage.version <= server.version + 1 /\ storage.version # server.version + 1
    BY <1>3, <2>1 DEF Versions
  <2> QED
    BY <1>2, <1>4, <2>2 DEF IInv, StorageInv, RecordsOf
<1>10. CopiesInv'
  BY <1>2 DEF IInv, CopiesInv, Published
<1> QED
  BY <1>6, <1>7, <1>8, <1>9, <1>10 DEF IInv

\* What is saved continues what was saved of the version before, so every copy and
\* envelope of it stays a part.
LEMMA SaveInvariant ==
  ASSUME IInv, Save
  PROVE  IInv'
<1>1. /\ saved' = server /\ history' = [history EXCEPT ![server.version] = server]
      /\ UNCHANGED <<server, storage, client, envelopes, blobs>> /\ RecordsWritten
  BY DEF Save
<1>2. WellFormed(server) /\ server.version \in Versions /\ server # Nothing
  BY Fields, NothingAssumption DEF IInv, ServerInv, WellFormed
<1>3. /\ history'[server.version] = server
      /\ \A v \in Versions : v # server.version => history'[v] = history[v]
      /\ history' \in [Versions -> Directories \cup {Nothing}]
  BY <1>1, <1>2 DEF IInv, HistoryInv, WellFormed
<1>4. HistoryInv'
  BY <1>1, <1>2, <1>3 DEF IInv, HistoryInv
<1>5. ServerInv'
  BY <1>1, <1>2, <1>3, PartOfSelf DEF IInv, ServerInv
<1>6. SavedInv'
  <2>1. \A v \in Versions : v > server.version => history[v] = Nothing
    BY <1>2 DEF IInv, SavedInv, Versions
  <2> QED
    BY <1>1, <1>2, <1>3, <2>1 DEF SavedInv, Versions
<1>7. StorageInv'
  BY <1>1, <1>2, <1>3 DEF IInv, StorageInv, RecordsOf, RecordsWritten
<1>8. ASSUME NEW v \in Versions, history[v] # Nothing
      PROVE  /\ WellFormed(history[v]) /\ WellFormed(history'[v]) /\ history'[v] # Nothing
             /\ PartOf(history[v], history'[v])
  BY <1>2, <1>3, <1>8, PartOfSelf DEF IInv, HistoryInv, ServerInv
<1>9. ASSUME NEW d, Published(d)
      PROVE  WellFormed(d) /\ history'[d.version] # Nothing /\ PartOf(d, history'[d.version])
  <2>1. WellFormed(d) /\ d.version \in Versions /\ history[d.version] # Nothing
        /\ PartOf(d, history[d.version])
    BY <1>9, Fields DEF Published
  <2> QED
    BY <1>8, <2>1, PartOfTransitive
<1>10. ASSUME NEW e \in envelopes
       PROVE  e.version \in Versions /\ history'[e.version] # Nothing
              /\ SegmentOf(e, history'[e.version])
  <2>1. e.version \in Versions /\ history[e.version] # Nothing
        /\ SegmentOf(e, history[e.version])
    BY DEF IInv, CopiesInv
  <2> QED
    BY <1>8, <2>1, SegmentOfWhole
<1>11. CopiesInv'
  BY <1>1, <1>9, <1>10 DEF IInv, CopiesInv, Published
<1> QED
  BY <1>4, <1>5, <1>6, <1>7, <1>11 DEF IInv

\* The directory the server restarts from is the newest that was saved, of any version.
LEMMA RestartInvariant ==
  ASSUME IInv, Restart
  PROVE  IInv'
<1>1. /\ saved # Nothing /\ server' = Transferred(saved) /\ storage' = Layout(server')
      /\ UNCHANGED <<saved, client, envelopes, blobs, history>>
  BY DEF Restart
<1>2. /\ saved.version \in Versions /\ saved = history[saved.version] /\ WellFormed(saved)
      /\ saved.capacity = server.capacity
      /\ \A v \in Versions : v > saved.version => history[v] = Nothing
  BY <1>1 DEF IInv, SavedInv, HistoryInv
<1>3. server' = saved
  BY <1>1, <1>2, TransferredSame
<1>4. HistoryInv'
  BY <1>1, <1>2, <1>3 DEF IInv, HistoryInv
<1>5. ServerInv'
  BY <1>1, <1>2, <1>3, PartOfSelf DEF ServerInv
<1>6. SavedInv'
  BY <1>1, <1>2, <1>3 DEF SavedInv, Versions
<1>7. StorageInv'
  <2>1. \A k \in saved.base : k \in Known(saved) /\ IndexOf(saved, k) = saved.slot[k]
    BY <1>2, Indices DEF Known
  <2>2. /\ storage' \in [version : Versions, key : [0 .. saved.capacity - 1 -> Keys \cup {Nothing}]]
        /\ storage'.version = saved.version
        /\ \A k \in Known(saved) : storage'.key[IndexOf(saved, k)] = k
    BY <1>1, <1>2, <1>3, LaidOut
  <2>3. \A k \in saved.base : storage'.key[saved.slot[k]] = k
    BY <2>1, <2>2
  <2> QED
    BY <1>1, <1>2, <1>3, <2>2, <2>3 DEF StorageInv, RecordsOf, Versions
<1>8. CopiesInv'
  BY <1>1 DEF IInv, CopiesInv, Published
<1> QED
  BY <1>4, <1>5, <1>6, <1>7, <1>8 DEF IInv
\* Only what has been saved is sent.
LEMMA SendInvariant ==
  ASSUME IInv, SendBlob \/ \E have \in 0 .. server.capacity : SendEnvelope(have)
  PROVE  IInv'
<1>1. /\ saved = server /\ UNCHANGED <<server, storage, saved, client, history>>
      /\ \A b \in blobs' : b \in blobs \/ b = server
      /\ \A e \in envelopes' :
           e \in envelopes \/ \E have \in Nat : CanWriteEnvelope(server, have) /\ e = Envelope(server, have)
  <2>1. CASE SendBlob
    BY <2>1 DEF SendBlob
  <2>2. ASSUME NEW have \in 0 .. server.capacity, SendEnvelope(have)
        PROVE  <1>1!:
    <3>1. have \in Nat
      BY Fields DEF IInv, ServerInv
    <3> QED
      BY <2>2, <3>1 DEF SendEnvelope
  <2> QED
    BY <2>1, <2>2
<1>2. /\ WellFormed(server) /\ server.version \in Versions /\ history[server.version] = server
      /\ history[server.version] # Nothing
  <2>1. WellFormed(server) /\ server # Nothing
    BY NothingAssumption DEF IInv, ServerInv, WellFormed
  <2> QED
    BY <1>1, <2>1 DEF IInv, SavedInv
<1>3. Published(server)
  BY <1>2, PartOfSelf DEF Published
<1>4. ASSUME NEW e \in envelopes'
      PROVE  e.version \in Versions /\ history[e.version] # Nothing
             /\ SegmentOf(e, history[e.version])
  <2>1. CASE e \in envelopes
    BY <2>1 DEF IInv, CopiesInv
  <2>2. ASSUME NEW have \in Nat, CanWriteEnvelope(server, have), e = Envelope(server, have)
        PROVE  e.version \in Versions /\ history[e.version] # Nothing
               /\ SegmentOf(e, history[e.version])
    <3>1. SegmentOf(e, server) /\ e.version = server.version
      BY <1>2, <2>2, EnvelopeIsSegment DEF Envelope
    <3> QED
      BY <1>2, <3>1
  <2> QED
    BY <1>1, <2>1, <2>2
<1>5. CopiesInv'
  BY <1>1, <1>3, <1>4 DEF IInv, CopiesInv, Published
<1> QED
  BY <1>1, <1>5 DEF IInv, HistoryInv, ServerInv, SavedInv, StorageInv, RecordsOf

\* What is left when messages are lost was under way before.
LEMMA LoseInvariant ==
  ASSUME IInv,
         (\E e \in envelopes : LoseEnvelope(e)) \/ (\E b \in blobs : LoseBlob(b))
  PROVE  IInv'
<1>1. /\ UNCHANGED <<server, storage, saved, client, history>>
      /\ envelopes' \subseteq envelopes /\ blobs' \subseteq blobs
  BY DEF LoseEnvelope, LoseBlob
<1> QED
  BY <1>1 DEF IInv, HistoryInv, ServerInv, SavedInv, StorageInv, CopiesInv, RecordsOf, Published

\* What a client makes of an envelope: a directory with at least the keys it had, and
\* still a part of what was saved of its version.
LEMMA ReceivedEnvelope ==
  ASSUME IInv, NEW c \in Clients, NEW e \in envelopes, NEW arrived \in 0 .. Len(e.keys),
         client[c] # Nothing
  PROVE  LET x == ApplyEnvelope(client[c], e, arrived) IN
         Published(x) /\ x.version = client[c].version /\ Len(x.delta) >= Len(client[c].delta)
<1> DEFINE d == client[c]
           x == ApplyEnvelope(d, e, arrived)
<1>1. WellFormed(d) /\ d.version \in Versions /\ history[d.version] # Nothing
      /\ PartOf(d, history[d.version]) /\ WellFormed(history[d.version])
  BY Fields DEF IInv, CopiesInv, HistoryInv, Published
<1>2. CASE AcceptsEnvelope(d, e)
  <2>1. e.version = d.version
    BY <1>2 DEF AcceptsEnvelope
  <2>2. SegmentOf(e, history[d.version])
    BY <2>1 DEF IInv, CopiesInv
  <2> QED
    BY <1>1, <2>2, ApplyKeepsPart DEF Published
<1>3. CASE ~AcceptsEnvelope(d, e)
  <2>1. x = d /\ Len(d.delta) \in Nat
    BY <1>1, <1>3, Fields DEF ApplyEnvelope
  <2> QED
    BY <1>1, <2>1 DEF Published
<1> QED
  BY <1>2, <1>3

\* read_from of a blob that arrived whole gives the directory it was written from.
LEMMA ReceivedBlob ==
  ASSUME IInv, NEW b \in blobs
  PROVE  Transferred(b) = b /\ Published(b)
BY TransferredSame DEF IInv, CopiesInv, Published

\* A client takes a later blob whole, or keeps what it has.
LEMMA ReceiveInvariant ==
  ASSUME IInv, NEW c \in Clients, NEW x, Published(x), client' = [client EXCEPT ![c] = x],
         UNCHANGED <<server, storage, saved, envelopes, blobs, history>>
  PROVE  IInv'
<1>1. x \in Directories
  BY DEF Published, WellFormed
<1>2. client' \in [Clients -> Directories \cup {Nothing}]
      /\ \A a \in Clients : client'[a] = IF a = c THEN x ELSE client[a]
  BY <1>1 DEF IInv, CopiesInv
<1>3. CopiesInv'
  BY <1>2 DEF IInv, CopiesInv, Published
<1> QED
  BY <1>3 DEF IInv, HistoryInv, ServerInv, SavedInv, StorageInv, RecordsOf

\* Each step of the specification keeps the invariant.
LEMMA NextInvariant ==
  ASSUME IInv, [Next]_vars
  PROVE  IInv'
<1>1. ASSUME NEW k \in Keys, PushKey(k) PROVE IInv'
  BY <1>1, PushKeyInvariant
<1>2. ASSUME NEW k \in Keys, WriteRecord(k) PROVE IInv'
  BY <1>2, WriteRecordInvariant
<1>3. CASE RewriteRecords
  BY <1>3, RewriteRecordsInvariant
<1>4. CASE Rebuild
  BY <1>4, RebuildInvariant
<1>5. CASE Save
  BY <1>5, SaveInvariant
<1>6. CASE Restart
  BY <1>6, RestartInvariant
<1>7. CASE SendBlob \/ \E have \in 0 .. server.capacity : SendEnvelope(have)
  BY <1>7, SendInvariant
<1>8. CASE (\E e \in envelopes : LoseEnvelope(e)) \/ (\E b \in blobs : LoseBlob(b))
  BY <1>8, LoseInvariant
<1>9. ASSUME NEW c \in Clients, NEW e \in envelopes, NEW arrived \in 0 .. Len(e.keys),
             ReceiveEnvelope(c, e, arrived)
      PROVE  IInv'
  BY <1>9, ReceivedEnvelope, ReceiveInvariant DEF ReceiveEnvelope
<1>10. ASSUME NEW c \in Clients, NEW b \in blobs, ReceiveBlob(c, b) PROVE IInv'
  BY <1>10, ReceivedBlob, ReceiveInvariant DEF ReceiveBlob
<1>11. CASE UNCHANGED vars
  BY <1>11 DEF vars, IInv, HistoryInv, ServerInv, SavedInv, StorageInv, CopiesInv,
               RecordsOf, Published
<1> QED
  BY <1>1, <1>2, <1>3, <1>4, <1>5, <1>6, <1>7, <1>8, <1>9, <1>10, <1>11 DEF Next

-----------------------------------------------------------------------------
(* The theorems *)

\* The server, its storage, the saved directories and all copies fit together in every
\* state of every behaviour.
THEOREM Invariance == Spec => []IInv
BY InitInvariant, NextInvariant, PTL DEF Spec

\* Every directory, on the server, saved or with a client, has the shape of one.
THEOREM TypeCorrect == Spec => []TypeOK
<1>1. ASSUME IInv PROVE TypeOK
  <2>1. ASSUME NEW d, WellFormed(d), d.capacity = server.capacity PROVE Directory(d)
    <3>1. d.lookup \in [ToSet(d.delta) -> Nat] /\ DOMAIN d.lookup \subseteq Keys
      <4>1. /\ DOMAIN d.lookup = {d.delta[j] : j \in 1 .. Len(d.delta)}
            /\ \A j \in 1 .. Len(d.delta) : d.delta[j] \in Keys
        BY <2>1, Fields
      <4> QED
        BY <2>1, <4>1, Fields
    <3>2. /\ d.base \in SUBSET Keys /\ d.delta \in Seq(Keys) /\ d.version \in Versions
          /\ DOMAIN d.lookup = ToSet(d.delta) /\ d.slot \in Mphfs(d.base)
      BY <2>1, Fields DEF WellFormed
    <3> QED
      BY <2>1, <3>1, <3>2 DEF Directory
  <2>2. Directory(server)
    BY <1>1, <2>1 DEF IInv, ServerInv
  <2>3. saved # Nothing => Directory(saved)
    BY <1>1, <2>1 DEF IInv, SavedInv, HistoryInv
  <2>4. storage \in [version : Versions, key : [0 .. server.capacity - 1 -> Keys \cup {Nothing}]]
    BY <1>1 DEF IInv, StorageInv
  <2>5. ASSUME NEW c \in Clients, client[c] # Nothing PROVE Directory(client[c])
    <3>1. WellFormed(client[c]) /\ client[c].version \in Versions
          /\ history[client[c].version] # Nothing
          /\ PartOf(client[c], history[client[c].version])
      BY <1>1, <2>5, Fields DEF IInv, CopiesInv, Published
    <3>2. client[c].capacity = server.capacity
      BY <1>1, <3>1 DEF IInv, HistoryInv, PartOf
    <3> QED
      BY <2>1, <3>1, <3>2
  <2> QED
    BY <2>2, <2>3, <2>4, <2>5 DEF TypeOK
<1> QED
  BY <1>1, Invariance, PTL

\* No directory, the server's or a client's, gives two keys it knows one index, or an
\* index beyond its storage (index, push, rebuilt, apply_delta_envelope, read_from).
THEOREM KeysOwnIndices == Spec => []OneKeyPerIndex
<1>1. ASSUME IInv PROVE OneKeyPerIndex
  <2>1. ASSUME NEW d \in Copies PROVE WellFormed(d)
    BY <1>1 DEF Copies, IInv, ServerInv, CopiesInv, Published
  <2>2. ASSUME NEW d \in Copies, NEW k \in Known(d) PROVE IndexOf(d, k) < DirectoryLen(d)
    <3>1. IndexOf(d, k) \in 0 .. DirectoryLen(d) - 1 /\ DirectoryLen(d) \in Nat
      BY <2>1, KeysHaveOwnIndex, Fields DEF DirectoryLen
    <3> QED
      BY <3>1
  <2>3. ASSUME NEW d \in Copies, NEW k \in Known(d), NEW l \in Known(d),
               IndexOf(d, k) = IndexOf(d, l)
        PROVE  k = l
    BY <2>1, <2>3, KeysHaveOwnIndex
  <2>4. ASSUME NEW d \in Copies PROVE DirectoryLen(d) <= d.capacity
    BY <2>1 DEF WellFormed
  <2> QED
    BY <2>2, <2>3, <2>4 DEF OneKeyPerIndex
<1> QED
  BY <1>1, Invariance, PTL

\* However late a client is and whatever messages it has seen, it asks for a key's record
\* at the index at which the server of its version keeps it.
THEOREM RecordsFound == Spec => []ClientsFindRecords
<1>1. ASSUME IInv PROVE ClientsFindRecords
  <2> SUFFICES ASSUME NEW c \in Clients, client[c] # Nothing
               PROVE  /\ history[client[c].version] # Nothing
                      /\ \A k \in Known(client[c]) :
                           /\ IndexOf(client[c], k) = IndexOf(history[client[c].version], k)
                           /\ client[c].version = storage.version =>
                                storage.key[IndexOf(client[c], k)] = k
    BY DEF ClientsFindRecords
  <2> DEFINE d == client[c]
             h == history[d.version]
  <2>1. WellFormed(d) /\ d.version \in Versions /\ h # Nothing /\ PartOf(d, h)
    BY <1>1, Fields DEF IInv, CopiesInv, Published
  <2>2. WellFormed(h)
    BY <1>1, <2>1 DEF IInv, HistoryInv
  <2>3. ASSUME NEW k \in Known(d) PROVE k \in Known(h) /\ IndexOf(d, k) = IndexOf(h, k)
    BY <2>1, <2>2, SameIndex
  <2>4. d.version = storage.version => RecordsOf(h)
    BY <1>1, <2>1 DEF IInv, StorageInv
  <2> QED
    BY <2>1, <2>3, <2>4 DEF RecordsOf
<1> QED
  BY <1>1, Invariance, PTL
-----------------------------------------------------------------------------
(* The refinement *)

\* Two lists agree up to a place at which both are long enough.
LEMMA SamePrefix ==
  ASSUME NEW s \in Seq(Keys), NEW t \in Seq(Keys), Len(s) <= Len(t),
         \A j \in 1 .. Len(s) : s[j] = t[j]
  PROVE  SubSeq(t, 1, Len(s)) = s /\ Log!IsPrefix(s, t)
<1>1. Len(s) \in Nat /\ Len(t) \in Nat
  OBVIOUS
<1>2. /\ SubSeq(t, 1, Len(s)) \in Seq(Keys) /\ Len(SubSeq(t, 1, Len(s))) = Len(s)
      /\ \A j \in 1 .. Len(s) : SubSeq(t, 1, Len(s))[j] = t[j]
  BY <1>1
<1>3. SubSeq(t, 1, Len(s)) = s
  BY <1>1, <1>2
<1>4. SubSeq(s, 1, Len(s)) = s
  BY <1>1
<1> QED
  BY <1>3, <1>4 DEF Log!IsPrefix

\* What is saved opens a generation or lengthens the newest one.
LEMMA SaveRecords ==
  ASSUME IInv, Save
  PROVE  Log!Record(server.version)
<1> DEFINE v == server.version
           entry(d) == [hash |-> d.slot, delta |-> d.delta]
<1>1. /\ history' = [history EXCEPT ![v] = server] /\ client' = client
      /\ history \in [Versions -> Directories \cup {Nothing}]
  BY DEF Save, IInv, HistoryInv
<1>2. /\ WellFormed(server) /\ v \in Versions /\ server # Nothing
      /\ server.slot \in [Keys -> Nat] /\ server.delta \in Seq(Keys)
  BY Fields, NothingAssumption DEF IInv, ServerInv, WellFormed
<1>3. /\ AbstractLog = [u \in Versions |-> IF history[u] = Nothing THEN Nothing ELSE entry(history[u])]
      /\ AbstractLog' = [u \in Versions |->
                           IF history'[u] = Nothing THEN Nothing ELSE entry(history'[u])]
  BY DEF AbstractLog
<1>4. DOMAIN AbstractLog' = Versions
  BY <1>3
<1>5. AbstractLog'[v] = entry(server) /\ AbstractLog'[v] # Nothing
  <2>1. history'[v] = server
    BY <1>1, <1>2
  <2>2. entry(server) # Nothing
    BY <1>2, NothingAssumption
  <2> QED
    BY <1>2, <1>3, <2>1, <2>2
<1>6. \A u \in Versions \ {v} : AbstractLog'[u] = AbstractLog[u]
  BY <1>1, <1>3
<1>7. \A u \in Versions : u > v => AbstractLog[u] = Nothing
  <2>1. \A u \in Versions : u > v => history[u] = Nothing
    BY <1>2 DEF IInv, SavedInv, Versions
  <2> QED
    BY <1>3, <2>1
<1>8. ASSUME AbstractLog[v] # Nothing
      PROVE  /\ AbstractLog'[v].hash = AbstractLog[v].hash
             /\ Log!IsPrefix(AbstractLog[v].delta, AbstractLog'[v].delta)
  <2> DEFINE h == history[v]
  <2>1. h # Nothing /\ AbstractLog[v] = entry(h)
    BY <1>2, <1>3, <1>8
  <2>2. WellFormed(h) /\ PartOf(h, server)
    BY <1>2, <2>1 DEF IInv, HistoryInv, ServerInv
  <2>3. Log!IsPrefix(h.delta, server.delta)
    <3>1. /\ h.delta \in Seq(Keys) /\ Len(h.delta) <= Len(server.delta)
          /\ \A j \in 1 .. Len(h.delta) : h.delta[j] = server.delta[j]
      BY <2>2, Fields DEF PartOf
    <3> QED
      BY <1>2, <3>1, SamePrefix
  <2> QED
    BY <1>5, <2>1, <2>2, <2>3 DEF PartOf
<1>9. AbstractReplica' = AbstractReplica
  BY <1>1 DEF AbstractReplica
<1> QED
  BY <1>4, <1>5, <1>6, <1>7, <1>8, <1>9 DEF Log!Record

\* A client that takes a published directory at least as new as its own catches up.
LEMMA ReceiveCatchesUp ==
  ASSUME IInv, NEW c \in Clients, NEW x, Published(x),
         client' = [client EXCEPT ![c] = x], history' = history,
         client[c] # Nothing =>
           x.version > client[c].version
           \/ (x.version = client[c].version /\ Len(x.delta) >= Len(client[c].delta))
  PROVE  Log!CatchUp(c)
<1> DEFINE v == x.version
           h == history[v]
           n == Len(x.delta)
           held(d) == [version |-> d.version, hash |-> d.slot, delta |-> d.delta]
<1>1. WellFormed(x) /\ v \in Versions /\ h # Nothing /\ PartOf(x, h) /\ x # Nothing
      /\ x \in Directories
  BY Fields, NothingAssumption DEF Published, WellFormed
<1>2. WellFormed(h)
  BY <1>1 DEF IInv, HistoryInv
<1>3. AbstractLog' = AbstractLog /\ AbstractLog[v] = [hash |-> h.slot, delta |-> h.delta]
      /\ AbstractLog[v] # Nothing
  <2>1. h.slot \in [Keys -> Nat] /\ h.delta \in Seq(Keys)
    BY <1>2, Fields
  <2>2. [hash |-> h.slot, delta |-> h.delta] # Nothing
    BY <2>1, NothingAssumption
  <2> QED
    BY <1>1, <2>2 DEF AbstractLog
<1>4. n \in 0 .. Len(AbstractLog[v].delta) /\ SubSeq(AbstractLog[v].delta, 1, n) = x.delta
  <2>1. /\ x.delta \in Seq(Keys) /\ h.delta \in Seq(Keys) /\ n <= Len(h.delta)
        /\ \A j \in 1 .. n : x.delta[j] = h.delta[j]
    BY <1>1, <1>2, Fields DEF PartOf
  <2>2. SubSeq(h.delta, 1, n) = x.delta
    BY <2>1, SamePrefix
  <2>3. n \in Nat /\ Len(h.delta) \in Nat
    BY <2>1
  <2> QED
    BY <1>3, <2>1, <2>2, <2>3
<1>5. /\ AbstractReplica = [a \in Clients |->
                              IF client[a] = Nothing THEN Nothing ELSE held(client[a])]
      /\ AbstractReplica' = [a \in Clients |->
                               IF client'[a] = Nothing THEN Nothing ELSE held(client'[a])]
  BY DEF AbstractReplica
<1>6. Log!Ahead(AbstractReplica[c], v, n)
  <2>1. CASE client[c] = Nothing
    BY <1>5, <2>1 DEF Log!Ahead
  <2>2. CASE client[c] # Nothing
    <3>1. AbstractReplica[c] = held(client[c])
      BY <1>5, <2>2
    <3>2. AbstractReplica[c].version = client[c].version
          /\ AbstractReplica[c].delta = client[c].delta
      BY <3>1
    <3> QED
      BY <2>2, <3>2 DEF Log!Ahead
  <2> QED
    BY <2>1, <2>2
<1>7. AbstractReplica' = [AbstractReplica EXCEPT ![c] = held(x)]
  <2>1. \A a \in Clients : client'[a] = IF a = c THEN x ELSE client[a]
    BY DEF IInv, CopiesInv
  <2> HIDE DEF held
  <2> QED
    BY <1>1, <1>5, <2>1
<1>8. held(x) = [version |-> v, hash |-> AbstractLog[v].hash,
                 delta |-> SubSeq(AbstractLog[v].delta, 1, n)]
  BY <1>1, <1>3, <1>4 DEF PartOf
<1> HIDE DEF held, n, v
<1> QED
  BY <1>1, <1>3, <1>4, <1>6, <1>7, <1>8 DEF Log!CatchUp, v

\* Each step is one of the abstract specification, or changes nothing it sees.
LEMMA NextRefines ==
  ASSUME IInv, [Next]_vars
  PROVE  [Log!Next]_<<AbstractLog, AbstractReplica>>
<1>1. CASE Save
  <2>1. server.version \in Versions
    BY Fields DEF IInv, ServerInv
  <2> QED
    BY <1>1, <2>1, SaveRecords DEF Log!Next
<1>2. ASSUME NEW c \in Clients, NEW e \in envelopes, NEW arrived \in 0 .. Len(e.keys),
             ReceiveEnvelope(c, e, arrived)
      PROVE  Log!CatchUp(c)
  <2> DEFINE x == ApplyEnvelope(client[c], e, arrived)
  <2>1. /\ client[c] # Nothing /\ client' = [client EXCEPT ![c] = x] /\ history' = history
    BY <1>2 DEF ReceiveEnvelope
  <2>2. Published(x) /\ x.version = client[c].version /\ Len(x.delta) >= Len(client[c].delta)
    BY <2>1, ReceivedEnvelope
  <2> HIDE DEF x
  <2> QED
    BY <2>1, <2>2, ReceiveCatchesUp
<1>3. ASSUME NEW c \in Clients, NEW b \in blobs, ReceiveBlob(c, b)
      PROVE  Log!CatchUp(c)
  <2>1. /\ Transferred(b) = b /\ Published(b)
    BY ReceivedBlob
  <2> QED
    BY <1>3, <2>1, ReceiveCatchesUp DEF ReceiveBlob
<1>4. CASE UNCHANGED <<history, client>>
  BY <1>4 DEF AbstractLog, AbstractReplica
<1>5. CASE (\E k \in Keys : PushKey(k) \/ WriteRecord(k)) \/ RewriteRecords \/ Rebuild \/ Restart
           \/ (\E have \in 0 .. server.capacity : SendEnvelope(have)) \/ SendBlob
           \/ (\E e \in envelopes : LoseEnvelope(e)) \/ (\E b \in blobs : LoseBlob(b))
  BY <1>4, <1>5 DEF PushKey, WriteRecord, RewriteRecords, Rebuild, Restart, SendEnvelope, SendBlob,
                    LoseEnvelope, LoseBlob
<1>6. CASE UNCHANGED vars
  BY <1>4, <1>6 DEF vars
<1> QED
  BY <1>1, <1>2, <1>3, <1>5, <1>6 DEF Next, Log!Next

\* Synchronisation implements append-only generations: a client always holds a prefix of
\* what the server published of one version, with that version's hash, and neither its
\* version nor its list ever goes back.
THEOREM SyncImplementsLog == Spec => ImplementsLog
<1>1. ASSUME Init PROVE Log!Init
  <2>1. history = [v \in Versions |-> Nothing] /\ client = [c \in Clients |-> Nothing]
    BY <1>1 DEF Init
  <2> QED
    BY <2>1 DEF Log!Init, AbstractLog, AbstractReplica
<1> QED
  BY <1>1, Invariance, NextRefines, PTL DEF Spec, ImplementsLog, Log!Spec
=============================================================================
