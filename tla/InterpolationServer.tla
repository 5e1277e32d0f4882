------------------------ MODULE InterpolationServer ------------------------
(***************************************************************************)
(* The InsPIRe (Collapse::Interpolation) server of `server/mod.rs` and     *)
(* `server/interpolation/`.  It answers from matrices interpolated by the  *)
(* offline phase, not from the live database, so a write is invisible      *)
(* until the next offline.  The offline phase takes `&mut self`, so no     *)
(* other call runs beside it, but it stores its results in three           *)
(* assignments and a panic between them, caught by the caller, leaves the  *)
(* earlier ones in place.                                                  *)
(*                                                                         *)
(* The interpolated matrices, the prepared panels and the packing          *)
(* precomputations are each represented by the database they were made     *)
(* from.  published and torn are history variables.                        *)
(***************************************************************************)
EXTENDS PirData

CONSTANTS
  Clients,
  ShardValues,  \* the payload runs the callers write
  Loads,        \* the databases the callers write as a whole
  Batches       \* the sets of payload indices a batch asks for

VARIABLES
  database,        \* Server::database
  masksReady,      \* InterpolationPrecomputation::masks is not empty
  matrix,          \* InterpolationState::matrix, Garbage when half overwritten
  preparedU,       \* InterpolationPrecomputation::prepared_u
  precomputations, \* InterpolationPrecomputation::precomputations
  phase,           \* "idle", or the last assignment a running offline made
  reply,           \* the last batch of decoded payloads of each client
  published,       \* the database of the last offline that completed
  torn             \* an offline panicked after prepared_u, and none completed since

inspireVars == <<database, masksReady, matrix, preparedU, precomputations, phase,
                 reply, published, torn>>

ASSUME InterpolationAssumption ==
  /\ ShardValues \subseteq Seq(Values)
  /\ Loads \subseteq Databases
  /\ Batches \subseteq SUBSET Index

InspireInit ==
  /\ database = Zeroed
  /\ masksReady = FALSE
  /\ matrix = Zeroed
  /\ preparedU = Placeholder
  /\ precomputations = Placeholder
  /\ phase = "idle"
  /\ reply = [c \in Clients |-> Nothing]
  /\ published = Placeholder
  /\ torn = FALSE

-----------------------------------------------------------------------------
GenerateQueryMask ==
  /\ phase = "idle"
  /\ masksReady' = TRUE
  /\ UNCHANGED <<database, matrix, preparedU, precomputations, phase, reply, published, torn>>

UpdateShard(start, vals) ==
  /\ phase = "idle"
  /\ Accepts(database, start, vals)
  /\ database' = EncodeShard(database, start, vals)
  /\ UNCHANGED <<masksReady, matrix, preparedU, precomputations, phase, reply, published, torn>>

\* encode: all records at once.
Encode(load) ==
  /\ phase = "idle"
  /\ database' = load
  /\ UNCHANGED <<masksReady, matrix, preparedU, precomputations, phase, reply, published, torn>>

\* offline: SETUP when it has not run, then the matrices, block column by
\* block column into the buffer that holds the previous ones.
Interpolate ==
  /\ phase = "idle"
  /\ masksReady' = TRUE
  /\ matrix' = database
  /\ phase' = "interpolated"
  /\ UNCHANGED <<database, preparedU, precomputations, reply, published, torn>>

InterpolatePanics ==
  /\ phase = "idle"
  /\ masksReady' = TRUE
  /\ matrix' = Garbage
  /\ UNCHANGED <<database, preparedU, precomputations, phase, reply, published, torn>>

PrepareU ==
  /\ phase = "interpolated"
  /\ preparedU' = matrix
  /\ phase' = "prepared"
  /\ UNCHANGED <<database, masksReady, matrix, precomputations, reply, published, torn>>

\* Mutant: precomputations that exist already are kept.
PackPrecomputeOnce ==
  /\ phase = "prepared"
  /\ precomputations' = IF precomputations = Placeholder THEN preparedU ELSE precomputations
  /\ phase' = "idle"
  /\ published' = database
  /\ torn' = FALSE
  /\ UNCHANGED <<database, masksReady, matrix, preparedU, reply>>

\* The pack precomputations of all panels are assigned last, and together.
PackPrecompute ==
  /\ phase = "prepared"
  /\ precomputations' = preparedU
  /\ phase' = "idle"
  /\ published' = database
  /\ torn' = FALSE
  /\ UNCHANGED <<database, masksReady, matrix, preparedU, reply>>

\* Mutant: the buffer of a failed run is given up.
PanicsFreesMatrix ==
  /\ phase # "idle"
  /\ phase' = "idle"
  /\ matrix' = Nothing
  /\ torn' = (torn \/ phase = "prepared")
  /\ UNCHANGED <<database, masksReady, preparedU, precomputations, reply, published>>

\* A panic while the panels are prepared, or while a worker packs one.
Panics ==
  /\ phase # "idle"
  /\ phase' = "idle"
  /\ torn' = (torn \/ phase = "prepared")
  /\ UNCHANGED <<database, masksReady, matrix, preparedU, precomputations, reply, published>>

\* What the client may decode for payload i: panels and precomputations of one
\* database decrypt to it.  Of two, the interpolated differences are only equal
\* modulo p, so that any payload may be lost.
Answers(i) ==
  IF preparedU = precomputations THEN {preparedU[i]} ELSE {preparedU[i], Garbage}

\* Mutant: the prepared panels stand in for the precomputations that are checked.
RespondWhenPrepared(c, batch) ==
  /\ phase = "idle"
  /\ batch # {} => preparedU # Placeholder
  /\ \E ans \in [batch -> Values \cup {Garbage}] :
       /\ \A i \in batch : ans[i] \in Answers(i)
       /\ reply' = [reply EXCEPT ![c] = ans]
  /\ UNCHANGED <<database, masksReady, matrix, preparedU, precomputations, phase, published, torn>>

\* respond and respond_batch; "call offline() before respond()"
RespondBatch(c, batch) ==
  /\ phase = "idle"
  /\ batch # {} => precomputations # Placeholder
  /\ \E ans \in [batch -> Values \cup {Garbage}] :
       /\ \A i \in batch : ans[i] \in Answers(i)
       /\ reply' = [reply EXCEPT ![c] = ans]
  /\ UNCHANGED <<database, masksReady, matrix, preparedU, precomputations, phase, published, torn>>

InspireNext ==
  \/ GenerateQueryMask
  \/ \E start \in Index, vals \in ShardValues : UpdateShard(start, vals)
  \/ \E load \in Loads : Encode(load)
  \/ Interpolate \/ InterpolatePanics \/ PrepareU \/ PackPrecompute \/ Panics
  \/ \E c \in Clients, batch \in Batches : RespondBatch(c, batch)

InspireSpec == InspireInit /\ [][InspireNext]_inspireVars

-----------------------------------------------------------------------------
(* Properties *)

InspireTypeOK ==
  /\ database \in Databases
  /\ masksReady \in BOOLEAN
  /\ matrix \in Databases \cup {Garbage}
  /\ preparedU \in Stored
  /\ precomputations \in Stored
  /\ phase \in {"idle", "interpolated", "prepared"}
  /\ DOMAIN reply = Clients
  /\ published \in Stored
  /\ torn \in BOOLEAN

\* Between offline runs the server holds panels and precomputations of one and
\* the same database, the one the last completed offline published, whatever was
\* written since and however many offline runs failed before their second
\* assignment.
ServesOneSnapshot ==
  phase = "idle" /\ ~torn => preparedU = published /\ precomputations = published

\* A batch answered when no offline was torn shows every payload as the last
\* completed offline published it: never a later write, and never a mixture.
\* Before the first one completed only empty batches are answered.
AnswersPublished ==
  [][\A c \in Clients : reply'[c] # reply[c] /\ ~torn =>
       \A i \in DOMAIN reply'[c] :
         published \in Databases /\ reply'[c][i] = published[i]]_inspireVars

\* Until a first offline completes the server answers nothing, even with the
\* panels of a torn one in place.
RefusesBeforeFirstOffline ==
  [][\A c \in Clients : reply'[c] # reply[c] /\ published = Placeholder =>
       DOMAIN reply'[c] = {}]_inspireVars
=============================================================================
