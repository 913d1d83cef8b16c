------------------------------- MODULE Rekey -------------------------------
(***************************************************************************)
(* Master key rotation (internal/rekey): the rows of the sealed columns    *)
(* are read and sealed again, target by target, each target planned in     *)
(* full before its rows are written in guarded batches.                    *)
(*                                                                         *)
(* Runs with the same pair of keys may fail, be interrupted, follow each   *)
(* other or overlap.  The documented procedure stops the server first; a   *)
(* server that was not stopped writes rows in between, under its own key.  *)
(* A ciphertext is the key that opens it and the number of the write whose *)
(* plaintext it holds.                                                     *)
(***************************************************************************)
EXTENDS Naturals, FiniteSets

CONSTANTS Rows,        \* rows of the sealed columns
          Target,      \* the target of each row: its place in Targets()
          LastTarget,  \* the number of targets
          BatchSize,   \* rows of one transaction
          Runs,        \* invocations of the command
          Absent,      \* a row that does not exist
          MaxWrites    \* bound on the writes of a live server

ASSUME RekeyAssumption ==
  /\ LastTarget \in Nat \ {0} /\ Target \in [Rows -> 1..LastTarget]
  /\ IsFiniteSet(Rows) /\ BatchSize \in Nat \ {0} /\ MaxWrites \in Nat

\* "third" opens with neither key of the pair; "external" is a token label.
Keys == {"old", "new", "third", "external"}

Sealed == [key : Keys, plain : Nat]

ASSUME AbsentAssumption == Absent \notin Sealed /\ Absent \notin Nat

Updates == [row : Rows, old : Sealed]

RunStates == [at : {"idle", "plan", "apply", "done", "failed"},
              dry : BOOLEAN, target : 1..LastTarget, pending : SUBSET Updates]

VARIABLES row,      \* the rows
          run,      \* the invocations
          server,   \* the key the server runs with, or "down"
          writes,   \* writes and deletes of the server so far
          quiet     \* history: no server held the old key since a run began

rekeyVars == <<row, run, server, writes, quiet>>

RekeyInit == /\ row \in [Rows -> [key : Keys, plain : {0}] \cup {Absent}]
             /\ run = [n \in Runs |-> [at |-> "idle", dry |-> FALSE, target |-> 1,
                                       pending |-> {}]]
             /\ server = "old"
             /\ writes = 0
             /\ quiet = [n \in Runs |-> FALSE]

BeginRun(n) == /\ run[n].at = "idle"
               /\ \E dry \in BOOLEAN :
                    run' = [run EXCEPT ![n].at = "plan", ![n].dry = dry]
               /\ quiet' = [quiet EXCEPT ![n] = server # "old"]
               /\ UNCHANGED <<row, server, writes>>

FailRun(n) == run' = [run EXCEPT ![n].at = "failed", ![n].pending = {}]

-----------------------------------------------------------------------------
(* The plan of a target.                                                   *)

\* Mutant: a row that opens with neither key is passed over.
Classify_Lenient(c) == CASE c.key = "old" -> "reencrypt"
                         [] OTHER         -> "skip"

Classify(c) == CASE c.key \in {"external", "new"} -> "skip"
                 [] c.key = "old"                 -> "reencrypt"
                 [] c.key = "third"               -> "invalid"

\* The rows that the SELECT of a target reads.
Present(t) == {r \in Rows : Target[r] = t /\ row[r] # Absent}

Planned(t) == {[row |-> r, old |-> row[r]] :
                 r \in {q \in Present(t) : Classify(row[q]) = "reencrypt"}}

\* Mutant: the targets are counted from one.
IsLast_Past(t) == t > LastTarget

\* Mutant: the last target is left out.
IsLast_Early(t) == t + 1 >= LastTarget

IsLast(t) == t = LastTarget

\* A run goes on to its next target, with what is pending in this one.
Continue(n, pending) ==
  LET t == run[n].target
  IN  IF pending # {}
        THEN run' = [run EXCEPT ![n].at = "apply", ![n].pending = pending]
        ELSE IF IsLast(t)
               THEN run' = [run EXCEPT ![n].at = "done", ![n].pending = {}]
               ELSE run' = [run EXCEPT ![n].at = "plan", ![n].pending = {},
                                       ![n].target = t + 1]

\* One SELECT and the classification of every row it returns; a row that opens
\* with neither key ends the run before any row of the target is written.
Plan(n) ==
  LET t == run[n].target
  IN  /\ run[n].at = "plan"
      /\ IF \E r \in Present(t) : Classify(row[r]) = "invalid"
           THEN FailRun(n)
           ELSE Continue(n, IF run[n].dry THEN {} ELSE Planned(t))
      /\ UNCHANGED <<row, server, writes, quiet>>

-----------------------------------------------------------------------------
(* The batches of a target.                                                *)

\* Mutant: the UPDATE addresses the row by its key alone.
Unchanged_ByKey(u) == row[u.row] # Absent

\* The guard of the UPDATE finds the ciphertext that was planned.
Unchanged(u) == row[u.row] = u.old

Resealed(batch) ==
  [r \in Rows |->
     IF \E u \in batch : u.row = r
       THEN [key |-> "new", plain |-> (CHOOSE u \in batch : u.row = r).old.plain]
       ELSE row[r]]

\* The SELECT promises no order, so any rows may make the next batch.
Batches(pending) ==
  {b \in SUBSET pending :
     Cardinality(b) = IF Cardinality(pending) < BatchSize
                        THEN Cardinality(pending) ELSE BatchSize}

\* One transaction: every row of the batch is as planned, or none is written.
Apply(n) ==
  /\ run[n].at = "apply"
  /\ \E b \in Batches(run[n].pending) :
       IF \A u \in b : Unchanged(u)
         THEN row' = Resealed(b) /\ Continue(n, run[n].pending \ b)
         ELSE UNCHANGED row /\ FailRun(n)
  /\ UNCHANGED <<server, writes, quiet>>

\* A failing statement, an interruption or a crash: a commit that was on its
\* way may have taken effect.
Interrupt(n) ==
  /\ run[n].at \in {"plan", "apply"}
  /\ FailRun(n)
  /\ \/ UNCHANGED row
     \/ /\ run[n].at = "apply"
        /\ \E b \in Batches(run[n].pending) :
             (\A u \in b : Unchanged(u)) /\ row' = Resealed(b)
  /\ UNCHANGED <<server, writes, quiet>>

-----------------------------------------------------------------------------
(* The server and its operator.                                            *)

StopServer == /\ server # "down"
              /\ server' = "down"
              /\ UNCHANGED <<row, run, writes, quiet>>

StartServer == /\ server = "down"
               /\ server' \in {"old", "new"}
               /\ quiet' = [n \in Runs |-> quiet[n] /\ server' # "old"]
               /\ UNCHANGED <<row, run, writes>>

\* The server creates or rewrites a row; the key of a token is external.
Put(r) == /\ server # "down"
          /\ writes < MaxWrites
          /\ writes' = writes + 1
          /\ \E k \in {server, "external"} :
               row' = [row EXCEPT ![r] = [key |-> k, plain |-> writes']]
          /\ UNCHANGED <<run, server, quiet>>

Delete(r) == /\ server # "down" /\ row[r] # Absent
             /\ writes < MaxWrites
             /\ writes' = writes + 1
             /\ row' = [row EXCEPT ![r] = Absent]
             /\ UNCHANGED <<run, server, quiet>>

Rotate(n) == BeginRun(n) \/ Plan(n) \/ Apply(n) \/ Interrupt(n)

RekeyNext == \/ \E n \in Runs : Rotate(n)
             \/ StopServer \/ StartServer
             \/ \E r \in Rows : Put(r) \/ Delete(r)

RekeySpec == RekeyInit /\ [][RekeyNext]_rekeyVars

-----------------------------------------------------------------------------

\* Every variable keeps its type.
RekeyTypeOK == /\ row \in [Rows -> Sealed \cup {Absent}]
               /\ run \in [Runs -> RunStates]
               /\ server \in {"old", "new", "down"}
               /\ writes \in Nat
               /\ quiet \in [Runs -> BOOLEAN]

\* A rotation that ended with success while no server held the old key leaves
\* nothing sealed with it, though it follows runs that were interrupted,
\* overlaps another one, or a server with the new key writes (Run).
AllNew ==
  \A n \in Runs :
    run[n].at = "done" /\ ~run[n].dry /\ quiet[n] =>
      \A r \in Rows : row[r] # Absent => row[r].key \in {"new", "external"}

\* A target with a row that opens with neither key is not written in part: no
\* rotation changes its rows (planTarget).
RefusedWhole ==
  [][\A t \in 1..LastTarget :
       (\E r \in Present(t) : row[r].key = "third") /\ writes' = writes =>
         \A r \in Rows : Target[r] = t => row'[r] = row[r]]_rekeyVars

\* The promise of the columns, of which the rotation is no part: it changes no
\* plaintext, loses no write of a server that still runs, and brings back no
\* deleted row (applyBatch).
Store == INSTANCE SealedStore
           WITH value <- [r \in Rows |-> IF row[r] = Absent THEN Absent
                                                        ELSE row[r].plain]

StoreSpec == Store!Spec
=============================================================================
