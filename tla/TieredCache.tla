---------------------------- MODULE TieredCache ----------------------------
(***************************************************************************)
(* The two-level cache of an item (cachekit.TieredCache): a cache of the   *)
(* process in front of one on the network that outlives it, filled by      *)
(* reads and cleared by updates (cache.CachedSecretService and its like).  *)
(*                                                                         *)
(* One item is cached under several keys, one for each scope that reads    *)
(* it.  A call takes a step for each access to a level or to the database, *)
(* and calls overlap.  The network level may fail at every access, without *)
(* a word.  A copy is the number of the update it shows.                   *)
(***************************************************************************)
EXTENDS Naturals, FiniteSets

CONSTANTS Calls,       \* reads and updates of the item
          Keys,        \* the keys the item is cached under
          None,        \* no copy
          TTL1,        \* lifetime of a copy in the process
          TTL2,        \* lifetime of a copy on the network
          MaxStall,    \* bound: time a call may take
          MaxTime,     \* bound of the clock
          MaxUpdates   \* bound on the updates

ASSUME TieredAssumption ==
  /\ {TTL1, TTL2, MaxStall, MaxTime, MaxUpdates} \subseteq Nat
  /\ None \notin [value : Nat, expires : Nat]

Copies == [value : Nat, expires : Nat]

Stages == {"idle", "level1", "level2", "copy", "database", "set1", "set2",
           "write", "range", "scan", "clear1", "clear2", "flush", "keys",
           "drop", "done"}

CallStates == [at : Stages, key : Keys, value : Nat, since : Nat,
               left : SUBSET Keys]

VARIABLES now,      \* the clock
          db,       \* the number of the last update
          level1,   \* the copies in the process
          level2,   \* the copies on the network
          call,     \* the calls
          wrote,    \* history: when each update was written
          serial    \* history: no two calls met, no access and no update failed

vars == <<now, db, level1, level2, call, wrote, serial>>

Live(copy) == copy # None /\ now <= copy.expires

Busy(c) == call[c].at \notin {"idle", "done"}

Init == /\ now = 0 /\ db = 0 /\ serial = TRUE
        /\ level1 = [k \in Keys |-> None]
        /\ level2 = [k \in Keys |-> None]
        /\ call \in [Calls -> [at : {"idle"}, key : Keys, value : {0},
                               since : {0}, left : {{}}]]
        /\ wrote = [n \in 1..MaxUpdates |-> 0]

Goto(c, stage) == call' = [call EXCEPT ![c].at = stage]

Begin(c) ==
  /\ call[c].at = "idle"
  /\ \E stage \in {"level1"} \cup IF db < MaxUpdates THEN {"write"} ELSE {} :
       call' = [call EXCEPT ![c].at = stage, ![c].since = now]
  /\ serial' = (serial /\ ~\E d \in Calls : Busy(d))
  /\ UNCHANGED <<now, db, level1, level2, wrote>>

-----------------------------------------------------------------------------
(* Get, and the fill after a miss in both levels.                          *)

\* An expired copy is removed and is a miss.
Get1(c) ==
  LET k == call[c].key
  IN  /\ call[c].at = "level1"
      /\ \/ Live(level1[k]) /\ Goto(c, "done") /\ UNCHANGED level1
         \/ /\ ~Live(level1[k])
            /\ level1' = [level1 EXCEPT ![k] = None]
            /\ Goto(c, "level2")
      /\ UNCHANGED <<now, db, level2, wrote, serial>>

Get2(c) ==
  LET k == call[c].key
  IN  /\ call[c].at = "level2"
      /\ \/ /\ Live(level2[k])
            /\ call' = [call EXCEPT ![c].at = "copy",
                                    ![c].value = level2[k].value]
            /\ UNCHANGED serial
         \/ ~Live(level2[k]) /\ Goto(c, "database") /\ UNCHANGED serial
         \/ Goto(c, "database") /\ serial' = FALSE
      /\ UNCHANGED <<now, db, level1, level2, wrote>>

\* Mutant: a copy never expires.
Copied_Forever(value, ttl) == [value |-> value, expires |-> MaxTime]

\* A copy that is stored now.
Copied(value, ttl) == [value |-> value, expires |-> now + ttl]

\* The copy of the network is stored with a full lifetime of the process.
Copy(c) ==
  /\ call[c].at = "copy"
  /\ level1' = [level1 EXCEPT ![call[c].key] = Copied(call[c].value, TTL1)]
  /\ Goto(c, "done")
  /\ UNCHANGED <<now, db, level2, wrote, serial>>

Load(c) == /\ call[c].at = "database"
           /\ call' = [call EXCEPT ![c].at = "set1", ![c].value = db]
           /\ UNCHANGED <<now, db, level1, level2, wrote, serial>>

Set1(c) ==
  /\ call[c].at = "set1"
  /\ level1' = [level1 EXCEPT ![call[c].key] = Copied(call[c].value, TTL1)]
  /\ Goto(c, "set2")
  /\ UNCHANGED <<now, db, level2, wrote, serial>>

Set2(c) ==
  /\ call[c].at = "set2"
  /\ \/ /\ level2' = [level2 EXCEPT ![call[c].key] = Copied(call[c].value, TTL2)]
        /\ UNCHANGED serial
     \/ UNCHANGED level2 /\ serial' = FALSE
  /\ Goto(c, "done")
  /\ UNCHANGED <<now, db, level1, wrote>>

-----------------------------------------------------------------------------
(* An update, and the removal of every copy of the item: one by one after   *)
(* the update of the item (DeleteByID), or with all there is after an       *)
(* update of its vault (Flush).                                             *)

\* An update that fails once its row is written returns and removes nothing.
Write(c) == /\ call[c].at = "write"
            /\ db < MaxUpdates
            /\ db' = db + 1
            /\ wrote' = [wrote EXCEPT ![db'] = now]
            /\ \/ Goto(c, "range") /\ UNCHANGED serial
               \/ Goto(c, "flush") /\ UNCHANGED serial
               \/ Goto(c, "done") /\ serial' = FALSE
            /\ UNCHANGED <<now, level1, level2>>

\* Copies that expired and were not swept yet are visited too.
Range1(c) == /\ call[c].at = "range"
             /\ call' = [call EXCEPT ![c].at = "scan",
                                     ![c].left = {k \in Keys : level1[k] # None}]
             /\ UNCHANGED <<now, db, level1, level2, wrote, serial>>

\* Mutant: the removal visits the copies of the process alone.
OnNetwork_None == {}

\* The keys with a copy on the network.
OnNetwork == {k \in Keys : Live(level2[k])}

\* Keys, and Get for every key that was not visited.
Scan(c) ==
  /\ call[c].at = "scan"
  /\ \E found \in SUBSET OnNetwork :
       LET left == call[c].left \cup found
       IN  /\ call' = [call EXCEPT ![c].left = left,
                         ![c].at = IF left = {} THEN "done" ELSE "clear1"]
           /\ serial' = (serial /\ found = OnNetwork)
  /\ UNCHANGED <<now, db, level1, level2, wrote>>

\* Invalidate clears a key in the process, then on the network.
Clear1(c) == /\ call[c].at = "clear1"
             /\ \E k \in call[c].left :
                  /\ level1' = [level1 EXCEPT ![k] = None]
                  /\ call' = [call EXCEPT ![c].at = "clear2", ![c].key = k]
             /\ UNCHANGED <<now, db, level2, wrote, serial>>

Clear2(c) ==
  LET k == call[c].key
      left == call[c].left \ {k}
  IN  /\ call[c].at = "clear2"
      /\ \/ level2' = [level2 EXCEPT ![k] = None] /\ UNCHANGED serial
         \/ UNCHANGED level2 /\ serial' = FALSE
      /\ call' = [call EXCEPT ![c].left = left,
                    ![c].at = IF left = {} THEN "done" ELSE "clear1"]
      /\ UNCHANGED <<now, db, level1, wrote>>

\* InvalidateAll empties the process, then removes what the network lists.
Flush(c) == /\ call[c].at = "flush"
            /\ level1' = [k \in Keys |-> None]
            /\ Goto(c, "keys")
            /\ UNCHANGED <<now, db, level2, wrote, serial>>

List(c) ==
  /\ call[c].at = "keys"
  /\ \/ /\ call' = [call EXCEPT ![c].left = OnNetwork,
                       ![c].at = IF OnNetwork = {} THEN "done" ELSE "drop"]
        /\ UNCHANGED serial
     \/ Goto(c, "done") /\ serial' = FALSE
  /\ UNCHANGED <<now, db, level1, level2, wrote>>

Drop(c) ==
  /\ call[c].at = "drop"
  /\ \E k \in call[c].left :
       LET left == call[c].left \ {k}
       IN  /\ \/ level2' = [level2 EXCEPT ![k] = None] /\ UNCHANGED serial
              \/ UNCHANGED level2 /\ serial' = FALSE
           /\ call' = [call EXCEPT ![c].left = left,
                         ![c].at = IF left = {} THEN "done" ELSE "drop"]
  /\ UNCHANGED <<now, db, level1, wrote>>

-----------------------------------------------------------------------------

\* The sweep and the LRU eviction, and the memory limit of the network level.
Evict == /\ \/ \E k \in Keys : /\ level1' = [level1 EXCEPT ![k] = None]
                               /\ UNCHANGED level2
            \/ \E k \in Keys : /\ level2' = [level2 EXCEPT ![k] = None]
                               /\ UNCHANGED level1
         /\ UNCHANGED <<now, db, call, wrote, serial>>

\* The process ends with its calls and its copies; the network level stays.
Restart == /\ level1' = [k \in Keys |-> None]
           /\ call' = [c \in Calls |-> IF Busy(c) THEN [call[c] EXCEPT !.at = "done"]
                                                  ELSE call[c]]
           /\ serial' = (serial /\ ~\E c \in Calls : Busy(c))
           /\ UNCHANGED <<now, db, level2, wrote>>

\* No call outlasts its bound.
Tick == /\ now < MaxTime
        /\ \A c \in Calls : Busy(c) => now < call[c].since + MaxStall
        /\ now' = now + 1
        /\ UNCHANGED <<db, level1, level2, call, wrote, serial>>

Step(c) == \/ Begin(c) \/ Get1(c) \/ Get2(c) \/ Copy(c) \/ Load(c) \/ Set1(c)
           \/ Set2(c) \/ Write(c) \/ Range1(c) \/ Scan(c) \/ Clear1(c) \/ Clear2(c)
           \/ Flush(c) \/ List(c) \/ Drop(c)

Next == Tick \/ Evict \/ Restart \/ \E c \in Calls : Step(c)

Spec == Init /\ [][Next]_vars

-----------------------------------------------------------------------------

\* Every variable keeps its type.
TypeOK == /\ now \in Nat /\ db \in 0..MaxUpdates
          /\ level1 \in [Keys -> Copies \cup {None}]
          /\ level2 \in [Keys -> Copies \cup {None}]
          /\ call \in [Calls -> CallStates]
          /\ wrote \in [1..MaxUpdates -> Nat]
          /\ serial \in BOOLEAN

\* A copy that was fetched from the network just before it expired, or before
\* it was cleared, lives for a lifetime of the process more.
Bound == TTL1 + TTL2 + 2 * MaxStall

\* However reads, updates and failures of the network interleave, no read is
\* answered in the process with what an update replaced longer ago than both
\* lifetimes, one after the other (Get, Invalidate).
StaleBound ==
  \A k \in Keys :
    Live(level1[k]) /\ level1[k].value < db =>
      now <= wrote[level1[k].value + 1] + Bound

\* Without overlaps and failures an update leaves no copy of what it replaced
\* under any key in any level, though copies come and go in between (Range,
\* DeleteByID).
NothingLeft ==
  serial /\ (\A c \in Calls : ~Busy(c)) =>
    \A k \in Keys : \A copy \in {level1[k], level2[k]} :
      Live(copy) => copy.value = db
=============================================================================
