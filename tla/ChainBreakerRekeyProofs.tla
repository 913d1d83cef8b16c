---------------------- MODULE ChainBreakerRekeyProofs ----------------------
(***************************************************************************)
(* Theorems about three parts that stand by themselves: AuditChain, for    *)
(* any writers, replicas and retention; CircuitBreaker, for any number of  *)
(* calls and any limits; and Rekey, for any rows, columns, runs and batch  *)
(* size.  They share no state and no name.                                 *)
(***************************************************************************)
EXTENDS AuditChain, CircuitBreaker, Rekey, FiniteSetTheorems, TLAPS

USE ChainAssumption

-----------------------------------------------------------------------------
(* Chained rows.                                                           *)

\* Rows with consecutive numbers, each made from the one before, dated in order.
Chained(rows) ==
    /\ \A r, s \in rows : r.seq = s.seq => r = s
    /\ \A r, s \in rows, n \in Nat : r.seq <= n /\ n <= s.seq => \E m \in rows : m.seq = n
    /\ \A r, s \in rows : s.seq = r.seq + 1 => s.prev = r.hash
    /\ \A r, s \in rows : r.seq <= s.seq => r.time <= s.time

\* top names the newest of rows.
IsTip(rows, top) ==
    \/ rows = {} /\ top = [seq |-> 0, hash |-> 0]
    \/ \E r \in rows : top = [seq |-> r.seq, hash |-> r.hash] /\ \A s \in rows : s.seq <= r.seq

\* What AuditChainTip finds is the tip.
LEMMA TipIsUnique ==
    ASSUME NEW rows \in SUBSET Row, Chained(rows), NEW top, IsTip(rows, top)
    PROVE TipOf(rows) = top
<1>1. CASE rows = {}
  BY <1>1 DEF TipOf, IsTip
<1>2. CASE rows # {}
  <2>1. PICK r \in rows : top = [seq |-> r.seq, hash |-> r.hash] /\ \A s \in rows : s.seq <= r.seq
    BY <1>2 DEF IsTip
  <2>2. Newest(rows) \in rows /\ \A s \in rows : s.seq <= Newest(rows).seq
    BY <2>1 DEF Newest
  <2>3. r.seq \in Nat /\ Newest(rows).seq \in Nat
    BY <2>2 DEF Row
  <2>4. Newest(rows).seq = r.seq
    BY <2>1, <2>2, <2>3
  <2>5. Newest(rows) = r
    BY <2>2, <2>4 DEF Chained
  <2> QED BY <1>2, <2>1, <2>5 DEF TipOf
<1> QED BY <1>1, <1>2

\* A row that follows the tip makes a longer chain.
LEMMA ChainExtends ==
    ASSUME NEW rows \in SUBSET Row, Chained(rows), NEW top \in Head, IsTip(rows, top),
           NEW entry \in Row, entry.seq = top.seq + 1, entry.prev = top.hash,
           \A r \in rows : r.time <= entry.time
    PROVE /\ Chained(rows \cup {entry})
          /\ IsTip(rows \cup {entry}, [seq |-> entry.seq, hash |-> entry.hash])
          /\ \A r \in rows : r.seq < entry.seq
<1> DEFINE all == rows \cup {entry}
<1>1. \A r \in all : r.seq \in Nat /\ r.time \in Nat
  BY DEF Row
<1>2. top.seq \in Nat
  BY DEF Head
<1>3. \A r \in rows : r.seq <= top.seq
  BY <1>1 DEF IsTip
<1>4. \A r \in rows : r.seq < entry.seq
  BY <1>1, <1>2, <1>3
<1>5. \A r, s \in all : r.seq = s.seq => r = s
  BY <1>1, <1>4 DEF Chained
<1>6. ASSUME NEW r \in all, NEW s \in all, NEW n \in Nat, r.seq <= n, n <= s.seq
      PROVE \E m \in all : m.seq = n
  <2>1. CASE r = entry \/ n = entry.seq
    BY <1>1, <1>4, <1>6, <2>1
  <2>2. CASE r # entry /\ n # entry.seq
    <3>1. r \in rows /\ n <= top.seq
      BY <1>1, <1>2, <1>3, <1>6, <2>2
    <3>2. PICK t \in rows : t.seq = top.seq
      BY <3>1 DEF IsTip
    <3>3. \E m \in rows : m.seq = n
      BY <1>6, <3>1, <3>2 DEF Chained
    <3> QED BY <3>3
  <2> QED BY <2>1, <2>2
<1>7. \A r, s \in all : s.seq = r.seq + 1 => s.prev = r.hash
  <2>1. ASSUME NEW r \in rows, entry.seq = r.seq + 1
        PROVE entry.prev = r.hash
    <3>1. r.seq = top.seq
      BY <1>1, <1>2, <2>1
    <3>2. PICK t \in rows : top = [seq |-> t.seq, hash |-> t.hash]
      BY DEF IsTip
    <3>3. t = r
      BY <3>1, <3>2 DEF Chained
    <3> QED BY <3>2, <3>3
  <2>2. \A r, s \in rows : s.seq = r.seq + 1 => s.prev = r.hash
    BY DEF Chained
  <2>3. \A s \in all : s.seq # entry.seq + 1
    BY <1>1, <1>4
  <2> QED BY <2>1, <2>2, <2>3
<1>8. \A r, s \in all : r.seq <= s.seq => r.time <= s.time
  BY <1>1, <1>4 DEF Chained
<1>9. IsTip(all, [seq |-> entry.seq, hash |-> entry.hash])
  BY <1>1, <1>4 DEF IsTip
<1> QED BY <1>4, <1>5, <1>6, <1>7, <1>8, <1>9 DEF Chained

\* A purge whose cutoff is not after the tip leaves the end of the chain.
LEMMA ChainShed ==
    ASSUME NEW rows \in SUBSET Row, Chained(rows), NEW top, IsTip(rows, top), NEW since \in Nat,
           rows # {}, \A r \in rows : r.seq = top.seq => since <= r.time
    PROVE LET left == {r \in rows : ~Expired(r, since)} IN
          Chained(left) /\ IsTip(left, top) /\ left # {}
<1> DEFINE left == {r \in rows : ~Expired(r, since)}
<1>1. \A r \in rows : r.seq \in Nat /\ r.time \in Nat
  BY DEF Row
<1>2. PICK t \in rows : top = [seq |-> t.seq, hash |-> t.hash] /\ \A s \in rows : s.seq <= t.seq
  BY DEF IsTip
<1>3. t \in left
  BY <1>1, <1>2 DEF Expired
<1>4. IsTip(left, top)
  BY <1>2, <1>3 DEF IsTip
<1>5. ASSUME NEW r \in left, NEW s \in left, NEW n \in Nat, r.seq <= n, n <= s.seq
      PROVE \E m \in left : m.seq = n
  <2>1. PICK m \in rows : m.seq = n
    BY <1>5 DEF Chained
  <2>2. r.time <= m.time
    BY <1>5, <2>1 DEF Chained
  <2>3. m \in left
    BY <1>1, <2>2 DEF Expired
  <2> QED BY <2>1, <2>3
<1>6. Chained(left)
  BY <1>5 DEF Chained
<1> QED BY <1>3, <1>4, <1>6

-----------------------------------------------------------------------------
(* The inductive invariant.                                                *)

Active(w) == req[w] # Idle

\* The log is a chain, its newest row is the head, and no row is from later on.
LogOK == Chained(log) /\ IsTip(log, head) /\ \A r \in log : r.time <= clock

\* So was the saved log.
SavedOK ==
    /\ Chained(saved.log) /\ \E top \in Head : IsTip(saved.log, top)
    /\ \A r \in saved.log : r.time <= clock

\* What a starting replica has read is not ahead of the head.
TipsOK == \A r \in Replicas : tip[r] # NoTip => tip[r].seq <= head.seq

\* One append at a time, which has read the head it will advance.
LocksOK ==
    /\ \A v, w \in Writers : tx[v] # NoTx /\ tx[w] # NoTx => v = w
    /\ \A w \in Writers : tx[w] # NoTx =>
        /\ Appending(w)
        /\ tx[w].seq = head.seq + 1 /\ tx[w].prev = head.hash
        /\ tx[w].time <= clock /\ \A r \in log : r.time <= tx[w].time
        /\ req[w].since <= tx[w].time

\* An operation that runs began before the newest row was written.
RunsOK ==
    \A w \in Writers : Active(w) =>
        /\ req[w].since <= clock
        /\ Running(w) => log # {} /\ \A r \in log : r.seq = head.seq => req[w].since <= r.time

\* The row a is in rows, or was.
Logged(a, rows) == a \in rows \/ a.time + Retention < clock

\* What ran, or is about to, has been logged.
EffectsOK ==
    /\ \A a \in effects : Logged(a, log)
    /\ \A a \in saved.effects : Logged(a, saved.log)
    /\ \A w \in Writers : Running(w) => req[w].attempt \in Row /\ Logged(req[w].attempt, log)

IInv == ChainTypeOK /\ LogOK /\ SavedOK /\ TipsOK /\ LocksOK /\ RunsOK /\ EffectsOK

\* The invariant holds of a fresh installation.
LEMMA InitOK == ChainInit => IInv
<1> SUFFICES ASSUME ChainInit PROVE IInv
  OBVIOUS
<1>1. ChainTypeOK
  BY DEF ChainInit, ChainTypeOK, Head
<1>2. Chained({}) /\ IsTip({}, [seq |-> 0, hash |-> 0]) /\ [seq |-> 0, hash |-> 0] \in Head
  BY DEF Chained, IsTip, Head
<1>3. LogOK /\ SavedOK
  BY <1>2 DEF ChainInit, LogOK, SavedOK
<1>4. TipsOK /\ LocksOK /\ RunsOK /\ EffectsOK
  BY DEF ChainInit, TipsOK, LocksOK, RunsOK, EffectsOK, Active, Running
<1> QED BY <1>1, <1>3, <1>4 DEF IInv

\* The next stages of a request are requests.
LEMMA RequestTypes ==
    ASSUME ChainTypeOK
    PROVE /\ ResultRow \in Request
          /\ \A kind \in Kinds : Start(kind) \in Request
          /\ \A kind \in Kinds : Start(kind).stage # "run" /\ Start(kind).since <= clock
          /\ \A w \in Writers, entry \in Row : Active(w) => Recorded(req[w], entry) \in Request \cup {Idle}
<1>1. ResultRow \in Request
  BY DEF ResultRow, Request, Kinds, Stages
<1>2. clock \in Nat
  BY DEF ChainTypeOK
<1>3. \A kind \in Kinds : Start(kind) \in Request
  BY <1>1, <1>2 DEF Start, Request, Kinds, Stages
<1>4. \A kind \in Kinds : Start(kind).stage # "run" /\ Start(kind).since <= clock
  BY <1>2 DEF Start, Kinds, ResultRow
<1>5. ASSUME NEW w \in Writers, NEW entry \in Row, Active(w)
      PROVE Recorded(req[w], entry) \in Request \cup {Idle}
  <2>1. req[w] \in Request
    BY <1>5 DEF ChainTypeOK, Active
  <2>2. [req[w] EXCEPT !.stage = "run", !.attempt = entry] \in Request
    BY <2>1 DEF Request, Stages
  <2> QED BY <2>2 DEF Recorded
<1> QED BY <1>1, <1>3, <1>4, <1>5

-----------------------------------------------------------------------------
(* One lemma per action that changes requests or the chain.                *)

\* A request starts.
LEMMA BeginKeeps ==
    ASSUME IInv, NEW w \in Writers, NEW kind \in Kinds, Begin(w, kind)
    PROVE IInv'
<1> USE DEF IInv
<1>1. Start(kind) \in Request /\ Start(kind).stage # "run" /\ Start(kind).since <= clock
  BY RequestTypes
<1>2. /\ req' = [req EXCEPT ![w] = Start(kind)] /\ req[w] = Idle
      /\ UNCHANGED <<log, head, effects, tx, tip, saved, hashes, clock>>
  BY DEF Begin
<1>3. req \in [Writers -> Request \cup {Idle}]
  BY DEF ChainTypeOK
<1>4. req' \in [Writers -> Request \cup {Idle}]
  BY <1>1, <1>2, <1>3
<1>5. ChainTypeOK'
  BY <1>2, <1>4 DEF ChainTypeOK
<1>6. LogOK' /\ SavedOK' /\ TipsOK'
  BY <1>2 DEF LogOK, SavedOK, TipsOK, IsTip, Chained
<1>7. tx[w] = NoTx
  BY <1>2 DEF LocksOK, Appending
<1>8. \A v \in Writers \ {w} : req'[v] = req[v]
  BY <1>2, <1>3
<1>9. LocksOK'
  BY <1>2, <1>7, <1>8 DEF LocksOK, Appending
<1>10. req'[w] = Start(kind)
  BY <1>2, <1>3
<1>11. RunsOK'
  BY <1>1, <1>2, <1>8, <1>10 DEF RunsOK, Active, Running
<1>12. EffectsOK'
  BY <1>1, <1>2, <1>8, <1>10 DEF EffectsOK, Running, Logged
<1> QED BY <1>5, <1>6, <1>9, <1>11, <1>12

\* An append takes the lock and reads the head and the time.
LEMMA LockKeeps ==
    ASSUME IInv, NEW w \in Writers, Lock(w)
    PROVE IInv'
<1> USE DEF IInv
<1> DEFINE t == [seq |-> head.seq + 1, prev |-> head.hash, time |-> clock]
<1>1. /\ tx' = [tx EXCEPT ![w] = t] /\ Appending(w) /\ Unlocked
      /\ UNCHANGED <<log, head, effects, req, tip, saved, hashes, clock>>
  BY DEF Lock
<1>2. t \in Append
  BY DEF ChainTypeOK, Append, Head
<1>3. tx \in [Writers -> Append \cup {NoTx}]
  BY DEF ChainTypeOK
<1>4. tx' \in [Writers -> Append \cup {NoTx}]
  BY <1>1, <1>2, <1>3
<1>5. ChainTypeOK'
  BY <1>1, <1>4 DEF ChainTypeOK
<1>6. LogOK' /\ SavedOK' /\ TipsOK'
  BY <1>1 DEF LogOK, SavedOK, TipsOK, IsTip, Chained
<1>7. tx'[w] = t /\ \A v \in Writers \ {w} : tx'[v] = NoTx
  BY <1>1, <1>3 DEF Unlocked
<1>8. req[w].since <= clock
  BY <1>1 DEF RunsOK, Active, Appending
<1>9. \A r \in log : r.time <= clock
  BY DEF LogOK
<1>10. clock \in Nat /\ clock <= clock
  BY DEF ChainTypeOK
<1>11. LocksOK'
  BY <1>1, <1>7, <1>8, <1>9, <1>10 DEF LocksOK, Appending
<1>12. RunsOK' /\ EffectsOK'
  BY <1>1 DEF RunsOK, EffectsOK, Active, Running, Logged
<1> QED BY <1>5, <1>6, <1>11, <1>12

\* An append commits its row.
LEMMA CommitKeeps ==
    ASSUME IInv, NEW w \in Writers, Commit(w)
    PROVE IInv'
<1> USE DEF IInv
<1> DEFINE entry == RowOf(tx[w])
<1>1. /\ tx[w] # NoTx /\ log' = log \cup {entry}
      /\ head' = [seq |-> entry.seq, hash |-> entry.hash]
      /\ hashes' = hashes + 1
      /\ req' = [req EXCEPT ![w] = Recorded(req[w], entry)]
      /\ tx' = [tx EXCEPT ![w] = NoTx]
      /\ UNCHANGED <<effects, tip, saved, clock>>
  BY DEF Commit, RowOf
<1>2. /\ tx \in [Writers -> Append \cup {NoTx}] /\ req \in [Writers -> Request \cup {Idle}]
      /\ hashes \in Nat /\ clock \in Nat /\ log \in SUBSET Row /\ head \in Head
  BY DEF ChainTypeOK
<1>3. tx[w] \in Append
  BY <1>1, <1>2
<1>4. entry \in Row
  BY <1>2, <1>3 DEF RowOf, Row, Append
<1>5. /\ Appending(w) /\ entry.seq = head.seq + 1 /\ entry.prev = head.hash
      /\ entry.time <= clock /\ (\A r \in log : r.time <= entry.time) /\ req[w].since <= entry.time
  BY <1>1 DEF LocksOK, RowOf
<1>6. Chained(log) /\ IsTip(log, head)
  BY DEF LogOK
<1>7. /\ Chained(log') /\ IsTip(log', head') /\ \A r \in log : r.seq < entry.seq
  BY <1>1, <1>2, <1>4, <1>5, <1>6, ChainExtends
<1>8. Recorded(req[w], entry) \in Request \cup {Idle}
  BY <1>4, <1>5, RequestTypes DEF Appending, Active
<1>9. req' \in [Writers -> Request \cup {Idle}] /\ tx' \in [Writers -> Append \cup {NoTx}]
  BY <1>1, <1>2, <1>8
<1>10. head' \in Head
  BY <1>1, <1>4 DEF Head, Row
<1>11. ChainTypeOK'
  BY <1>1, <1>2, <1>4, <1>9, <1>10 DEF ChainTypeOK
<1>12. LogOK'
  BY <1>1, <1>5, <1>7 DEF LogOK
<1>13. SavedOK'
  BY <1>1 DEF SavedOK, IsTip, Chained
<1>14. head.seq <= head'.seq
  BY <1>1, <1>2, <1>5 DEF Head
<1>15. TipsOK'
  <2> SUFFICES ASSUME NEW r \in Replicas, tip[r] # NoTip
               PROVE tip[r].seq <= head'.seq
    BY <1>1 DEF TipsOK
  <2>1. tip[r] \in Head
    BY DEF ChainTypeOK
  <2>2. tip[r].seq <= head.seq
    BY DEF TipsOK
  <2> QED BY <1>2, <1>10, <1>14, <2>1, <2>2 DEF Head
<1>16. tx'[w] = NoTx /\ \A v \in Writers \ {w} : tx'[v] = NoTx /\ req'[v] = req[v]
  BY <1>1, <1>2 DEF LocksOK
<1>17. LocksOK'
  BY <1>16 DEF LocksOK
<1>18. req'[w] = Recorded(req[w], entry)
  BY <1>1, <1>2
<1>19. RunsOK'
  <2> SUFFICES ASSUME NEW v \in Writers, Active(v)'
               PROVE /\ req'[v].since <= clock
                     /\ Running(v)' => log' # {} /\ \A r \in log' : r.seq = head'.seq => req'[v].since <= r.time
    BY <1>1 DEF RunsOK
  <2>1. \A r \in log' : r.seq = head'.seq => r = entry
    BY <1>1, <1>2, <1>4, <1>7 DEF Row
  <2>2. CASE v = w
    <3>1. req[w] \in Request /\ req'[w] = [req[w] EXCEPT !.stage = "run", !.attempt = entry]
      BY <1>2, <1>5, <1>18, <2>2 DEF Recorded, Active, Appending
    <3>2. req'[w].since = req[w].since
      BY <3>1 DEF Request
    <3>3. req[w].since <= clock
      BY <1>5 DEF RunsOK, Active, Appending
    <3> QED BY <1>1, <1>5, <2>1, <2>2, <3>2, <3>3
  <2>3. CASE v # w
    <3>1. req'[v] = req[v] /\ Active(v)
      BY <1>16, <2>3 DEF Active
    <3>2. req[v].since <= clock
      BY <3>1 DEF RunsOK
    <3>3. ASSUME Running(v) PROVE req[v].since <= entry.time
      <4>1. PICK t \in log : t.seq = head.seq
        BY <1>6, <3>1, <3>3 DEF RunsOK, IsTip
      <4>2. req[v].since <= t.time /\ t.time <= entry.time
        BY <1>5, <3>1, <3>3, <4>1 DEF RunsOK
      <4>3. req[v].since \in Nat /\ t.time \in Nat /\ entry.time \in Nat
        BY <1>2, <1>4, <3>1, <4>1 DEF Active, Request, Row
      <4> QED BY <4>2, <4>3
    <3> QED BY <1>1, <2>1, <3>1, <3>2, <3>3 DEF Running
  <2> QED BY <2>2, <2>3
<1>20. EffectsOK'
  <2>1. log \subseteq log' /\ entry \in log'
    BY <1>1
  <2>2. Running(w)' => req'[w].attempt = entry
    <3> SUFFICES ASSUME Running(w)' PROVE req'[w].attempt = entry
      OBVIOUS
    <3>1. req[w] \in Request /\ req'[w] = [req[w] EXCEPT !.stage = "run", !.attempt = entry]
      BY <1>2, <1>5, <1>18 DEF Recorded, Running, Appending
    <3> QED BY <3>1 DEF Request
  <2>3. \A v \in Writers \ {w} : Running(v)' => Running(v) /\ req'[v] = req[v]
    BY <1>16 DEF Running
  <2> QED BY <1>1, <1>4, <2>1, <2>2, <2>3 DEF EffectsOK, Logged
<1> QED BY <1>11, <1>12, <1>13, <1>15, <1>17, <1>19, <1>20

\* A request fails or its process dies.
LEMMA FailKeeps ==
    ASSUME IInv, NEW w \in Writers, Fail(w)
    PROVE IInv'
<1> USE DEF IInv
<1>1. /\ req' = [req EXCEPT ![w] = Idle] /\ tx' = [tx EXCEPT ![w] = NoTx]
      /\ UNCHANGED <<log, head, effects, tip, saved, hashes, clock>>
  BY DEF Fail
<1>2. tx \in [Writers -> Append \cup {NoTx}] /\ req \in [Writers -> Request \cup {Idle}]
  BY DEF ChainTypeOK
<1>3. tx' \in [Writers -> Append \cup {NoTx}] /\ req' \in [Writers -> Request \cup {Idle}]
  BY <1>1, <1>2
<1>4. ChainTypeOK'
  BY <1>1, <1>3 DEF ChainTypeOK
<1>5. LogOK' /\ SavedOK' /\ TipsOK'
  BY <1>1 DEF LogOK, SavedOK, TipsOK, IsTip, Chained
<1>6. /\ tx'[w] = NoTx /\ req'[w] = Idle
      /\ \A v \in Writers \ {w} : tx'[v] = tx[v] /\ req'[v] = req[v]
  BY <1>1, <1>2
<1>7. LocksOK'
  BY <1>1, <1>6 DEF LocksOK, Appending
<1>8. RunsOK'
  BY <1>1, <1>6 DEF RunsOK, Active, Running
<1>9. EffectsOK'
  BY <1>1, <1>6 DEF EffectsOK, Running, Logged
<1> QED BY <1>4, <1>5, <1>7, <1>8, <1>9

\* What Run and Purge do to requests.
LEMMA FinishTypes ==
    ASSUME IInv, NEW w \in Writers, Running(w), Finish(w), UNCHANGED tx
    PROVE /\ req' \in [Writers -> Request \cup {Idle}]
          /\ req'[w] = ResultRow /\ ~Running(w)' /\ req'[w].since <= clock
          /\ \A v \in Writers \ {w} : req'[v] = req[v]
          /\ \A v \in Writers : tx[v] # NoTx => Appending(v)' /\ req'[v] = req[v]
<1>1. /\ req \in [Writers -> Request \cup {Idle}] /\ clock \in Nat
  BY DEF IInv, ChainTypeOK
<1>2. ResultRow \in Request
  BY RequestTypes DEF IInv
<1>3. req' = [req EXCEPT ![w] = ResultRow]
  BY DEF Finish
<1>4. req' \in [Writers -> Request \cup {Idle}]
  BY <1>1, <1>2, <1>3
<1>5. req'[w] = ResultRow /\ \A v \in Writers \ {w} : req'[v] = req[v]
  BY <1>1, <1>3
<1>6. ~Running(w)' /\ req'[w].since <= clock
  BY <1>1, <1>5 DEF Running, ResultRow
<1>7. tx[w] = NoTx
  BY DEF IInv, LocksOK, Appending, Running
<1>8. \A v \in Writers : tx[v] # NoTx => Appending(v)' /\ req'[v] = req[v]
  BY <1>5, <1>7 DEF IInv, LocksOK, Appending
<1> QED BY <1>4, <1>5, <1>6, <1>8

\* A critical operation runs.
LEMMA RunKeeps ==
    ASSUME IInv, NEW w \in Writers, Run(w)
    PROVE IInv'
<1> USE DEF IInv
<1>1. /\ Running(w) /\ effects' \in {effects, effects \cup {req[w].attempt}} /\ Finish(w)
      /\ UNCHANGED <<log, head, tx, tip, saved, hashes, clock>>
  BY DEF Run
<1>2. /\ req' \in [Writers -> Request \cup {Idle}]
      /\ req'[w] = ResultRow /\ ~Running(w)' /\ req'[w].since <= clock
      /\ \A v \in Writers \ {w} : req'[v] = req[v]
      /\ \A v \in Writers : tx[v] # NoTx => Appending(v)' /\ req'[v] = req[v]
  BY <1>1, FinishTypes
<1>3. req[w].attempt \in Row /\ Logged(req[w].attempt, log)
  BY <1>1 DEF EffectsOK
<1>4. ChainTypeOK'
  BY <1>1, <1>2, <1>3 DEF ChainTypeOK
<1>5. LogOK' /\ SavedOK' /\ TipsOK'
  BY <1>1 DEF LogOK, SavedOK, TipsOK, IsTip, Chained
<1>6. LocksOK'
  BY <1>1, <1>2 DEF LocksOK
<1>7. RunsOK'
  BY <1>1, <1>2 DEF RunsOK, Active, Running
<1>8. EffectsOK'
  BY <1>1, <1>2, <1>3 DEF EffectsOK, Running, Logged
<1> QED BY <1>4, <1>5, <1>6, <1>7, <1>8

\* A purge deletes the rows before its cutoff.
LEMMA PurgeKeeps ==
    ASSUME IInv, NEW w \in Writers, Purge(w)
    PROVE IInv'
<1> USE DEF IInv
<1> DEFINE left == {r \in log : ~Expired(r, req[w].since)}
<1>1. /\ Running(w) /\ log' \in {log, left} /\ Finish(w)
      /\ UNCHANGED <<head, effects, tx, tip, saved, hashes, clock>>
  BY DEF Purge
<1>2. /\ req' \in [Writers -> Request \cup {Idle}]
      /\ req'[w] = ResultRow /\ ~Running(w)' /\ req'[w].since <= clock
      /\ \A v \in Writers \ {w} : req'[v] = req[v]
      /\ \A v \in Writers : tx[v] # NoTx => Appending(v)' /\ req'[v] = req[v]
  BY <1>1, FinishTypes
<1>3. log \in SUBSET Row /\ clock \in Nat
  BY DEF ChainTypeOK
<1>4. req[w].since \in Nat
  BY <1>1 DEF ChainTypeOK, Running, Request
<1>5. log # {} /\ (\A r \in log : r.seq = head.seq => req[w].since <= r.time) /\ req[w].since <= clock
  BY <1>1 DEF RunsOK, Active, Running
<1>6. Chained(log) /\ IsTip(log, head)
  BY DEF LogOK
<1>7. Chained(left) /\ IsTip(left, head) /\ left # {}
  BY <1>3, <1>4, <1>5, <1>6, ChainShed
<1>8. Chained(log') /\ IsTip(log', head) /\ log' # {} /\ log' \subseteq log
  BY <1>1, <1>5, <1>6, <1>7
<1>9. ChainTypeOK'
  BY <1>1, <1>2, <1>8 DEF ChainTypeOK
<1>10. LogOK' /\ SavedOK' /\ TipsOK'
  BY <1>1, <1>8 DEF LogOK, SavedOK, TipsOK, IsTip, Chained
<1>11. LocksOK'
  BY <1>1, <1>2, <1>8 DEF LocksOK
<1>12. RunsOK'
  BY <1>1, <1>2, <1>8 DEF RunsOK, Active, Running
<1>13. ASSUME NEW a \in Row, Logged(a, log)
       PROVE a \in log' \/ a.time + Retention < clock
  <2>1. a.time \in Nat
    BY DEF Row
  <2>2. Expired(a, req[w].since) => a.time + Retention < clock
    BY <1>3, <1>4, <1>5, <2>1 DEF Expired
  <2> QED BY <1>1, <1>13, <2>2 DEF Logged
<1>14. effects \subseteq Row
  BY DEF ChainTypeOK
<1>15. \A v \in Writers : Running(v)' => Running(v) /\ req'[v] = req[v]
  BY <1>2 DEF Running
<1>16. EffectsOK'
  BY <1>1, <1>13, <1>14, <1>15 DEF EffectsOK, Logged
<1> QED BY <1>9, <1>10, <1>11, <1>12, <1>16

\* A replica starts: it reads the newest row, and later moves a head that lags.
LEMMA StartupKeeps ==
    ASSUME IInv, NEW r \in Replicas, ReadTip(r) \/ Reconcile(r)
    PROVE IInv'
<1> USE DEF IInv
<1>1. TipOf(log) = head
  BY TipIsUnique DEF LogOK, ChainTypeOK
<1>2. head \in Head /\ tip \in [Replicas -> Head \cup {NoTip}]
  BY DEF ChainTypeOK
<1>3. head.seq \in Nat /\ head.seq <= head.seq
  BY <1>2 DEF Head
<1>4. CASE ReadTip(r)
  <2>1. tip' = [tip EXCEPT ![r] = head] /\ UNCHANGED <<log, head, effects, req, tx, saved, hashes, clock>>
    BY <1>1, <1>4 DEF ReadTip
  <2>2. tip' \in [Replicas -> Head \cup {NoTip}] /\ TipsOK'
    BY <1>2, <1>3, <2>1 DEF TipsOK
  <2>3. ChainTypeOK' /\ LogOK' /\ SavedOK' /\ LocksOK' /\ RunsOK' /\ EffectsOK'
    BY <2>1, <2>2 DEF ChainTypeOK, LogOK, SavedOK, LocksOK, RunsOK, EffectsOK, IsTip, Chained,
                      Appending, Active, Running, Logged
  <2> QED BY <2>2, <2>3
<1>5. CASE Reconcile(r)
  <2>1. tip[r] # NoTip /\ tip[r] \in Head /\ tip[r].seq <= head.seq
    BY <1>2, <1>5 DEF Reconcile, TipsOK
  <2>2. ~(head.seq < tip[r].seq)
    BY <1>3, <2>1 DEF Head
  <2>3. /\ tip' = [tip EXCEPT ![r] = NoTip]
        /\ UNCHANGED <<log, head, effects, req, tx, saved, hashes, clock>>
    BY <1>5, <2>2 DEF Reconcile
  <2>4. tip' \in [Replicas -> Head \cup {NoTip}] /\ TipsOK'
    BY <1>2, <2>3 DEF TipsOK
  <2>5. ChainTypeOK' /\ LogOK' /\ SavedOK' /\ LocksOK' /\ RunsOK' /\ EffectsOK'
    BY <2>3, <2>4 DEF ChainTypeOK, LogOK, SavedOK, LocksOK, RunsOK, EffectsOK, IsTip, Chained,
                      Appending, Active, Running, Logged
  <2> QED BY <2>4, <2>5
<1> QED BY <1>4, <1>5

\* A backup is taken.
LEMMA BackupKeeps ==
    ASSUME IInv, Backup
    PROVE IInv'
<1> USE DEF IInv
<1>1. saved' = [log |-> log, effects |-> effects] /\ UNCHANGED <<log, head, effects, req, tx, tip, hashes, clock>>
  BY DEF Backup
<1>2. saved'.log = log /\ saved'.effects = effects
  BY <1>1
<1>3. ChainTypeOK'
  BY <1>1 DEF ChainTypeOK
<1>4. head \in Head
  BY DEF ChainTypeOK
<1>5. LogOK' /\ TipsOK' /\ LocksOK' /\ RunsOK'
  BY <1>1 DEF LogOK, TipsOK, LocksOK, RunsOK, IsTip, Chained, Appending, Active, Running
<1>6. Chained(saved'.log) /\ IsTip(saved'.log, head)
  BY <1>2 DEF LogOK
<1>7. SavedOK'
  BY <1>1, <1>2, <1>4, <1>6 DEF SavedOK, LogOK, IsTip, Chained
<1>8. EffectsOK'
  BY <1>1, <1>2 DEF EffectsOK, Running, Logged
<1> QED BY <1>3, <1>5, <1>7, <1>8

\* The backup is restored.
LEMMA RestoreKeeps ==
    ASSUME IInv, Restore
    PROVE IInv'
<1> USE DEF IInv
<1>1. /\ log' = saved.log /\ effects' = saved.effects /\ head' = TipOf(saved.log)
      /\ UNCHANGED <<req, tx, tip, saved, hashes, clock>>
      /\ (\A w \in Writers : req[w] = Idle) /\ \A r \in Replicas : tip[r] = NoTip
  BY DEF Restore, Stopped
<1>2. saved.log \in SUBSET Row /\ saved.effects \in SUBSET Row
  BY DEF ChainTypeOK
<1>3. PICK top \in Head : IsTip(saved.log, top)
  BY DEF SavedOK
<1>4. head' = top
  BY <1>1, <1>2, <1>3, TipIsUnique DEF SavedOK
<1>5. ChainTypeOK'
  BY <1>1, <1>2, <1>4 DEF ChainTypeOK
<1>6. LogOK' /\ SavedOK'
  BY <1>1, <1>3, <1>4 DEF LogOK, SavedOK, IsTip, Chained
<1>7. TipsOK' /\ LocksOK' /\ RunsOK'
  BY <1>1 DEF TipsOK, LocksOK, RunsOK, Appending, Active, Running
<1>8. EffectsOK'
  BY <1>1 DEF EffectsOK, Running, Logged
<1> QED BY <1>5, <1>6, <1>7, <1>8

\* Time passes.
LEMMA TickKeeps ==
    ASSUME IInv, Tick
    PROVE IInv'
<1> USE DEF IInv
<1>1. clock' = clock + 1 /\ UNCHANGED <<log, head, effects, req, tx, tip, saved, hashes>>
  BY DEF Tick
<1>2. clock \in Nat /\ ChainTypeOK'
  BY <1>1 DEF ChainTypeOK
<1>3. \A n \in Nat : (n <= clock => n <= clock') /\ (n < clock => n < clock')
  BY <1>1, <1>2
<1>4. /\ \A r \in log \cup saved.log \cup effects \cup saved.effects :
           r.time \in Nat /\ r.time + Retention \in Nat
      /\ \A w \in Writers : tx[w] # NoTx => tx[w].time \in Nat
      /\ \A w \in Writers : Active(w) => req[w].since \in Nat
      /\ \A w \in Writers : Running(w) /\ req[w].attempt \in Row => req[w].attempt.time + Retention \in Nat
  BY DEF ChainTypeOK, Row, Append, Request, Active, Running
<1>5. LogOK' /\ SavedOK' /\ TipsOK'
  BY <1>1, <1>3, <1>4 DEF LogOK, SavedOK, TipsOK, IsTip, Chained
<1>6. LocksOK'
  BY <1>1, <1>3, <1>4 DEF LocksOK, Appending
<1>7. RunsOK'
  BY <1>1, <1>3, <1>4 DEF RunsOK, Active, Running
<1>8. EffectsOK'
  BY <1>1, <1>3, <1>4 DEF EffectsOK, Running, Logged
<1> QED BY <1>2, <1>5, <1>6, <1>7, <1>8

-----------------------------------------------------------------------------
(* Theorems.                                                               *)

\* The invariant is inductive.
LEMMA NextKeeps == IInv /\ [ChainNext]_chainVars => IInv'
<1> SUFFICES ASSUME IInv, [ChainNext]_chainVars PROVE IInv'
  OBVIOUS
<1>1. CASE ChainNext
  BY <1>1, BeginKeeps, LockKeeps, CommitKeeps, FailKeeps, RunKeeps, PurgeKeeps, StartupKeeps,
     BackupKeeps, RestoreKeeps, TickKeeps DEF ChainNext
<1>2. CASE UNCHANGED chainVars
  BY <1>2 DEF chainVars, IInv, ChainTypeOK, LogOK, SavedOK, TipsOK, LocksOK, RunsOK, EffectsOK,
              IsTip, Chained, Appending, Active, Running, Logged
<1> QED BY <1>1, <1>2

\* The invariant holds of every reachable state.
THEOREM Invariant == ChainSpec => []IInv
BY InitOK, NextKeeps, PTL DEF ChainSpec

\* Every variable keeps its type.
THEOREM ChainTypeCorrect == ChainSpec => []ChainTypeOK
<1>1. IInv => ChainTypeOK
  BY DEF IInv
<1> QED BY <1>1, Invariant, PTL

\* Every page of the log verifies (AppendChained, DeleteBefore, RestoreBackup).
THEOREM Verifiable == ChainSpec => []ChainVerifies
<1>1. IInv => ChainVerifies
  <2> SUFFICES ASSUME IInv, NEW newer \in log, NEW older \in log, Adjacent(newer, older, log)
               PROVE Verifies(newer, older)
    BY DEF ChainVerifies
  <2>1. Chained(log) /\ newer.seq \in Nat /\ older.seq \in Nat /\ \A r \in log : r.seq \in Nat
    BY DEF IInv, LogOK, ChainTypeOK, Row
  <2>2. older.seq < newer.seq /\ \A r \in log : ~(older.seq < r.seq /\ r.seq < newer.seq)
    BY DEF Adjacent
  <2>3. newer.seq = older.seq + 1
    <3> SUFFICES ASSUME newer.seq # older.seq + 1 PROVE FALSE
      OBVIOUS
    <3>1. older.seq + 1 \in Nat /\ older.seq <= older.seq + 1 /\ older.seq + 1 <= newer.seq
      BY <2>1, <2>2
    <3>2. PICK m \in log : m.seq = older.seq + 1
      BY <2>1, <3>1 DEF Chained
    <3> QED BY <2>1, <2>2, <3>1, <3>2
  <2> QED BY <2>1, <2>3 DEF Chained, Verifies
<1> QED BY <1>1, Invariant, PTL

\* The head always names the newest row.
THEOREM HeadCurrent == ChainSpec => []HeadIsTip
<1>1. IInv => HeadIsTip
  BY TipIsUnique DEF IInv, LogOK, ChainTypeOK, HeadIsTip
<1> QED BY <1>1, Invariant, PTL

\* No critical operation takes effect without an attempt row (WithCritical).
THEOREM NothingUnlogged == ChainSpec => []AttemptLogged
<1>1. IInv => AttemptLogged
  BY DEF IInv, EffectsOK, Logged, AttemptLogged
<1> QED BY <1>1, Invariant, PTL

-----------------------------------------------------------------------------
(* AuditChain implements AuditTrail.                                       *)

\* The rows by number are the rows, each at its number.
LEMMA ByNumberIs ==
    ASSUME NEW rows \in SUBSET Row, Chained(rows)
    PROVE /\ DOMAIN ByNumber(rows) = {r.seq : r \in rows}
          /\ \A r \in rows : ByNumber(rows)[r.seq] = r
<1>1. DOMAIN ByNumber(rows) = {r.seq : r \in rows}
  BY DEF ByNumber
<1>2. ASSUME NEW r \in rows PROVE ByNumber(rows)[r.seq] = r
  <2>1. ByNumber(rows)[r.seq] = CHOOSE s \in rows : s.seq = r.seq
    BY DEF ByNumber
  <2>2. \A s \in rows : s.seq = r.seq => s = r
    BY DEF Chained
  <2> QED BY <2>1, <2>2
<1> QED BY <1>1, <1>2

\* The last number is the tip's.
LEMMA LastIsTip ==
    ASSUME NEW rows \in SUBSET Row, Chained(rows), NEW top \in Head, IsTip(rows, top), rows # {}
    PROVE /\ Trail!Last(ByNumber(rows)) = top.seq
          /\ ByNumber(rows)[top.seq].hash = top.hash
<1>1. PICK t \in rows : top = [seq |-> t.seq, hash |-> t.hash] /\ \A s \in rows : s.seq <= t.seq
  BY DEF IsTip
<1> DEFINE nums == {r.seq : r \in rows}
           IsNewest(n) == n \in nums /\ \A m \in nums : m <= n
<1>2. DOMAIN ByNumber(rows) = nums /\ ByNumber(rows)[t.seq] = t
  BY ByNumberIs
<1>3. nums \subseteq Nat
  BY DEF Row
<1>4. IsNewest(t.seq) /\ \A n : IsNewest(n) => n = t.seq
  BY <1>1, <1>3
<1>5. Trail!Last(ByNumber(rows)) = CHOOSE n \in nums : \A m \in nums : m <= n
  BY <1>2 DEF Trail!Last
<1>6. Trail!Last(ByNumber(rows)) = t.seq
  BY <1>4, <1>5
<1> QED BY <1>1, <1>2, <1>6

\* A committed append adds one row after the last.
LEMMA CommitGrows ==
    ASSUME IInv, IInv', NEW w \in Writers, Commit(w)
    PROVE Trail!Grow
<1> DEFINE entry == RowOf(tx[w])
<1>1. tx[w] # NoTx /\ log' = log \cup {entry} /\ UNCHANGED saved
  BY DEF Commit
<1>2. entry.seq = head.seq + 1 /\ entry.prev = head.hash
  BY <1>1 DEF IInv, LocksOK, RowOf
<1>3. log \in SUBSET Row /\ log' \in SUBSET Row /\ head \in Head
  BY DEF IInv, ChainTypeOK
<1>4. Chained(log) /\ IsTip(log, head)
  BY DEF IInv, LogOK
<1>5. Chained(log')
  BY DEF IInv, LogOK, Chained
<1>6. /\ DOMAIN ByNumber(log) = {r.seq : r \in log}
      /\ \A r \in log : ByNumber(log)[r.seq] = r
  BY <1>3, <1>4, ByNumberIs
<1>7. /\ DOMAIN ByNumber(log') = {r.seq : r \in log'}
      /\ \A r \in log' : ByNumber(log')[r.seq] = r
  BY <1>3, <1>5, ByNumberIs
<1>8. DOMAIN ByNumber(log') = DOMAIN ByNumber(log) \cup {entry.seq}
  <2> HIDE DEF entry
  <2>1. {r.seq : r \in log \cup {entry}} = {r.seq : r \in log} \cup {entry.seq}
    OBVIOUS
  <2> QED BY <1>1, <1>6, <1>7, <2>1
<1>9. ASSUME NEW m \in DOMAIN ByNumber(log)
      PROVE ByNumber(log')[m] = ByNumber(log)[m]
  <2>1. PICK r \in log : r.seq = m
    BY <1>6
  <2>2. r \in log'
    BY <1>1
  <2> QED BY <1>6, <1>7, <2>1, <2>2
<1>10. ByNumber(log')[entry.seq] = entry /\ entry \in Row
  BY <1>1, <1>3, <1>7
<1>11. CASE log = {}
  <2>1. DOMAIN ByNumber(log) = {} /\ entry.seq = 1
    BY <1>2, <1>4, <1>6, <1>11 DEF IsTip
  <2>2. Trail!Extends(ByNumber(log'), ByNumber(log))
    BY <1>2, <1>8, <1>9, <1>10, <2>1 DEF Trail!Extends
  <2> QED BY <1>1, <2>2 DEF Trail!Grow, ByNumber
<1>12. CASE log # {}
  <2>1. /\ Trail!Last(ByNumber(log)) = head.seq
        /\ ByNumber(log)[head.seq].hash = head.hash
    BY <1>3, <1>4, <1>12, LastIsTip
  <2>2. DOMAIN ByNumber(log) # {}
    BY <1>6, <1>12
  <2>3. Trail!Extends(ByNumber(log'), ByNumber(log))
    BY <1>2, <1>8, <1>9, <1>10, <2>1, <2>2 DEF Trail!Extends
  <2> QED BY <1>1, <2>3 DEF Trail!Grow, ByNumber
<1> QED BY <1>11, <1>12

\* A purge removes rows from the oldest end, or none.
LEMMA PurgeSheds ==
    ASSUME IInv, IInv', NEW w \in Writers, Purge(w)
    PROVE Trail!Shed
<1>1. /\ Running(w) /\ log' \in {log, {r \in log : ~Expired(r, req[w].since)}} /\ UNCHANGED saved
  BY DEF Purge
<1>2. log \in SUBSET Row /\ log' \in SUBSET Row /\ req[w].since \in Nat
  BY <1>1 DEF IInv, ChainTypeOK, Running, Request
<1>3. Chained(log) /\ log # {} /\ \A r \in log : r.seq = head.seq => req[w].since <= r.time
  BY <1>1 DEF IInv, LogOK, RunsOK, Active, Running
<1>4. Chained(log') /\ IsTip(log', head')
  BY DEF IInv, LogOK, Chained, IsTip
<1>5. \A r \in log : r.seq \in Nat /\ r.time \in Nat
  BY <1>2 DEF Row
<1>6. log' \subseteq log /\ log' # {}
  <2>1. PICK t \in log : t.seq = head.seq
    BY <1>3 DEF IInv, LogOK, IsTip
  <2>2. ~Expired(t, req[w].since)
    BY <1>2, <1>3, <1>5, <2>1 DEF Expired
  <2> QED BY <1>1, <1>3, <2>1, <2>2
<1>7. \A r, s \in log : r \in log' /\ r.seq <= s.seq => s \in log'
  <2> SUFFICES ASSUME NEW r \in log, NEW s \in log, r \in log', r.seq <= s.seq
               PROVE s \in log'
    OBVIOUS
  <2>1. r.time <= s.time
    BY <1>3 DEF Chained
  <2> QED BY <1>1, <1>2, <1>5, <2>1 DEF Expired
<1>9. /\ DOMAIN ByNumber(log) = {r.seq : r \in log}
      /\ \A r \in log : ByNumber(log)[r.seq] = r
  BY <1>2, <1>3, ByNumberIs
<1>10. /\ DOMAIN ByNumber(log') = {r.seq : r \in log'}
       /\ \A r \in log' : ByNumber(log')[r.seq] = r
  BY <1>2, <1>4, ByNumberIs
<1>11. ASSUME NEW m \in DOMAIN ByNumber(log')
       PROVE /\ m \in DOMAIN ByNumber(log) /\ ByNumber(log')[m] = ByNumber(log)[m]
             /\ \A n \in DOMAIN ByNumber(log) : m <= n => n \in DOMAIN ByNumber(log')
  <2>1. PICK r \in log' : r.seq = m
    BY <1>10
  <2>2. m \in DOMAIN ByNumber(log) /\ ByNumber(log')[m] = ByNumber(log)[m]
    BY <1>6, <1>9, <1>10, <2>1
  <2>3. ASSUME NEW n \in DOMAIN ByNumber(log), m <= n PROVE n \in DOMAIN ByNumber(log')
    <3>1. PICK s \in log : s.seq = n
      BY <1>9
    <3> QED BY <1>6, <1>7, <1>10, <2>1, <2>3, <3>1
  <2> QED BY <2>2, <2>3
<1>12. DOMAIN ByNumber(log') # {}
  BY <1>6, <1>10
<1>13. Trail!Suffix(ByNumber(log'), ByNumber(log))
  BY <1>11, <1>12 DEF Trail!Suffix
<1> QED BY <1>1, <1>13 DEF Trail!Shed, ByNumber

\* Every step of the log is a step of the trail, or leaves it alone.
LEMMA StepImplements ==
    IInv /\ IInv' /\ [ChainNext]_chainVars => [Trail!TrailNext]_(Trail!trailVars)
<1> SUFFICES ASSUME IInv, IInv', [ChainNext]_chainVars
             PROVE [Trail!TrailNext]_(Trail!trailVars)
  OBVIOUS
<1>1. ASSUME NEW w \in Writers, Commit(w) PROVE Trail!TrailNext
  BY <1>1, CommitGrows DEF Trail!TrailNext
<1>2. ASSUME NEW w \in Writers, Purge(w) PROVE Trail!TrailNext
  BY <1>2, PurgeSheds DEF Trail!TrailNext
<1>3. CASE Backup
  <2>1. saved'.log = log /\ log' = log
    BY <1>3 DEF Backup
  <2> QED BY <2>1 DEF Trail!TrailNext, Trail!Take, ByNumber
<1>4. CASE Restore
  <2>1. log' = saved.log /\ saved' = saved
    BY <1>4 DEF Restore
  <2> QED BY <2>1 DEF Trail!TrailNext, Trail!PutBack, ByNumber
<1>5. CASE UNCHANGED <<log, saved>>
  BY <1>5 DEF Trail!trailVars, ByNumber
<1>6. \/ \E w \in Writers : Commit(w) \/ Purge(w)
      \/ Backup \/ Restore \/ UNCHANGED <<log, saved>>
  BY DEF ChainNext, chainVars, Begin, Lock, Fail, Run, ReadTip, Reconcile, Tick
<1> QED BY <1>1, <1>2, <1>3, <1>4, <1>5, <1>6

\* The log implements AuditTrail (AppendChained, DeleteBefore, RestoreBackup).
THEOREM Refinement == ChainSpec => KeepsTrail
<1>1. ChainInit => Trail!TrailInit
  BY DEF ChainInit, Trail!TrailInit, ByNumber
<1> QED BY <1>1, StepImplements, Invariant, PTL DEF ChainSpec, KeepsTrail, Trail!TrailSpec

-----------------------------------------------------------------------------
(* The breaker: its types, and the states it never leaves behind.          *)

USE BreakerAssumption

\* Every step of the breaker keeps the types, whatever order outcomes come in.
LEMMA BreakerTypeStep == TypeOK /\ [Next]_vars => TypeOK'
<1> SUFFICES ASSUME TypeOK, [Next]_vars PROVE TypeOK'
  OBVIOUS
<1> USE DEF TypeOK, NoCall
<1>1. ASSUME NEW c \in Calls, Admit(c) PROVE TypeOK'
  BY <1>1 DEF Admit, AdmitPlain, AdmitFirstTrial, AdmitTrial, Enter
<1>2. ASSUME NEW c \in Calls, Retry(c) PROVE TypeOK'
  BY <1>2 DEF Retry
<1>3. ASSUME NEW c \in Calls, Return(c) PROVE TypeOK'
  <2>1. OneMore \in 0 .. FailureThreshold
    BY DEF OneMore
  <2>2. call' = [call EXCEPT ![c] = NoCall] /\ healthy' = healthy /\ mode' = mode
    BY <1>3 DEF Return, Succeed, PlainSucceeds, TrialSucceeds, PlainFails, PlainRejected,
                TrialFails, TrialRejected, Leave
  <2>3. call' \in [Calls -> [as : {"none", "plain", "trial"}, retries : 0 .. MaxAttempts - 1]]
    BY <2>2
  <2>4. CASE Succeed(c) \/ PlainRejected(c) \/ TrialRejected(c)
    <3>1. /\ elapsed' = elapsed /\ state' \in {state, "closed"} /\ failures' \in {failures, 0}
          /\ halfOpenCount' \in 0 .. HalfOpenRequests
      BY <2>4 DEF Succeed, PlainSucceeds, TrialSucceeds, PlainRejected, TrialRejected
    <3> QED BY <2>2, <2>3, <3>1
  <2>5. CASE PlainFails(c) \/ TrialFails(c)
    <3>1. /\ elapsed' = FALSE /\ state' \in {state, "open"} /\ failures' \in 0 .. FailureThreshold
          /\ halfOpenCount' \in 0 .. HalfOpenRequests
      BY <2>1, <2>5 DEF PlainFails, TrialFails
    <3> QED BY <2>2, <2>3, <3>1
  <2> QED BY <1>3, <2>4, <2>5 DEF Return
<1>4. CASE TimeoutElapses \/ Backend
  BY <1>4 DEF TimeoutElapses, Backend
<1>5. CASE UNCHANGED vars
  BY <1>5 DEF vars
<1> QED BY <1>1, <1>2, <1>3, <1>4, <1>5 DEF Next

\* The state, counters and calls of the breaker keep their types; the slot
\* count in particular stays between zero and HalfOpenRequests.
THEOREM BreakerTypeCorrect == Spec => []TypeOK
<1>1. Init => TypeOK
  BY DEF Init, TypeOK, NoCall
<1> QED BY <1>1, BreakerTypeStep, PTL DEF Spec

\* A breaker is never closed with the failure threshold reached or with a slot
\* still counted: recordFailure and finishHalfOpen leave no such state behind,
\* in whatever order outcomes arrive.
THEOREM ClosedStaysClean == Spec => []ClosedIsClean
<1>1. Init => ClosedIsClean
  BY DEF Init, ClosedIsClean
<1>2. TypeOK /\ ClosedIsClean /\ [Next]_vars => ClosedIsClean'
  <2> SUFFICES ASSUME TypeOK, ClosedIsClean, [Next]_vars PROVE ClosedIsClean'
    OBVIOUS
  <2> USE DEF TypeOK, ClosedIsClean
  <2>1. ASSUME NEW c \in Calls, Admit(c) PROVE ClosedIsClean'
    BY <2>1 DEF Admit, AdmitPlain, AdmitFirstTrial, AdmitTrial, Enter
  <2>2. ASSUME NEW c \in Calls, Retry(c) PROVE ClosedIsClean'
    BY <2>2 DEF Retry
  <2>3. ASSUME NEW c \in Calls, Return(c) PROVE ClosedIsClean'
    <3>1. CASE Succeed(c)
      BY <3>1 DEF Succeed, PlainSucceeds, TrialSucceeds
    <3>2. CASE PlainFails(c) \/ TrialFails(c)
      BY <3>2 DEF PlainFails, TrialFails, OneMore
    <3>3. CASE PlainRejected(c) \/ TrialRejected(c)
      BY <3>3 DEF PlainRejected, TrialRejected
    <3> QED BY <2>3, <3>1, <3>2, <3>3 DEF Return
  <2>4. CASE TimeoutElapses \/ Backend
    BY <2>4 DEF TimeoutElapses, Backend
  <2>5. CASE UNCHANGED vars
    BY <2>5 DEF vars
  <2> QED BY <2>1, <2>2, <2>3, <2>4, <2>5 DEF Next
<1> QED BY <1>1, <1>2, BreakerTypeCorrect, PTL DEF Spec

\* A half-open breaker without a trial in flight has a slot left: the trial
\* that takes the last slot closes or reopens the breaker or gives it back.
THEOREM NeverStuck == Spec => []SlotLeft
<1>1. Init => SlotLeft
  BY DEF Init, SlotLeft
<1>2. TypeOK /\ SlotLeft /\ [Next]_vars => SlotLeft'
  <2> SUFFICES ASSUME TypeOK, SlotLeft, [Next]_vars PROVE SlotLeft'
    OBVIOUS
  <2> USE DEF TypeOK, SlotLeft
  <2>1. ASSUME NEW c \in Calls, Admit(c) PROVE SlotLeft'
    <3>1. CASE AdmitPlain(c)
      BY <3>1 DEF AdmitPlain
    <3>2. CASE AdmitFirstTrial(c) \/ AdmitTrial(c)
      <4>1. call' = [call EXCEPT ![c].as = "trial"]
        BY <3>2 DEF AdmitFirstTrial, AdmitTrial, Enter
      <4>2. c \in Trials'
        BY <4>1 DEF Trials
      <4> QED BY <4>2
    <3> QED BY <2>1, <3>1, <3>2 DEF Admit
  <2>2. ASSUME NEW c \in Calls, Retry(c) PROVE SlotLeft'
    <3>1. Trials' = Trials
      BY <2>2 DEF Retry, Trials
    <3> QED BY <2>2, <3>1 DEF Retry
  <2>3. ASSUME NEW c \in Calls, Return(c) PROVE SlotLeft'
    <3>1. CASE PlainSucceeds(c) \/ PlainRejected(c) \/ PlainFails(c)
      <4>1. Trials' = Trials
        BY <3>1 DEF PlainSucceeds, PlainRejected, PlainFails, Leave, Trials, NoCall
      <4>2. halfOpenCount' = halfOpenCount /\ state' \in {state, "open"}
        BY <3>1 DEF PlainSucceeds, PlainRejected, PlainFails
      <4> QED BY <4>1, <4>2
    <3>2. CASE TrialSucceeds(c)
      BY <3>2 DEF TrialSucceeds
    <3>3. CASE TrialFails(c)
      BY <3>3 DEF TrialFails
    <3>4. CASE TrialRejected(c)
      BY <3>4 DEF TrialRejected
    <3> QED BY <2>3, <3>1, <3>2, <3>3, <3>4 DEF Return, Succeed
  <2>4. CASE TimeoutElapses \/ Backend
    BY <2>4 DEF TimeoutElapses, Backend, Trials
  <2>5. CASE UNCHANGED vars
    BY <2>5 DEF vars, Trials
  <2> QED BY <2>1, <2>2, <2>3, <2>4, <2>5 DEF Next
<1> QED BY <1>1, <1>2, BreakerTypeCorrect, PTL DEF Spec

-----------------------------------------------------------------------------
(* Calls that end within Timeout.  The invariant behind both properties: an  *)
(* open breaker has no slots counted and, once Timeout has passed, no call   *)
(* in flight, so that the trials of a half-open period are all its own.      *)

ShortInv ==
    ~mode.outlive =>
        /\ state = "open" => halfOpenCount = 0 /\ (elapsed => Quiet)
        /\ state = "half-open" => /\ \A c \in Calls : call[c].as # "plain"
                                  /\ Cardinality(Trials) <= halfOpenCount

\* What a call that is admitted or leaves does to the set of trials.
LEMMA TrialsCount ==
    ASSUME TypeOK
    PROVE  /\ Cardinality(Trials) \in Nat
           /\ \A c \in Trials : call' = [call EXCEPT ![c] = NoCall] =>
                  Cardinality(Trials') = Cardinality(Trials) - 1 /\ Cardinality(Trials) > 0
           /\ \A c \in Calls : call[c] = NoCall /\ call' = [call EXCEPT ![c].as = "trial"] =>
                  Cardinality(Trials') = Cardinality(Trials) + 1
           /\ Quiet => Cardinality(Trials) = 0
<1> USE DEF TypeOK
<1>1. IsFiniteSet(Trials)
  BY FS_Subset DEF Trials
<1>2. Cardinality(Trials) \in Nat
  BY <1>1, FS_CardinalityType
<1>3. ASSUME NEW c \in Trials, call' = [call EXCEPT ![c] = NoCall]
      PROVE  Cardinality(Trials') = Cardinality(Trials) - 1 /\ Cardinality(Trials) > 0
  <2>1. c \in Calls
    BY DEF Trials
  <2>2. \A d \in Calls : call'[d] = IF d = c THEN NoCall ELSE call[d]
    BY <1>3, <2>1
  <2>3. Trials' = Trials \ {c}
    BY <2>2 DEF Trials, NoCall
  <2>4. Cardinality(Trials') = Cardinality(Trials) - 1
    BY <1>1, <2>3, FS_RemoveElement
  <2>5. Cardinality(Trials) # 0
    BY <1>1, FS_EmptySet
  <2> QED BY <1>2, <2>4, <2>5
<1>4. ASSUME NEW c \in Calls, call[c] = NoCall, call' = [call EXCEPT ![c].as = "trial"]
      PROVE  Cardinality(Trials') = Cardinality(Trials) + 1
  <2>1. \A d \in Calls : call'[d].as = IF d = c THEN "trial" ELSE call[d].as
    BY <1>4
  <2>2. Trials' = Trials \cup {c} /\ c \notin Trials
    BY <1>4, <2>1 DEF Trials, NoCall
  <2> QED BY <1>1, <2>2, FS_AddElement
<1>5. Quiet => Cardinality(Trials) = 0
  <2>1. Quiet => Trials = {}
    BY DEF Quiet, Trials, NoCall
  <2> QED BY <2>1, FS_EmptySet
<1> QED BY <1>2, <1>3, <1>4, <1>5

\* ShortInv is inductive, given the type and ClosedIsClean.
LEMMA ShortStep == TypeOK /\ ClosedIsClean /\ ShortInv /\ [Next]_vars => ShortInv'
<1> SUFFICES ASSUME TypeOK, ClosedIsClean, ShortInv, [Next]_vars, ~mode.outlive
             PROVE  ShortInv'
  <2>1. [Next]_vars => mode' = mode
    BY DEF Next, vars, Admit, AdmitPlain, AdmitFirstTrial, AdmitTrial, Enter, Retry, Return,
           Succeed, PlainSucceeds, TrialSucceeds, PlainFails, PlainRejected, TrialFails,
           TrialRejected, Leave, TimeoutElapses, Backend
  <2> QED BY <2>1 DEF ShortInv
<1> USE DEF TypeOK, ShortInv
<1>1. ASSUME NEW c \in Calls, Admit(c) PROVE ShortInv'
  <2>1. CASE AdmitPlain(c)
    BY <2>1 DEF AdmitPlain
  <2>2. CASE AdmitFirstTrial(c)
    <3>1. call' = [call EXCEPT ![c].as = "trial"] /\ call[c] = NoCall /\ Quiet
      BY <2>2 DEF AdmitFirstTrial, Enter
    <3>2. Cardinality(Trials') = 1
      <4>1. Cardinality(Trials) = 0
        BY <3>1, TrialsCount
      <4>2. Cardinality(Trials') = Cardinality(Trials) + 1
        BY <3>1, TrialsCount
      <4> QED BY <4>1, <4>2
    <3>3. \A d \in Calls : call'[d].as # "plain"
      BY <3>1 DEF Quiet, NoCall
    <3> QED BY <2>2, <3>2, <3>3 DEF AdmitFirstTrial
  <2>3. CASE AdmitTrial(c)
    <3>1. call' = [call EXCEPT ![c].as = "trial"] /\ call[c] = NoCall
      BY <2>3 DEF AdmitTrial, Enter
    <3>2. Cardinality(Trials') = Cardinality(Trials) + 1 /\ Cardinality(Trials) \in Nat
      BY <3>1, TrialsCount
    <3>3. \A d \in Calls : call'[d].as # "plain"
      BY <2>3, <3>1 DEF AdmitTrial
    <3> QED BY <2>3, <3>2, <3>3 DEF AdmitTrial
  <2> QED BY <1>1, <2>1, <2>2, <2>3 DEF Admit
<1>2. ASSUME NEW c \in Calls, Retry(c) PROVE ShortInv'
  <2>1. call[c] # NoCall /\ call' = [call EXCEPT ![c].retries = @ + 1]
    BY <1>2 DEF Retry
  <2>2. \A d \in Calls : call'[d].as = call[d].as
    BY <2>1
  <2>3. Trials' = Trials
    BY <2>2 DEF Trials
  <2>4. ~Quiet
    BY <2>1 DEF Quiet
  <2> QED BY <1>2, <2>2, <2>3, <2>4 DEF Retry
<1>3. ASSUME NEW c \in Calls, Return(c) PROVE ShortInv'
  <2>1. call' = [call EXCEPT ![c] = NoCall] /\ ~Quiet
    BY <1>3 DEF Return, Succeed, PlainSucceeds, TrialSucceeds, PlainFails, PlainRejected,
                TrialFails, TrialRejected, Leave, Quiet, NoCall
  <2>2. \A d \in Calls : call'[d].as \in {call[d].as, "none"}
    BY <2>1 DEF NoCall
  <2>3. CASE PlainSucceeds(c) \/ PlainRejected(c)
    <3>1. call[c].as = "plain" /\ UNCHANGED <<state, halfOpenCount, elapsed>>
      BY <2>3 DEF PlainSucceeds, PlainRejected, Leave
    <3> QED BY <2>1, <3>1
  <2>4. CASE PlainFails(c)
    <3>1. /\ call[c].as = "plain" /\ elapsed' = FALSE /\ halfOpenCount' = halfOpenCount
          /\ state' \in {state, "open"}
      BY <2>4 DEF PlainFails, Leave
    <3> QED BY <3>1 DEF ClosedIsClean
  <2>5. CASE TrialFails(c)
    BY <2>5 DEF TrialFails
  <2>6. CASE TrialSucceeds(c) \/ TrialRejected(c)
    <3>1. c \in Trials
      BY <2>6 DEF TrialSucceeds, TrialRejected, Leave, Trials
    <3>2. /\ Cardinality(Trials') = Cardinality(Trials) - 1 /\ Cardinality(Trials) > 0
          /\ Cardinality(Trials) \in Nat
      BY <2>1, <3>1, TrialsCount
    <3>3. /\ elapsed' = elapsed
          /\ \/ state' = "closed"
             \/ state' = state /\ halfOpenCount' = halfOpenCount
             \/ /\ state' = state
                /\ halfOpenCount' = IF state = "half-open" /\ halfOpenCount > 0
                                      THEN halfOpenCount - 1 ELSE halfOpenCount
      BY <2>6 DEF TrialSucceeds, TrialRejected
    <3>4. CASE state = "half-open"
      BY <2>2, <3>2, <3>3, <3>4
    <3>5. CASE state # "half-open"
      BY <2>1, <3>3, <3>5
    <3> QED BY <3>4, <3>5
  <2> QED BY <1>3, <2>3, <2>4, <2>5, <2>6 DEF Return, Succeed
<1>4. CASE TimeoutElapses \/ Backend
  BY <1>4 DEF TimeoutElapses, Backend, Trials, Quiet
<1>5. CASE UNCHANGED vars
  BY <1>5 DEF vars, Trials, Quiet
<1> QED BY <1>1, <1>2, <1>3, <1>4, <1>5 DEF Next

\* ShortInv holds throughout.
LEMMA ShortInvariant == Spec => []ShortInv
<1>1. Init => ShortInv
  BY DEF Init, ShortInv
<1> QED BY <1>1, ShortStep, BreakerTypeCorrect, ClosedStaysClean, PTL DEF Spec

\* As long as no call takes longer than Timeout, at most HalfOpenRequests
\* trials run at the same time (Execute's documented cap).
THEOREM CapHolds == Spec => []ShortTrialsCapped
<1>1. TypeOK /\ ShortInv => ShortTrialsCapped
  BY TrialsCount DEF TypeOK, ShortInv, ShortTrialsCapped, TrialsCapped
<1> QED BY <1>1, BreakerTypeCorrect, ShortInvariant, PTL

\* As long as no call takes longer than Timeout, a late success never closes an
\* open breaker directly (finishHalfOpen resets the slots when a trial fails).
THEOREM OpenHolds == Spec => OpensForTimeout
<1>1. TypeOK /\ ShortInv /\ [Next]_vars => [~mode.outlive /\ state = "open" => state' # "closed"]_vars
  <2> SUFFICES ASSUME TypeOK, ShortInv, Next, ~mode.outlive, state = "open"
               PROVE  state' # "closed"
    BY DEF vars
  <2>1. halfOpenCount = 0 /\ HalfOpenRequests > 0
    BY DEF ShortInv
  <2> QED BY <2>1 DEF Next, Admit, AdmitPlain, AdmitFirstTrial, AdmitTrial, Retry, Return,
             Succeed, PlainSucceeds, TrialSucceeds, PlainFails, PlainRejected, TrialFails,
             TrialRejected, TimeoutElapses, Backend
<1> QED BY <1>1, BreakerTypeCorrect, ShortInvariant, PTL DEF Spec, OpensForTimeout

USE RekeyAssumption, AbsentAssumption

-----------------------------------------------------------------------------
(* Rekey: types, and what a step does to the rows and to the runs.         *)

\* The rows a plan lists are the sealed rows of its target, as they are.
LEMMA PlannedRows ==
  ASSUME RekeyTypeOK, NEW t
  PROVE  /\ Planned(t) \subseteq Updates
         /\ \A u \in Planned(t) : Target[u.row] = t
         /\ \A r \in Rows :
              Target[r] = t /\ row[r] # Absent /\ row[r].key = "old" =>
                \E u \in Planned(t) : u.row = r
<1>1. ASSUME NEW r \in Rows, row[r] # Absent PROVE row[r] \in Sealed
  BY <1>1 DEF RekeyTypeOK
<1>2. Planned(t) \subseteq Updates /\ \A u \in Planned(t) : Target[u.row] = t
  BY <1>1 DEF Planned, Present, Updates
<1>3. ASSUME NEW r \in Rows, Target[r] = t, row[r] # Absent, row[r].key = "old"
      PROVE  \E u \in Planned(t) : u.row = r
  <2>1. Classify(row[r]) = "reencrypt"
    BY <1>3 DEF Classify
  <2>2. [row |-> r, old |-> row[r]] \in Planned(t)
    BY <1>3, <2>1 DEF Planned, Present
  <2> QED BY <2>2
<1> QED BY <1>2, <1>3

\* A batch is part of what is pending.
LEMMA BatchPart ==
  ASSUME NEW pending, NEW b \in Batches(pending)
  PROVE  b \subseteq pending
BY DEF Batches

\* A batch that was found unchanged leaves its rows with the new key and their
\* plaintext, and the other rows as they are.
LEMMA ResealedRow ==
  ASSUME RekeyTypeOK, NEW b \in SUBSET Updates, \A u \in b : Unchanged(u),
         NEW r \in Rows
  PROVE  /\ (\E u \in b : u.row = r) =>
              /\ row[r] \in Sealed
              /\ Resealed(b)[r] = [key |-> "new", plain |-> row[r].plain]
         /\ ~(\E u \in b : u.row = r) => Resealed(b)[r] = row[r]
<1>1. CASE \E u \in b : u.row = r
  <2> DEFINE v == CHOOSE u \in b : u.row = r
  <2>1. v \in b /\ v.row = r
    BY <1>1
  <2> HIDE DEF v
  <2>2. row[r] = v.old /\ v.old \in Sealed
    BY <2>1 DEF Unchanged, Updates
  <2>3. Resealed(b)[r] = [key |-> "new", plain |-> v.old.plain]
    BY <1>1 DEF Resealed, v
  <2> QED BY <1>1, <2>2, <2>3
<1>2. CASE ~\E u \in b : u.row = r
  BY <1>2 DEF Resealed
<1> QED BY <1>1, <1>2

\* The rows of a batch keep their type.
LEMMA ResealedType ==
  ASSUME RekeyTypeOK, NEW b \in SUBSET Updates, \A u \in b : Unchanged(u)
  PROVE  Resealed(b) \in [Rows -> Sealed \cup {Absent}]
<1>1. ASSUME NEW r \in Rows PROVE Resealed(b)[r] \in Sealed \cup {Absent}
  <2>1. CASE \E u \in b : u.row = r
    <3>1. row[r].plain \in Nat
      BY <2>1, ResealedRow DEF Sealed
    <3>2. Resealed(b)[r] = [key |-> "new", plain |-> row[r].plain]
      BY <2>1, ResealedRow
    <3> QED BY <3>1, <3>2 DEF Sealed, Keys
  <2>2. CASE ~\E u \in b : u.row = r
    BY <2>2, ResealedRow DEF RekeyTypeOK
  <2> QED BY <2>1, <2>2
<1> QED BY <1>1 DEF Resealed

\* A run that goes on or fails keeps the type of the runs.
LEMMA RunType ==
  ASSUME RekeyTypeOK, NEW n \in Runs, NEW pending \in SUBSET Updates,
         FailRun(n) \/ Continue(n, pending)
  PROVE  /\ run' \in [Runs -> RunStates]
         /\ \A m \in Runs \ {n} : run'[m] = run[m]
<1>0. run[n] \in RunStates /\ run[n].target \in 1..LastTarget
  BY DEF RekeyTypeOK, RunStates
<1>1. CASE FailRun(n)
  BY <1>0, <1>1 DEF FailRun, RekeyTypeOK, RunStates
<1>2. CASE Continue(n, pending)
  <2>1. CASE pending # {}
    BY <1>0, <1>2, <2>1 DEF Continue, RekeyTypeOK, RunStates
  <2>2. CASE pending = {} /\ IsLast(run[n].target)
    BY <1>0, <1>2, <2>2 DEF Continue, RekeyTypeOK, RunStates
  <2>3. CASE pending = {} /\ ~IsLast(run[n].target)
    <3>1. run[n].target + 1 \in 1..LastTarget
      BY <1>0, <2>3 DEF IsLast
    <3> QED BY <1>0, <1>2, <2>3, <3>1 DEF Continue, RekeyTypeOK, RunStates
  <2> QED BY <2>1, <2>2, <2>3
<1> QED BY <1>1, <1>2

\* Every step keeps the types.
LEMMA RekeyTypeStep == RekeyTypeOK /\ [RekeyNext]_rekeyVars => RekeyTypeOK'
<1> SUFFICES ASSUME RekeyTypeOK, [RekeyNext]_rekeyVars PROVE RekeyTypeOK'
  OBVIOUS
<1>1. CASE UNCHANGED rekeyVars \/ StopServer
  BY <1>1 DEF rekeyVars, StopServer, RekeyTypeOK
<1>8. CASE StartServer
  <2>1. quiet' \in [Runs -> BOOLEAN]
    BY <1>8 DEF StartServer
  <2> QED BY <1>8, <2>1 DEF StartServer, RekeyTypeOK
<1>2. ASSUME NEW n \in Runs, BeginRun(n) PROVE RekeyTypeOK'
  <2>1. PICK dry \in BOOLEAN :
          run' = [run EXCEPT ![n].at = "plan", ![n].dry = dry]
    BY <1>2 DEF BeginRun
  <2>2. run[n] \in RunStates
    BY DEF RekeyTypeOK
  <2>3. run' \in [Runs -> RunStates]
    BY <2>1, <2>2 DEF RekeyTypeOK, RunStates
  <2>4. quiet' \in [Runs -> BOOLEAN]
    BY <1>2 DEF BeginRun, RekeyTypeOK
  <2> QED BY <1>2, <2>3, <2>4 DEF BeginRun, RekeyTypeOK
<1>3. ASSUME NEW n \in Runs, Plan(n) PROVE RekeyTypeOK'
  <2>1. run' \in [Runs -> RunStates]
    <3> DEFINE pending == IF run[n].dry THEN {} ELSE Planned(run[n].target)
    <3>1. FailRun(n) \/ Continue(n, pending)
      BY <1>3 DEF Plan
    <3>2. pending \in SUBSET Updates
      BY PlannedRows
    <3> QED BY <3>1, <3>2, RunType
  <2> QED BY <1>3, <2>1 DEF Plan, RekeyTypeOK
<1>4. ASSUME NEW n \in Runs, Apply(n) PROVE RekeyTypeOK'
  <2>1. PICK b \in Batches(run[n].pending) :
          IF \A u \in b : Unchanged(u)
            THEN row' = Resealed(b) /\ Continue(n, run[n].pending \ b)
            ELSE UNCHANGED row /\ FailRun(n)
    BY <1>4 DEF Apply
  <2>2. b \in SUBSET Updates /\ run[n].pending \ b \in SUBSET Updates
    BY BatchPart DEF RekeyTypeOK, RunStates
  <2>3. row' \in [Rows -> Sealed \cup {Absent}]
    BY <2>1, <2>2, ResealedType DEF RekeyTypeOK
  <2>4. run' \in [Runs -> RunStates]
    BY <2>1, <2>2, RunType
  <2> QED BY <1>4, <2>3, <2>4 DEF Apply, RekeyTypeOK
<1>5. ASSUME NEW n \in Runs, Interrupt(n) PROVE RekeyTypeOK'
  <2>1. row' \in [Rows -> Sealed \cup {Absent}]
    <3>1. CASE UNCHANGED row
      BY <3>1 DEF RekeyTypeOK
    <3>2. CASE \E b \in Batches(run[n].pending) :
                 (\A u \in b : Unchanged(u)) /\ row' = Resealed(b)
      <4>1. PICK b \in Batches(run[n].pending) :
              (\A u \in b : Unchanged(u)) /\ row' = Resealed(b)
        BY <3>2
      <4>2. b \in SUBSET Updates
        BY BatchPart DEF RekeyTypeOK, RunStates
      <4> QED BY <4>1, <4>2, ResealedType
    <3> QED BY <1>5, <3>1, <3>2 DEF Interrupt
  <2>2. run' \in [Runs -> RunStates]
    BY <1>5, RunType DEF Interrupt
  <2> QED BY <1>5, <2>1, <2>2 DEF Interrupt, RekeyTypeOK
<1>6. ASSUME NEW r \in Rows, Put(r) PROVE RekeyTypeOK'
  <2>1. writes' \in Nat
    BY <1>6 DEF Put, RekeyTypeOK
  <2>2. row' \in [Rows -> Sealed \cup {Absent}]
    BY <1>6, <2>1 DEF Put, RekeyTypeOK, Sealed, Keys
  <2> QED BY <1>6, <2>1, <2>2 DEF Put, RekeyTypeOK
<1>7. ASSUME NEW r \in Rows, Delete(r) PROVE RekeyTypeOK'
  BY <1>7 DEF Delete, RekeyTypeOK
<1> QED BY <1>1, <1>2, <1>3, <1>4, <1>5, <1>6, <1>7, <1>8
        DEF RekeyNext, Rotate

\* The initial state has the types.
LEMMA RekeyTypeInit == RekeyInit => RekeyTypeOK
BY DEF RekeyInit, RekeyTypeOK, RunStates, Sealed, Keys

\* Every variable keeps its type.
THEOREM RekeyTypeCorrect == RekeySpec => []RekeyTypeOK
BY RekeyTypeInit, RekeyTypeStep, PTL DEF RekeySpec

\* What a run writes: the rows of one batch, found as they were planned.
LEMMA RunWrites ==
  ASSUME RekeyTypeOK, NEW n \in Runs, Apply(n) \/ Interrupt(n)
  PROVE  \/ row' = row
         \/ /\ run[n].at = "apply"
            /\ \E b \in Batches(run[n].pending) :
                 /\ b \in SUBSET Updates
                 /\ \A u \in b : Unchanged(u)
                 /\ row' = Resealed(b)
<1>1. \A b \in Batches(run[n].pending) : b \in SUBSET Updates
  BY BatchPart DEF RekeyTypeOK, RunStates
<1> QED BY <1>1 DEF Apply, Interrupt

\* A step leaves a row, seals it with the new key, or is the server's.
LEMMA RowMoves ==
  ASSUME RekeyTypeOK, RekeyNext, NEW r \in Rows
  PROVE  \/ row'[r] = row[r]
         \/ row'[r] = Absent
         \/ /\ row'[r].key = "new" /\ row[r] \in Sealed
            /\ row'[r].plain = row[r].plain
         \/ writes' # writes /\ row'[r].key \in {server, "external"} \ {"down"}
<1>1. ASSUME NEW n \in Runs, Apply(n) \/ Interrupt(n)
      PROVE  \/ row'[r] = row[r]
             \/ /\ row'[r].key = "new" /\ row[r] \in Sealed
                /\ row'[r].plain = row[r].plain
  <2>1. CASE row' = row
    BY <2>1
  <2>2. CASE \E b \in Batches(run[n].pending) :
               /\ b \in SUBSET Updates
               /\ \A u \in b : Unchanged(u)
               /\ row' = Resealed(b)
    <3>1. PICK b \in SUBSET Updates :
            (\A u \in b : Unchanged(u)) /\ row' = Resealed(b)
      BY <2>2
    <3>2. CASE \E u \in b : u.row = r
      <4>1. row[r] \in Sealed
            /\ row'[r] = [key |-> "new", plain |-> row[r].plain]
        BY <3>1, <3>2, ResealedRow
      <4> QED BY <4>1
    <3>3. CASE ~\E u \in b : u.row = r
      BY <3>1, <3>3, ResealedRow
    <3> QED BY <3>2, <3>3
  <2> QED BY <1>1, <2>1, <2>2, RunWrites
<1>2. ASSUME NEW n \in Runs, BeginRun(n) \/ Plan(n)
      PROVE  row' = row
  BY <1>2 DEF BeginRun, Plan
<1>3. ASSUME NEW q \in Rows, Put(q)
      PROVE  \/ row'[r] = row[r]
             \/ writes' # writes /\ row'[r].key \in {server, "external"} \ {"down"}
  BY <1>3 DEF Put, RekeyTypeOK
<1>4. ASSUME NEW q \in Rows, Delete(q)
      PROVE  row'[r] \in {row[r], Absent}
  BY <1>4 DEF Delete, RekeyTypeOK
<1> QED BY <1>1, <1>2, <1>3, <1>4 DEF RekeyNext, Rotate, StopServer, StartServer

-----------------------------------------------------------------------------
(* The rows that are left to seal again.                                   *)

Left(r) == row[r] # Absent /\ row[r].key \in {"old", "third"}

\* A run that applies a plan found no row in its target that opens with
\* neither key.
Vetted(n) ==
  run[n].at = "apply" =>
    /\ \A u \in run[n].pending : Target[u.row] = run[n].target
    /\ \A r \in Rows : Target[r] = run[n].target /\ row[r] # Absent =>
                       row[r].key # "third"

\* While no server held the old key, what is left to a run lies in targets it
\* has not come to, or is pending.
Swept(n) ==
  quiet[n] /\ ~run[n].dry /\ run[n].at \in {"plan", "apply", "done"} =>
    /\ server # "old"
    /\ \A r \in Rows : Left(r) =>
         /\ run[n].at # "done"
         /\ Target[r] >= run[n].target
         /\ run[n].at = "apply" /\ Target[r] = run[n].target =>
              \E u \in run[n].pending : u.row = r

Waiting(n) == run[n].at = "idle" => run[n].target = 1

RunInv == \A n \in Runs : Vetted(n) /\ Swept(n) /\ Waiting(n)

\* No step makes a row that opens with neither key, and only a server with
\* the old key makes one that is left.
LEMMA LeftMoves ==
  ASSUME RekeyTypeOK, RekeyNext, NEW r \in Rows, row'[r] # Absent
  PROVE  /\ row'[r].key = "third" => row[r] # Absent /\ row[r].key = "third"
         /\ Left(r)' => Left(r) \/ server = "old"
<1>1. CASE row'[r] = row[r]
  BY <1>1 DEF Left
<1>2. CASE row'[r].key = "new"
  BY <1>2 DEF Left
<1>3. CASE row'[r].key \in {server, "external"} \ {"down"}
  BY <1>3 DEF Left, RekeyTypeOK
<1> QED BY <1>1, <1>2, <1>3, RowMoves

\* A run that goes on keeps its invariant.
LEMMA ContinueInv ==
  ASSUME RekeyTypeOK, RekeyTypeOK', NEW n \in Runs, NEW pending \in SUBSET Updates,
         Continue(n, pending),
         \A u \in pending : Target[u.row] = run[n].target,
         \A r \in Rows : Target[r] = run[n].target /\ row'[r] # Absent =>
                         row'[r].key # "third",
         quiet'[n] /\ ~run[n].dry =>
           /\ server' # "old"
           /\ \A r \in Rows : Left(r)' =>
                /\ Target[r] >= run[n].target
                /\ Target[r] = run[n].target =>
                     \E u \in pending : u.row = r
  PROVE  Vetted(n)' /\ Swept(n)' /\ Waiting(n)'
<1>0. /\ run[n] \in RunStates /\ run[n].target \in 1..LastTarget
      /\ \A r \in Rows : Target[r] \in 1..LastTarget
  BY DEF RekeyTypeOK, RunStates
<1>1. CASE pending # {}
  <2>1. /\ run'[n].at = "apply" /\ run'[n].pending = pending
        /\ run'[n].target = run[n].target /\ run'[n].dry = run[n].dry
    BY <1>0, <1>1 DEF Continue, RekeyTypeOK, RunStates
  <2> QED BY <2>1 DEF Vetted, Swept, Waiting
<1>2. CASE pending = {} /\ IsLast(run[n].target)
  <2>1. /\ run'[n].at = "done"
        /\ run'[n].target = run[n].target /\ run'[n].dry = run[n].dry
    BY <1>0, <1>2 DEF Continue, RekeyTypeOK, RunStates
  <2>2. quiet'[n] /\ ~run[n].dry => \A r \in Rows : ~Left(r)'
    BY <1>0, <1>2 DEF IsLast
  <2> QED BY <2>1, <2>2 DEF Vetted, Swept, Waiting
<1>3. CASE pending = {} /\ ~IsLast(run[n].target)
  <2>1. /\ run'[n].at = "plan"
        /\ run'[n].target = run[n].target + 1 /\ run'[n].dry = run[n].dry
    BY <1>0, <1>3 DEF Continue, RekeyTypeOK, RunStates
  <2>2. quiet'[n] /\ ~run[n].dry =>
          \A r \in Rows : Left(r)' => Target[r] >= run[n].target + 1
    BY <1>0, <1>3
  <2> QED BY <2>1, <2>2 DEF Vetted, Swept, Waiting
<1> QED BY <1>1, <1>2, <1>3

\* A run that fails has nothing left to say.
LEMMA FailInv ==
  ASSUME RekeyTypeOK, NEW n \in Runs, FailRun(n)
  PROVE  Vetted(n)' /\ Swept(n)' /\ Waiting(n)'
<1>1. run'[n].at = "failed"
  BY DEF FailRun, RekeyTypeOK, RunStates
<1> QED BY <1>1 DEF Vetted, Swept, Waiting

\* The steps that others make keep the invariant of a run.
LEMMA OthersInv ==
  ASSUME RekeyTypeOK, RunInv, RekeyNext, NEW m \in Runs, run'[m] = run[m],
         quiet'[m] => quiet[m] /\ (server = "old" \/ server' # "old")
  PROVE  Vetted(m)' /\ Swept(m)' /\ Waiting(m)'
<1>1. Vetted(m)'
  BY LeftMoves DEF RunInv, Vetted
<1>2. Swept(m)'
  <2> SUFFICES ASSUME quiet'[m], ~run[m].dry,
                      run[m].at \in {"plan", "apply", "done"}
               PROVE  /\ server' # "old"
                      /\ \A r \in Rows : Left(r)' => Left(r)
    BY DEF RunInv, Swept
  <2>1. quiet[m] /\ server # "old" /\ server' # "old"
    BY DEF RunInv, Swept
  <2>2. \A r \in Rows : Left(r)' => row'[r] # Absent
    BY DEF Left
  <2> QED BY <2>1, <2>2, LeftMoves
<1> QED BY <1>1, <1>2 DEF RunInv, Waiting

\* Every step keeps the invariant.
LEMMA RunStep == RekeyTypeOK /\ RunInv /\ [RekeyNext]_rekeyVars => RunInv'
<1> SUFFICES ASSUME RekeyTypeOK, RunInv, [RekeyNext]_rekeyVars PROVE RunInv'
  OBVIOUS
<1>0. RekeyTypeOK'
  BY RekeyTypeStep
<1>1. CASE UNCHANGED rekeyVars
  BY <1>1 DEF rekeyVars, RunInv, Vetted, Swept, Waiting, Left
<1>2. CASE StopServer \/ \E r \in Rows : Put(r) \/ Delete(r)
  <2>1. RekeyNext /\ run' = run /\ quiet' = quiet /\ server' \in {server, "down"}
    BY <1>2 DEF RekeyNext, StopServer, Put, Delete
  <2> QED BY <2>1, OthersInv DEF RunInv
<1>3. CASE StartServer
  <2>1. RekeyNext /\ run' = run
    BY <1>3 DEF RekeyNext, StartServer
  <2>2. \A m \in Runs : quiet'[m] => quiet[m] /\ server' # "old"
    BY <1>3 DEF StartServer
  <2> QED BY <2>1, <2>2, OthersInv DEF RunInv
<1>4. ASSUME NEW n \in Runs, Rotate(n), NEW m \in Runs
      PROVE  Vetted(m)' /\ Swept(m)' /\ Waiting(m)'
  <2>0. /\ RekeyNext /\ server' = server
        /\ run[n] \in RunStates /\ run[n].pending \in SUBSET Updates
    BY <1>4 DEF RekeyNext, Rotate, BeginRun, Plan, Apply, Interrupt, RekeyTypeOK, RunStates
  <2>1. CASE BeginRun(n)
    <3>1. PICK dry \in BOOLEAN :
            run' = [run EXCEPT ![n].at = "plan", ![n].dry = dry]
      BY <2>1 DEF BeginRun
    <3>2. /\ run'[n].at = "plan" /\ run'[n].target = run[n].target
          /\ \A k \in Runs \ {n} : run'[k] = run[k] /\ quiet'[k] = quiet[k]
          /\ quiet'[n] = (server # "old")
      BY <2>0, <2>1, <3>1 DEF BeginRun, RekeyTypeOK, RunStates
    <3>3. run[n].target = 1 /\ \A r \in Rows : Target[r] >= 1
      BY <2>1 DEF BeginRun, RunInv, Waiting
    <3>4. Vetted(n)' /\ Swept(n)' /\ Waiting(n)'
      BY <2>0, <3>2, <3>3 DEF Vetted, Swept, Waiting
    <3>5. CASE m # n
      BY <2>0, <3>2, <3>5, OthersInv
    <3> QED BY <3>4, <3>5
  <2>2. CASE Plan(n)
    <3>1. row' = row /\ quiet' = quiet
      BY <2>2 DEF Plan
    <3>2. CASE FailRun(n)
      <4>1. CASE m # n
        BY <2>0, <3>1, <3>2, <4>1, RunType, OthersInv
      <4> QED BY <3>2, <4>1, FailInv
    <3>3. CASE ~FailRun(n)
      <4> DEFINE t == run[n].target
                 pending == IF run[n].dry THEN {} ELSE Planned(t)
      <4>1. /\ \A r \in Present(t) : Classify(row[r]) # "invalid"
            /\ Continue(n, pending)
        BY <2>2, <3>3 DEF Plan
      <4>2. pending \in SUBSET Updates /\ \A u \in pending : Target[u.row] = t
        BY PlannedRows
      <4>3. \A r \in Rows : Target[r] = t /\ row[r] # Absent => row[r].key # "third"
        BY <4>1 DEF Present, Classify
      <4>4. quiet[n] /\ ~run[n].dry =>
              /\ server # "old"
              /\ \A r \in Rows : Left(r) =>
                   /\ Target[r] >= t
                   /\ Target[r] = t => \E u \in pending : u.row = r
        <5>1. \A r \in Rows : Left(r) /\ Target[r] = t =>
                row[r] # Absent /\ row[r].key = "old"
          BY <4>3 DEF Left
        <5>2. run[n].at = "plan"
          BY <2>2 DEF Plan
        <5> QED BY <5>1, <5>2, PlannedRows DEF RunInv, Swept
      <4> HIDE DEF pending
      <4>5. CASE m # n
        BY <2>0, <3>1, <4>1, <4>2, <4>5, RunType, OthersInv
      <4>6. \A r \in Rows : Left(r)' <=> Left(r)
        BY <3>1 DEF Left
      <4>7. Vetted(n)' /\ Swept(n)' /\ Waiting(n)'
        BY <1>0, <2>0, <3>1, <4>1, <4>2, <4>3, <4>4, <4>6, ContinueInv
      <4> QED BY <4>5, <4>7
    <3> QED BY <3>2, <3>3
  <2>3. CASE Apply(n)
    <3>1. PICK b \in Batches(run[n].pending) :
            IF \A u \in b : Unchanged(u)
              THEN row' = Resealed(b) /\ Continue(n, run[n].pending \ b)
              ELSE UNCHANGED row /\ FailRun(n)
      BY <2>3 DEF Apply
    <3>2. b \subseteq run[n].pending /\ quiet' = quiet /\ run[n].at = "apply"
      BY <2>3, BatchPart DEF Apply
    <3>3. CASE FailRun(n)
      <4>1. CASE m # n
        BY <2>0, <3>2, <3>3, <4>1, RunType, OthersInv
      <4> QED BY <3>3, <4>1, FailInv
    <3>4. CASE ~FailRun(n)
      <4> DEFINE t == run[n].target
                 pending == run[n].pending \ b
      <4>1. /\ \A u \in b : Unchanged(u)
            /\ row' = Resealed(b) /\ Continue(n, pending)
        BY <3>1, <3>4
      <4>2. pending \in SUBSET Updates /\ \A u \in pending : Target[u.row] = t
        BY <2>0, <3>2 DEF RunInv, Vetted
      <4>3. \A r \in Rows : Target[r] = t /\ row'[r] # Absent =>
                            row'[r].key # "third"
        BY <2>0, <3>2, LeftMoves DEF RunInv, Vetted
      <4>4. quiet[n] /\ ~run[n].dry =>
              /\ server # "old"
              /\ \A r \in Rows : Left(r)' =>
                   /\ Target[r] >= t
                   /\ Target[r] = t => \E u \in pending : u.row = r
        <5> SUFFICES ASSUME quiet[n], ~run[n].dry
                     PROVE  /\ server # "old"
                            /\ \A r \in Rows : Left(r)' =>
                                 /\ Target[r] >= t
                                 /\ Target[r] = t =>
                                      \E u \in pending : u.row = r
          OBVIOUS
        <5>1. server # "old"
          BY <3>2 DEF RunInv, Swept
        <5>2. ASSUME NEW r \in Rows, Left(r)'
              PROVE  /\ Target[r] >= t
                     /\ Target[r] = t => \E u \in pending : u.row = r
          <6>1. row'[r] # Absent /\ Left(r)
            BY <2>0, <5>1, <5>2, LeftMoves DEF Left
          <6>2. ~\E u \in b : u.row = r
            <7>1. ASSUME \E u \in b : u.row = r
                  PROVE  row'[r] = [key |-> "new", plain |-> row[r].plain]
              <8>1. b \in SUBSET Updates
                BY <2>0, <3>2
              <8> QED BY <4>1, <7>1, <8>1, ResealedRow
            <7> QED BY <5>2, <7>1 DEF Left
          <6>3. /\ Target[r] >= t
                /\ Target[r] = t => \E u \in run[n].pending : u.row = r
            BY <3>2, <6>1 DEF RunInv, Swept
          <6> QED BY <6>2, <6>3
        <5> QED BY <5>1, <5>2
      <4> HIDE DEF pending
      <4>5. CASE m # n
        BY <2>0, <3>2, <4>1, <4>2, <4>5, RunType, OthersInv
      <4>6. Vetted(n)' /\ Swept(n)' /\ Waiting(n)'
        BY <1>0, <2>0, <3>2, <4>1, <4>2, <4>3, <4>4, ContinueInv
      <4> QED BY <4>5, <4>6
    <3> QED BY <3>3, <3>4
  <2>4. CASE Interrupt(n)
    <3>1. FailRun(n) /\ quiet' = quiet
      BY <2>4 DEF Interrupt
    <3>2. CASE m # n
      BY <2>0, <3>1, <3>2, RunType, OthersInv
    <3> QED BY <3>1, <3>2, FailInv
  <2> QED BY <1>4, <2>1, <2>2, <2>3, <2>4 DEF Rotate
<1> QED BY <1>1, <1>2, <1>3, <1>4 DEF RekeyNext, RunInv

\* No run has begun at the start.
LEMMA RunInit == RekeyInit => RunInv
BY DEF RekeyInit, RunInv, Vetted, Swept, Waiting

\* A rotation that ends with success while no server held the old key leaves
\* nothing sealed with it (Run).
THEOREM AllSealedNew == RekeySpec => []AllNew
<1>1. RekeyTypeOK /\ RunInv => AllNew
  <2> SUFFICES ASSUME RekeyTypeOK, RunInv, NEW n \in Runs, run[n].at = "done",
                      ~run[n].dry, quiet[n], NEW r \in Rows, row[r] # Absent
               PROVE  row[r].key \in {"new", "external"}
    BY DEF AllNew
  <2>1. ~Left(r)
    BY DEF RunInv, Swept
  <2> QED BY <2>1 DEF Left, RekeyTypeOK, Sealed, Keys
<1> QED BY <1>1, RekeyTypeInit, RekeyTypeStep, RunInit, RunStep, PTL DEF RekeySpec

-----------------------------------------------------------------------------
(* What a rotation does to the rows.                                       *)

\* A rotation writes rows of its target only, which holds no third key.
LEMMA RefusedStep ==
  ASSUME RekeyTypeOK, RunInv, RekeyNext, NEW t \in 1..LastTarget,
         \E r \in Present(t) : row[r].key = "third", writes' = writes,
         NEW q \in Rows, Target[q] = t
  PROVE  row'[q] = row[q]
<1>1. ASSUME NEW n \in Runs, Apply(n) \/ Interrupt(n) PROVE row'[q] = row[q]
  <2>1. CASE row' = row
    BY <2>1
  <2>2. CASE /\ run[n].at = "apply"
             /\ \E b \in Batches(run[n].pending) :
                  /\ b \in SUBSET Updates
                  /\ \A u \in b : Unchanged(u)
                  /\ row' = Resealed(b)
    <3>1. PICK b \in Batches(run[n].pending) :
            /\ b \in SUBSET Updates
            /\ \A u \in b : Unchanged(u)
            /\ row' = Resealed(b)
      BY <2>2
    <3>2. b \subseteq run[n].pending
      BY BatchPart
    <3>3. run[n].target # t
      BY <2>2 DEF RunInv, Vetted, Present
    <3>4. ~\E u \in b : u.row = q
      BY <2>2, <3>2, <3>3 DEF RunInv, Vetted
    <3> QED BY <3>1, <3>4, ResealedRow
  <2> QED BY <1>1, <2>1, <2>2, RunWrites
<1>2. ASSUME NEW r \in Rows, Put(r) \/ Delete(r) PROVE FALSE
  BY <1>2 DEF Put, Delete, RekeyTypeOK
<1> QED BY <1>1, <1>2 DEF RekeyNext, Rotate, BeginRun, Plan, StopServer, StartServer

\* A target with a row that opens with neither key is not written in part
\* (planTarget).
THEOREM RefusesWhole == RekeySpec => RefusedWhole
<1>1. RekeyInit => RekeyTypeOK /\ RunInv
  BY RekeyTypeInit, RunInit
<1>2. RekeyTypeOK /\ RunInv /\ [RekeyNext]_rekeyVars => (RekeyTypeOK /\ RunInv)'
  BY RekeyTypeStep, RunStep
<1>3. RekeyTypeOK /\ RunInv /\ [RekeyNext]_rekeyVars =>
        [\A t \in 1..LastTarget :
           (\E r \in Present(t) : row[r].key = "third") /\ writes' = writes =>
             \A r \in Rows : Target[r] = t => row'[r] = row[r]]_rekeyVars
  BY RefusedStep
<1> QED BY <1>1, <1>2, <1>3, PTL DEF RekeySpec, RefusedWhole

\* The value of a row: the write it holds.
Value == [r \in Rows |-> IF row[r] = Absent THEN Absent ELSE row[r].plain]

\* A rotation keeps every value, and a step of the server is one of the store.
LEMMA StoreStep ==
  ASSUME RekeyTypeOK, [RekeyNext]_rekeyVars
  PROVE  [Store!Next]_<<Value, writes>>
<1>1. CASE UNCHANGED rekeyVars
  BY <1>1 DEF rekeyVars, Value
<1>2. ASSUME NEW n \in Runs, Apply(n) \/ Interrupt(n)
      PROVE  Value' = Value /\ writes' = writes
  <2>1. ASSUME NEW r \in Rows
        PROVE  (IF row'[r] = Absent THEN Absent ELSE row'[r].plain)
                 = (IF row[r] = Absent THEN Absent ELSE row[r].plain)
    <3>1. CASE row' = row
      BY <3>1
    <3>2. CASE \E b \in Batches(run[n].pending) :
                 /\ b \in SUBSET Updates
                 /\ \A u \in b : Unchanged(u)
                 /\ row' = Resealed(b)
      <4>1. PICK b \in SUBSET Updates :
              (\A u \in b : Unchanged(u)) /\ row' = Resealed(b)
        BY <3>2
      <4>2. CASE \E u \in b : u.row = r
        <5>1. /\ row[r] \in Sealed
              /\ row'[r] = [key |-> "new", plain |-> row[r].plain]
          BY <4>1, <4>2, ResealedRow
        <5>2. row'[r] \in Sealed /\ row'[r].plain = row[r].plain
          BY <5>1 DEF Sealed, Keys
        <5>3. row[r] # Absent /\ row'[r] # Absent
          BY <5>1, <5>2
        <5> QED BY <5>2, <5>3
      <4>3. CASE ~\E u \in b : u.row = r
        BY <4>1, <4>3, ResealedRow
      <4> QED BY <4>2, <4>3
    <3> QED BY <1>2, <3>1, <3>2, RunWrites
  <2>2. Value' = Value
    BY <2>1 DEF Value
  <2> QED BY <1>2, <2>2 DEF Apply, Interrupt
<1>3. ASSUME NEW r \in Rows, Put(r) PROVE Store!Put(r)
  <2>1. PICK k \in {server, "external"} :
          row' = [row EXCEPT ![r] = [key |-> k, plain |-> writes']]
    BY <1>3 DEF Put
  <2>2. k \in Keys /\ writes' = writes + 1 /\ writes' \in Nat
    BY <1>3 DEF Put, RekeyTypeOK, Keys
  <2>3. [key |-> k, plain |-> writes'] \in Sealed
    BY <2>2 DEF Sealed
  <2>4. [key |-> k, plain |-> writes'] # Absent
    BY <2>3
  <2>5. Value' = [Value EXCEPT ![r] = writes']
    BY <2>1, <2>4 DEF Value, RekeyTypeOK
  <2> QED BY <2>2, <2>5 DEF Store!Put, Value
<1>4. ASSUME NEW r \in Rows, Delete(r) PROVE Store!Delete(r)
  <2>1. Value' = [Value EXCEPT ![r] = Absent]
    BY <1>4 DEF Delete, Value, RekeyTypeOK
  <2> QED BY <1>4, <2>1 DEF Store!Delete, Delete, Value
<1>5. CASE StopServer \/ StartServer \/ \E n \in Runs : BeginRun(n) \/ Plan(n)
  BY <1>5 DEF StopServer, StartServer, BeginRun, Plan, Value
<1> QED BY <1>1, <1>2, <1>3, <1>4, <1>5 DEF RekeyNext, Rotate, Store!Next

\* The rows the rotation starts on are rows of the store.
LEMMA StoreInit == RekeyInit => Store!Init
<1> SUFFICES ASSUME RekeyInit PROVE Store!Init
  OBVIOUS
<1>1. \A r \in Rows : row[r] # Absent => row[r].plain = 0
  BY DEF RekeyInit
<1> QED BY <1>1 DEF RekeyInit, Store!Init

\* The rotation is no part of what the columns promise: it changes no value,
\* loses no write and brings back no deleted row (applyBatch).
THEOREM StoreKept == RekeySpec => StoreSpec
<1>1. RekeyTypeOK /\ [RekeyNext]_rekeyVars => [Store!Next]_<<Value, writes>>
  BY StoreStep
<1> QED BY <1>1, StoreInit, RekeyTypeInit, RekeyTypeStep, PTL
        DEF RekeySpec, StoreSpec, Store!Spec, Value
=============================================================================
